--------------------------- MODULE MCResponseChain ---------------------------
(***************************************************************************)
(* Two requests, through each stack of middleware create_app can build:    *)
(* without authentication, with a gate that leaves the OpenAPI document    *)
(* public, or with OPA's, which does not, each behind a proxy or not.      *)
(***************************************************************************)
EXTENDS ResponseChain

MCStacks == {{}, {"links"}, {"security"}, {"links", "security"},
             {"security", "opa"}, {"links", "security", "opa"}}
=============================================================================
