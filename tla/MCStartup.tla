----------------------------- MODULE MCStartup -----------------------------
(* Startup on small deployments. *)
EXTENDS Startup

\* A configuration, from the flags that are on.
On(flags) == [f \in Flag |-> f \in flags]

AllConfigs == [Flag -> BOOLEAN]

\* One of each kind of boot: REST only, JWKS with MCP, API key with opt-in MCP,
\* and JWKS with an MCP server that is refused for want of OIDC.
TypicalConfigs == {
    On({"paths"}),
    On({"paths", "jwks", "oidc", "withMcp"}),
    On({"paths", "apiKey", "key", "anon", "withMcp"}),
    On({"paths", "jwks", "withMcp"})}

RestOnly == {On({"paths"})}
=============================================================================
