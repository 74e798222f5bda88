---------------------------- MODULE MCOauth2Gate ----------------------------
(* Oauth2Gate with an identity provider that rotates its keys and changes their
   algorithm, or does not answer. *)
EXTENDS Oauth2Gate

CONSTANTS k1, k2, ec

MCKey == {k1, k2, ec}
MCKeyAlg == [k \in MCKey |-> IF k = ec THEN "ES256" ELSE "RS256"]
MCUndeclared == {k2}

\* Two keys of one algorithm, of which only one says so; that one withdrawn, which
\* leaves no algorithm; and, while the algorithm changes, a key of each.
MCKeySets == {{k1, k2}, {k2}, {k1, ec}}

Plain(k, e) ==
    [key |-> k, exp |-> e, nbf |-> 0, aud |-> "ours", client |-> "none", iss |-> "ours"]

\* One that expires; one that is not valid yet and has its audience where Cognito
\* puts it; one that an other issuer signed.
MCTokens == {
    Plain(k1, 0),
    [Plain(k2, NoExp) EXCEPT !.aud = "none", !.client = "ours", !.nbf = 1],
    [Plain(k2, NoExp) EXCEPT !.iss = "other"]}

MCPolicies == {[aud |-> TRUE, iss |-> TRUE]}
MCProviderLists == {<<"jwks">>, <<"flow", "jwks">>}
=============================================================================
