----------------------------- MODULE Admission -----------------------------
(***************************************************************************)
(* What the OAuth2 gate promises, whatever its handlers do in between: a   *)
(* protected request reaches pygeoapi only with a token that is genuine at *)
(* that moment, by keys the identity provider published while the request  *)
(* was being served, and is turned away only for a reason.                 *)
(***************************************************************************)
EXTENDS JwtTokens

VARIABLES
    time,       \* wall clock, in ticks
    jwks,       \* what the JWKS endpoint would answer now
    policy,     \* the configured audience and issuer checks
    providers,  \* the configured providers
    kind,       \* what each request asks for
    cred,       \* the credential each request carries
    seen,       \* what the endpoint would have answered since a request came
    since,      \* when it came
    outcome     \* what has become of each request

vars == <<time, jwks, policy, providers, kind, cred, seen, since, outcome>>

Init ==
    /\ time = 0
    /\ jwks \in Answer
    /\ policy \in Policies
    /\ providers \in ProviderLists
    /\ kind = [r \in Request |-> "options"]
    /\ cred = [r \in Request |-> NoHeader]
    /\ seen = [r \in Request |-> {}]
    /\ since = [r \in Request |-> 0]
    /\ outcome = [r \in Request |-> "idle"]

\* The key set says, unambiguously, how to verify a signature by key k.
Verifiable(keys, k) == k \in keys /\ DeclaredAlgs(keys) = {KeyAlg[k]}

\* The claims are the ones the configuration asks for.
ClaimsFit(token) ==
    /\ policy.aud => AudienceOf(token) = "ours"
    /\ policy.iss => token.iss = "ours"

\* The credential of r is good now, by keys published while r was served.
Genuine(r) ==
    /\ cred[r] # NoHeader
    /\ \E keys \in seen[r] \ {Unavailable} : Verifiable(keys, cred[r].key)
    /\ ClaimsFit(cred[r])
    /\ ~Expired(cred[r], time) /\ ~NotYet(cred[r], time)

\* A token provider had a reason not to take the credential of r: it lacks
\* something, or the endpoint failed, or answered with keys that do not help, or
\* it was not valid at some time while r was served.
Deniable(r) ==
    \/ cred[r] = NoHeader
    \/ Unavailable \in seen[r]
    \/ \E keys \in seen[r] \ {Unavailable} : ~Verifiable(keys, cred[r].key)
    \/ ~ClaimsFit(cred[r])
    \/ Expired(cred[r], time) \/ NotYet(cred[r], since[r])

Conclude(r, result) ==
    /\ outcome[r] = "waiting"
    /\ outcome' = [outcome EXCEPT ![r] = result]
    /\ cred' = [cred EXCEPT ![r] = NoHeader]
    /\ seen' = [seen EXCEPT ![r] = {}]
    /\ since' = [since EXCEPT ![r] = 0]
    /\ UNCHANGED <<time, jwks, policy, providers, kind>>

\* A protected request is admitted when its token is genuine,
Admit(r) == Genuine(r) /\ Conclude(r, "app")

\* refused when there was a reason and nobody is left to send the caller to,
Deny(r) ==
    /\ Deniable(r)
    /\ providers[Len(providers)] = "jwks"
    /\ Conclude(r, "denied")

\* and redirected when the last provider asks for it.
Redirect(r) ==
    /\ providers[Len(providers)] = "flow"
    /\ Conclude(r, "redirected")

\* A request comes; preflights and public paths go straight through.
Arrive(r) ==
    /\ outcome[r] = "idle"
    /\ \E k \in Kind, c \in Credential :
          /\ kind' = [kind EXCEPT ![r] = k]
          /\ outcome' = [outcome EXCEPT ![r] = IF k = "api" THEN "waiting" ELSE "app"]
          /\ cred' = [cred EXCEPT ![r] = IF k = "api" THEN c ELSE NoHeader]
          /\ seen' = [seen EXCEPT ![r] = IF k = "api" THEN {jwks} ELSE {}]
          /\ since' = [since EXCEPT ![r] = IF k = "api" THEN time ELSE 0]
    /\ UNCHANGED <<time, jwks, policy, providers>>

\* The response is sent and the request is over.
Leave(r) ==
    /\ outcome[r] \in {"app", "denied", "redirected"}
    /\ outcome' = [outcome EXCEPT ![r] = "idle"]
    /\ kind' = [kind EXCEPT ![r] = "options"]
    /\ UNCHANGED <<time, jwks, policy, providers, cred, seen, since>>

\* The identity provider rotates its keys, goes away or comes back.
Rotate ==
    /\ jwks' \in Answer
    /\ seen' = [r \in Request |->
                   IF outcome[r] = "waiting" THEN seen[r] \cup {jwks'} ELSE seen[r]]
    /\ UNCHANGED <<time, policy, providers, kind, cred, since, outcome>>

Tick ==
    /\ time < MaxTime
    /\ time' = time + 1
    /\ UNCHANGED <<jwks, policy, providers, kind, cred, seen, since, outcome>>

Next ==
    \/ \E r \in Request :
          Arrive(r) \/ Admit(r) \/ Deny(r) \/ Redirect(r) \/ Leave(r)
    \/ Rotate
    \/ Tick

Spec == Init /\ [][Next]_vars
=============================================================================
