----------------------------- MODULE Oauth2Gate -----------------------------
(***************************************************************************)
(* Oauth2Middleware (src/app/middleware/oauth2.py) in front of pygeoapi,   *)
(* with the JWKSAuthentication provider (src/app/auth/auth_jwks.py), for   *)
(* the requests one event loop interleaves.                                *)
(*                                                                         *)
(* A handler gives up control only where it awaits: while the key set is   *)
(* fetched, between the moment the identity provider answers and the       *)
(* moment the handler resumes, and in the application behind the gate.     *)
(* Keys rotate and tokens expire meanwhile.  Nothing is shared between     *)
(* requests: get_jwks fetches the keys anew each time, its cache decorator *)
(* being commented out.                                                    *)
(***************************************************************************)
EXTENDS JwtTokens

VARIABLES
    time, jwks, policy, providers,   \* as in Admission
    kind, cred, seen, since,         \* as in Admission
    phase,     \* where the handler of each request is
    next,      \* the provider it tries next
    last,      \* the variable user_info_or_auth_redirect
    keys       \* the endpoint's answer while the handler has it, or Unavailable

envVars == <<time, jwks, policy, providers, kind, cred, seen, since>>
vars == <<envVars, phase, next, last, keys>>

Final == {"app", "denied", "redirected"}
Handling == {"trying", "fetching", "answered"}
Phase == {"idle"} \cup Handling \cup Final

Init ==
    /\ time = 0
    /\ jwks \in Answer
    /\ policy \in Policies
    /\ providers \in ProviderLists
    /\ kind = [r \in Request |-> "options"]
    /\ cred = [r \in Request |-> NoHeader]
    /\ seen = [r \in Request |-> {}]
    /\ since = [r \in Request |-> 0]
    /\ phase = [r \in Request |-> "idle"]
    /\ next = [r \in Request |-> 1]
    /\ last = [r \in Request |-> "unset"]
    /\ keys = [r \in Request |-> Unavailable]

Goto(r, p) == phase' = [phase EXCEPT ![r] = p]

\* The handler is done with the request: its credential no longer matters.
Settle(r, p) ==
    /\ Goto(r, p)
    /\ cred' = [cred EXCEPT ![r] = NoHeader]
    /\ seen' = [seen EXCEPT ![r] = {}]
    /\ since' = [since EXCEPT ![r] = 0]

-----------------------------------------------------------------------------
\* (Slip) an empty pattern among skip_endpoints matches every path.
NeedsNoAuthAnyPath(k) == k \in Kind

\* The early returns of __call__: a preflight, or should_skip_endpoint.
NeedsNoAuth(k) == k \in {"options", "public"}

\* __call__ with an HTTP request, up to the loop over the providers.
Receive(r) ==
    /\ phase[r] = "idle"
    /\ \E k \in Kind, c \in Credential :
          /\ kind' = [kind EXCEPT ![r] = k]
          /\ IF NeedsNoAuth(k)
             THEN Settle(r, "app")
             ELSE
               /\ Goto(r, "trying")
               /\ cred' = [cred EXCEPT ![r] = c]
               /\ seen' = [seen EXCEPT ![r] = {jwks}]
               /\ since' = [since EXCEPT ![r] = time]
    /\ UNCHANGED <<time, jwks, policy, providers, next, last, keys>>

\* (Slip) a provider that fails is tried again.
TryNextRetries(r, value) ==
    /\ Goto(r, "trying")
    /\ last' = [last EXCEPT ![r] = value]
    /\ UNCHANGED next

\* Provider next[r] did not give a dict: the loop goes on, with its value (or,
\* if it raised, the coroutine that was awaited) in the variable.
TryNext(r, value) ==
    /\ Goto(r, "trying")
    /\ next' = [next EXCEPT ![r] = @ + 1]
    /\ last' = [last EXCEPT ![r] = value]

Trying(r, provider) ==
    /\ phase[r] = "trying"
    /\ next[r] <= Len(providers)
    /\ providers[next[r]] = provider

\* authenticate() without a bearer raises before it awaits anything.
NoBearer(r) ==
    /\ Trying(r, "jwks")
    /\ cred[r] = NoHeader
    /\ TryNext(r, "coroutine")
    /\ UNCHANGED <<envVars, keys>>

\* authenticate() with a bearer starts get_jwks and awaits the endpoint.
Fetch(r) ==
    /\ Trying(r, "jwks")
    /\ cred[r] # NoHeader
    /\ Goto(r, "fetching")
    /\ last' = [last EXCEPT ![r] = "coroutine"]
    /\ UNCHANGED <<envVars, next, keys>>

\* A provider that sends the caller to an identity broker.
AskRedirect(r) ==
    /\ Trying(r, "flow")
    /\ TryNext(r, "redirect")
    /\ UNCHANGED <<envVars, keys>>

\* (Slip) a failed fetch yields an empty key set instead of raising.
EndpointAnswersEmpty(r) ==
    /\ phase[r] = "fetching"
    /\ keys' = [keys EXCEPT ![r] = IF jwks = Unavailable THEN {} ELSE jwks]
    /\ Goto(r, "answered")
    /\ UNCHANGED <<envVars, next, last>>

\* The endpoint answers, or fails within the client's timeout of 30 s; the
\* handler is scheduled but has not run yet.
EndpointAnswers(r) ==
    /\ phase[r] = "fetching"
    /\ keys' = [keys EXCEPT ![r] = jwks]
    /\ Goto(r, "answered")
    /\ UNCHANGED <<envVars, next, last>>

\* (Slip) the expiry is not checked.
VerdictNoExpiry(answer, token) ==
    IF answer = Unavailable THEN "unreachable"
    ELSE IF \E a, b \in DeclaredAlgs(answer) : a # b THEN "multiple algorithms"
    ELSE IF DeclaredAlgs(answer) = {} THEN "missing algorithm"
    ELSE IF token.key \notin answer \/ KeyAlg[token.key] \notin DeclaredAlgs(answer)
         THEN "bad signature"
    ELSE IF policy.aud /\ AudienceOf(token) = "none" THEN "missing audience"
    ELSE IF policy.aud /\ AudienceOf(token) # "ours" THEN "wrong audience"
    ELSE IF policy.iss /\ token.iss # "ours" THEN "wrong issuer"
    ELSE IF NotYet(token, time) THEN "not yet valid"
    ELSE "claims"

\* (Slip) the algorithms are not counted: any that is declared will do.
VerdictAnyAlg(answer, token) ==
    IF answer = Unavailable THEN "unreachable"
    ELSE IF token.key \notin answer \/ KeyAlg[token.key] \notin DeclaredAlgs(answer)
         THEN "bad signature"
    ELSE IF policy.aud /\ AudienceOf(token) # "ours" THEN "wrong audience"
    ELSE IF policy.iss /\ token.iss # "ours" THEN "wrong issuer"
    ELSE IF Expired(token, time) THEN "expired"
    ELSE IF NotYet(token, time) THEN "not yet valid"
    ELSE "claims"

\* decode_token from the answer on, in the order of its checks.  The token is
\* verified with the only algorithm the key set declares; authlib finds its key
\* in the set, and checks its times, against the clock of that moment, last.
Verdict(answer, token) ==
    IF answer = Unavailable THEN "unreachable"
    ELSE IF \E a, b \in DeclaredAlgs(answer) : a # b THEN "multiple algorithms"
    ELSE IF DeclaredAlgs(answer) = {} THEN "missing algorithm"
    ELSE IF token.key \notin answer \/ KeyAlg[token.key] \notin DeclaredAlgs(answer)
         THEN "bad signature"
    ELSE IF policy.aud /\ AudienceOf(token) = "none" THEN "missing audience"
    ELSE IF policy.aud /\ AudienceOf(token) # "ours" THEN "wrong audience"
    ELSE IF policy.iss /\ token.iss # "ours" THEN "wrong issuer"
    ELSE IF Expired(token, time) THEN "expired"
    ELSE IF NotYet(token, time) THEN "not yet valid"
    ELSE "claims"

\* The handler resumes with the answer: claims end the loop and the request is
\* passed on, anything else is an Oauth2Error and the next provider is tried.
Resume(r) ==
    /\ phase[r] = "answered"
    /\ IF Verdict(keys[r], cred[r]) = "claims"
       THEN /\ Settle(r, "app")
            /\ last' = [last EXCEPT ![r] = "claims"]
            /\ UNCHANGED next
       ELSE /\ TryNext(r, "coroutine")
            /\ UNCHANGED <<cred, seen, since>>
    /\ keys' = [keys EXCEPT ![r] = Unavailable]
    /\ UNCHANGED <<time, jwks, policy, providers, kind>>

\* After the loop: the redirect, if the variable still holds one, or the 401.
Conclude(r) ==
    /\ phase[r] = "trying"
    /\ next[r] > Len(providers)
    /\ Settle(r, IF last[r] = "redirect" THEN "redirected" ELSE "denied")
    /\ UNCHANGED <<time, jwks, policy, providers, kind, next, last, keys>>

\* The response has been sent.
Respond(r) ==
    /\ phase[r] \in Final
    /\ Goto(r, "idle")
    /\ kind' = [kind EXCEPT ![r] = "options"]
    /\ next' = [next EXCEPT ![r] = 1]
    /\ last' = [last EXCEPT ![r] = "unset"]
    /\ UNCHANGED <<time, jwks, policy, providers, cred, seen, since, keys>>

\* The identity provider, and the clock.
Rotate ==
    /\ jwks' \in Answer
    /\ seen' = [r \in Request |->
                   IF phase[r] \in Handling THEN seen[r] \cup {jwks'} ELSE seen[r]]
    /\ UNCHANGED <<time, policy, providers, kind, cred, since, phase, next, last, keys>>

Tick ==
    /\ time < MaxTime
    /\ time' = time + 1
    /\ UNCHANGED <<jwks, policy, providers, kind, cred, seen, since, phase, next, last,
                   keys>>

Handle(r) ==
    \/ NoBearer(r) \/ Fetch(r) \/ AskRedirect(r)
    \/ EndpointAnswers(r) \/ Resume(r) \/ Conclude(r)

Next ==
    \/ \E r \in Request : Receive(r) \/ Handle(r) \/ Respond(r)
    \/ Rotate
    \/ Tick

Spec == Init /\ [][Next]_vars

\* The event loop runs every handler that can go on, and the client's timeout
\* ends every fetch.
FairSpec == Spec /\ \A r \in Request : WF_vars(Handle(r))

-----------------------------------------------------------------------------
TypeOK ==
    /\ time \in Nat
    /\ jwks \in Answer
    /\ policy \in Policies
    /\ providers \in ProviderLists
    /\ kind \in [Request -> Kind]
    /\ cred \in [Request -> Credential]
    /\ seen \in [Request -> SUBSET Answer]
    /\ since \in [Request -> Nat]
    /\ phase \in [Request -> Phase]
    /\ next \in [Request -> Nat \ {0}]
    /\ last \in [Request -> {"unset", "coroutine", "redirect", "claims"}]
    /\ keys \in [Request -> Answer]

\* What has become of each request, to someone who does not see the handlers.
Outcome == [r \in Request |-> IF phase[r] \in Handling THEN "waiting" ELSE phase[r]]

\* The gate implements Admission: a protected request reaches pygeoapi only
\* with a token that is genuine, valid at that time and verified by keys published
\* since the request came (so never by a key withdrawn before that), is refused only
\* for a reason, and is redirected only if the last provider tried asks for it.
Promise == INSTANCE Admission WITH outcome <- Outcome
Admits == Promise!Spec

\* Every request gets its answer, whatever the identity provider does.
Answered == \A r \in Request : phase[r] \in Handling ~> phase[r] \in Final

\* A bound of the steps a handler can still take: three for each provider it has
\* not done with, and one after the loop.
StepsLeft(r) ==
    3 * (Len(providers) + 1 - next[r]) +
        (IF phase[r] = "trying" THEN 2 ELSE IF phase[r] = "fetching" THEN 1 ELSE 0)

\* Every step of a handler brings it nearer to its answer, and no step of another
\* request, of the identity provider or of the clock takes it further away: it
\* awaits each provider at most once, however often the keys rotate meanwhile.
ComesNearer ==
    [][\A r \in Request : phase[r] \in Handling =>
          /\ StepsLeft(r) > 0
          /\ \/ phase'[r] \in Final
             \/ phase'[r] \in Handling /\ StepsLeft(r)' < StepsLeft(r)
             \/ UNCHANGED <<phase[r], next[r]>>]_vars
=============================================================================
