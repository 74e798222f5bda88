------------------------------ MODULE McpAuth ------------------------------
(***************************************************************************)
(* Authentication of the MCP server (src/app/auth/mcp_auth_provider.py):   *)
(* what fastgeoapi adds to FastMCP's OIDCProxy, and what comes of it.      *)
(*                                                                         *)
(* A client holds a token of the proxy, which refers to the token of the   *)
(* identity provider that the proxy keeps.  The verifier trusts that       *)
(* upstream token; the lifetime of the client's own is configured.  One    *)
(* RFC6750CompliantAuthMiddleware object serves all requests and decides   *)
(* between the two errors by an attribute of its own; a client told        *)
(* "invalid_token" deletes its registration.                               *)
(*                                                                         *)
(* OIDCProxy, the identity provider and the client are modelled from how   *)
(* the source and its comments use them.                                   *)
(***************************************************************************)
EXTENDS Integers

CONSTANTS
    Client,         \* MCP clients, each with a session of its own
    NoSetting,      \* FASTGEOAPI_MCP_ACCESS_TOKEN_EXPIRY_SECONDS is unset
    Settings,       \* what it may be set to
    DefaultTtl,     \* DEFAULT_MCP_ACCESS_TOKEN_EXPIRY_SECONDS
    UpstreamTtl,    \* expires_in of the identity provider's tokens
    MaxTime,        \* bound on the clock
    MaxRestarts     \* bound on the restarts of the server

ASSUME McpAuthAssumption ==
    /\ NoSetting \notin Int
    /\ Settings \subseteq Int \cup {NoSetting}
    /\ DefaultTtl \in Nat \ {0}
    /\ UpstreamTtl \in Nat \ {0}
    /\ MaxTime \in Nat
    /\ MaxRestarts \in Nat

VARIABLES
    setting,     \* the configured lifetime of the clients' tokens
    refreshes,   \* whether OIDCProxy refreshes an upstream token that is over
    now,         \* the clock
    restarts,    \* restarts so far
    provided,    \* _token_was_provided of the middleware
    phase,       \* where each client is
    req,         \* its request, and what it was found to be
    held,        \* whether it holds a token
    issued,      \* when that was issued
    stored,      \* whether the proxy still has the upstream token it refers to
    asked,       \* when the identity provider last gave that
    session,     \* the upstream session
    registered,  \* the client's registration with the proxy
    rejected     \* whether a token of its current registration was refused

vars == <<setting, refreshes, now, restarts, provided, phase, req, held, issued,
          stored, asked, session, registered, rejected>>

server == <<setting, refreshes, now, restarts>>
tokens == <<held, issued, stored, asked, session>>

Phase == {"ready", "sent", "checked", "served", "missing", "invalid", "browser"}

\* bearer: it carries a token; live: the session was not revoked when it was
\* sent; good: the token was accepted, age after the identity provider's word.
Request == [bearer: BOOLEAN, live: BOOLEAN, good: BOOLEAN, age: 0..MaxTime]

NoRequest == [bearer |-> FALSE, live |-> FALSE, good |-> FALSE, age |-> 0]

Init ==
    /\ setting \in Settings
    /\ refreshes \in BOOLEAN
    /\ now = 0
    /\ restarts = 0
    /\ provided = FALSE
    /\ phase = [c \in Client |-> "ready"]
    /\ req = [c \in Client |-> NoRequest]
    /\ held = [c \in Client |-> FALSE]
    /\ issued = [c \in Client |-> 0]
    /\ stored = [c \in Client |-> FALSE]
    /\ asked = [c \in Client |-> 0]
    /\ session = [c \in Client |-> "none"]
    /\ registered = [c \in Client |-> "never"]
    /\ rejected = [c \in Client |-> FALSE]

Goto(c, p) == phase' = [phase EXCEPT ![c] = p]

\* The exchange is over.
Done(c) == req' = [req EXCEPT ![c] = NoRequest]

\* The client forgets its token; nothing refers to the upstream one any more.
Drop(c) ==
    /\ held' = [held EXCEPT ![c] = FALSE]
    /\ stored' = [stored EXCEPT ![c] = FALSE]
    /\ issued' = [issued EXCEPT ![c] = 0]
    /\ asked' = [asked EXCEPT ![c] = 0]
    /\ session' = [session EXCEPT ![c] = "none"]

-----------------------------------------------------------------------------
\* (Slip) a setting of 0 is taken for none at all.
TtlOrDefault(s) ==
    IF s = NoSetting THEN DefaultTtl
    ELSE IF s > 0 THEN s
    ELSE IF s = 0 THEN DefaultTtl ELSE UpstreamTtl

\* configure_mcp_auth: client_token_ttl, where None mirrors the upstream one.
Ttl(s) ==
    IF s = NoSetting THEN DefaultTtl
    ELSE IF s > 0 THEN s ELSE UpstreamTtl

\* A request with the token the client holds, if it holds one.
Send(c) ==
    /\ phase[c] = "ready"
    /\ req' = [req EXCEPT ![c] = [bearer |-> held[c], live |-> session[c] = "active",
                                  good |-> FALSE, age |-> 0]]
    /\ Goto(c, "sent")
    /\ UNCHANGED <<server, provided, tokens, registered, rejected>>

\* OIDCProxy's own checks: expiry of its token, and the upstream token it means.
Known(c) ==
    /\ req[c].bearer
    /\ held[c]
    /\ stored[c]
    /\ now < issued[c] + Ttl(setting)

UpstreamOver(c) == now >= asked[c] + UpstreamTtl

Accept(c, age) ==
    /\ req' = [req EXCEPT ![c].good = TRUE, ![c].age = age]
    /\ Goto(c, "checked")
    /\ UNCHANGED <<server, provided, registered, rejected>>

\* BearerAuthBackend awaits load_access_token; verify_token accepts whatever
\* upstream token is stored, without an expiry of its own.
Verify(c) ==
    /\ phase[c] = "sent"
    /\ Known(c)
    /\ ~(refreshes /\ UpstreamOver(c))
    /\ Accept(c, now - asked[c])
    /\ UNCHANGED tokens

\* A proxy that refreshes a token that is over asks the identity provider.
Refresh(c) ==
    /\ phase[c] = "sent"
    /\ Known(c)
    /\ refreshes /\ UpstreamOver(c)
    /\ session[c] = "active"
    /\ Accept(c, 0)
    /\ asked' = [asked EXCEPT ![c] = now]
    /\ UNCHANGED <<held, issued, stored, session>>

\* No user is set in the scope: there is no token, or it is not accepted.
Reject(c) ==
    /\ phase[c] = "sent"
    /\ \/ ~Known(c)
       \/ refreshes /\ UpstreamOver(c) /\ session[c] # "active"
    /\ rejected' = [rejected EXCEPT ![c] = @ \/ req[c].bearer]
    /\ Goto(c, "checked")
    /\ UNCHANGED <<server, provided, req, tokens, registered>>

\* (Slip) the attribute is only ever set, never reset.
EverProvided(c) == provided \/ req[c].bearer

\* RFC6750CompliantAuthMiddleware.__call__ sets the attribute from the headers
\* of the request,
Provided(c) == req[c].bearer

\* and reads it with no await in between.
Judge(c) ==
    /\ phase[c] = "checked"
    /\ provided' = Provided(c)
    /\ Goto(c, IF req[c].good THEN "served"
               ELSE IF Provided(c) THEN "invalid" ELSE "missing")
    /\ UNCHANGED <<server, req, tokens, registered, rejected>>

Served(c) ==
    /\ phase[c] = "served"
    /\ Goto(c, "ready")
    /\ Done(c)
    /\ UNCHANGED <<server, provided, tokens, registered, rejected>>

-----------------------------------------------------------------------------
\* A 401 without an error code: the client registers, if it has to, and opens
\* the browser.
Missing(c) ==
    /\ phase[c] = "missing"
    /\ registered' = [registered EXCEPT ![c] = "kept"]
    /\ Goto(c, "browser")
    /\ Done(c)
    /\ UNCHANGED <<server, provided, tokens, rejected>>

\* invalid_token: the client deletes its token and its registration, and opens
\* the browser nevertheless.
Invalid(c) ==
    /\ phase[c] = "invalid"
    /\ registered' = [registered EXCEPT ![c] = "deleted"]
    /\ Drop(c)
    /\ Goto(c, "browser")
    /\ Done(c)
    /\ UNCHANGED <<server, provided, rejected>>

\* The user has logged in; the client exchanges the code for a token,
LogIn(c) ==
    /\ phase[c] = "browser"
    /\ registered[c] = "kept"
    /\ Goto(c, "ready")
    /\ held' = [held EXCEPT ![c] = TRUE]
    /\ stored' = [stored EXCEPT ![c] = TRUE]
    /\ issued' = [issued EXCEPT ![c] = now]
    /\ asked' = [asked EXCEPT ![c] = now]
    /\ session' = [session EXCEPT ![c] = "active"]
    /\ rejected' = [rejected EXCEPT ![c] = FALSE]
    /\ UNCHANGED <<server, provided, req, registered>>

\* for which it needs its registration.
LogInFails(c) ==
    /\ phase[c] = "browser"
    /\ registered[c] # "kept"
    /\ Goto(c, "ready")
    /\ UNCHANGED <<server, provided, req, tokens, registered, rejected>>

\* The client's refresh grant, which the proxy passes on.
Renew(c) ==
    /\ phase[c] = "ready"
    /\ held[c]
    /\ IF stored[c] /\ session[c] = "active"
       THEN /\ issued' = [issued EXCEPT ![c] = now]
            /\ asked' = [asked EXCEPT ![c] = now]
            /\ UNCHANGED <<held, stored, session>>
       ELSE Drop(c)
    /\ UNCHANGED <<server, provided, phase, req, registered, rejected>>

\* The identity provider ends a session.
Revoke(c) ==
    /\ session[c] = "active"
    /\ session' = [session EXCEPT ![c] = "revoked"]
    /\ UNCHANGED <<server, provided, phase, req, held, issued, stored, asked,
                   registered, rejected>>

\* The server is replaced: requests under way are lost, and the stored upstream
\* tokens of some clients may be.
Restart ==
    /\ restarts < MaxRestarts
    /\ restarts' = restarts + 1
    /\ provided' = FALSE
    /\ \E lost \in SUBSET Client :
          stored' = [c \in Client |-> stored[c] /\ c \notin lost]
    /\ LET cut == {c \in Client : phase[c] \in {"sent", "checked"}} IN
       /\ phase' = [c \in Client |-> IF c \in cut THEN "ready" ELSE phase[c]]
       /\ req' = [c \in Client |-> IF c \in cut THEN NoRequest ELSE req[c]]
    /\ UNCHANGED <<setting, refreshes, now, held, issued, asked, session,
                   registered, rejected>>

Tick ==
    /\ now < MaxTime
    /\ now' = now + 1
    /\ UNCHANGED <<setting, refreshes, restarts, provided, phase, req, tokens,
                   registered, rejected>>

Authenticate(c) == Verify(c) \/ Refresh(c) \/ Reject(c)

Step(c) == Send(c) \/ Authenticate(c) \/ Judge(c) \/ Served(c) \/ Missing(c)
              \/ Invalid(c) \/ LogIn(c) \/ LogInFails(c)

Next ==
    \/ \E c \in Client : Step(c) \/ Renew(c) \/ Revoke(c)
    \/ Restart \/ Tick

Spec == Init /\ [][Next]_vars

\* The event loop and a client that wants to work go on, and its user logs in.
FairSpec == Spec /\ \A c \in Client : WF_vars(Step(c))

-----------------------------------------------------------------------------
TypeOK ==
    /\ setting \in Settings
    /\ refreshes \in BOOLEAN
    /\ now \in 0..MaxTime
    /\ restarts \in 0..MaxRestarts
    /\ provided \in BOOLEAN
    /\ phase \in [Client -> Phase]
    /\ req \in [Client -> Request]
    /\ held \in [Client -> BOOLEAN]
    /\ issued \in [Client -> 0..MaxTime]
    /\ stored \in [Client -> BOOLEAN]
    /\ asked \in [Client -> 0..MaxTime]
    /\ session \in [Client -> {"none", "active", "revoked"}]
    /\ registered \in [Client -> {"never", "kept", "deleted"}]
    /\ rejected \in [Client -> BOOLEAN]

\* The identity provider's word is never older than the client's token.
Timely(c) == issued[c] <= asked[c] /\ asked[c] <= now

\* A token is good for its lifetime after that word, and a client is told
\* "invalid_token" only after a token of its own was rejected.
Judged(c) ==
    /\ phase[c] = "sent" => ~req[c].good
    /\ phase[c] \in {"checked", "served"} /\ req[c].good => req[c].age < Ttl(setting)
    /\ phase[c] = "served" => req[c].good
    /\ phase[c] = "checked" /\ ~req[c].good /\ req[c].bearer => rejected[c]
    /\ phase[c] = "invalid" => rejected[c]

\* What the steps rely on: the times, and the verdicts in each client's hands.
McpAuthInv == TypeOK /\ \A c \in Client : Timely(c) /\ Judged(c)

\* Only a client whose own token was rejected loses its registration, whatever
\* other clients' requests run through the middleware's shared attribute.
RegistrationKept == \A c \in Client : registered[c] = "deleted" => rejected[c]

\* No call is served longer than the configured lifetime after the identity
\* provider last gave the upstream token: its own expires_in for 0 and below, a
\* day by default (configure_mcp_auth).
WithinLifetime ==
    \A c \in Client :
        phase[c] = "served" =>
            /\ setting = NoSetting => req[c].age < DefaultTtl
            /\ setting \in Int /\ setting <= 0 => req[c].age < UpstreamTtl
            /\ setting \in Int /\ setting > 0 => req[c].age < setting

\* docs/mcp/configuration.md: a revoked upstream session fails immediately,
\* regardless of how much lifetime is left on the client-facing token.
RevokedFailsAtOnce == \A c \in Client : phase[c] = "served" => req[c].live

\* A client without a token comes to one if its user logs in: the answer to a
\* request without a token never makes it delete what the exchange needs.
LogsIn == \A c \in Client : ~held[c] ~> held[c]
=============================================================================
