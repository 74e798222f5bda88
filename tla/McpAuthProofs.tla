--------------------------- MODULE McpAuthProofs ---------------------------
(***************************************************************************)
(* For any number of clients, any setting and any lifetimes: the invariant *)
(* of the MCP authentication, that only a client whose own token was       *)
(* rejected loses its registration, and that no call is served beyond the  *)
(* configured lifetime.                                                    *)
(***************************************************************************)
EXTENDS McpAuth, TLAPS

\* A setting gives a lifetime that is a positive number (client_token_ttl, or
\* the upstream one for none).
LEMMA TtlPositive ==
    ASSUME NEW s \in Settings
    PROVE  Ttl(s) \in Nat \ {0}
  BY McpAuthAssumption DEF Ttl

\* The proxy's own check of its token bounds the age of the identity provider's
\* word, which is not older than the token.
LEMMA KnownIsYoung ==
    ASSUME NEW c \in Client, TypeOK, Timely(c), Known(c)
    PROVE  /\ now - asked[c] \in 0..MaxTime
           /\ now - asked[c] < Ttl(setting)
  <1>1. /\ now \in 0..MaxTime
        /\ issued[c] \in 0..MaxTime
        /\ asked[c] \in 0..MaxTime
        /\ setting \in Settings
    BY DEF TypeOK
  <1>2. Ttl(setting) \in Nat \ {0}
    BY <1>1, TtlPositive
  <1>3. issued[c] <= asked[c] /\ asked[c] <= now /\ now < issued[c] + Ttl(setting)
    BY DEF Timely, Known
  <1> QED
    BY <1>1, <1>2, <1>3, McpAuthAssumption

-----------------------------------------------------------------------------
\* An accepted request is still a request.
LEMMA AcceptType ==
    ASSUME TypeOK, NEW c \in Client, NEW age \in 0..MaxTime, Accept(c, age)
    PROVE  req' \in [Client -> Request] /\ phase' \in [Client -> Phase]
  <1>1. [req[c] EXCEPT !.good = TRUE, !.age = age] \in Request
    <2>1. req[c] \in Request
      BY DEF TypeOK
    <2> QED
      BY ONLY <2>1, age \in 0..MaxTime DEF Request
  <1>2. req' = [req EXCEPT ![c] = [req[c] EXCEPT !.good = TRUE, !.age = age]]
    BY DEF Accept, TypeOK, Request
  <1> QED
    BY <1>1, <1>2 DEF Accept, Goto, TypeOK, Phase

\* Every step keeps the types.
LEMMA TypeNext ==
    ASSUME McpAuthInv, [Next]_vars
    PROVE  TypeOK'
  <1>1. TypeOK
    BY DEF McpAuthInv
  <1> USE McpAuthAssumption DEF TypeOK, Phase, Request, NoRequest, Goto, Done,
            server, tokens
  <1>2. ASSUME NEW c \in Client, Send(c) PROVE TypeOK'
    BY <1>1, <1>2 DEF Send
  <1>3. ASSUME NEW c \in Client, Verify(c) PROVE TypeOK'
    <2>1. now - asked[c] \in 0..MaxTime
      <3>1. Known(c) /\ Timely(c)
        BY <1>3 DEF Verify, McpAuthInv
      <3> QED
        BY ONLY <1>1, <3>1, KnownIsYoung
    <2>2. req' \in [Client -> Request] /\ phase' \in [Client -> Phase]
      BY ONLY <1>1, <1>3, <2>1, AcceptType DEF Verify
    <2> QED
      BY <1>1, <1>3, <2>2 DEF Verify, Accept
  <1>4. ASSUME NEW c \in Client, Refresh(c) PROVE TypeOK'
    <2>1. 0 \in 0..MaxTime
      OBVIOUS
    <2>2. req' \in [Client -> Request] /\ phase' \in [Client -> Phase]
      BY ONLY <1>1, <1>4, <2>1, AcceptType DEF Refresh
    <2> QED
      BY <1>1, <1>4, <2>2 DEF Refresh, Accept
  <1>5. ASSUME NEW c \in Client, Reject(c) PROVE TypeOK'
    BY <1>1, <1>5 DEF Reject
  <1>6. ASSUME NEW c \in Client, Judge(c) PROVE TypeOK'
    BY <1>1, <1>6 DEF Judge, Provided
  <1>7. ASSUME NEW c \in Client, Served(c) PROVE TypeOK'
    BY <1>1, <1>7 DEF Served
  <1>8. ASSUME NEW c \in Client, Missing(c) PROVE TypeOK'
    BY <1>1, <1>8 DEF Missing
  <1>9. ASSUME NEW c \in Client, Invalid(c) PROVE TypeOK'
    BY <1>1, <1>9 DEF Invalid, Drop
  <1>10. ASSUME NEW c \in Client, LogIn(c) PROVE TypeOK'
    BY <1>1, <1>10 DEF LogIn
  <1>11. ASSUME NEW c \in Client, LogInFails(c) PROVE TypeOK'
    BY <1>1, <1>11 DEF LogInFails
  <1>12. ASSUME NEW c \in Client, Renew(c) PROVE TypeOK'
    <2>1. CASE stored[c] /\ session[c] = "active"
      BY <1>1, <1>12, <2>1 DEF Renew
    <2>2. CASE ~(stored[c] /\ session[c] = "active")
      <3>1. 0 \in 0..MaxTime
        OBVIOUS
      <3>2. Drop(c)
        BY <1>12, <2>2 DEF Renew
      <3>3. /\ issued' \in [Client -> 0..MaxTime] /\ asked' \in [Client -> 0..MaxTime]
            /\ held' \in [Client -> BOOLEAN] /\ stored' \in [Client -> BOOLEAN]
            /\ session' \in [Client -> {"none", "active", "revoked"}]
        BY <1>1, <3>1, <3>2 DEF Drop
      <3> QED
        BY <1>1, <1>12, <3>3 DEF Renew
    <2> QED
      BY <2>1, <2>2
  <1>13. ASSUME NEW c \in Client, Revoke(c) PROVE TypeOK'
    BY <1>1, <1>13 DEF Revoke
  <1>14. CASE Restart
    <2>1. restarts' \in 0..MaxRestarts
      BY <1>1, <1>14 DEF Restart
    <2>2. provided' \in BOOLEAN /\ stored' \in [Client -> BOOLEAN]
      BY <1>14 DEF Restart
    <2>3. phase' \in [Client -> Phase] /\ req' \in [Client -> Request]
      BY <1>1, <1>14 DEF Restart
    <2> QED
      BY <1>1, <1>14, <2>1, <2>2, <2>3 DEF Restart
  <1>15. CASE Tick
    BY <1>1, <1>15 DEF Tick
  <1>16. CASE UNCHANGED vars
    BY <1>1, <1>16 DEF vars
  <1> QED
    BY <1>2, <1>3, <1>4, <1>5, <1>6, <1>7, <1>8, <1>9, <1>10, <1>11, <1>12, <1>13,
       <1>14, <1>15, <1>16 DEF Next, Step, Authenticate

\* Every step keeps the order of the times.
LEMMA TimelyNext ==
    ASSUME McpAuthInv, [Next]_vars, NEW d \in Client
    PROVE  Timely(d)'
  <1>1. /\ TypeOK /\ Timely(d)
        /\ now \in 0..MaxTime
        /\ issued[d] \in 0..MaxTime
        /\ asked[d] \in 0..MaxTime
    BY DEF McpAuthInv, TypeOK
  <1> USE McpAuthAssumption DEF Timely
  <1>2. ASSUME UNCHANGED <<now, issued, asked>> PROVE Timely(d)'
    BY <1>1, <1>2
  <1>3. ASSUME NEW c \in Client, Send(c) \/ Verify(c) \/ Reject(c) \/ Judge(c)
                  \/ Served(c) \/ Missing(c) \/ LogInFails(c) \/ Revoke(c)
        PROVE  Timely(d)'
    BY <1>2, <1>3 DEF Send, Verify, Reject, Judge, Served, Missing, LogInFails,
                      Revoke, Accept, server, tokens
  <1>4. ASSUME NEW c \in Client, Refresh(c) PROVE Timely(d)'
    BY <1>1, <1>4 DEF Refresh, Accept, server, TypeOK
  <1>5. ASSUME NEW c \in Client, Invalid(c) PROVE Timely(d)'
    BY <1>1, <1>5 DEF Invalid, Drop, server, TypeOK
  <1>6. ASSUME NEW c \in Client, LogIn(c) PROVE Timely(d)'
    BY <1>1, <1>6 DEF LogIn, server, TypeOK
  <1>7. ASSUME NEW c \in Client, Renew(c) PROVE Timely(d)'
    BY <1>1, <1>7 DEF Renew, Drop, server, TypeOK
  <1>8. CASE Restart
    BY <1>2, <1>8 DEF Restart
  <1>9. CASE Tick
    BY <1>1, <1>9 DEF Tick, tokens
  <1>10. CASE UNCHANGED vars
    BY <1>2, <1>10 DEF vars
  <1> QED
    BY <1>3, <1>4, <1>5, <1>6, <1>7, <1>8, <1>9, <1>10 DEF Next, Step, Authenticate

\* Every step keeps what was judged, for its own client and for the others.
LEMMA JudgedNext ==
    ASSUME McpAuthInv, [Next]_vars, NEW d \in Client
    PROVE  Judged(d)'
  <1>1. TypeOK /\ Judged(d) /\ setting \in Settings
    BY DEF McpAuthInv, TypeOK
  <1>2. Ttl(setting) \in Nat \ {0}
    BY <1>1, TtlPositive
  <1>3. ASSUME UNCHANGED setting, phase'[d] = phase[d], req'[d] = req[d],
               rejected'[d] = rejected[d]
        PROVE  Judged(d)'
    BY <1>1, <1>3 DEF Judged, Ttl
  <1>4. ASSUME UNCHANGED setting, phase'[d] \in {"ready", "missing", "browser"}
        PROVE  Judged(d)'
    BY <1>4 DEF Judged
  <1>5. ASSUME NEW c \in Client, Send(c) PROVE Judged(d)'
    <2>1. CASE c = d
      BY <1>1, <1>5, <2>1 DEF Send, Goto, Judged, TypeOK
    <2>2. CASE c # d
      BY <1>1, <1>3, <1>5, <2>2 DEF Send, Goto, TypeOK, server
    <2> QED
      BY <2>1, <2>2
  <1>6. ASSUME NEW c \in Client, Verify(c) PROVE Judged(d)'
    <2>1. CASE c = d
      <3>1. now - asked[c] < Ttl(setting)
        BY <1>6, KnownIsYoung DEF Verify, McpAuthInv
      <3>2. /\ req'[c].good /\ req'[c].age = now - asked[c]
            /\ phase'[c] = "checked" /\ setting' = setting
        BY <1>1, <1>6 DEF Verify, Accept, Goto, TypeOK, Request, server
      <3> QED
        BY <2>1, <3>1, <3>2 DEF Judged, Ttl
    <2>2. CASE c # d
      BY <1>1, <1>3, <1>6, <2>2 DEF Verify, Accept, Goto, TypeOK, server
    <2> QED
      BY <2>1, <2>2
  <1>7. ASSUME NEW c \in Client, Refresh(c) PROVE Judged(d)'
    <2>1. CASE c = d
      <3>1. /\ req'[c].good /\ req'[c].age = 0
            /\ phase'[c] = "checked" /\ setting' = setting
        BY <1>1, <1>7 DEF Refresh, Accept, Goto, TypeOK, Request, server
      <3> QED
        BY <1>2, <2>1, <3>1 DEF Judged, Ttl
    <2>2. CASE c # d
      BY <1>1, <1>3, <1>7, <2>2 DEF Refresh, Accept, Goto, TypeOK, server
    <2> QED
      BY <2>1, <2>2
  <1>8. ASSUME NEW c \in Client, Reject(c) PROVE Judged(d)'
    <2>1. CASE c = d
      <3>1. /\ ~req'[c].good /\ req'[c].bearer => rejected'[c]
            /\ phase'[c] = "checked"
        BY <1>1, <1>8, <2>1 DEF Reject, Goto, TypeOK, Judged
      <3>2. ~req'[d].good
        BY <1>1, <1>8, <2>1 DEF Reject, Judged
      <3> QED
        BY <2>1, <3>1, <3>2 DEF Judged
    <2>2. CASE c # d
      BY <1>1, <1>3, <1>8, <2>2 DEF Reject, Goto, TypeOK, server
    <2> QED
      BY <2>1, <2>2
  <1>9. ASSUME NEW c \in Client, Judge(c) PROVE Judged(d)'
    <2>1. CASE c = d
      <3>1. phase[d] = "checked" /\ UNCHANGED <<setting, req, rejected>>
        BY <1>9, <2>1 DEF Judge, server
      <3>2. phase'[d] = IF req[d].good THEN "served"
                        ELSE IF req[d].bearer THEN "invalid" ELSE "missing"
        BY <1>1, <1>9, <2>1 DEF Judge, Goto, Provided, TypeOK
      <3> QED
        BY <1>1, <3>1, <3>2 DEF Judged, Ttl
    <2>2. CASE c # d
      BY <1>1, <1>3, <1>9, <2>2 DEF Judge, Goto, TypeOK, server
    <2> QED
      BY <2>1, <2>2
  <1>10. ASSUME NEW c \in Client, Served(c) \/ Missing(c) \/ Invalid(c) \/ LogInFails(c)
         PROVE  Judged(d)'
    <2>1. CASE c = d
      BY <1>1, <1>4, <1>10, <2>1
         DEF Served, Missing, Invalid, LogInFails, Goto, TypeOK, server
    <2>2. CASE c # d
      BY <1>1, <1>3, <1>10, <2>2
         DEF Served, Missing, Invalid, LogInFails, Goto, Done, TypeOK, server
    <2> QED
      BY <2>1, <2>2
  <1>11. ASSUME NEW c \in Client, LogIn(c) PROVE Judged(d)'
    <2>1. CASE c = d
      BY <1>1, <1>4, <1>11, <2>1 DEF LogIn, Goto, TypeOK, server
    <2>2. CASE c # d
      BY <1>1, <1>3, <1>11, <2>2 DEF LogIn, Goto, TypeOK, server
    <2> QED
      BY <2>1, <2>2
  <1>12. ASSUME NEW c \in Client, Renew(c) \/ Revoke(c) PROVE Judged(d)'
    BY <1>3, <1>12 DEF Renew, Revoke, server
  <1>13. CASE Restart
    <2>1. CASE phase[d] \in {"sent", "checked"}
      BY <1>4, <1>13, <2>1 DEF Restart
    <2>2. CASE phase[d] \notin {"sent", "checked"}
      BY <1>3, <1>13, <2>2 DEF Restart
    <2> QED
      BY <2>1, <2>2
  <1>14. CASE Tick \/ UNCHANGED vars
    BY <1>3, <1>14 DEF Tick, vars
  <1> QED
    BY <1>5, <1>6, <1>7, <1>8, <1>9, <1>10, <1>11, <1>12, <1>13, <1>14
       DEF Next, Step, Authenticate

-----------------------------------------------------------------------------
\* The invariant of the proxy, its clients and the identity provider: the order
\* of their times and the verdicts of the middleware (mcp_auth_provider.py).
THEOREM McpAuthInvariant == Spec => []McpAuthInv
  <1>1. Init => McpAuthInv
    <2> SUFFICES ASSUME Init PROVE McpAuthInv
      OBVIOUS
    <2>1. TypeOK
      <3>1. 0 \in 0..MaxTime /\ 0 \in 0..MaxRestarts
        BY McpAuthAssumption
      <3>2. NoRequest \in Request
        BY <3>1 DEF NoRequest, Request
      <3> QED
        BY <3>1, <3>2 DEF Init, TypeOK, Phase
    <2>2. ASSUME NEW c \in Client PROVE Timely(c) /\ Judged(c)
      BY DEF Init, Timely, Judged
    <2> QED
      BY <2>1, <2>2 DEF McpAuthInv
  <1>2. McpAuthInv /\ [Next]_vars => McpAuthInv'
    <2> SUFFICES ASSUME McpAuthInv, [Next]_vars PROVE McpAuthInv'
      OBVIOUS
    <2> QED
      BY TypeNext, TimelyNext, JudgedNext DEF McpAuthInv
  <1> QED
    BY <1>1, <1>2, PTL DEF Spec

\* No call is served longer than the configured lifetime after the identity
\* provider gave the upstream token (configure_mcp_auth's client_token_ttl).
THEOREM WithinLifetimeCorrect == Spec => []WithinLifetime
  <1>1. McpAuthInv => WithinLifetime
    BY McpAuthAssumption DEF McpAuthInv, Judged, WithinLifetime, Ttl
  <1> QED
    BY <1>1, McpAuthInvariant, PTL

\* Only a client whose own token was rejected is told to delete its registration
\* (RFC6750CompliantAuthMiddleware.__call__).
THEOREM RegistrationKeptCorrect == Spec => []RegistrationKept
  <1>1. Init => RegistrationKept
    BY DEF Init, RegistrationKept
  <1>2. McpAuthInv /\ RegistrationKept /\ [Next]_vars => RegistrationKept'
    <2> SUFFICES ASSUME McpAuthInv, RegistrationKept, [Next]_vars, NEW d \in Client,
                        registered'[d] = "deleted"
                 PROVE  rejected'[d]
      BY DEF RegistrationKept
    <2>1. /\ TypeOK /\ Judged(d)
          /\ registered[d] = "deleted" => rejected[d]
      BY DEF McpAuthInv, RegistrationKept
    <2>2. ASSUME UNCHANGED <<registered, rejected>> PROVE rejected'[d]
      BY <2>1, <2>2
    <2>3. ASSUME NEW c \in Client, Missing(c) PROVE rejected'[d]
      BY <2>1, <2>3 DEF Missing, TypeOK
    <2>4. ASSUME NEW c \in Client, Invalid(c) PROVE rejected'[d]
      BY <2>1, <2>4 DEF Invalid, TypeOK, Judged
    <2>5. ASSUME NEW c \in Client, Reject(c) PROVE rejected'[d]
      BY <2>1, <2>5 DEF Reject, TypeOK
    <2>6. ASSUME NEW c \in Client, LogIn(c) PROVE rejected'[d]
      BY <2>1, <2>6 DEF LogIn, TypeOK
    <2>7. ASSUME NEW c \in Client, Send(c) \/ Verify(c) \/ Refresh(c) \/ Judge(c)
                    \/ Served(c) \/ LogInFails(c) \/ Renew(c) \/ Revoke(c)
          PROVE  rejected'[d]
      BY <2>2, <2>7 DEF Send, Verify, Refresh, Judge, Served, LogInFails, Renew,
                        Revoke, Accept
    <2>8. CASE Restart \/ Tick \/ UNCHANGED vars
      BY <2>2, <2>8 DEF Restart, Tick, vars
    <2> QED
      BY <2>3, <2>4, <2>5, <2>6, <2>7, <2>8 DEF Next, Step, Authenticate
  <1> QED
    BY <1>1, <1>2, McpAuthInvariant, PTL DEF Spec
=============================================================================
