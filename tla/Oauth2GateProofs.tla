-------------------------- MODULE Oauth2GateProofs --------------------------
(***************************************************************************)
(* Proof that the gate implements Admission, for any number of requests,   *)
(* any tokens and keys, any rotation and any list of providers.            *)
(***************************************************************************)
EXTENDS Oauth2Gate, TLAPS

USE DEF envVars, vars, Final, Handling, Phase

-----------------------------------------------------------------------------
(* Admission has the operators of JwtTokens under names of its own.          *)
LEMMA SameTokens ==
    /\ Promise!Kind = Kind
    /\ Promise!Credential = Credential
    /\ Promise!Answer = Answer
    /\ \A token, now : Promise!Expired(token, now) <=> Expired(token, now)
    /\ \A token, now : Promise!NotYet(token, now) <=> NotYet(token, now)
    /\ \A token : Promise!AudienceOf(token) = AudienceOf(token)
    /\ \A answer : Promise!DeclaredAlgs(answer) = DeclaredAlgs(answer)
  BY DEF Kind, Promise!Kind, Credential, Promise!Credential, Answer, Promise!Answer,
         Expired, Promise!Expired, NotYet, Promise!NotYet, AudienceOf, Promise!AudienceOf,
         DeclaredAlgs, Promise!DeclaredAlgs

-----------------------------------------------------------------------------
(* Invariant.                                                                *)

\* A handler between requests starts from a clean loop.
IdleIsFresh ==
    \A r \in Request : phase[r] = "idle" => next[r] = 1 /\ last[r] = "unset"

\* A handler works only for protected requests, and `seen` and `since` tell what
\* has been and when the request came.
HandledIsProtected ==
    \A r \in Request : phase[r] \in Handling =>
        /\ kind[r] = "api" /\ next[r] <= Len(providers) + 1
        /\ jwks \in seen[r] /\ since[r] <= time

\* Keys are fetched for a token and a token provider, and the answer is one
\* the endpoint gave since the request came.
FetchHasToken ==
    \A r \in Request :
        /\ phase[r] \in {"fetching", "answered"} =>
              /\ cred[r] # NoHeader
              /\ next[r] <= Len(providers)
              /\ providers[next[r]] = "jwks"
        /\ phase[r] = "answered" => keys[r] \in seen[r]

\* What the loop variable holds tells which kind of provider was tried last,
\* and a token provider that is behind had a reason.
LastProvider ==
    \A r \in Request : phase[r] = "trying" /\ next[r] > 1 =>
        \/ providers[next[r] - 1] = "flow" /\ last[r] = "redirect"
        \/ providers[next[r] - 1] = "jwks" /\ last[r] = "coroutine" /\ Promise!Deniable(r)

GateInv ==
    TypeOK /\ IdleIsFresh /\ HandledIsProtected /\ FetchHasToken /\ LastProvider

-----------------------------------------------------------------------------
(* The verdict of decode_token is what Admission calls verifiable, fitting   *)
(* and valid now: the order of the checks does not matter to who passes.     *)
LEMMA VerdictCorrect ==
  ASSUME NEW answer \in Answer, NEW token \in Tokens
  PROVE  Verdict(answer, token) = "claims" <=>
            /\ answer # Unavailable
            /\ Promise!Verifiable(answer, token.key)
            /\ Promise!ClaimsFit(token)
            /\ ~Expired(token, time) /\ ~NotYet(token, time)
<1>1. answer # Unavailable =>
        (Promise!Verifiable(answer, token.key) <=>
           /\ ~ \E a, b \in DeclaredAlgs(answer) : a # b
           /\ DeclaredAlgs(answer) # {}
           /\ token.key \in answer /\ KeyAlg[token.key] \in DeclaredAlgs(answer))
  BY SameTokens DEF Promise!Verifiable
<1>2. Promise!ClaimsFit(token) <=>
        /\ ~(policy.aud /\ AudienceOf(token) = "none")
        /\ ~(policy.aud /\ AudienceOf(token) # "ours")
        /\ ~(policy.iss /\ token.iss # "ours")
  BY SameTokens DEF Promise!ClaimsFit
<1>. QED  BY <1>1, <1>2 DEF Verdict

LEMMA InitInv == Init => GateInv
  BY TokenAssumption, ProviderAssumption
  DEF Init, GateInv, TypeOK, IdleIsFresh, HandledIsProtected, FetchHasToken,
      LastProvider, Kind, Credential, Answer

LEMMA ListLen == \A list \in ProviderLists : Len(list) \in Nat \ {0}
  BY ProviderAssumption

-----------------------------------------------------------------------------
(* Steps of a handler.                                                       *)
LEMMA ReceiveInv ==
  ASSUME GateInv, NEW r \in Request, Receive(r) PROVE GateInv'
<1>. USE DEF GateInv, Receive, Settle, Goto
<1>1. TypeOK'
  BY DEF TypeOK, Kind, Credential
<1>2. IdleIsFresh'
  BY DEF TypeOK, IdleIsFresh
<1>3. HandledIsProtected'
  <2>1. kind'[r] \in {"options", "public"} => phase'[r] = "app"
    BY DEF NeedsNoAuth, TypeOK
  <2>2. next[r] = 1 /\ Len(providers) \in Nat \ {0}
    BY ListLen DEF IdleIsFresh, TypeOK
  <2>3. phase'[r] \in Handling =>
          kind'[r] = "api" /\ jwks \in seen'[r] /\ since'[r] = time
    BY <2>1 DEF TypeOK, Kind
  <2>4. time \in Nat /\ UNCHANGED <<time, jwks, providers, next>>
    BY DEF TypeOK
  <2>5. \A q \in Request \ {r} : UNCHANGED <<phase[q], kind[q], seen[q], since[q]>>
    BY DEF TypeOK
  <2>. SUFFICES ASSUME NEW q \in Request, phase'[q] \in Handling
               PROVE  /\ kind'[q] = "api" /\ next'[q] <= Len(providers') + 1
                      /\ jwks' \in seen'[q] /\ since'[q] <= time'
    BY DEF HandledIsProtected
  <2>6. CASE q = r
    BY ONLY <2>2, <2>3, <2>4, <2>6, phase'[q] \in Handling
  <2>7. CASE q # r
    BY <2>4, <2>5, <2>7 DEF HandledIsProtected
  <2>. QED  BY <2>6, <2>7
<1>4. FetchHasToken'
  <2>1. phase'[r] \in {"trying", "app"}
    BY DEF TypeOK
  <2>2. /\ \A q \in Request \ {r} : phase'[q] = phase[q] /\ cred'[q] = cred[q]
                                    /\ seen'[q] = seen[q]
        /\ UNCHANGED <<providers, next, keys>>
    BY DEF TypeOK
  <2>. QED  BY ONLY FetchHasToken, r \in Request, <2>1, <2>2 DEF FetchHasToken
<1>5. LastProvider'
  BY DEF TypeOK, LastProvider, IdleIsFresh, Promise!Deniable, Promise!ClaimsFit,
         Promise!Verifiable
<1>. QED  BY <1>1, <1>2, <1>3, <1>4, <1>5

(* A token provider that raises has a reason, and leaves the coroutine.      *)
LEMMA TryNextInv ==
  ASSUME GateInv, NEW r \in Request, NEW value, TryNext(r, value),
         UNCHANGED envVars, keys' = keys \/ keys' = [keys EXCEPT ![r] = Unavailable],
         phase[r] \in Handling, next[r] <= Len(providers),
         \/ providers[next[r]] = "flow" /\ value = "redirect"
         \/ providers[next[r]] = "jwks" /\ value = "coroutine" /\ Promise!Deniable(r)
  PROVE  GateInv'
<1>. USE DEF GateInv, TryNext, Goto
<1>l. Len(providers) \in Nat \ {0} /\ next[r] \in Nat \ {0}
  BY ListLen DEF TypeOK
<1>1. TypeOK'
  <2>1. keys' \in [Request -> Answer]
    BY DEF TypeOK, Answer
  <2>2. /\ phase' \in [Request -> Phase] /\ next' \in [Request -> Nat \ {0}]
        /\ last' \in [Request -> {"unset", "coroutine", "redirect", "claims"}]
    BY <1>l DEF TypeOK
  <2>. QED  BY ONLY TypeOK, UNCHANGED envVars, <2>1, <2>2 DEF TypeOK, envVars
<1>2. IdleIsFresh'
  BY DEF TypeOK, IdleIsFresh
<1>3. HandledIsProtected'
  BY <1>l DEF TypeOK, HandledIsProtected
<1>4. FetchHasToken'
  BY DEF TypeOK, FetchHasToken
<1>5. \A q \in Request : Promise!Deniable(q)' <=> Promise!Deniable(q)
  BY DEF Promise!Deniable, Promise!ClaimsFit, Promise!Verifiable
<1>6. next'[r] - 1 = next[r] /\ last'[r] = value
  BY <1>l DEF TypeOK
<1>7. LastProvider'
  BY <1>5, <1>6 DEF TypeOK, LastProvider
<1>. QED  BY <1>1, <1>2, <1>3, <1>4, <1>7

LEMMA HandleInv ==
  ASSUME GateInv, NEW r \in Request, Handle(r) PROVE GateInv'
<1>. USE DEF GateInv
<1>l. Len(providers) \in Nat \ {0} /\ next[r] \in Nat \ {0}
  BY ListLen DEF TypeOK
<1>1. CASE NoBearer(r)
  BY <1>1, TryNextInv DEF NoBearer, Trying, Promise!Deniable
<1>2. CASE Fetch(r)
  <2>. USE <1>2 DEF Fetch, Trying, Goto
  <2>1. TypeOK'
    BY DEF TypeOK
  <2>2. IdleIsFresh' /\ HandledIsProtected'
    BY DEF TypeOK, IdleIsFresh, HandledIsProtected
  <2>3. FetchHasToken'
    BY DEF TypeOK, FetchHasToken
  <2>4. LastProvider'
    BY DEF TypeOK, LastProvider, Promise!Deniable, Promise!ClaimsFit,
           Promise!Verifiable
  <2>. QED  BY <2>1, <2>2, <2>3, <2>4
<1>3. CASE AskRedirect(r)
  BY <1>3, TryNextInv DEF AskRedirect, Trying
<1>4. CASE EndpointAnswers(r)
  <2>. USE <1>4 DEF EndpointAnswers, Goto
  <2>1. TypeOK'
    BY DEF TypeOK
  <2>2. IdleIsFresh' /\ HandledIsProtected'
    BY DEF TypeOK, IdleIsFresh, HandledIsProtected
  <2>3. FetchHasToken'
    BY DEF TypeOK, FetchHasToken, HandledIsProtected
  <2>4. LastProvider'
    BY DEF TypeOK, LastProvider, Promise!Deniable, Promise!ClaimsFit,
           Promise!Verifiable
  <2>. QED  BY <2>1, <2>2, <2>3, <2>4
<1>5. CASE Resume(r) /\ Verdict(keys[r], cred[r]) = "claims"
  <2>. USE <1>5 DEF Resume, Settle, Goto
  <2>1. TypeOK'
    BY DEF TypeOK, Credential, Answer
  <2>2. IdleIsFresh' /\ HandledIsProtected'
    BY DEF TypeOK, IdleIsFresh, HandledIsProtected
  <2>3. FetchHasToken'
    <3>1. /\ phase' = [phase EXCEPT ![r] = "app"]
          /\ cred' = [cred EXCEPT ![r] = NoHeader] /\ seen' = [seen EXCEPT ![r] = {}]
          /\ keys' = [keys EXCEPT ![r] = Unavailable]
          /\ UNCHANGED <<providers, next>>
      BY ONLY <1>5 DEF Resume, Settle, Goto
    <3>. QED  BY ONLY <3>1, TypeOK, FetchHasToken, r \in Request DEF TypeOK, FetchHasToken
  <2>4. LastProvider'
    BY DEF TypeOK, LastProvider, Promise!Deniable, Promise!ClaimsFit,
           Promise!Verifiable
  <2>. QED  BY <2>1, <2>2, <2>3, <2>4
<1>6. CASE Resume(r) /\ Verdict(keys[r], cred[r]) # "claims"
  <2>1. keys[r] \in seen[r] /\ keys[r] \in Answer /\ cred[r] \in Tokens
    BY <1>6 DEF Resume, FetchHasToken, TypeOK, Credential
  <2>2. NotYet(cred[r], time) => NotYet(cred[r], since[r])
    BY <1>6, <2>1, TokenAssumption DEF Resume, HandledIsProtected, NotYet, Token, TypeOK
  <2>3. Promise!Deniable(r)
    BY <1>6, <2>1, <2>2, VerdictCorrect, SameTokens DEF Promise!Deniable
  <2>. QED  BY <1>6, <2>3, TryNextInv DEF Resume, FetchHasToken
<1>7. CASE Conclude(r)
  <2>. USE <1>7 DEF Conclude, Settle, Goto
  <2>1. TypeOK'
    BY DEF TypeOK, Credential
  <2>2. IdleIsFresh' /\ HandledIsProtected'
    BY DEF TypeOK, IdleIsFresh, HandledIsProtected
  <2>3. FetchHasToken'
    BY DEF TypeOK, FetchHasToken
  <2>4. LastProvider'
    BY DEF TypeOK, LastProvider, Promise!Deniable, Promise!ClaimsFit,
           Promise!Verifiable
  <2>. QED  BY <2>1, <2>2, <2>3, <2>4
<1>. QED  BY <1>1, <1>2, <1>3, <1>4, <1>5, <1>6, <1>7 DEF Handle

-----------------------------------------------------------------------------
(* Steps around the handlers: reasons to deny do not go away as keys rotate  *)
(* and time passes.                                                          *)
LEMMA RespondInv ==
  ASSUME GateInv, NEW r \in Request, Respond(r) PROVE GateInv'
<1>. USE DEF GateInv, Respond, Goto
<1>1. TypeOK'
  BY DEF TypeOK, Kind
<1>2. IdleIsFresh' /\ HandledIsProtected'
  BY DEF TypeOK, IdleIsFresh, HandledIsProtected
<1>3. FetchHasToken'
  BY DEF TypeOK, FetchHasToken
<1>4. LastProvider'
  BY DEF TypeOK, LastProvider, Promise!Deniable, Promise!ClaimsFit, Promise!Verifiable
<1>. QED  BY <1>1, <1>2, <1>3, <1>4

LEMMA RotateInv == GateInv /\ Rotate => GateInv'
<1>. SUFFICES ASSUME GateInv, Rotate PROVE GateInv'
  OBVIOUS
<1>. USE DEF GateInv, Rotate
<1>1. TypeOK'
  BY DEF TypeOK
<1>2. \A r \in Request : phase[r] \in Handling => seen[r] \subseteq seen'[r]
  BY DEF TypeOK
<1>3. \A r \in Request : phase[r] \in Handling /\ Promise!Deniable(r) => Promise!Deniable(r)'
  BY <1>2 DEF Promise!Deniable, Promise!ClaimsFit, Promise!Verifiable
<1>4. IdleIsFresh' /\ HandledIsProtected' /\ FetchHasToken'
  BY <1>2 DEF IdleIsFresh, HandledIsProtected, FetchHasToken
<1>5. LastProvider'
  BY <1>3 DEF LastProvider
<1>. QED  BY <1>1, <1>4, <1>5

LEMMA TickInv == GateInv /\ Tick => GateInv'
<1>. SUFFICES ASSUME GateInv, Tick PROVE GateInv'
  OBVIOUS
<1>. USE DEF GateInv, Tick
<1>1. TypeOK'
  BY DEF TypeOK
<1>2. ASSUME NEW token \in Tokens, Expired(token, time) PROVE Expired(token, time')
  BY <1>2, TokenAssumption DEF Expired, TypeOK, Token
<1>3. \A r \in Request : Promise!Deniable(r) => Promise!Deniable(r)'
  BY <1>2, SameTokens DEF Promise!Deniable, Promise!ClaimsFit, Promise!Verifiable, TypeOK, Credential
<1>4. IdleIsFresh' /\ HandledIsProtected' /\ FetchHasToken'
  BY DEF TypeOK, IdleIsFresh, HandledIsProtected, FetchHasToken
<1>5. LastProvider'
  BY <1>3 DEF LastProvider
<1>. QED  BY <1>1, <1>4, <1>5

LEMMA NextInv == GateInv /\ [Next]_vars => GateInv'
<1>. SUFFICES ASSUME GateInv, [Next]_vars PROVE GateInv'
  OBVIOUS
<1>1. CASE \E r \in Request : Receive(r) \/ Handle(r) \/ Respond(r)
  BY <1>1, ReceiveInv, HandleInv, RespondInv
<1>2. CASE Rotate
  BY <1>2, RotateInv
<1>3. CASE Tick
  BY <1>3, TickInv
<1>4. CASE UNCHANGED vars
  BY <1>4 DEF GateInv, TypeOK, IdleIsFresh, HandledIsProtected, FetchHasToken,
              LastProvider, Promise!Deniable, Promise!ClaimsFit, Promise!Verifiable
<1>. QED  BY <1>1, <1>2, <1>3, <1>4 DEF Next

(* Type correctness of the gate, and what its handlers have established at   *)
(* each await.                                                               *)
THEOREM GateInvariant == Spec => []GateInv
  BY InitInv, NextInv, PTL DEF Spec

(* Types of the gate and its surroundings, whatever the constants.           *)
THEOREM GateTypeCorrect == Spec => []TypeOK
<1>1. GateInv => TypeOK
  BY DEF GateInv
<1>. QED  BY <1>1, GateInvariant, PTL

-----------------------------------------------------------------------------
(* Refinement.                                                               *)

LEMMA OutcomeType == Outcome \in [Request -> {"idle", "waiting"} \cup Final] \/ ~TypeOK
  BY DEF Outcome, TypeOK

(* A step that moves a handler from one of its own points to another changes *)
(* nothing that Admission sees.                                              *)
LEMMA HandlingIsInvisible ==
  ASSUME TypeOK, NEW r \in Request, phase[r] \in Handling,
         NEW p \in Handling, Goto(r, p), UNCHANGED envVars
  PROVE  UNCHANGED Promise!vars
<1>1. Outcome' = Outcome
  BY DEF Outcome, Goto, TypeOK
<1>. QED  BY <1>1 DEF Promise!vars

LEMMA SettleIsConclude ==
  ASSUME TypeOK, NEW r \in Request, phase[r] \in Handling,
         NEW p \in Final, Settle(r, p), UNCHANGED <<time, jwks, policy, providers, kind>>
  PROVE  Promise!Conclude(r, p)
<1>1. Outcome[r] = "waiting"
  BY DEF Outcome
<1>2. Outcome' = [Outcome EXCEPT ![r] = p]
  BY DEF Outcome, Settle, Goto, TypeOK
<1>. QED  BY <1>1, <1>2 DEF Promise!Conclude, Settle

LEMMA HandleRefines ==
  ASSUME GateInv, NEW r \in Request, Handle(r)
  PROVE  [Promise!Next]_(Promise!vars)
<1>. USE DEF GateInv
<1>1. CASE NoBearer(r) \/ AskRedirect(r)
  BY <1>1, HandlingIsInvisible DEF NoBearer, AskRedirect, Trying, TryNext
<1>2. CASE Fetch(r)
  BY <1>2, HandlingIsInvisible DEF Fetch, Trying
<1>3. CASE EndpointAnswers(r)
  BY <1>3, HandlingIsInvisible DEF EndpointAnswers
<1>4. CASE Resume(r) /\ Verdict(keys[r], cred[r]) = "claims"
  <2>1. keys[r] \in seen[r] /\ keys[r] \in Answer /\ cred[r] \in Tokens
    BY <1>4 DEF Resume, FetchHasToken, TypeOK, Credential
  <2>2. Promise!Genuine(r)
    BY <1>4, <2>1, VerdictCorrect, SameTokens, TokenAssumption DEF Promise!Genuine
  <2>3. Promise!Conclude(r, "app")
    BY <1>4, SettleIsConclude DEF Resume
  <2>. QED  BY <2>2, <2>3 DEF Promise!Admit, Promise!Next
<1>5. CASE Resume(r) /\ Verdict(keys[r], cred[r]) # "claims"
  BY <1>5, HandlingIsInvisible DEF Resume, TryNext
<1>6. CASE Conclude(r)
  <2>1. Len(providers) \in Nat \ {0} /\ next[r] \in Nat \ {0}
    BY ListLen DEF TypeOK
  <2>2. next[r] > 1 /\ next[r] - 1 = Len(providers)
    BY <1>6, <2>1 DEF Conclude, HandledIsProtected
  <2>3. CASE last[r] = "redirect"
    <3>1. providers[Len(providers)] = "flow"
      BY <1>6, <2>2, <2>3 DEF Conclude, LastProvider
    <3>2. Promise!Conclude(r, "redirected")
      BY <1>6, <2>3, SettleIsConclude DEF Conclude
    <3>. QED  BY <3>1, <3>2 DEF Promise!Redirect, Promise!Next
  <2>4. CASE last[r] # "redirect"
    <3>1. providers[Len(providers)] = "jwks" /\ Promise!Deniable(r)
      BY <1>6, <2>2, <2>4 DEF Conclude, LastProvider
    <3>2. Promise!Conclude(r, "denied")
      BY <1>6, <2>4, SettleIsConclude DEF Conclude
    <3>. QED  BY <3>1, <3>2 DEF Promise!Deny, Promise!Next
  <2>. QED  BY <2>3, <2>4
<1>. QED  BY <1>1, <1>2, <1>3, <1>4, <1>5, <1>6 DEF Handle

LEMMA ReceiveRefines ==
  ASSUME GateInv, NEW r \in Request, Receive(r) PROVE Promise!Arrive(r)
<1>. USE DEF GateInv, TypeOK, Receive, Settle, Goto
<1>1. PICK k \in Kind, c \in Credential :
         /\ kind' = [kind EXCEPT ![r] = k]
         /\ IF NeedsNoAuth(k)
            THEN Settle(r, "app")
            ELSE /\ Goto(r, "trying")
                 /\ cred' = [cred EXCEPT ![r] = c]
                 /\ seen' = [seen EXCEPT ![r] = {jwks}]
                 /\ since' = [since EXCEPT ![r] = time]
  OBVIOUS
<1>2. NeedsNoAuth(k) <=> k # "api"
  BY DEF NeedsNoAuth, Kind
<1>3. Outcome[r] = "idle"
  BY DEF Outcome
<1>5. phase' = [phase EXCEPT ![r] = IF k = "api" THEN "trying" ELSE "app"]
  BY <1>1, <1>2
<1>4. Outcome' = [Outcome EXCEPT ![r] = IF k = "api" THEN "waiting" ELSE "app"]
  BY ONLY <1>5, phase \in [Request -> Phase], r \in Request DEF Outcome
<1>. QED  BY <1>1, <1>2, <1>3, <1>4, SameTokens DEF Promise!Arrive

LEMMA RespondRefines ==
  ASSUME GateInv, NEW r \in Request, Respond(r) PROVE Promise!Leave(r)
<1>1. Outcome[r] = phase[r] /\ Outcome' = [Outcome EXCEPT ![r] = "idle"]
  BY DEF GateInv, TypeOK, Respond, Goto, Outcome
<1>. QED  BY <1>1 DEF Respond, Promise!Leave

(* Whatever the interleaving, a protected request reaches pygeoapi only with *)
(* a token that is genuine and valid at that moment, verified by keys    *)
(* published since it came, and is refused only for a reason.                *)
THEOREM GateImplementsAdmission == Spec => Admits
<1>1. Init => Promise!Init
  <2>1. Init => Outcome = [r \in Request |-> "idle"]
    BY DEF Init, Outcome
  <2>. QED  BY <2>1, SameTokens DEF Init, Promise!Init
<1>2. GateInv /\ [Next]_vars => [Promise!Next]_(Promise!vars)
  <2>. SUFFICES ASSUME GateInv, [Next]_vars PROVE [Promise!Next]_(Promise!vars)
    OBVIOUS
  <2>1. ASSUME NEW r \in Request, Receive(r) PROVE Promise!Next
    BY <2>1, ReceiveRefines DEF Promise!Next
  <2>2. ASSUME NEW r \in Request, Handle(r) PROVE [Promise!Next]_(Promise!vars)
    BY <2>2, HandleRefines
  <2>3. ASSUME NEW r \in Request, Respond(r) PROVE Promise!Next
    BY <2>3, RespondRefines DEF Promise!Next
  <2>4. CASE Rotate
    <3>1. Outcome' = Outcome /\ \A r \in Request :
             Outcome[r] = "waiting" <=> phase[r] \in Handling
      BY <2>4 DEF Rotate, Outcome, GateInv, TypeOK
    <3>. QED  BY <2>4, <3>1, SameTokens DEF Rotate, Promise!Rotate, Promise!Next
  <2>5. CASE Tick
    <3>1. Outcome' = Outcome
      BY <2>5 DEF Tick, Outcome
    <3>. QED  BY <2>5, <3>1 DEF Tick, Promise!Tick, Promise!Next
  <2>6. CASE UNCHANGED vars
    BY <2>6 DEF Outcome, Promise!vars
  <2>. QED  BY <2>1, <2>2, <2>3, <2>4, <2>5, <2>6 DEF Next
<1>. QED  BY <1>1, <1>2, GateInvariant, PTL DEF Spec, Admits, Promise!Spec

-----------------------------------------------------------------------------
(* Progress: what is left of Answered once its fairness is taken for granted. *)
Nearer(r) ==
    \/ phase'[r] \in Final
    \/ phase'[r] \in Handling /\ StepsLeft(r)' < StepsLeft(r)
    \/ UNCHANGED <<phase[r], next[r]>>

LEMMA StepsLeftPositive ==
  ASSUME GateInv, NEW r \in Request, phase[r] \in Handling
  PROVE  /\ StepsLeft(r) > 0
         /\ next[r] \in Nat \ {0} /\ Len(providers) \in Nat \ {0}
<1>1. /\ next[r] \in Nat \ {0} /\ Len(providers) \in Nat \ {0}
      /\ next[r] <= Len(providers) + 1
      /\ phase[r] \in {"fetching", "answered"} => next[r] <= Len(providers)
  BY ListLen DEF GateInv, TypeOK, HandledIsProtected, FetchHasToken
<1>2. CASE phase[r] \in {"trying", "fetching"}
  BY <1>1, <1>2 DEF StepsLeft
<1>3. CASE phase[r] = "answered"
  BY <1>1, <1>3 DEF StepsLeft
<1>. QED  BY <1>1, <1>2, <1>3 DEF Handling

LEMMA HandleNearer ==
  ASSUME GateInv, NEW r \in Request, Handle(r) PROVE Nearer(r)
<1>0. /\ phase \in [Request -> Phase] /\ next \in [Request -> Nat \ {0}]
      /\ next[r] \in Nat /\ Len(providers) \in Nat
  BY ListLen DEF GateInv, TypeOK
<1>1. CASE NoBearer(r) \/ AskRedirect(r)
  <2>1. /\ phase[r] = "trying" /\ phase'[r] = "trying" /\ next'[r] = next[r] + 1
        /\ next[r] <= Len(providers) /\ providers' = providers
    BY ONLY <1>0, <1>1, r \in Request
    DEF NoBearer, AskRedirect, Trying, TryNext, Goto, envVars
  <2>. QED  BY ONLY <1>0, <2>1 DEF Nearer, StepsLeft, Handling
<1>2. CASE Fetch(r)
  <2>1. /\ phase[r] = "trying" /\ phase'[r] = "fetching" /\ next' = next
        /\ providers' = providers /\ next[r] <= Len(providers)
    BY ONLY <1>0, <1>2, r \in Request DEF Fetch, Trying, Goto, envVars
  <2>. QED  BY ONLY <1>0, <2>1 DEF Nearer, StepsLeft, Handling
<1>3. CASE EndpointAnswers(r)
  <2>1. /\ phase[r] = "fetching" /\ phase'[r] = "answered" /\ next' = next
        /\ providers' = providers
    BY ONLY <1>0, <1>3, r \in Request DEF EndpointAnswers, Goto, envVars
  <2>2. next[r] <= Len(providers)
    BY <2>1 DEF GateInv, FetchHasToken
  <2>. QED  BY ONLY <1>0, <2>1, <2>2 DEF Nearer, StepsLeft, Handling
<1>4. CASE Resume(r)
  <2>1. CASE phase'[r] = "app"
    BY <2>1 DEF Nearer, Final
  <2>2. CASE TryNext(r, "coroutine") /\ providers' = providers /\ phase[r] = "answered"
    <3>1. next[r] <= Len(providers)
      BY <2>2 DEF GateInv, FetchHasToken
    <3>2. phase'[r] = "trying" /\ next'[r] = next[r] + 1
      BY ONLY <1>0, <2>2, r \in Request DEF TryNext, Goto
    <3>. QED  BY ONLY <1>0, <2>2, <3>1, <3>2 DEF Nearer, StepsLeft, Handling
  <2>. QED
    BY ONLY <1>0, <1>4, <2>1, <2>2, r \in Request DEF Resume, Settle, Goto
<1>5. CASE Conclude(r)
  BY ONLY <1>0, <1>5, r \in Request DEF Conclude, Settle, Goto, Nearer, Final
<1>. QED  BY <1>1, <1>2, <1>3, <1>4, <1>5 DEF Handle

(* A handler has at most three steps for each provider, and no step of       *)
(* anybody else adds one: with the fairness of the event loop every request  *)
(* is answered.                                                              *)
THEOREM GateComesNearer == Spec => ComesNearer
<1>1. ASSUME GateInv, [Next]_vars, NEW r \in Request, phase[r] \in Handling
      PROVE  StepsLeft(r) > 0 /\ Nearer(r)
  <2>1. StepsLeft(r) > 0
    BY <1>1, StepsLeftPositive
  <2>2. ASSUME NEW q \in Request, q # r, Receive(q) \/ Handle(q) \/ Respond(q)
        PROVE  UNCHANGED <<phase[r], next[r]>>
    BY <1>1, <2>2 DEF GateInv, TypeOK, Receive, Handle, Respond, NoBearer, Fetch,
       AskRedirect, EndpointAnswers, Resume, Conclude, TryNext, Settle, Goto
  <2>3. ~Receive(r) /\ ~Respond(r)
    BY <1>1 DEF Receive, Respond, Handling, Final
  <2>4. Rotate \/ Tick \/ UNCHANGED vars => UNCHANGED <<phase[r], next[r]>>
    BY DEF Rotate, Tick
  <2>. QED  BY <1>1, <2>1, <2>2, <2>3, <2>4, HandleNearer DEF Next, Nearer
<1>2. GateInv /\ [Next]_vars =>
        [\A r \in Request : phase[r] \in Handling =>
            /\ StepsLeft(r) > 0
            /\ \/ phase'[r] \in Final
               \/ phase'[r] \in Handling /\ StepsLeft(r)' < StepsLeft(r)
               \/ UNCHANGED <<phase[r], next[r]>>]_vars
  BY <1>1 DEF Nearer
<1>. QED  BY <1>2, GateInvariant, PTL DEF Spec, ComesNearer

=============================================================================
