--------------------------- MODULE LifespanProofs ---------------------------
(***************************************************************************)
(* Theorems about Lifespan, for any calls and either host.                 *)
(***************************************************************************)
EXTENDS Lifespan, TLAPS

USE HostsAssumption

\* What both safety properties rest on, together with them.
IInv == LifespanInv /\ NoClientLeftOpen /\ FailsOnlyWhenReused

LEMMA InitIInv == Init => IInv
<1> SUFFICES ASSUME Init PROVE IInv
    OBVIOUS
<1>1. TypeOK
  <2>1. mcp \in BOOLEAN /\ gone \in [Call -> BOOLEAN]
    BY DEF Init
  <2>2. call \in [Call -> CallState] /\ rounds \in 0..2
    BY DEF Init, CallState
  <2> QED
    BY <2>1, <2>2 DEF Init, TypeOK, Stage, ClientState
<1>2. \A c \in Call : ~Pending(c) /\ call[c] # "failed"
    BY DEF Init, Pending
<1> QED
    BY <1>1, <1>2 DEF Init, IInv, LifespanInv, NoClientLeftOpen, FailsOnlyWhenReused

\* A process that starts, or ends, is one without a call.
LEMMA NoCallsLeft ==
  ASSUME NoCalls
  PROVE  /\ call' \in [Call -> CallState] /\ gone' \in [Call -> BOOLEAN]
         /\ \A c \in Call : ~Pending(c)' /\ call'[c] # "failed"
  BY DEF NoCalls, CallState, Pending

LEMMA KeepsImport == IInv /\ Import => IInv'
<1> SUFFICES ASSUME IInv, Import PROVE IInv'
    OBVIOUS
<1>1. NoCalls /\ stage' = "idle" /\ rounds' = 0 /\ client' = "open" /\ mcp' = FALSE
      /\ host' = host
    BY DEF Import
<1>2. TypeOK'
  <2>1. mcp' \in BOOLEAN
    BY <1>1
  <2>2. rounds' \in 0..2
    BY <1>1
  <2> QED
    BY <1>1, <2>1, <2>2, NoCallsLeft DEF IInv, LifespanInv, TypeOK, Stage, ClientState
<1> QED
    BY <1>1, <1>2, NoCallsLeft DEF IInv, LifespanInv, NoClientLeftOpen, FailsOnlyWhenReused

LEMMA KeepsYield == IInv /\ Enter => IInv'
<1> SUFFICES ASSUME IInv, Enter PROVE IInv'
    OBVIOUS
<1>1. /\ UNCHANGED <<host, call, gone>> /\ Begins
      /\ stage' = "serving" /\ mcp' = TRUE /\ client' = client
      /\ rounds' = IF rounds = 0 THEN 1 ELSE 2
    BY DEF Enter, Yields
<1>2. TypeOK'
    BY <1>1 DEF IInv, LifespanInv, TypeOK, Stage
<1>3. rounds' = 1 => client = "open"
    BY <1>1 DEF IInv, LifespanInv, Begins
<1>4. rounds' > 0 /\ (host = "uvicorn" => rounds' = 1)
    BY <1>1 DEF IInv, LifespanInv, Begins
<1>5. LifespanInv'
    BY <1>1, <1>2, <1>3, <1>4 DEF IInv, LifespanInv, Begins, Pending
<1>6. NoClientLeftOpen'
    BY <1>1 DEF NoClientLeftOpen
<1>7. FailsOnlyWhenReused'
    BY <1>1 DEF IInv, LifespanInv, TypeOK, FailsOnlyWhenReused, Begins
<1> QED
    BY <1>5, <1>6, <1>7 DEF IInv

\* A lifespan is entered, or fails to be.
LEMMA KeepsEnter == IInv /\ (Enter \/ EnterFails) => IInv'
<1> SUFFICES ASSUME IInv, Enter \/ EnterFails PROVE IInv'
    OBVIOUS
<1>1. CASE EnterFails
  <2>1. CASE host = "uvicorn"
      BY <1>1, <2>1 DEF EnterFails, Begins, IInv, LifespanInv, NoClientLeftOpen,
         FailsOnlyWhenReused, TypeOK, Stage, ClientState, Pending
  <2>2. CASE host = "mangum"
    <3>1. /\ UNCHANGED <<host, stage, client, rounds, mcp, gone>> /\ stage = "idle"
          /\ call' = [c \in Call |-> IF call[c] = "received" THEN "refused" ELSE call[c]]
        BY <1>1, <2>2 DEF EnterFails, Begins
    <3>2. TypeOK'
        BY <3>1 DEF IInv, LifespanInv, TypeOK, CallState
    <3>3. \A c \in Call : call'[c] = "failed" => call[c] = "failed"
        BY <3>1
    <3>4. LifespanInv'
        BY <2>2, <3>1, <3>2 DEF IInv, LifespanInv
    <3>5. NoClientLeftOpen' /\ FailsOnlyWhenReused'
        BY <3>1, <3>3 DEF IInv, NoClientLeftOpen, FailsOnlyWhenReused
    <3> QED
        BY <3>4, <3>5 DEF IInv
  <2> QED
      BY <1>1, <2>1, <2>2 DEF EnterFails
<1>2. CASE Enter
    BY <1>2, KeepsYield
<1> QED
    BY <1>1, <1>2

\* The steps of calls leave the process as it is.
LEMMA KeepsCalls ==
  ASSUME IInv, NEW c \in Call,
         Event(c) \/ Accept(c) \/ Send(c) \/ Return(c) \/ Abandon(c) \/ Forget(c)
  PROVE  IInv'
<1>1. UNCHANGED <<host, stage, rounds, client, mcp>>
    BY DEF Event, Accept, Send, Return, Abandon, Forget
<1>2. TypeOK'
    BY <1>1 DEF IInv, LifespanInv, TypeOK, CallState, Event, Accept, Send, Return,
       Abandon, Forget
<1>3. ASSUME NEW d \in Call, Pending(d)'
      PROVE  Pending(d) \/ Accept(c) \/ Event(c)
    BY <1>3 DEF IInv, LifespanInv, TypeOK, Pending, Event, Accept, Send, Return,
       Abandon, Forget
<1>4. (Accept(c) => stage = "serving") /\ (Event(c) => stage = "idle" /\ host = "mangum")
    BY DEF Accept, Event
<1>5. LifespanInv'
    BY <1>1, <1>2, <1>3, <1>4 DEF IInv, LifespanInv
<1>6. NoClientLeftOpen'
    BY <1>1 DEF IInv, NoClientLeftOpen
<1>7. FailsOnlyWhenReused'
  <2> SUFFICES ASSUME NEW d \in Call, call'[d] = "failed", ~gone'[d]
               PROVE  host' = "mangum" /\ rounds' = 2
      BY DEF FailsOnlyWhenReused
  <2>1. CASE call[d] = "failed" /\ ~gone[d]
      BY <1>1, <2>1 DEF IInv, FailsOnlyWhenReused
  <2>2. CASE ~(call[d] = "failed" /\ ~gone[d])
    <3>1. Send(c) /\ d = c /\ ~gone[c] /\ call[c] = "received" /\ ~(client = "open" /\ mcp)
        BY <2>2 DEF IInv, LifespanInv, TypeOK, Event, Accept, Send, Return, Abandon, Forget
    <3>2. Pending(c)
        BY <3>1 DEF Pending
    <3>3. stage \in {"serving", "draining"} /\ mcp
        BY <3>1, <3>2 DEF IInv, LifespanInv, Send
    <3>4. client # "open"
        BY <3>1, <3>3
    <3>5. rounds = 2
        BY <3>3, <3>4 DEF IInv, LifespanInv, TypeOK
    <3>6. host = "mangum"
        BY <3>3, <3>5 DEF IInv, LifespanInv, TypeOK
    <3> QED
        BY <1>1, <3>5, <3>6
  <2> QED
      BY <2>1, <2>2
<1> QED
    BY <1>5, <1>6, <1>7 DEF IInv

LEMMA KeepsStop == IInv /\ Stop => IInv'
  BY DEF Stop, IInv, LifespanInv, NoClientLeftOpen, FailsOnlyWhenReused, TypeOK,
         Stage, Pending

LEMMA KeepsClose == IInv /\ Close => IInv'
  BY DEF Close, LifespanOver, IInv, LifespanInv, NoClientLeftOpen, FailsOnlyWhenReused,
         TypeOK, Stage, ClientState, Pending

LEMMA KeepsLeave == IInv /\ Leave => IInv'
<1> SUFFICES ASSUME IInv, Leave PROVE IInv'
    OBVIOUS
<1>1. TypeOK'
    BY DEF IInv, LifespanInv, TypeOK, Leave, Stage, CallState
<1>2. \A c \in Call : ~Pending(c)'
    BY DEF IInv, LifespanInv, TypeOK, Leave, Pending
<1>3. LifespanInv'
    BY <1>1, <1>2 DEF IInv, LifespanInv, TypeOK, Leave
<1>4. NoClientLeftOpen' /\ FailsOnlyWhenReused'
    BY DEF IInv, LifespanInv, TypeOK, Leave, NoClientLeftOpen, FailsOnlyWhenReused
<1> QED
    BY <1>3, <1>4 DEF IInv

LEMMA KeepsKill == IInv /\ Kill => IInv'
<1> SUFFICES ASSUME IInv, Kill PROVE IInv'
    OBVIOUS
<1>1. NoCalls /\ stage' = "down" /\ client' = "lost" /\ mcp' = FALSE
      /\ UNCHANGED <<host, rounds>>
    BY DEF Kill
<1>2. TypeOK'
    BY <1>1, NoCallsLeft DEF IInv, LifespanInv, TypeOK, Stage, ClientState
<1> QED
    BY <1>1, <1>2, NoCallsLeft DEF IInv, LifespanInv, NoClientLeftOpen, FailsOnlyWhenReused

LEMMA KeepsIInv == IInv /\ [Next]_vars => IInv'
<1>1. IInv /\ UNCHANGED vars => IInv'
    BY DEF vars, IInv, LifespanInv, NoClientLeftOpen, FailsOnlyWhenReused, TypeOK, Pending
<1> QED
    BY <1>1, KeepsImport, KeepsEnter, KeepsCalls, KeepsStop, KeepsClose, KeepsLeave,
       KeepsKill DEF Next

\* In its first lifespan a process serves with an open client and a running MCP
\* application, from the first call to the last that anyone waits for.
THEOREM LifespanInvariant == Spec => []LifespanInv
<1>1. IInv => LifespanInv
    BY DEF IInv
<1> QED
    BY <1>1, InitIInv, KeepsIInv, PTL DEF Spec

\* No orderly exit leaves the client open.
THEOREM ClientClosedCorrect == Spec => []NoClientLeftOpen
<1>1. IInv => NoClientLeftOpen
    BY DEF IInv
<1> QED
    BY <1>1, InitIInv, KeepsIInv, PTL DEF Spec

\* A call somebody waits for fails only under Mangum, after the first event.
THEOREM FailsOnlyWhenReusedCorrect == Spec => []FailsOnlyWhenReused
<1>1. IInv => FailsOnlyWhenReused
    BY DEF IInv
<1> QED
    BY <1>1, InitIInv, KeepsIInv, PTL DEF Spec

\* Run by a server, the next request works however often the process was
\* stopped, killed or replaced before it.
THEOREM ServerNextRequestWorks ==
  ASSUME "mangum" \notin Hosts PROVE Spec => []NextRequestWorks
<1>1. IInv => NextRequestWorks
    BY DEF IInv, LifespanInv, TypeOK, FailsOnlyWhenReused, NextRequestWorks
<1> QED
    BY <1>1, InitIInv, KeepsIInv, PTL DEF Spec
=============================================================================
