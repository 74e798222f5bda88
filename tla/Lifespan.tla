------------------------------ MODULE Lifespan ------------------------------
(***************************************************************************)
(* The lifespan of an application with the MCP server (src/app/main.py).   *)
(* Importing the module makes one HTTP client, through which every MCP     *)
(* tool calls pygeoapi; combined_lifespan runs the MCP application's own   *)
(* lifespan and closes the client at its end.                              *)
(*                                                                         *)
(* A server such as uvicorn runs the lifespan once per process.  Mangum,   *)
(* the handler that AWS_LAMBDA_DEPLOY asks for, runs it around every event *)
(* of a process that AWS keeps for the next one.                           *)
(***************************************************************************)
EXTENDS Naturals

CONSTANTS
    Call,    \* calls of MCP tools that may be under way together
    Hosts    \* what may run the application

ASSUME HostsAssumption == Hosts \subseteq {"uvicorn", "mangum"}

VARIABLES
    host,     \* what runs the application
    stage,    \* how far the process is
    rounds,   \* lifespans entered since the import: none, one, or more (2)
    client,   \* mcp_api_client
    mcp,      \* whether the MCP application's lifespan is running
    call,     \* how far each call is
    gone      \* whether its client has gone away in the meantime

vars == <<host, stage, rounds, client, mcp, call, gone>>

\* "idle": imported, no lifespan under way; "closing": the client is closed, the
\* MCP application is still to end; "down": a server's lifespan is over, or there
\* is no process.  That interpreter exit joins the threads get_response has
\* started is left out.
Stage == {"down", "idle", "serving", "draining", "closing"}

\* "lost": the process ended without closing it.
ClientState == {"open", "closed", "lost"}

\* "failed": in the tool, "refused": the host could not begin a lifespan for it.
CallState == {"none", "received", "sent", "answered", "failed", "refused"}

Init ==
    /\ host \in Hosts
    /\ stage = "down"
    /\ rounds = 0
    /\ client = "lost"
    /\ mcp = FALSE
    /\ call = [c \in Call |-> "none"]
    /\ gone = [c \in Call |-> FALSE]

\* Calls the host still has a connection, or an event, for.
Pending(c) == call[c] \in {"received", "sent"} /\ ~gone[c]

NoCalls ==
    /\ call' = [c \in Call |-> "none"]
    /\ gone' = [c \in Call |-> FALSE]

\* The import of app.main: create_mcp_server makes the client.
Import ==
    /\ stage = "down"
    /\ stage' = "idle"
    /\ rounds' = 0
    /\ client' = "open"
    /\ mcp' = FALSE
    /\ NoCalls
    /\ UNCHANGED host

\* An event wakes the process under Lambda, one at a time,
Event(c) ==
    /\ host = "mangum"
    /\ stage = "idle"
    /\ \A d \in Call : call[d] = "none"
    /\ call' = [call EXCEPT ![c] = "received"]
    /\ UNCHANGED <<host, stage, rounds, client, mcp, gone>>

\* a connection is accepted by a server.
Accept(c) ==
    /\ host = "uvicorn"
    /\ stage = "serving"
    /\ call[c] = "none"
    /\ call' = [call EXCEPT ![c] = "received"]
    /\ UNCHANGED <<host, stage, rounds, client, mcp, gone>>

\* The host begins a lifespan, Mangum for the event that is there.
Begins ==
    /\ stage = "idle"
    /\ host = "mangum" => \E c \in Call : call[c] = "received"

\* The MCP application's lifespan runs, and the generator comes to its yield.
Yields ==
    /\ stage' = "serving"
    /\ rounds' = IF rounds = 0 THEN 1 ELSE 2

\* (Slip) combined_lifespan does not enter mcp_app.lifespan.
EnterAlone ==
    /\ Begins
    /\ Yields
    /\ UNCHANGED <<host, client, mcp, call, gone>>

\* (Slip) the client is closed on the way in.
EnterClosing ==
    /\ Begins
    /\ Yields
    /\ mcp' = TRUE
    /\ client' = "closed"
    /\ UNCHANGED <<host, call, gone>>

\* combined_lifespan up to its yield.
Enter ==
    /\ Begins
    /\ Yields
    /\ mcp' = TRUE
    /\ UNCHANGED <<host, client, call, gone>>

\* mcp_app.lifespan raises, before the try: the client is not closed.  A server
\* exits; Mangum refuses the event, in a process that waits for the next one.
EnterFails ==
    /\ Begins
    /\ \/ host = "uvicorn" /\ stage' = "down" /\ client' = "lost" /\ UNCHANGED call
       \/ /\ host = "mangum" /\ UNCHANGED <<stage, client>>
          /\ call' = [c \in Call |-> IF call[c] = "received" THEN "refused" ELSE call[c]]
    /\ UNCHANGED <<host, rounds, mcp, gone>>

\* A tool calls pygeoapi through the client; a closed one raises.
Send(c) ==
    /\ call[c] = "received"
    /\ stage \in {"serving", "draining", "closing"}
    /\ call' = [call EXCEPT ![c] = IF client = "open" /\ mcp THEN "sent" ELSE "failed"]
    /\ UNCHANGED <<host, stage, rounds, client, mcp, gone>>

Return(c) ==
    /\ call[c] = "sent"
    /\ stage # "down"
    /\ call' = [call EXCEPT ![c] = "answered"]
    /\ UNCHANGED <<host, stage, rounds, client, mcp, gone>>

\* The client goes away; the tool goes on in the MCP application's task group.
Abandon(c) ==
    /\ host = "uvicorn"
    /\ Pending(c)
    /\ gone' = [gone EXCEPT ![c] = TRUE]
    /\ UNCHANGED <<host, stage, rounds, client, mcp, call>>

Forget(c) ==
    /\ call[c] \in {"answered", "failed", "refused"}
    /\ call' = [call EXCEPT ![c] = "none"]
    /\ gone' = [gone EXCEPT ![c] = FALSE]
    /\ UNCHANGED <<host, stage, rounds, client, mcp>>

\* A signal: the server accepts no more connections.
Stop ==
    /\ host = "uvicorn"
    /\ stage = "serving"
    /\ stage' = "draining"
    /\ UNCHANGED <<host, rounds, client, mcp, call, gone>>

\* A server waits for its connections, Mangum for its event,
LifespanOver ==
    /\ stage = IF host = "uvicorn" THEN "draining" ELSE "serving"
    /\ \A c \in Call : ~Pending(c)

\* (Slip) the client is closed only where the MCP application has no lifespan.
CloseNot ==
    /\ LifespanOver
    /\ stage' = "closing"
    /\ UNCHANGED <<host, rounds, client, mcp, call, gone>>

\* (Slip) the tools still at work are awaited first.
CloseWhenIdle ==
    /\ LifespanOver
    /\ \A c \in Call : call[c] \notin {"received", "sent"}
    /\ stage' = "closing"
    /\ client' = "closed"
    /\ UNCHANGED <<host, rounds, mcp, call, gone>>

\* then the generator resumes: finally, await mcp_api_client.aclose(),
Close ==
    /\ LifespanOver
    /\ stage' = "closing"
    /\ client' = "closed"
    /\ UNCHANGED <<host, rounds, mcp, call, gone>>

\* and only then the MCP application ends and cancels what it still runs.
Leave ==
    /\ stage = "closing"
    /\ stage' = IF host = "uvicorn" THEN "down" ELSE "idle"
    /\ mcp' = FALSE
    /\ call' = [c \in Call |-> IF gone[c] THEN "none" ELSE call[c]]
    /\ gone' = [c \in Call |-> FALSE]
    /\ UNCHANGED <<host, rounds, client>>

\* A second signal, a crash, a suspended machine that is not resumed, a new
\* image: the process ends, and its connections with it.
Kill ==
    /\ stage # "down"
    /\ stage' = "down"
    /\ client' = "lost"
    /\ mcp' = FALSE
    /\ NoCalls
    /\ UNCHANGED <<host, rounds>>

Next ==
    \/ Import \/ Enter \/ EnterFails
    \/ Stop \/ Close \/ Leave \/ Kill
    \/ \E c \in Call :
          Event(c) \/ Accept(c) \/ Send(c) \/ Return(c) \/ Abandon(c) \/ Forget(c)

Spec == Init /\ [][Next]_vars

\* The host and the event loop go on; pygeoapi's threads may take any time.
FairSpec ==
    /\ Spec
    /\ WF_vars(Close)
    /\ WF_vars(Leave)

-----------------------------------------------------------------------------
TypeOK ==
    /\ host \in Hosts
    /\ stage \in Stage
    /\ rounds \in 0..2
    /\ client \in ClientState
    /\ mcp \in BOOLEAN
    /\ call \in [Call -> CallState]
    /\ gone \in [Call -> BOOLEAN]

\* What the steps rely on.  In its first lifespan a process serves with an open
\* client and a running MCP application, from the first call to the last that
\* anyone waits for.
LifespanInv ==
    /\ TypeOK
    /\ stage = "idle" /\ rounds = 0 => client = "open"
    /\ stage \in {"serving", "draining"} =>
          mcp /\ rounds > 0 /\ (rounds = 1 => client = "open")
    /\ stage = "closing" => client = "closed" /\ rounds > 0
    /\ host = "uvicorn" =>
          /\ stage = "idle" => rounds = 0
          /\ stage \in {"serving", "draining", "closing"} => rounds = 1
          /\ \A c \in Call : Pending(c) => stage \in {"serving", "draining"}
    /\ stage = "closing" => \A c \in Call : ~Pending(c)

\* A lifespan that was entered leaves no client open, whichever calls were under
\* way, and whoever went away before them (combined_lifespan: try, finally).
NoClientLeftOpen == stage = "down" => client # "open"

\* Whoever still waits for a call meets no closed client and no stopped MCP
\* application, unless the process has been through a lifespan before: not in an
\* orderly shutdown, nor in a resumed or replaced process, nor after a lifespan
\* that could not be entered.
FailsOnlyWhenReused ==
    \A c \in Call : call[c] = "failed" /\ ~gone[c] => host = "mangum" /\ rounds = 2

\* docs/mcp/index.md: in stateless mode the next request simply works, whether
\* or not the process was suspended, resumed, or rebuilt in between.
NextRequestWorks == \A c \in Call : call[c] = "failed" => gone[c]

\* Nothing but a call that somebody waits for keeps a shutdown from closing the
\* client and ending the lifespan.
ShutdownEnds ==
    stage \in {"draining", "closing"} ~>
        stage \in {"down", "idle"} \/ \E c \in Call : Pending(c)
=============================================================================
