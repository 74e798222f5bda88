--------------------------- MODULE ResponseChain ---------------------------
(***************************************************************************)
(* The way of a response from pygeoapi to the server, through the          *)
(* middleware that create_app (src/app/main.py) puts on the pygeoapi       *)
(* mount: ForwardedLinksMiddleware (src/app/middleware/proxy.py)           *)
(* innermost, the authentication gate, and OpenapiSecurityMiddleware       *)
(* (src/app/middleware/pygeoapi.py) outermost, for the requests one event  *)
(* loop interleaves.                                                       *)
(*                                                                         *)
(* A response is a start message and then messages with pieces of its      *)
(* body.  ForwardedLinksMiddleware gathers all of them before it sends its *)
(* own; OpenAPIResponder holds the start message back until the body that  *)
(* decides its content-length comes.  Other requests run wherever a        *)
(* message is awaited.                                                     *)
(***************************************************************************)
EXTENDS Naturals

CONSTANTS
    Request, NoContent,   \* as in ResponseStream
    Stacks                \* the middleware a deployment may be given

VARIABLES
    stack,     \* the middleware of this deployment
    ask,       \* what each request asks for
    phase,     \* where each request is
    reply,     \* the response that is being sent for it, and what is left of it
    gathered,  \* the pieces ForwardedLinksMiddleware has read of it
    line,      \* what the server has received for it
    held,      \* the start message an OpenAPIResponder holds back
    sendTo,    \* the request whose send an OpenAPIResponder calls
    headers    \* whose headers the dictionary shared by all responders holds

Promise == INSTANCE ResponseStream WITH
    state <- [r \in Request |->
                 IF phase[r] \in {"idle", "done", "failed"} THEN phase[r] ELSE "open"]

vars == <<stack, ask, phase, reply, gathered, line, held, sendTo, headers>>

Middleware == {"links", "security", "opa"}
ASSUME StacksAssumption ==
    /\ Stacks \subseteq SUBSET Middleware
    /\ \A s \in Stacks : "opa" \in s => "security" \in s
    /\ NoContent \notin Promise!Content

Ask == [doc: BOOLEAN, forwarded: BOOLEAN]

Phase == {"idle", "gate", "app", "gathering", "rewriting", "replying", "closing",
          "done", "failed"}

\* The content whose length the headers announce, the content of the body, the
\* pieces of it still to come, and whether the start message has been sent.
Reply == [head: Promise!Content, body: Promise!Content, left: 0..Promise!MaxPieces,
          begun: BOOLEAN, split: BOOLEAN]

NoReply == [head |-> NoContent, body |-> NoContent, left |-> 0,
            begun |-> FALSE, split |-> FALSE]

\* A response whose body comes in one message, or in one for each piece.
Whole(head, body, n) ==
    [head |-> head, body |-> body, left |-> n, begun |-> FALSE, split |-> FALSE]
Pieces(c, n) ==
    [head |-> c, body |-> c, left |-> n, begun |-> FALSE, split |-> TRUE]

\* What pygeoapi or the gate may say to r.
Fresh(r, kind, links) ==
    [from |-> r, kind |-> kind, links |-> links, secured |-> FALSE]

Init ==
    /\ stack \in Stacks
    /\ ask = [r \in Request |-> [doc |-> FALSE, forwarded |-> FALSE]]
    /\ phase = [r \in Request |-> "idle"]
    /\ reply = [r \in Request |-> NoReply]
    /\ gathered = [r \in Request |-> 0]
    /\ line = [r \in Request |-> Promise!Quiet]
    /\ held = [r \in Request |-> Promise!Quiet]
    /\ sendTo = [r \in Request |-> r]
    /\ headers = NoContent

Goto(r, p) == phase' = [phase EXCEPT ![r] = p]

\* The server gets the start message of a response,
Started(l, head, n) ==
    IF l.at = "quiet" THEN Promise!Open(head, n) ELSE [l EXCEPT !.at = "broken"]

\* or n pieces of a body.
Extended(l, body, n, last) ==
    IF /\ l.at = "open"
       /\ l.c = body
       /\ n <= l.due
       /\ last <=> n = l.due
    THEN [at |-> IF last THEN "complete" ELSE "open", c |-> body, due |-> l.due - n]
    ELSE [l EXCEPT !.at = "broken"]

\* The pieces in the next message of the body, and whether it is the last.
Burst(r) == IF reply[r].split THEN 1 ELSE reply[r].left
Last(r) == Burst(r) = reply[r].left

-----------------------------------------------------------------------------
\* (Slip) one responder, made with the middleware, serves every request.
ResponderOfAll(r) == CHOOSE x \in Request : TRUE

\* OpenapiSecurityMiddleware makes an OpenAPIResponder for each request.
ResponderOf(r) == r

\* OpenapiSecurityMiddleware.__call__ intercepts what is asked of .../openapi,
\* with whatever method.
Secures(r) == "security" \in stack /\ ask[r].doc

\* A request comes.
Receive(r) ==
    /\ phase[r] = "idle"
    /\ \E a \in Ask :
          /\ ask' = [ask EXCEPT ![r] = a]
          /\ sendTo' = IF "security" \in stack /\ a.doc
                       THEN [sendTo EXCEPT ![ResponderOf(r)] = r]
                       ELSE sendTo
    /\ Goto(r, "gate")
    /\ UNCHANGED <<stack, reply, gathered, line, held, headers>>

\* The gate lets it through,
Pass(r) ==
    /\ phase[r] = "gate"
    /\ Goto(r, "app")
    /\ UNCHANGED <<stack, ask, reply, gathered, line, held, sendTo, headers>>

\* or answers itself: with an error, or a redirect to the identity provider.
\* Two of the gates leave .../openapi alone, OPA's does not.
Refuse(r) ==
    /\ phase[r] = "gate"
    /\ "security" \in stack
    /\ ask[r].doc => "opa" \in stack
    /\ \E kind \in {"plain", "bare"} :
          LET c == Fresh(r, kind, "none") IN
          reply' = [reply EXCEPT ![r] = Whole(c, c, 1)]
    /\ Goto(r, "replying")
    /\ UNCHANGED <<stack, ask, gathered, line, held, sendTo, headers>>

\* get_response or a static route answers; only files come in pieces.
Answer(r) ==
    /\ phase[r] = "app"
    /\ \E kind \in (IF ask[r].doc THEN {"document", "marked", "page", "plain"}
                                  ELSE {"plain", "file", "bare"}),
          n \in 1..Promise!MaxPieces :
          LET c == Fresh(r, kind, IF kind = "bare" THEN "none" ELSE "internal") IN
          /\ n > 1 => kind = "file"
          /\ reply' = [reply EXCEPT ![r] = Pieces(c, n)]
    /\ Goto(r, IF "links" \in stack THEN "gathering" ELSE "replying")
    /\ UNCHANGED <<stack, ask, gathered, line, held, sendTo, headers>>

\* pygeoapi raises, in the executor thread.
Raise(r) ==
    /\ phase[r] = "app"
    /\ Goto(r, "failed")
    /\ UNCHANGED <<stack, ask, reply, gathered, line, held, sendTo, headers>>

\* A file cannot be read to its end.
Break(r) ==
    /\ phase[r] \in {"gathering", "replying"}
    /\ reply[r].body.kind = "file"
    /\ reply[r].split
    /\ Goto(r, "failed")
    /\ UNCHANGED <<stack, ask, reply, gathered, line, held, sendTo, headers>>

-----------------------------------------------------------------------------
\* ForwardedLinksMiddleware.dispatch reads the body to its end,
Gather(r) ==
    /\ phase[r] = "gathering"
    /\ gathered' = [gathered EXCEPT ![r] = @ + Burst(r)]
    /\ reply' = [reply EXCEPT ![r].left = @ - Burst(r)]
    /\ IF Last(r) THEN Goto(r, "rewriting") ELSE UNCHANGED phase
    /\ UNCHANGED <<stack, ask, line, held, sendTo, headers>>

\* The media types whose bodies it rewrites,
Listed == {"document", "marked", "page", "plain"}

\* with the base URL of the proxy that forwarded the request,
Rewritten(r) ==
    IF ask[r].forwarded /\ reply[r].body.kind \in Listed
    THEN [reply[r].body EXCEPT !.links = "public"]
    ELSE reply[r].body

\* (Slip) the headers are those of the response it read, length included.
RelayedWithInnerLength(r) == Whole(reply[r].head, Rewritten(r), gathered[r])

\* and sends them as one message, with a content-length of their own.
Relayed(r) == Whole(Rewritten(r), Rewritten(r), gathered[r])

Rewrite(r) ==
    /\ phase[r] = "rewriting"
    /\ ask[r].forwarded => reply[r].body.kind # "bare"
    /\ reply' = [reply EXCEPT ![r] = Relayed(r)]
    /\ Goto(r, "replying")
    /\ UNCHANGED <<stack, ask, gathered, line, held, sendTo, headers>>

\* response_.headers["content-type"]: a redirect has none.
RewriteFails(r) ==
    /\ phase[r] = "rewriting"
    /\ ask[r].forwarded
    /\ reply[r].body.kind = "bare"
    /\ Goto(r, "failed")
    /\ UNCHANGED <<stack, ask, reply, gathered, line, held, sendTo, headers>>

-----------------------------------------------------------------------------
\* Without a responder in the way the messages go straight to the server.
SendStart(r) ==
    /\ phase[r] = "replying"
    /\ ~Secures(r)
    /\ ~reply[r].begun
    /\ reply' = [reply EXCEPT ![r].begun = TRUE]
    /\ line' = [line EXCEPT ![r] = Started(@, reply[r].head, reply[r].left)]
    /\ UNCHANGED <<stack, ask, phase, gathered, held, sendTo, headers>>

SendBody(r) ==
    /\ phase[r] = "replying"
    /\ ~Secures(r)
    /\ reply[r].begun
    /\ reply' = [reply EXCEPT ![r].left = @ - Burst(r)]
    /\ line' = [line EXCEPT ![r] = Extended(@, reply[r].body, Burst(r), Last(r))]
    /\ IF Last(r) THEN Goto(r, "done") ELSE UNCHANGED phase
    /\ UNCHANGED <<stack, ask, gathered, held, sendTo, headers>>

-----------------------------------------------------------------------------
\* send_with_security keeps the start message, and copies its headers into a
\* dictionary that is the default argument of all responders.
HoldStart(r) ==
    /\ phase[r] = "replying"
    /\ Secures(r)
    /\ ~reply[r].begun
    /\ reply' = [reply EXCEPT ![r].begun = TRUE]
    /\ held' = [held EXCEPT ![ResponderOf(r)] = Promise!Open(reply[r].head, reply[r].left)]
    /\ headers' = reply[r].head
    /\ UNCHANGED <<stack, ask, phase, gathered, line, sendTo>>

\* A message with a piece of the body is there for the responder.
Holds(r) ==
    /\ phase[r] = "replying"
    /\ Secures(r)
    /\ reply[r].begun

\* The start message, with the length of c, goes before the body.
Release(r, c) ==
    LET x == ResponderOf(r) IN
    /\ reply' = [reply EXCEPT ![r].head = c, ![r].body = c]
    /\ held' = [held EXCEPT ![x].c = c]
    /\ line' = [line EXCEPT ![sendTo[x]] = Started(@, c, held[x].due)]
    /\ Goto(r, "closing")

\* The bodies send_with_security finds its marker in, documents among them.
Marked == {"page", "marked"}

\* augment_security on the document that came.
Secured(r) == [reply[r].body EXCEPT !.secured = TRUE]

\* (Slip) the length is that of the headers in the shared dictionary.
SecureFromHeaders(r) ==
    /\ Holds(r)
    /\ reply[r].body.kind = "document"
    /\ LET x == ResponderOf(r) IN
       /\ reply' = [reply EXCEPT ![r].body = Secured(r)]
       /\ line' = [line EXCEPT ![sendTo[x]] =
                      Started(@, [headers EXCEPT !.secured = TRUE], held[x].due)]
       /\ held' = [held EXCEPT ![x].c = headers]
    /\ Goto(r, "closing")
    /\ UNCHANGED <<stack, ask, gathered, sendTo, headers>>

\* A body without the marker of an HTML page is taken for a document.
SecureDocument(r) ==
    /\ Holds(r)
    /\ reply[r].body.kind = "document"
    /\ Release(r, Secured(r))
    /\ UNCHANGED <<stack, ask, gathered, sendTo, headers>>

\* (Slip) the two sends are indented into the branch of the documents.
SwallowPage(r) ==
    /\ Holds(r)
    /\ reply[r].body.kind \in Marked
    /\ reply' = [reply EXCEPT ![r].left = @ - Burst(r)]
    /\ UNCHANGED <<stack, ask, phase, gathered, line, held, sendTo, headers>>

\* (Slip) the marker is one that every document has, such as "<".
PassLoose(r) ==
    /\ Holds(r)
    /\ reply[r].body.kind \in Marked \cup {"document"}
    /\ Release(r, reply[r].body)
    /\ UNCHANGED <<stack, ask, gathered, sendTo, headers>>

\* A body with the marker stays as it is, whether it is a page or a document.
PassPage(r) ==
    /\ Holds(r)
    /\ reply[r].body.kind \in Marked
    /\ Release(r, reply[r].body)
    /\ UNCHANGED <<stack, ask, gathered, sendTo, headers>>

\* Any other body is no document: ValidationError, raised out of the send.
RejectBody(r) ==
    /\ Holds(r)
    /\ reply[r].body.kind \notin {"document"} \cup Marked
    /\ Goto(r, "failed")
    /\ UNCHANGED <<stack, ask, reply, gathered, line, held, sendTo, headers>>

\* The message itself; before a next one the start message would go again.
SendHeldBody(r) ==
    /\ phase[r] = "closing"
    /\ reply' = [reply EXCEPT ![r].left = @ - Burst(r)]
    /\ line' = [line EXCEPT ![sendTo[ResponderOf(r)]] =
                   Extended(@, reply[r].body, Burst(r), Last(r))]
    /\ Goto(r, IF Last(r) THEN "done" ELSE "replying")
    /\ UNCHANGED <<stack, ask, gathered, held, sendTo, headers>>

\* The exchange is over, and its responder with it.
Leave(r) ==
    /\ phase[r] \in {"done", "failed"}
    /\ ask' = [ask EXCEPT ![r] = [doc |-> FALSE, forwarded |-> FALSE]]
    /\ reply' = [reply EXCEPT ![r] = NoReply]
    /\ gathered' = [gathered EXCEPT ![r] = 0]
    /\ line' = [line EXCEPT ![r] = Promise!Quiet]
    /\ held' = [held EXCEPT ![ResponderOf(r)] = Promise!Quiet]
    /\ Goto(r, "idle")
    /\ UNCHANGED <<stack, sendTo, headers>>

Secure(r) == HoldStart(r) \/ SecureDocument(r) \/ PassPage(r) \/ RejectBody(r)
                \/ SendHeldBody(r)

Relay(r) == Gather(r) \/ Rewrite(r) \/ RewriteFails(r) \/ SendStart(r) \/ SendBody(r)
                \/ Secure(r)

Next ==
    \E r \in Request :
        \/ Receive(r) \/ Pass(r) \/ Refuse(r)
        \/ Answer(r) \/ Raise(r) \/ Break(r)
        \/ Relay(r)
        \/ Leave(r)

Spec == Init /\ [][Next]_vars

\* The event loop resumes every coroutine, as long as the server takes what it
\* is sent.  pygeoapi's thread may take as long as it likes.
FairSpec == Spec /\ \A r \in Request : WF_vars(Relay(r))

-----------------------------------------------------------------------------
TypeOK ==
    /\ stack \in Stacks
    /\ ask \in [Request -> Ask]
    /\ phase \in [Request -> Phase]
    /\ reply \in [Request -> Reply \cup {NoReply}]
    /\ gathered \in [Request -> 0..Promise!MaxPieces]
    /\ line \in [Request -> Promise!Line]
    /\ held \in [Request -> Promise!Line]
    /\ sendTo \in [Request -> Request]
    /\ headers \in Promise!Content \cup {NoContent}

Documents == {"document", "marked"}

\* The response in r's hands answers r, and a document only an Ask for it.
OwnReply(r) ==
    /\ reply[r] \in Reply
    /\ reply[r].head = reply[r].body
    /\ reply[r].body.from = r
    /\ ask[r].doc => reply[r].body.kind # "file"
    /\ reply[r].body.kind \in Documents => ask[r].doc

\* Only a file has more than one piece, before and after it is gathered.
PiecesLeft(r) ==
    /\ reply[r].left + gathered[r] \in 1..Promise!MaxPieces
    /\ reply[r].body.kind # "file" => reply[r].left + gathered[r] = 1

\* The message a reply is about to send, and what has been sent before it.
Replying(r) ==
    /\ reply[r].left \in 1..Promise!MaxPieces
    /\ reply[r].body.kind # "file" => reply[r].left = 1
    /\ IF reply[r].begun /\ ~Secures(r)
       THEN line[r] = Promise!Open(reply[r].body, reply[r].left)
       ELSE line[r] = Promise!Quiet
    /\ reply[r].begun /\ Secures(r) =>
          held[r] = Promise!Open(reply[r].head, reply[r].left)

\* Every body of a rewritten media type has been rewritten by then.
PublicLinks(r) ==
    "links" \in stack /\ ask[r].forwarded /\ reply[r].body.kind \in Listed =>
        reply[r].body.links # "internal"

\* Where r is, together with what has been sent and what is still to be sent.
Coherent(r) ==
    /\ sendTo[r] = r
    /\ phase[r] \in {"idle", "gate", "app", "gathering", "rewriting"} =>
          line[r] = Promise!Quiet
    /\ phase[r] \in {"idle", "gate", "app"} => gathered[r] = 0
    /\ phase[r] \in {"gathering", "rewriting"} =>
          /\ OwnReply(r)
          /\ PiecesLeft(r)
          /\ (phase[r] = "gathering" <=> reply[r].left # 0)
    /\ phase[r] \in {"replying", "closing"} => OwnReply(r) /\ PublicLinks(r)
    /\ phase[r] = "replying" => Replying(r)
    /\ phase[r] = "closing" =>
          /\ Secures(r)
          /\ reply[r].left = 1
          /\ line[r] = Promise!Open(reply[r].body, 1)
    /\ phase[r] = "done" => line[r].at = "complete"
    /\ phase[r] = "failed" =>
          line[r].at = "quiet" \/ (line[r].at = "open" /\ line[r].c.kind = "file")

\* The head sent to the server is that of the body sent after it, at every point
\* where another request may run (send_with_security, dispatch).
ResponseInv == TypeOK /\ \A r \in Request : Coherent(r)

\* Wherever the security middleware is installed, a client that gets pygeoapi's
\* OpenAPI document without the security sections gets one whose text has the
\* marker of an HTML page, whichever middleware rewrote it on the way and
\* whatever other requests ran (send_with_security).
SecuredDocuments ==
    \A r \in Request :
        /\ "security" \in stack /\ line[r].at # "quiet"
        /\ line[r].c.kind \in Documents /\ ~line[r].c.secured
        => line[r].c.kind \in Marked

\* README.md:55: Auto-generated, security-enhanced OpenAPI specifications.
DocumentsEnhanced ==
    \A r \in Request :
        "security" \in stack /\ line[r].at # "quiet" /\ line[r].c.kind \in Documents =>
            line[r].c.secured

\* Behind a proxy that forwards its own address, no text of a rewritten media
\* type leaves with a link to the internal base URL (ForwardedLinksMiddleware).
NoInternalLinks ==
    \A r \in Request :
        "links" \in stack /\ ask[r].forwarded /\ line[r].at # "quiet" =>
            (line[r].c.kind \in Listed => line[r].c.links # "internal")

UnderWay == {"gathering", "rewriting", "replying", "closing"}

\* A response that pygeoapi or the gate has begun reaches the server whole, or
\* the request fails: no middleware keeps what it gathers or holds back.
Delivered ==
    \A r \in Request :
        phase[r] \in UnderWay ~>
            \/ phase[r] = "done" /\ line[r].at = "complete"
            \/ phase[r] = "failed"

\* How many messages the middleware still reads, holds or sends at most.
MessagesLeft(r) ==
    IF phase[r] = "gathering" THEN 2 * gathered[r] + 3 * reply[r].left + 2
    ELSE IF phase[r] = "rewriting" THEN 2 * gathered[r] + 2
    ELSE IF phase[r] = "closing" THEN 2 * reply[r].left - 1
    ELSE 2 * reply[r].left + (IF reply[r].begun THEN 0 ELSE 1)

\* A response under way has a message left to send, every step with it leaves
\* fewer, and no other request's step changes it: no middleware sends, gathers or
\* holds back the same piece for ever.
ComesToItsEnd ==
    [][\A r \in Request : phase[r] \in UnderWay =>
          /\ MessagesLeft(r) > 0
          /\ \/ phase'[r] \in {"done", "failed"}
             \/ phase'[r] \in UnderWay /\ MessagesLeft(r)' < MessagesLeft(r)
             \/ UNCHANGED <<phase[r], reply[r], gathered[r]>>]_vars

\* Through every stack the server sees what ResponseStream allows: one start
\* message that is true of the body after it, no piece of another response.
Streams == Promise!Spec
=============================================================================
