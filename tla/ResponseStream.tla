--------------------------- MODULE ResponseStream ---------------------------
(***************************************************************************)
(* What the server may see of a response, whatever middleware it came      *)
(* through: one start message, whose content-length is that of the body    *)
(* that follows, then that body and no other request's.  A response that   *)
(* fails has sent nothing yet, so that an error can be answered instead;   *)
(* only a file that is streamed piece by piece may break off.              *)
(***************************************************************************)
EXTENDS Naturals

CONSTANTS
    Request,     \* requests in flight in one event loop
    NoContent    \* stands for the content of a response not begun

Kind == {
    "document",  \* pygeoapi's OpenAPI document
    "marked",    \* such a document with the marker of a page in its text
    "page",      \* an HTML page with the marker of Swagger's distribution
    "plain",     \* another text of a rewritten media type, such as an error
    "file",      \* a media type that is not rewritten
    "bare"}      \* a redirect: no content-type, no body to speak of

\* A body, by what the middleware tells apart: whose answer it is, the base
\* URL its links carry, and whether it has the security sections.  Different
\* contents have different lengths.
Content == [from: Request, kind: Kind,
            links: {"none", "internal", "public"}, secured: BOOLEAN]

\* The largest number of pieces a body is sent in.
MaxPieces == 2

\* What the server has received for a request: nothing, the head of a response
\* with some pieces due, all of them, or something that is no response.
Line == [at: {"quiet", "open", "complete", "broken"},
         c: Content \cup {NoContent}, due: 0..MaxPieces]

Quiet == [at |-> "quiet", c |-> NoContent, due |-> 0]
Open(c, n) == [at |-> "open", c |-> c, due |-> n]
Complete(c) == [at |-> "complete", c |-> c, due |-> 0]

VARIABLES
    line,    \* what the server has received for each request
    state    \* what has become of each request

vars == <<line, state>>

Init ==
    /\ line = [r \in Request |-> Quiet]
    /\ state = [r \in Request |-> "idle"]

Enter(r, s) == state' = [state EXCEPT ![r] = s]

Receive(r) ==
    /\ state[r] = "idle"
    /\ Enter(r, "open")
    /\ UNCHANGED line

\* The start message, with the length of a body for this request.
Begin(r) ==
    /\ state[r] = "open"
    /\ line[r].at = "quiet"
    /\ \E c \in Content, n \in 1..MaxPieces :
          /\ c.from = r
          /\ line' = [line EXCEPT ![r] = Open(c, n)]
    /\ UNCHANGED state

\* Some of the pieces that are due,
Continue(r) ==
    /\ state[r] = "open"
    /\ line[r].at = "open"
    /\ \E n \in 1..MaxPieces :
          /\ n < line[r].due
          /\ line' = [line EXCEPT ![r].due = @ - n]
    /\ UNCHANGED state

\* or all of them.
End(r) ==
    /\ state[r] = "open"
    /\ line[r].at = "open"
    /\ line' = [line EXCEPT ![r] = Complete(@.c)]
    /\ Enter(r, "done")

Fail(r) ==
    /\ state[r] = "open"
    /\ line[r].at = "open" => line[r].c.kind = "file"
    /\ Enter(r, "failed")
    /\ UNCHANGED line

Leave(r) ==
    /\ state[r] \in {"done", "failed"}
    /\ Enter(r, "idle")
    /\ line' = [line EXCEPT ![r] = Quiet]

Next ==
    \E r \in Request :
        Receive(r) \/ Begin(r) \/ Continue(r) \/ End(r) \/ Fail(r) \/ Leave(r)

Spec == Init /\ [][Next]_vars
=============================================================================
