------------------------ MODULE ResponseChainProofs ------------------------
(***************************************************************************)
(* Theorems about ResponseChain for any set of requests and of stacks: the *)
(* invariant, what a client may read out of it, and the refinement of      *)
(* ResponseStream.                                                         *)
(***************************************************************************)
EXTENDS ResponseChain, TLAPS

USE StacksAssumption DEF Marked, Documents, Listed

\* Initially nothing is under way.
LEMMA ResponseInit == Init => ResponseInv
  BY DEF Init, ResponseInv, TypeOK, Coherent, Ask, Phase, NoReply,
         Promise!Quiet, Promise!Line, Promise!MaxPieces

\* A step of r that leaves every other request as it was keeps their invariant.
LEMMA Framed ==
  ASSUME ResponseInv, TypeOK', NEW r \in Request, Coherent(r)', stack' = stack,
         \A q \in Request \ {r} :
             /\ ask'[q] = ask[q] /\ phase'[q] = phase[q]
             /\ reply'[q] = reply[q] /\ gathered'[q] = gathered[q]
             /\ line'[q] = line[q] /\ held'[q] = held[q] /\ sendTo'[q] = sendTo[q]
  PROVE  ResponseInv'
<1> SUFFICES ASSUME NEW q \in Request, q # r PROVE Coherent(q)'
    BY DEF ResponseInv
<1>1. Coherent(q)
    BY DEF ResponseInv
<1> QED
    BY <1>1 DEF Coherent, OwnReply, PiecesLeft, PublicLinks, Replying, Secures

\* One lemma for each action: it keeps the invariant of every request.
LEMMA KeepsReceive ==
  ASSUME ResponseInv, NEW r \in Request, Receive(r) PROVE ResponseInv'
<1>1. TypeOK'
    BY DEF ResponseInv, TypeOK, Receive, Goto, ResponderOf, Phase
<1>2. Coherent(r)'
    BY DEF ResponseInv, TypeOK, Coherent, Receive, Goto, ResponderOf, Phase
<1> QED
    BY <1>1, <1>2, Framed DEF ResponseInv, TypeOK, Receive, Goto, ResponderOf

LEMMA KeepsPass ==
  ASSUME ResponseInv, NEW r \in Request, Pass(r) PROVE ResponseInv'
<1>1. TypeOK'
    BY DEF ResponseInv, TypeOK, Pass, Goto, Phase
<1>2. Coherent(r)'
    BY DEF ResponseInv, TypeOK, Coherent, Pass, Goto
<1> QED
    BY <1>1, <1>2, Framed DEF ResponseInv, TypeOK, Pass, Goto

\* What comes from pygeoapi or from the gate is r's own.
LEMMA FreshContent ==
  ASSUME NEW r \in Request, NEW kind \in Promise!Kind, NEW links \in {"none", "internal"}
  PROVE  LET c == Fresh(r, kind, links) IN
         c \in Promise!Content /\ c.from = r /\ c.kind = kind /\ c.links = links
  BY DEF Fresh, Promise!Content

\* A reply that begins is made of one content, in n pieces.
LEMMA WholeReply ==
  ASSUME NEW c \in Promise!Content, NEW n \in 0..Promise!MaxPieces
  PROVE  /\ Whole(c, c, n) \in Reply
         /\ Whole(c, c, n).head = c /\ Whole(c, c, n).body = c
         /\ Whole(c, c, n).left = n /\ Whole(c, c, n).begun = FALSE
  BY DEF Whole, Reply

LEMMA PiecesReply ==
  ASSUME NEW c \in Promise!Content, NEW n \in 0..Promise!MaxPieces
  PROVE  /\ Pieces(c, n) \in Reply
         /\ Pieces(c, n).head = c /\ Pieces(c, n).body = c
         /\ Pieces(c, n).left = n /\ Pieces(c, n).begun = FALSE
  BY DEF Pieces, Reply

LEMMA KeepsRefuse ==
  ASSUME ResponseInv, NEW r \in Request, Refuse(r) PROVE ResponseInv'
<1> PICK kind \in {"plain", "bare"} :
        LET c == Fresh(r, kind, "none") IN
        reply' = [reply EXCEPT ![r] = Whole(c, c, 1)]
    BY DEF Refuse
<1> DEFINE c == Fresh(r, kind, "none")
<1>0. c \in Promise!Content /\ c.from = r /\ c.kind = kind /\ c.links = "none"
    BY FreshContent DEF Promise!Kind
<1>1. reply' = [reply EXCEPT ![r] = Whole(c, c, 1)]
    OBVIOUS
<1> HIDE DEF c
<1>2. 1 \in 0..Promise!MaxPieces
    BY DEF Promise!MaxPieces
<1>2a. /\ Whole(c, c, 1) \in Reply
       /\ Whole(c, c, 1).head = c /\ Whole(c, c, 1).body = c
       /\ Whole(c, c, 1).left = 1 /\ Whole(c, c, 1).begun = FALSE
    BY ONLY <1>0, <1>2, WholeReply
<1>3. TypeOK'
    BY <1>1, <1>2a DEF ResponseInv, TypeOK, Refuse, Goto, Phase
<1>4. /\ phase'[r] = "replying" /\ reply'[r] = Whole(c, c, 1)
      /\ UNCHANGED <<stack, ask, gathered, line, held, sendTo>>
    BY <1>1 DEF ResponseInv, TypeOK, Refuse, Goto
<1>5. /\ reply'[r].head = c /\ reply'[r].body = c /\ reply'[r].left = 1
      /\ reply'[r].begun = FALSE
    BY <1>2a, <1>4
<1>6. sendTo[r] = r /\ line[r] = Promise!Quiet
    BY DEF ResponseInv, Coherent, Refuse
<1>7. OwnReply(r)' /\ PublicLinks(r)'
    BY <1>0, <1>2a, <1>4, <1>5 DEF OwnReply, PublicLinks
<1>8. Replying(r)'
    BY <1>4, <1>5, <1>6 DEF Replying, Promise!MaxPieces
<1>9. Coherent(r)'
    BY <1>4, <1>6, <1>7, <1>8 DEF Coherent
<1> QED
    BY <1>3, <1>4, <1>9, Framed DEF ResponseInv, TypeOK, Refuse, Goto

LEMMA KeepsAnswer ==
  ASSUME ResponseInv, NEW r \in Request, Answer(r) PROVE ResponseInv'
<1> PICK kind \in (IF ask[r].doc THEN {"document", "marked", "page", "plain"}
                                 ELSE {"plain", "file", "bare"}),
         n \in 1..Promise!MaxPieces :
         LET c == Fresh(r, kind, IF kind = "bare" THEN "none" ELSE "internal") IN
         /\ n > 1 => kind = "file"
         /\ reply' = [reply EXCEPT ![r] = Pieces(c, n)]
    BY DEF Answer
<1> DEFINE c == Fresh(r, kind, IF kind = "bare" THEN "none" ELSE "internal")
<1>0. c \in Promise!Content /\ c.from = r /\ c.kind = kind
    BY FreshContent DEF Promise!Kind
<1>1. /\ reply' = [reply EXCEPT ![r] = Pieces(c, n)]
      /\ n > 1 => kind = "file"
    OBVIOUS
<1> HIDE DEF c
<1>2. n \in 0..Promise!MaxPieces
    BY DEF Promise!MaxPieces
<1>2a. /\ Pieces(c, n) \in Reply
       /\ Pieces(c, n).head = c /\ Pieces(c, n).body = c
       /\ Pieces(c, n).left = n /\ Pieces(c, n).begun = FALSE
    BY ONLY <1>0, <1>2, PiecesReply
<1>3. TypeOK'
    BY <1>1, <1>2a DEF ResponseInv, TypeOK, Answer, Goto, Phase
<1>4. /\ phase'[r] = (IF "links" \in stack THEN "gathering" ELSE "replying")
      /\ reply'[r] = Pieces(c, n)
      /\ UNCHANGED <<stack, ask, gathered, line, held, sendTo>>
    BY <1>1 DEF ResponseInv, TypeOK, Answer, Goto
<1>5. /\ reply'[r].head = c /\ reply'[r].body = c /\ reply'[r].left = n
      /\ reply'[r].begun = FALSE
    BY <1>2a, <1>4
<1>6. sendTo[r] = r /\ line[r] = Promise!Quiet /\ gathered[r] = 0
    BY DEF ResponseInv, Coherent, Answer
<1>7. OwnReply(r)' /\ (~("links" \in stack) => PublicLinks(r)')
    BY <1>0, <1>2a, <1>4, <1>5 DEF OwnReply, PublicLinks
<1>8. Replying(r)' /\ PiecesLeft(r)' /\ reply'[r].left # 0
    BY <1>0, <1>1, <1>4, <1>5, <1>6 DEF Replying, PiecesLeft, Promise!MaxPieces
<1>9. Coherent(r)'
    BY <1>4, <1>6, <1>7, <1>8 DEF Coherent
<1> QED
    BY <1>3, <1>4, <1>9, Framed DEF ResponseInv, TypeOK, Answer, Goto

LEMMA KeepsRaise ==
  ASSUME ResponseInv, NEW r \in Request, Raise(r) PROVE ResponseInv'
<1>1. TypeOK'
    BY DEF ResponseInv, TypeOK, Raise, Goto, Phase
<1>2. Coherent(r)'
    BY DEF ResponseInv, TypeOK, Coherent, Raise, Goto, Promise!Quiet
<1> QED
    BY <1>1, <1>2, Framed DEF ResponseInv, TypeOK, Raise, Goto

LEMMA KeepsBreak ==
  ASSUME ResponseInv, NEW r \in Request, Break(r) PROVE ResponseInv'
<1>1. TypeOK'
    BY DEF ResponseInv, TypeOK, Break, Goto, Phase
<1>2. sendTo[r] = r /\ (line[r] = Promise!Quiet \/
                        line[r] = Promise!Open(reply[r].body, reply[r].left))
    BY DEF ResponseInv, Coherent, Break, Replying
<1>2a. line[r].at = "quiet" \/ (line[r].at = "open" /\ line[r].c.kind = "file")
    BY <1>2 DEF Break, Promise!Quiet, Promise!Open
<1>3. Coherent(r)'
    BY <1>2, <1>2a DEF ResponseInv, TypeOK, Coherent, Break, Goto
<1> QED
    BY <1>1, <1>3, Framed DEF ResponseInv, TypeOK, Break, Goto

LEMMA KeepsGather ==
  ASSUME ResponseInv, NEW r \in Request, Gather(r) PROVE ResponseInv'
<1>1. reply[r] \in Reply /\ OwnReply(r) /\ PiecesLeft(r) /\ reply[r].left # 0
      /\ sendTo[r] = r /\ line[r] = Promise!Quiet /\ phase[r] = "gathering"
    BY DEF ResponseInv, Coherent, Gather, OwnReply
<1>2. Burst(r) \in 1..reply[r].left /\ (Last(r) <=> reply[r].left - Burst(r) = 0)
      /\ gathered[r] \in 0..2 /\ reply[r].left \in 1..2
      /\ gathered[r] + reply[r].left \in 1..2
    BY <1>1 DEF ResponseInv, TypeOK, Burst, Last, PiecesLeft, Reply, Promise!MaxPieces
<1> DEFINE rr == [reply[r] EXCEPT !.left = @ - Burst(r)]
<1>3. rr \in Reply /\ rr.left = reply[r].left - Burst(r)
      /\ rr.head = reply[r].head /\ rr.body = reply[r].body
    BY <1>1, <1>2 DEF Reply, Promise!MaxPieces
<1>4. /\ reply'[r] = rr /\ gathered'[r] = gathered[r] + Burst(r)
      /\ phase'[r] = IF Last(r) THEN "rewriting" ELSE "gathering"
      /\ UNCHANGED <<stack, ask, line, held, sendTo>>
    BY <1>1 DEF ResponseInv, TypeOK, Gather, Goto
<1>5. TypeOK'
    BY <1>1, <1>2, <1>3 DEF ResponseInv, TypeOK, Gather, Goto, Phase, Promise!MaxPieces
<1>6. OwnReply(r)' /\ PiecesLeft(r)'
    BY <1>1, <1>2, <1>3, <1>4 DEF OwnReply, PiecesLeft, Promise!MaxPieces
<1>7. phase'[r] = "gathering" <=> reply'[r].left # 0
    BY <1>2, <1>3, <1>4
<1>8. Coherent(r)'
    BY <1>1, <1>4, <1>6, <1>7 DEF Coherent
<1> QED
    BY <1>5, <1>8, Framed DEF ResponseInv, TypeOK, Gather, Goto

LEMMA KeepsRewrite ==
  ASSUME ResponseInv, NEW r \in Request, Rewrite(r) PROVE ResponseInv'
<1> DEFINE c == Rewritten(r)
<1>1. /\ reply[r] \in Reply /\ OwnReply(r) /\ PiecesLeft(r) /\ reply[r].left = 0
      /\ sendTo[r] = r /\ line[r] = Promise!Quiet
    BY DEF ResponseInv, Coherent, Rewrite, OwnReply
<1>2. gathered[r] \in 1..2 /\ gathered[r] \in 0..Promise!MaxPieces
      /\ (reply[r].body.kind # "file" => gathered[r] = 1)
    BY <1>1 DEF ResponseInv, TypeOK, PiecesLeft, Promise!MaxPieces
<1>3. reply[r].body \in Promise!Content /\ reply[r].body.from = r
    BY <1>1 DEF Reply, OwnReply
<1>4. /\ c \in Promise!Content /\ c.from = r /\ c.kind = reply[r].body.kind
      /\ ask[r].forwarded /\ c.kind \in Listed => c.links = "public"
    BY <1>3 DEF Rewritten, Promise!Content
<1>5. reply' = [reply EXCEPT ![r] = Whole(c, c, gathered[r])]
    BY DEF Rewrite, Relayed
<1> HIDE DEF c
<1>6. /\ Whole(c, c, gathered[r]) \in Reply
      /\ Whole(c, c, gathered[r]).head = c /\ Whole(c, c, gathered[r]).body = c
      /\ Whole(c, c, gathered[r]).left = gathered[r]
      /\ Whole(c, c, gathered[r]).begun = FALSE
    BY <1>2, <1>4, WholeReply
<1>7. TypeOK'
    BY <1>5, <1>6 DEF ResponseInv, TypeOK, Rewrite, Goto, Phase
<1>8. /\ phase'[r] = "replying" /\ reply'[r] = Whole(c, c, gathered[r])
      /\ UNCHANGED <<stack, ask, gathered, line, held, sendTo>>
    BY <1>5 DEF ResponseInv, TypeOK, Rewrite, Goto
<1>9. OwnReply(r)' /\ PublicLinks(r)'
    BY <1>1, <1>4, <1>6, <1>8 DEF OwnReply, PublicLinks
<1>10. Replying(r)'
    BY <1>1, <1>2, <1>4, <1>6, <1>8 DEF Replying, Promise!MaxPieces
<1>11. Coherent(r)'
    BY <1>1, <1>8, <1>9, <1>10 DEF Coherent
<1> QED
    BY <1>7, <1>8, <1>11, <1>5, Framed DEF ResponseInv, TypeOK, Rewrite, Goto

LEMMA KeepsRewriteFails ==
  ASSUME ResponseInv, NEW r \in Request, RewriteFails(r) PROVE ResponseInv'
<1>1. TypeOK'
    BY DEF ResponseInv, TypeOK, RewriteFails, Goto, Phase
<1>2. Coherent(r)'
    BY DEF ResponseInv, TypeOK, Coherent, RewriteFails, Goto, Promise!Quiet
<1> QED
    BY <1>1, <1>2, Framed DEF ResponseInv, TypeOK, RewriteFails, Goto

\* What a reply is, wherever there is still something to send of it.
LEMMA Sending ==
  ASSUME ResponseInv, NEW r \in Request, phase[r] \in {"replying", "closing"}
  PROVE  /\ reply[r] \in Reply /\ reply[r].head = reply[r].body
         /\ reply[r].body \in Promise!Content /\ reply[r].left \in 1..Promise!MaxPieces
         /\ OwnReply(r) /\ PublicLinks(r) /\ sendTo[r] = r
         /\ phase[r] = "replying" => Replying(r)
  BY DEF ResponseInv, Coherent, OwnReply, Replying, Reply, Promise!MaxPieces

\* Marking the start message as sent changes nothing else of the reply.
LEMMA BegunReply ==
  ASSUME NEW x \in Reply
  PROVE  LET y == [x EXCEPT !.begun = TRUE] IN
         /\ y \in Reply /\ y.head = x.head /\ y.body = x.body
         /\ y.left = x.left /\ y.begun = TRUE /\ y.split = x.split
  BY DEF Reply

LEMMA KeepsSendStart ==
  ASSUME ResponseInv, NEW r \in Request, SendStart(r) PROVE ResponseInv'
<1> DEFINE y == [reply[r] EXCEPT !.begun = TRUE]
<1>1. /\ reply[r] \in Reply /\ reply[r].head = reply[r].body
      /\ reply[r].body \in Promise!Content /\ reply[r].left \in 1..Promise!MaxPieces
      /\ OwnReply(r) /\ PublicLinks(r) /\ sendTo[r] = r /\ Replying(r)
    BY Sending DEF SendStart
<1>2. /\ y \in Reply /\ y.head = reply[r].head /\ y.body = reply[r].body
      /\ y.left = reply[r].left /\ y.begun = TRUE
    BY <1>1, BegunReply
<1>3. line[r] = Promise!Quiet
    BY <1>1 DEF Replying, SendStart
<1>4. Promise!Open(reply[r].body, reply[r].left) \in Promise!Line
    BY <1>1 DEF Promise!Open, Promise!Line, Promise!MaxPieces
<1>5. Started(line[r], reply[r].head, reply[r].left)
        = Promise!Open(reply[r].body, reply[r].left)
    BY <1>1, <1>3 DEF Started, Promise!Quiet
<1>6. /\ reply' = [reply EXCEPT ![r] = y]
      /\ line' = [line EXCEPT ![r] = Promise!Open(reply[r].body, reply[r].left)]
    BY <1>5 DEF SendStart, ResponseInv, TypeOK
<1> HIDE DEF y
<1>7. ~Secures(r) /\ UNCHANGED <<stack, ask, phase, gathered, held, sendTo, headers>>
      /\ phase[r] = "replying"
    BY DEF SendStart
<1>8. TypeOK'
    BY <1>2, <1>4, <1>6, <1>7 DEF ResponseInv, TypeOK
<1>9. reply'[r] = y /\ line'[r] = Promise!Open(reply[r].body, reply[r].left)
    BY <1>6 DEF ResponseInv, TypeOK
<1>10. OwnReply(r)' /\ PublicLinks(r)' /\ Replying(r)'
    BY <1>1, <1>2, <1>7, <1>9 DEF OwnReply, PublicLinks, Replying, Secures
<1>11. Coherent(r)'
    BY <1>1, <1>7, <1>9, <1>10 DEF Coherent
<1> QED
    BY <1>6, <1>7, <1>8, <1>11, Framed DEF ResponseInv, TypeOK

\* Taking pieces away changes nothing else of the reply.
LEMMA ShorterReply ==
  ASSUME NEW x \in Reply, NEW n \in 0..Promise!MaxPieces, n <= x.left
  PROVE  LET y == [x EXCEPT !.left = @ - n] IN
         /\ y \in Reply /\ y.head = x.head /\ y.body = x.body
         /\ y.left = x.left - n /\ y.begun = x.begun /\ y.split = x.split
  BY DEF Reply, Promise!MaxPieces

\* A message of the body carries at least one piece, and at most all of them.
LEMMA BurstBounds ==
  ASSUME NEW r \in Request, reply[r] \in Reply, reply[r].left \in 1..Promise!MaxPieces
  PROVE  /\ Burst(r) \in 1..reply[r].left /\ Burst(r) \in 0..Promise!MaxPieces
         /\ Last(r) <=> Burst(r) = reply[r].left
  BY DEF Burst, Last, Promise!MaxPieces

\* Pieces of the body the head announced are what the server expects.
LEMMA ExtendedOpen ==
  ASSUME NEW c \in Promise!Content, NEW left \in 1..Promise!MaxPieces,
         NEW n \in 1..left
  PROVE  LET l == Extended(Promise!Open(c, left), c, n, n = left) IN
         /\ l \in Promise!Line /\ l.c = c
         /\ l.at = (IF n = left THEN "complete" ELSE "open")
         /\ n # left => l = Promise!Open(c, left - n)
<1>1. left \in 1..2 /\ n \in 1..2 /\ n <= left /\ left - n \in 0..2
    BY DEF Promise!MaxPieces
<1>2. Extended(Promise!Open(c, left), c, n, n = left)
        = [at |-> IF n = left THEN "complete" ELSE "open", c |-> c, due |-> left - n]
    BY <1>1 DEF Extended, Promise!Open
<1> QED
    BY <1>1, <1>2 DEF Promise!Open, Promise!Line, Promise!MaxPieces

LEMMA KeepsSendBody ==
  ASSUME ResponseInv, NEW r \in Request, SendBody(r) PROVE ResponseInv'
<1> DEFINE y == [reply[r] EXCEPT !.left = @ - Burst(r)]
           l == Extended(line[r], reply[r].body, Burst(r), Last(r))
<1>1. /\ reply[r] \in Reply /\ reply[r].head = reply[r].body
      /\ reply[r].body \in Promise!Content /\ reply[r].left \in 1..Promise!MaxPieces
      /\ OwnReply(r) /\ PublicLinks(r) /\ sendTo[r] = r /\ Replying(r)
    BY Sending DEF SendBody
<1>2. /\ Burst(r) \in 1..reply[r].left /\ Burst(r) \in 0..Promise!MaxPieces
      /\ Last(r) <=> Burst(r) = reply[r].left
    BY <1>1, BurstBounds
<1>3. /\ y \in Reply /\ y.head = reply[r].head /\ y.body = reply[r].body
      /\ y.left = reply[r].left - Burst(r) /\ y.begun = reply[r].begun
  <2>1. Burst(r) <= reply[r].left
    BY <1>1, <1>2 DEF Promise!MaxPieces
  <2> QED
    BY <1>1, <1>2, <2>1, ShorterReply
<1>4. line[r] = Promise!Open(reply[r].body, reply[r].left)
    BY <1>1 DEF Replying, SendBody
<1>5. /\ l \in Promise!Line /\ l.c = reply[r].body
      /\ l.at = (IF Last(r) THEN "complete" ELSE "open")
      /\ ~Last(r) => l = Promise!Open(reply[r].body, reply[r].left - Burst(r))
  <2>1. Last(r) = (Burst(r) = reply[r].left)
    BY DEF Last
  <2> QED
    BY <1>1, <1>2, <1>4, <2>1, ExtendedOpen
<1>6. /\ reply' = [reply EXCEPT ![r] = y]
      /\ line' = [line EXCEPT ![r] = l]
      /\ phase' = [phase EXCEPT ![r] = IF Last(r) THEN "done" ELSE "replying"]
      /\ UNCHANGED <<stack, ask, gathered, held, sendTo, headers>>
      /\ ~Secures(r) /\ reply[r].begun
    BY DEF SendBody, ResponseInv, TypeOK, Goto
<1> HIDE DEF y, l
<1>7. TypeOK'
    BY <1>3, <1>5, <1>6 DEF ResponseInv, TypeOK, Phase
<1>8. /\ reply'[r] = y /\ line'[r] = l
      /\ phase'[r] = IF Last(r) THEN "done" ELSE "replying"
    BY <1>6 DEF ResponseInv, TypeOK
<1>9. CASE Last(r)
  <2>1. Coherent(r)'
    BY <1>1, <1>5, <1>6, <1>8, <1>9 DEF Coherent
  <2> QED
    BY <1>6, <1>7, <2>1, Framed DEF ResponseInv, TypeOK
<1>10. CASE ~Last(r)
  <2>1. OwnReply(r)' /\ PublicLinks(r)'
    BY <1>1, <1>3, <1>6, <1>8 DEF OwnReply, PublicLinks
  <2>2. y.left \in 1..Promise!MaxPieces
        /\ (reply[r].body.kind # "file" => y.left = 1)
    BY <1>1, <1>2, <1>3, <1>10 DEF Replying, Promise!MaxPieces
  <2>3. Replying(r)'
    BY <1>1, <1>3, <1>5, <1>6, <1>8, <1>10, <2>2 DEF Replying, Secures
  <2>4. Coherent(r)'
    BY <1>1, <1>6, <1>8, <1>10, <2>1, <2>3 DEF Coherent
  <2> QED
    BY <1>6, <1>7, <2>4, Framed DEF ResponseInv, TypeOK
<1> QED
    BY <1>9, <1>10

LEMMA KeepsHoldStart ==
  ASSUME ResponseInv, NEW r \in Request, HoldStart(r) PROVE ResponseInv'
<1> DEFINE y == [reply[r] EXCEPT !.begun = TRUE]
           h == Promise!Open(reply[r].head, reply[r].left)
<1>1. /\ reply[r] \in Reply /\ reply[r].head = reply[r].body
      /\ reply[r].body \in Promise!Content /\ reply[r].left \in 1..Promise!MaxPieces
      /\ OwnReply(r) /\ PublicLinks(r) /\ sendTo[r] = r /\ Replying(r)
    BY Sending DEF HoldStart
<1>2. /\ y \in Reply /\ y.head = reply[r].head /\ y.body = reply[r].body
      /\ y.left = reply[r].left /\ y.begun = TRUE
    BY <1>1, BegunReply
<1>3. line[r] = Promise!Quiet
    BY <1>1 DEF Replying, HoldStart
<1>4. h \in Promise!Line
    BY <1>1 DEF Promise!Open, Promise!Line, Promise!MaxPieces
<1>5. /\ reply' = [reply EXCEPT ![r] = y]
      /\ held' = [held EXCEPT ![r] = h]
      /\ headers' = reply[r].body
      /\ UNCHANGED <<stack, ask, phase, gathered, line, sendTo>>
      /\ Secures(r) /\ phase[r] = "replying"
    BY <1>1 DEF HoldStart, ResponderOf, ResponseInv, TypeOK
<1>6. reply'[r] = y /\ held'[r] = h
    BY <1>5 DEF ResponseInv, TypeOK
<1>7. h = Promise!Open(y.head, y.left)
    BY <1>2
<1> HIDE DEF y, h
<1>8. TypeOK'
    BY <1>1, <1>2, <1>4, <1>5 DEF ResponseInv, TypeOK
<1>9. OwnReply(r)' /\ PublicLinks(r)' /\ Replying(r)'
    BY <1>1, <1>2, <1>3, <1>5, <1>6, <1>7 DEF OwnReply, PublicLinks, Replying, Secures
<1>10. Coherent(r)'
    BY <1>1, <1>5, <1>9 DEF Coherent
<1> QED
    BY <1>5, <1>8, <1>10, Framed DEF ResponseInv, TypeOK

\* Releasing a held start message with the length of c sends just that head.
LEMMA KeepsRelease ==
  ASSUME ResponseInv, NEW r \in Request, NEW c \in Promise!Content,
         Holds(r), Release(r, c),
         c.from = r, c.kind = reply[r].body.kind, c.links = reply[r].body.links,
         c.kind \in {"document"} \cup Marked,
         UNCHANGED <<stack, ask, gathered, sendTo, headers>>
  PROVE  ResponseInv'
<1> DEFINE y == [reply[r] EXCEPT !.head = c, !.body = c]
           l == Promise!Open(c, 1)
           h == [held[r] EXCEPT !.c = c]
<1>1. /\ reply[r] \in Reply /\ reply[r].left \in 1..Promise!MaxPieces
      /\ OwnReply(r) /\ PublicLinks(r) /\ sendTo[r] = r /\ Replying(r)
    BY Sending DEF Holds
<1>2. /\ y \in Reply /\ y.head = c /\ y.body = c /\ y.left = reply[r].left
    BY <1>1 DEF Reply
<1>3. reply[r].left = 1 /\ line[r] = Promise!Quiet
      /\ held[r] = Promise!Open(reply[r].head, reply[r].left)
    BY <1>1 DEF Replying, Holds
<1>4. l \in Promise!Line /\ h \in Promise!Line
    BY <1>3 DEF Promise!Open, Promise!Line, Promise!MaxPieces, ResponseInv, TypeOK
<1>5. Started(line[r], c, held[r].due) = l
    BY <1>3 DEF Started, Promise!Quiet, Promise!Open
<1>6. /\ reply' = [reply EXCEPT ![r] = y]
      /\ held' = [held EXCEPT ![r] = h]
      /\ line' = [line EXCEPT ![r] = l]
      /\ phase' = [phase EXCEPT ![r] = "closing"]
      /\ Secures(r) /\ phase[r] = "replying"
    BY <1>1, <1>5 DEF Release, Holds, ResponderOf, Goto, ResponseInv, TypeOK
<1> HIDE DEF y, h
<1>7. TypeOK'
    BY <1>2, <1>4, <1>6 DEF ResponseInv, TypeOK, Phase
<1>8. reply'[r] = y /\ line'[r] = l /\ phase'[r] = "closing"
    BY <1>6 DEF ResponseInv, TypeOK
<1>9. OwnReply(r)' /\ PublicLinks(r)'
    BY <1>1, <1>2, <1>8 DEF OwnReply, PublicLinks
<1>10. Secures(r)'
    BY <1>6 DEF Secures
<1>11. Coherent(r)'
    BY <1>1, <1>2, <1>3, <1>8, <1>9, <1>10 DEF Coherent
<1> QED
    BY <1>6, <1>7, <1>11, Framed DEF ResponseInv, TypeOK

LEMMA KeepsSecureDocument ==
  ASSUME ResponseInv, NEW r \in Request, SecureDocument(r) PROVE ResponseInv'
<1> DEFINE c == Secured(r)
<1>1. reply[r].body \in Promise!Content /\ reply[r].body.from = r
    BY Sending DEF SecureDocument, Holds, OwnReply
<1>2. /\ c \in Promise!Content /\ c.from = r /\ c.kind = reply[r].body.kind
      /\ c.links = reply[r].body.links
    BY <1>1 DEF Secured, Promise!Content
<1> QED
    BY <1>2, KeepsRelease DEF SecureDocument

LEMMA KeepsPassPage ==
  ASSUME ResponseInv, NEW r \in Request, PassPage(r) PROVE ResponseInv'
<1>1. reply[r].body \in Promise!Content /\ reply[r].body.from = r
    BY Sending DEF PassPage, Holds, OwnReply
<1> QED
    BY <1>1, KeepsRelease DEF PassPage

LEMMA KeepsRejectBody ==
  ASSUME ResponseInv, NEW r \in Request, RejectBody(r) PROVE ResponseInv'
<1>1. TypeOK'
    BY DEF ResponseInv, TypeOK, RejectBody, Goto, Phase
<1>2. sendTo[r] = r /\ line[r] = Promise!Quiet
    BY Sending DEF RejectBody, Holds, Replying
<1>3. line[r].at = "quiet"
    BY <1>2 DEF Promise!Quiet
<1>4. Coherent(r)'
    BY <1>2, <1>3 DEF ResponseInv, TypeOK, Coherent, RejectBody, Goto
<1> QED
    BY <1>1, <1>4, Framed DEF ResponseInv, TypeOK, RejectBody, Goto

LEMMA KeepsSendHeldBody ==
  ASSUME ResponseInv, NEW r \in Request, SendHeldBody(r) PROVE ResponseInv'
<1> DEFINE y == [reply[r] EXCEPT !.left = @ - Burst(r)]
           l == Extended(line[r], reply[r].body, Burst(r), Last(r))
<1>1. /\ reply[r] \in Reply /\ reply[r].body \in Promise!Content
      /\ OwnReply(r) /\ sendTo[r] = r
    BY Sending DEF SendHeldBody
<1>2. reply[r].left = 1 /\ line[r] = Promise!Open(reply[r].body, 1)
    BY DEF ResponseInv, Coherent, SendHeldBody
<1>3. Burst(r) = 1 /\ Last(r)
    BY <1>2 DEF Burst, Last
<1>4. y \in Reply
  <2>1. 1 \in 0..Promise!MaxPieces /\ 1 <= reply[r].left
    BY <1>2 DEF Promise!MaxPieces
  <2> QED
    BY <1>1, <1>3, <2>1, ShorterReply
<1>5. l \in Promise!Line /\ l.at = "complete"
  <2>1. Last(r) = (Burst(r) = 1)
    BY <1>2 DEF Last
  <2>2. 1 \in 1..Promise!MaxPieces /\ Burst(r) \in 1..1
    BY <1>3 DEF Promise!MaxPieces
  <2>3. l = Extended(Promise!Open(reply[r].body, 1), reply[r].body, Burst(r), Burst(r) = 1)
    BY <1>2, <2>1
  <2> HIDE DEF l
  <2> QED
    BY <1>1, <1>3, <2>2, <2>3, ExtendedOpen
<1>6. /\ reply' = [reply EXCEPT ![r] = y]
      /\ line' = [line EXCEPT ![r] = l]
      /\ phase' = [phase EXCEPT ![r] = "done"]
      /\ UNCHANGED <<stack, ask, gathered, held, sendTo, headers>>
    BY <1>1, <1>3 DEF SendHeldBody, ResponderOf, Goto, ResponseInv, TypeOK
<1> HIDE DEF y, l
<1>7. TypeOK'
    BY <1>4, <1>5, <1>6 DEF ResponseInv, TypeOK, Phase
<1>8. Coherent(r)'
    BY <1>1, <1>5, <1>6 DEF Coherent, ResponseInv, TypeOK
<1> QED
    BY <1>6, <1>7, <1>8, Framed DEF ResponseInv, TypeOK

LEMMA KeepsLeave ==
  ASSUME ResponseInv, NEW r \in Request, Leave(r) PROVE ResponseInv'
<1>1. Promise!Quiet \in Promise!Line
    BY DEF Promise!Quiet, Promise!Line, Promise!MaxPieces
<1>2. TypeOK'
    BY <1>1 DEF ResponseInv, TypeOK, Leave, Goto, Phase, Ask, ResponderOf, Promise!MaxPieces
<1>3. Coherent(r)'
    BY DEF ResponseInv, TypeOK, Coherent, Leave, Goto
<1> QED
    BY <1>2, <1>3, Framed DEF ResponseInv, TypeOK, Leave, Goto, ResponderOf

LEMMA KeepsIdle ==
  ASSUME ResponseInv, UNCHANGED vars PROVE ResponseInv'
<1>1. TypeOK'
    BY DEF ResponseInv, TypeOK, vars
<1>2. ASSUME NEW q \in Request PROVE Coherent(q)'
    BY DEF ResponseInv, Coherent, OwnReply, PiecesLeft, PublicLinks, Replying, Secures, vars
<1> QED
    BY <1>1, <1>2 DEF ResponseInv

LEMMA ResponseKept == ResponseInv /\ [Next]_vars => ResponseInv'
<1> SUFFICES ASSUME ResponseInv, [Next]_vars PROVE ResponseInv'
    OBVIOUS
<1>1. ASSUME NEW r \in Request,
             \/ Receive(r) \/ Pass(r) \/ Refuse(r) \/ Answer(r) \/ Raise(r) \/ Break(r)
             \/ Relay(r) \/ Leave(r)
      PROVE  ResponseInv'
    BY <1>1, KeepsReceive, KeepsPass, KeepsRefuse, KeepsAnswer, KeepsRaise, KeepsBreak,
       KeepsGather, KeepsRewrite, KeepsRewriteFails, KeepsSendStart, KeepsSendBody,
       KeepsHoldStart, KeepsSecureDocument, KeepsPassPage, KeepsRejectBody,
       KeepsSendHeldBody, KeepsLeave DEF Relay, Secure
<1> QED
    BY <1>1, KeepsIdle DEF Next

\* Whatever requests the event loop interleaves, through whatever stack, every
\* response is sent coherently: the head that went out is that of the body to
\* come, and it is the request's own.
THEOREM ResponseCoherent == Spec => []ResponseInv
<1> QED
    BY ResponseInit, ResponseKept, PTL DEF Spec

-----------------------------------------------------------------------------
\* What q's client may say of the content it has been sent.
Served(q) ==
    line[q].at # "quiet" =>
        /\ "security" \in stack /\ line[q].c.kind = "document" => line[q].c.secured
        /\ "links" \in stack /\ ask[q].forwarded /\ line[q].c.kind \in Listed =>
              line[q].c.links # "internal"

LEMMA ServedInit == Init => \A q \in Request : Served(q)
  BY DEF Init, Served, Promise!Quiet

\* The head of r's own reply, where the links are already public, is fit to send.
LEMMA ServedBegun ==
  ASSUME ResponseInv, NEW r \in Request, NEW c \in Promise!Content,
         phase[r] \in {"replying", "closing"},
         UNCHANGED <<stack, ask>>,
         line'[r].c = c, c.kind = reply[r].body.kind, c.links = reply[r].body.links,
         "security" \in stack /\ c.kind = "document" => c.secured
  PROVE  Served(r)'
<1>1. PublicLinks(r)
    BY Sending
<1> QED
    BY <1>1 DEF PublicLinks, Served

LEMMA ServedKept ==
  ASSUME ResponseInv, \A q \in Request : Served(q), [Next]_vars
  PROVE  \A q \in Request : Served(q)'
<1>1. ASSUME UNCHANGED <<stack, ask, line>> PROVE \A q \in Request : Served(q)'
    BY <1>1 DEF Served
<1>2. ASSUME NEW r \in Request, UNCHANGED stack, Served(r)',
             \A q \in Request \ {r} : ask'[q] = ask[q] /\ line'[q] = line[q]
      PROVE  \A q \in Request : Served(q)'
    BY <1>2 DEF Served
<1>3. ASSUME NEW r \in Request, Receive(r) PROVE \A q \in Request : Served(q)'
  <2>1. line'[r] = Promise!Quiet
    BY <1>3 DEF Receive, ResponseInv, Coherent
  <2>2. Served(r)'
    BY <2>1 DEF Served, Promise!Quiet
  <2> QED
    BY <1>2, <1>3, <2>2 DEF Receive, ResponseInv, TypeOK
<1>4. ASSUME NEW r \in Request, SendStart(r) PROVE \A q \in Request : Served(q)'
  <2>1. /\ reply[r].head = reply[r].body /\ reply[r].body \in Promise!Content
        /\ OwnReply(r) /\ Replying(r)
    BY <1>4, Sending DEF SendStart
  <2>2. line'[r] = Promise!Open(reply[r].body, reply[r].left)
    BY <1>4, <2>1 DEF SendStart, Replying, Started, Promise!Quiet, ResponseInv, TypeOK
  <2>3. line'[r].c = reply[r].body
    BY <2>2 DEF Promise!Open
  <2>4. ~("security" \in stack /\ reply[r].body.kind = "document")
    BY <1>4, <2>1 DEF SendStart, Secures, OwnReply
  <2>5. Served(r)'
    BY <1>4, <2>1, <2>3, <2>4, ServedBegun DEF SendStart
  <2> QED
    BY <1>2, <1>4, <2>5 DEF SendStart, ResponseInv, TypeOK
<1>5. ASSUME NEW r \in Request, NEW c \in Promise!Content, Holds(r), Release(r, c),
             c.kind = reply[r].body.kind, c.links = reply[r].body.links,
             c.kind = "document" => c.secured, UNCHANGED <<stack, ask, sendTo>>
      PROVE  \A q \in Request : Served(q)'
  <2>1. Replying(r) /\ sendTo[r] = r
    BY <1>5, Sending DEF Holds
  <2>2. line' = [line EXCEPT ![r] = Promise!Open(c, held[r].due)]
    BY <1>5, <2>1 DEF Release, Holds, Replying, ResponderOf, Started, Promise!Quiet,
       ResponseInv, TypeOK
  <2>3. line'[r].c = c
    BY <2>2 DEF Promise!Open, ResponseInv, TypeOK
  <2>4. Served(r)'
    BY <1>5, <2>3, ServedBegun DEF Holds
  <2> QED
    BY <1>2, <1>5, <2>2, <2>4 DEF ResponseInv, TypeOK
<1>6. ASSUME NEW r \in Request, SecureDocument(r) PROVE \A q \in Request : Served(q)'
  <2> DEFINE c == Secured(r)
  <2>1. reply[r].body \in Promise!Content
    BY <1>6, Sending DEF SecureDocument, Holds
  <2>2. /\ c \in Promise!Content /\ c.kind = reply[r].body.kind
        /\ c.links = reply[r].body.links /\ c.secured
    BY <2>1 DEF Secured, Promise!Content
  <2> HIDE DEF c
  <2> QED
    BY <1>5, <1>6, <2>2 DEF SecureDocument, c
<1>7. ASSUME NEW r \in Request, PassPage(r) PROVE \A q \in Request : Served(q)'
    BY <1>5, <1>7, Sending DEF PassPage, Holds
<1>8. ASSUME NEW r \in Request, SendBody(r) \/ SendHeldBody(r)
      PROVE  \A q \in Request : Served(q)'
  <2>1. /\ reply[r].body \in Promise!Content /\ reply[r] \in Reply
        /\ reply[r].left \in 1..Promise!MaxPieces /\ sendTo[r] = r
    BY <1>8, Sending DEF SendBody, SendHeldBody
  <2>2. line[r] = Promise!Open(reply[r].body, reply[r].left)
    BY <1>8, Sending DEF SendBody, SendHeldBody, Replying, ResponseInv, Coherent
  <2>3. line' = [line EXCEPT ![r] = Extended(line[r], reply[r].body, Burst(r), Last(r))]
    BY <1>8, <2>1 DEF SendBody, SendHeldBody, ResponderOf, ResponseInv, TypeOK
  <2>4. line'[r].c = line[r].c
    BY <2>2, <2>3 DEF Extended, Promise!Open, ResponseInv, TypeOK
  <2>5. line[r].at # "quiet" /\ UNCHANGED <<stack, ask>>
    BY <1>8, <2>2 DEF Promise!Open, SendBody, SendHeldBody
  <2>6. Served(r)'
    BY <2>4, <2>5 DEF Served
  <2> QED
    BY <1>2, <2>3, <2>5, <2>6 DEF ResponseInv, TypeOK
<1>9. ASSUME NEW r \in Request, Leave(r) PROVE \A q \in Request : Served(q)'
  <2>1. Served(r)'
    BY <1>9 DEF Leave, Served, Promise!Quiet, ResponseInv, TypeOK
  <2> QED
    BY <1>2, <1>9, <2>1 DEF Leave, ResponseInv, TypeOK
<1>10. ASSUME NEW r \in Request,
              \/ Pass(r) \/ Refuse(r) \/ Answer(r) \/ Raise(r) \/ Break(r) \/ Gather(r)
              \/ Rewrite(r) \/ RewriteFails(r) \/ HoldStart(r) \/ RejectBody(r)
       PROVE  \A q \in Request : Served(q)'
    BY <1>1, <1>10 DEF Pass, Refuse, Answer, Raise, Break, Gather, Rewrite,
       RewriteFails, HoldStart, RejectBody
<1>11. ASSUME NEW r \in Request,
              \/ Receive(r) \/ Pass(r) \/ Refuse(r) \/ Answer(r) \/ Raise(r) \/ Break(r)
              \/ Relay(r) \/ Leave(r)
       PROVE  \A q \in Request : Served(q)'
    BY <1>3, <1>4, <1>6, <1>7, <1>8, <1>9, <1>10, <1>11 DEF Relay, Secure
<1>12. ASSUME UNCHANGED vars PROVE \A q \in Request : Served(q)'
    BY <1>1, <1>12 DEF vars
<1> QED
    BY <1>11, <1>12 DEF Next

\* What was served, in every reachable state.
LEMMA AlwaysServed == Spec => [](ResponseInv /\ \A q \in Request : Served(q))
<1>1. Init => ResponseInv /\ \A q \in Request : Served(q)
    BY ResponseInit, ServedInit
<1>2. ResponseInv /\ (\A q \in Request : Served(q)) /\ [Next]_vars
        => ResponseInv' /\ (\A q \in Request : Served(q))'
    BY ResponseKept, ServedKept
<1> QED
    BY <1>1, <1>2, PTL DEF Spec

\* Where the security middleware is installed, no client is ever sent a document
\* of pygeoapi's without the security sections, unless the marker that
\* send_with_security takes for a page's is in its text.
THEOREM DocumentsAreSecured == Spec => []SecuredDocuments
<1>1. (\A q \in Request : Served(q)) => SecuredDocuments
    BY DEF Served, SecuredDocuments, Documents, Marked
<1> QED
    BY <1>1, AlwaysServed, PTL

\* No client behind a proxy is ever sent a text that links to the internal URL.
THEOREM LinksArePublic == Spec => []NoInternalLinks
<1>1. (\A q \in Request : Served(q)) => NoInternalLinks
    BY DEF Served, NoInternalLinks
<1> QED
    BY <1>1, AlwaysServed, PTL

-----------------------------------------------------------------------------
\* What ResponseStream sees of a phase, and of all of them.
StateOf(p) == IF p \in {"idle", "done", "failed"} THEN p ELSE "open"
State == [r \in Request |-> IF phase[r] \in {"idle", "done", "failed"}
                            THEN phase[r] ELSE "open"]

LEMMA EntersState ==
  ASSUME TypeOK, NEW r \in Request, NEW p \in Phase, phase' = [phase EXCEPT ![r] = p]
  PROVE  State' = [State EXCEPT ![r] = StateOf(p)]
  BY DEF State, StateOf, TypeOK

LEMMA KeepsState ==
  ASSUME TypeOK, NEW r \in Request, NEW p \in Phase, phase' = [phase EXCEPT ![r] = p],
         StateOf(p) = StateOf(phase[r])
  PROVE  State' = State
  BY DEF State, StateOf, TypeOK

LEMMA StreamInit == Init => Promise!Init
  BY DEF Init, Promise!Init

\* Entering a phase with nothing sent is a step of ResponseStream or none.
LEMMA StreamQuiet ==
  ASSUME ResponseInv, NEW r \in Request,
         \/ Receive(r) \/ Pass(r) \/ Refuse(r) \/ Answer(r) \/ Gather(r) \/ Rewrite(r)
         \/ HoldStart(r)
  PROVE  Promise!Receive(r) \/ UNCHANGED Promise!vars
<1>1. CASE Receive(r)
  <2>1. State' = [State EXCEPT ![r] = "open"]
    BY <1>1, EntersState DEF Receive, Goto, StateOf, Phase, ResponseInv
  <2>2. State[r] = "idle" /\ UNCHANGED line
    BY <1>1 DEF Receive, State
  <2> QED
    BY <2>1, <2>2 DEF State, Promise!Receive, Promise!Enter
<1>2. CASE Pass(r) \/ Refuse(r) \/ Answer(r) \/ Gather(r) \/ Rewrite(r) \/ HoldStart(r)
  <2>1. UNCHANGED line
    BY <1>2 DEF Pass, Refuse, Answer, Gather, Rewrite, HoldStart
  <2>2. \/ UNCHANGED phase
        \/ \E p \in {"app", "replying", "gathering", "rewriting"} :
              /\ phase' = [phase EXCEPT ![r] = p]
              /\ phase[r] \in {"gate", "app", "gathering", "rewriting"}
    BY <1>2 DEF Pass, Refuse, Answer, Gather, Rewrite, HoldStart, Goto
  <2>3. State' = State
    BY <2>2, KeepsState DEF StateOf, Phase, ResponseInv, State
  <2> QED
    BY <2>1, <2>3 DEF State, Promise!vars
<1> QED
    BY <1>1, <1>2

LEMMA StreamFails ==
  ASSUME ResponseInv, NEW r \in Request,
         Raise(r) \/ Break(r) \/ RewriteFails(r) \/ RejectBody(r)
  PROVE  Promise!Fail(r)
<1>1. State' = [State EXCEPT ![r] = "failed"]
    BY EntersState DEF Raise, Break, RewriteFails, RejectBody, Goto, StateOf, Phase,
       ResponseInv
<1>2. State[r] = "open" /\ UNCHANGED line
    BY DEF Raise, Break, RewriteFails, RejectBody, Holds, State
<1>3. /\ line[r] = Promise!Quiet \/ line[r] = Promise!Open(reply[r].body, reply[r].left)
      /\ line[r] # Promise!Quiet => reply[r].body.kind = "file"
    BY DEF Raise, Break, RewriteFails, RejectBody, Holds, Replying, ResponseInv, Coherent
<1>4. line[r].at = "open" => line[r].c.kind = "file"
    BY <1>3 DEF Promise!Quiet, Promise!Open
<1> QED
    BY <1>1, <1>2, <1>4 DEF State, Promise!Fail, Promise!Enter

\* The start message that goes to the server begins r's response.
LEMMA StreamBegins ==
  ASSUME ResponseInv, NEW r \in Request,
         SendStart(r) \/ SecureDocument(r) \/ PassPage(r)
  PROVE  Promise!Begin(r)
<1>1. /\ reply[r] \in Reply /\ reply[r].head = reply[r].body
      /\ reply[r].body \in Promise!Content /\ reply[r].left \in 1..Promise!MaxPieces
      /\ OwnReply(r) /\ sendTo[r] = r /\ Replying(r) /\ phase[r] = "replying"
    BY Sending DEF SendStart, SecureDocument, PassPage, Holds
<1>2. line[r] = Promise!Quiet
    BY <1>1 DEF Replying, SendStart, SecureDocument, PassPage, Holds
<1>3. State' = State
  <2>1. UNCHANGED phase \/ phase' = [phase EXCEPT ![r] = "closing"]
    BY DEF SendStart, SecureDocument, PassPage, Release, Goto
  <2> QED
    BY <1>1, <2>1, KeepsState DEF StateOf, Phase, ResponseInv, State
<1>4. \E c \in Promise!Content, n \in 1..Promise!MaxPieces :
         c.from = r /\ line' = [line EXCEPT ![r] = Promise!Open(c, n)]
  <2>1. CASE SendStart(r)
    <3>1. line' = [line EXCEPT ![r] = Promise!Open(reply[r].body, reply[r].left)]
      BY <1>1, <1>2, <2>1 DEF SendStart, Started, Promise!Quiet, ResponseInv, TypeOK
    <3> QED
      BY <1>1, <3>1 DEF OwnReply
  <2>2. ASSUME NEW c \in Promise!Content, c.from = r, Holds(r), Release(r, c)
        PROVE  line' = [line EXCEPT ![r] = Promise!Open(c, reply[r].left)]
    <3>1. held[r].due = reply[r].left
      BY <1>1, <2>2 DEF Replying, Holds, Promise!Open
    <3> QED
      BY <1>1, <1>2, <2>2, <3>1 DEF Release, ResponderOf, Started, Promise!Quiet,
         ResponseInv, TypeOK
  <2>3. CASE SecureDocument(r)
    <3>1. Secured(r) \in Promise!Content /\ Secured(r).from = r
      BY <1>1 DEF Secured, OwnReply, Promise!Content
    <3> QED
      BY <1>1, <2>2, <2>3, <3>1 DEF SecureDocument
  <2>4. CASE PassPage(r)
    BY <1>1, <2>2, <2>4 DEF PassPage, OwnReply
  <2> QED
    BY <2>1, <2>3, <2>4
<1>5. State[r] = "open" /\ line[r].at = "quiet"
    BY <1>1, <1>2 DEF State, Promise!Quiet
<1> QED
    BY <1>3, <1>4, <1>5 DEF State, Promise!Begin

\* A message of the body continues it, the last one ends it.
LEMMA StreamGoesOn ==
  ASSUME ResponseInv, NEW r \in Request, SendBody(r) \/ SendHeldBody(r)
  PROVE  Promise!Continue(r) \/ Promise!End(r)
<1> DEFINE l == Extended(line[r], reply[r].body, Burst(r), Last(r))
<1>1. /\ reply[r] \in Reply /\ reply[r].body \in Promise!Content
      /\ reply[r].left \in 1..Promise!MaxPieces
      /\ sendTo[r] = r /\ phase[r] \in {"replying", "closing"}
    BY Sending DEF SendBody, SendHeldBody
<1>2. line[r] = Promise!Open(reply[r].body, reply[r].left)
    BY Sending DEF SendBody, SendHeldBody, Replying, ResponseInv, Coherent
<1>3. /\ line' = [line EXCEPT ![r] = l]
      /\ IF Last(r) THEN phase' = [phase EXCEPT ![r] = "done"]
         ELSE UNCHANGED phase \/ phase' = [phase EXCEPT ![r] = "replying"]
    BY <1>1 DEF SendBody, SendHeldBody, Goto, ResponderOf, ResponseInv, TypeOK
<1>4. /\ Burst(r) \in 1..reply[r].left
      /\ Last(r) <=> Burst(r) = reply[r].left
    BY <1>1, BurstBounds
<1>5. /\ line[r] = [at |-> "open", c |-> reply[r].body, due |-> reply[r].left]
      /\ State[r] = "open"
    BY <1>1, <1>2 DEF Promise!Open, State
<1>6. l = [at |-> IF Last(r) THEN "complete" ELSE "open", c |-> reply[r].body,
           due |-> reply[r].left - Burst(r)]
    BY <1>1, <1>4, <1>5 DEF Extended, Promise!MaxPieces
<1> HIDE DEF l
<1>7. CASE Last(r)
  <2>1. State' = [State EXCEPT ![r] = "done"]
    BY <1>3, <1>7, EntersState DEF StateOf, Phase, ResponseInv
  <2>2. reply[r].left - Burst(r) = 0
    BY <1>1, <1>4, <1>7 DEF Promise!MaxPieces
  <2>3. l = Promise!Complete(line[r].c)
    BY <1>5, <1>6, <1>7, <2>2 DEF Promise!Complete
  <2>4. line' = [line EXCEPT ![r] = Promise!Complete(@.c)]
    BY <1>3, <2>3 DEF ResponseInv, TypeOK
  <2> QED
    BY <1>5, <2>1, <2>4 DEF State, Promise!End, Promise!Enter
<1>8. CASE ~Last(r)
  <2>1. State' = State
    BY <1>1, <1>3, <1>8, KeepsState DEF StateOf, Phase, ResponseInv, State
  <2>2. l = [line[r] EXCEPT !.due = @ - Burst(r)]
    BY <1>5, <1>6, <1>8
  <2>3. line' = [line EXCEPT ![r].due = @ - Burst(r)]
    BY <1>3, <2>2 DEF ResponseInv, TypeOK
  <2>4. Burst(r) \in 1..Promise!MaxPieces /\ Burst(r) < line[r].due
    BY <1>1, <1>4, <1>5, <1>8 DEF Promise!MaxPieces
  <2>5. line[r].at = "open"
    BY <1>5
  <2> QED
    BY <1>5, <2>1, <2>3, <2>4, <2>5 DEF State, Promise!Continue
<1> QED
    BY <1>7, <1>8

LEMMA StreamLeaves ==
  ASSUME ResponseInv, NEW r \in Request, Leave(r) PROVE Promise!Leave(r)
<1>1. State' = [State EXCEPT ![r] = "idle"]
    BY EntersState DEF Leave, Goto, StateOf, Phase, ResponseInv
<1>2. State[r] \in {"done", "failed"} /\ line' = [line EXCEPT ![r] = Promise!Quiet]
    BY DEF Leave, State
<1> QED
    BY <1>1, <1>2 DEF State, Promise!Leave, Promise!Enter

LEMMA StreamSteps == ResponseInv /\ [Next]_vars => [Promise!Next]_(Promise!vars)
<1> SUFFICES ASSUME ResponseInv, [Next]_vars PROVE [Promise!Next]_(Promise!vars)
    OBVIOUS
<1>1. ASSUME NEW r \in Request,
             \/ Receive(r) \/ Pass(r) \/ Refuse(r) \/ Answer(r) \/ Raise(r) \/ Break(r)
             \/ Relay(r) \/ Leave(r)
      PROVE  [Promise!Next]_(Promise!vars)
    BY <1>1, StreamQuiet, StreamFails, StreamBegins, StreamGoesOn, StreamLeaves
       DEF Relay, Secure, Promise!Next
<1>2. CASE UNCHANGED vars
    BY <1>2 DEF vars, Promise!vars
<1> QED
    BY <1>1, <1>2 DEF Next

\* Through every stack of middleware the server receives what ResponseStream
\* allows: the detailed chain implements the abstract stream.
THEOREM ChainStreams == Spec => Streams
<1> QED
    BY StreamInit, StreamSteps, ResponseCoherent, PTL DEF Spec, Streams, Promise!Spec
-----------------------------------------------------------------------------
\* A step that is one with r's response brings it nearer to its end.
Shorter(r) ==
    \/ phase'[r] \in {"done", "failed"}
    \/ phase'[r] \in UnderWay /\ MessagesLeft(r)' < MessagesLeft(r)

\* What is in r's hands while its response is under way.
LEMMA InHand ==
  ASSUME ResponseInv, NEW r \in Request, phase[r] \in UnderWay
  PROVE  /\ reply[r] \in Reply /\ reply[r].left \in 0..2 /\ gathered[r] \in 0..2
         /\ phase[r] # "rewriting" => reply[r].left > 0
         /\ phase[r] = "closing" => reply[r].left = 1
<1>1. reply[r] \in Reply
    BY DEF ResponseInv, Coherent, OwnReply, UnderWay
<1>2. reply[r].left \in 0..2 /\ gathered[r] \in 0..2
    BY <1>1 DEF ResponseInv, TypeOK, Reply, Promise!MaxPieces
<1>3. phase[r] # "rewriting" => reply[r].left > 0
    BY <1>2 DEF ResponseInv, Coherent, Replying, UnderWay, Promise!MaxPieces
<1>4. phase[r] = "closing" => reply[r].left = 1
    BY DEF ResponseInv, Coherent
<1> QED
    BY <1>1, <1>2, <1>3, <1>4

LEMMA MessageLeft ==
  ASSUME ResponseInv, NEW r \in Request, phase[r] \in UnderWay
  PROVE  MessagesLeft(r) > 0
<1>1. /\ reply[r].left \in 0..2 /\ gathered[r] \in 0..2
      /\ phase[r] # "rewriting" => reply[r].left > 0
    BY InHand
<1> QED
    BY <1>1 DEF MessagesLeft

\* What ForwardedLinksMiddleware does with a response,
LEMMA GatherShortens ==
  ASSUME ResponseInv, NEW r \in Request, Gather(r) PROVE Shorter(r)
<1>1. /\ reply[r] \in Reply /\ reply[r].left \in 1..2 /\ gathered[r] \in 0..2
      /\ phase[r] = "gathering"
    BY InHand DEF Gather, UnderWay
<1>2. Burst(r) \in 1..2 /\ Burst(r) \in 0..Promise!MaxPieces /\ Burst(r) <= reply[r].left
      /\ (Last(r) <=> Burst(r) = reply[r].left)
    BY <1>1, BurstBounds DEF Promise!MaxPieces
<1>3. [reply[r] EXCEPT !.left = @ - Burst(r)].left = reply[r].left - Burst(r)
    BY <1>1, <1>2, ShorterReply
<1>4. /\ reply'[r].left = reply[r].left - Burst(r)
      /\ gathered'[r] = gathered[r] + Burst(r)
      /\ phase'[r] = IF Last(r) THEN "rewriting" ELSE "gathering"
    BY <1>1, <1>3 DEF ResponseInv, TypeOK, Gather, Goto
<1> QED
    BY ONLY <1>1, <1>2, <1>4 DEF Shorter, MessagesLeft, UnderWay

LEMMA RewriteShortens ==
  ASSUME ResponseInv, NEW r \in Request, Rewrite(r) PROVE Shorter(r)
<1>1. phase[r] = "rewriting" /\ gathered[r] \in 0..2 /\ gathered' = gathered
    BY InHand DEF Rewrite, UnderWay
<1>2. /\ phase'[r] = "replying" /\ reply'[r].left = gathered[r]
      /\ reply'[r].begun = FALSE
    BY DEF ResponseInv, TypeOK, Rewrite, Goto, Relayed, Whole
<1> QED
    BY ONLY <1>1, <1>2 DEF Shorter, MessagesLeft, UnderWay

\* and what is done with a start message,
LEMMA StartShortens ==
  ASSUME ResponseInv, NEW r \in Request, SendStart(r) \/ HoldStart(r) PROVE Shorter(r)
<1>1. /\ reply[r] \in Reply /\ reply[r].left \in 0..2 /\ ~reply[r].begun
      /\ phase[r] = "replying" /\ phase' = phase
    BY InHand DEF SendStart, HoldStart, UnderWay
<1>2. reply'[r].left = reply[r].left /\ reply'[r].begun = TRUE
    BY <1>1, BegunReply DEF ResponseInv, TypeOK, SendStart, HoldStart
<1> QED
    BY ONLY <1>1, <1>2 DEF Shorter, MessagesLeft, UnderWay

\* with the message that a responder lets go,
LEMMA ReleaseShortens ==
  ASSUME ResponseInv, NEW r \in Request, SecureDocument(r) \/ PassPage(r)
  PROVE  Shorter(r)
<1>1. /\ reply[r] \in Reply /\ reply[r].left \in 0..2 /\ reply[r].begun
      /\ phase[r] = "replying"
    BY InHand DEF SecureDocument, PassPage, Holds, UnderWay
<1>2. PICK c : Release(r, c)
    BY DEF SecureDocument, PassPage
<1>3. phase'[r] = "closing" /\ reply'[r].left = reply[r].left
    BY <1>1, <1>2 DEF ResponseInv, TypeOK, Release, Goto, Reply
<1> QED
    BY ONLY <1>1, <1>3 DEF Shorter, MessagesLeft, UnderWay

\* and with the body.
LEMMA BodyShortens ==
  ASSUME ResponseInv, NEW r \in Request, SendBody(r) \/ SendHeldBody(r)
  PROVE  Shorter(r)
<1>1. /\ reply[r] \in Reply /\ reply[r].left \in 1..2
      /\ phase[r] \in {"replying", "closing"}
      /\ phase[r] = "closing" => reply[r].left = 1
    BY InHand DEF SendBody, SendHeldBody, UnderWay
<1>2. Burst(r) \in 1..2 /\ Burst(r) \in 0..Promise!MaxPieces /\ Burst(r) <= reply[r].left
      /\ (Last(r) <=> Burst(r) = reply[r].left)
    BY <1>1, BurstBounds DEF Promise!MaxPieces
<1>3. CASE Last(r)
    BY <1>3 DEF SendBody, SendHeldBody, Goto, Shorter, ResponseInv, TypeOK
<1>4. CASE ~Last(r)
  <2>1. SendBody(r)
    BY <1>1, <1>2, <1>4 DEF SendHeldBody
  <2>2. LET y == [reply[r] EXCEPT !.left = @ - Burst(r)] IN
        y.left = reply[r].left - Burst(r) /\ y.begun = reply[r].begun
    BY <1>1, <1>2, ShorterReply
  <2>3. /\ reply'[r].left = reply[r].left - Burst(r) /\ reply'[r].begun = reply[r].begun
        /\ phase[r] = "replying" /\ phase' = phase
    BY <1>4, <2>1, <2>2 DEF ResponseInv, TypeOK, SendBody
  <2> QED
    BY ONLY <1>1, <1>2, <2>3 DEF Shorter, MessagesLeft, UnderWay
<1> QED
    BY <1>3, <1>4

LEMMA EndShortens ==
  ASSUME ResponseInv, NEW r \in Request, Break(r) \/ RewriteFails(r) \/ RejectBody(r)
  PROVE  Shorter(r)
  BY DEF Break, RewriteFails, RejectBody, Goto, Shorter, ResponseInv, TypeOK

\* Another request's steps are not with r's response.
LEMMA OthersLeaveAlone ==
  ASSUME ResponseInv, NEW r \in Request, NEW q \in Request, q # r,
         \/ Receive(q) \/ Pass(q) \/ Refuse(q) \/ Answer(q) \/ Raise(q) \/ Break(q)
         \/ Relay(q) \/ Leave(q)
  PROVE  UNCHANGED <<phase[r], reply[r], gathered[r]>>
<1>1. CASE Receive(q) \/ Pass(q) \/ Raise(q) \/ Break(q) \/ RewriteFails(q)
           \/ RejectBody(q)
    BY <1>1 DEF ResponseInv, TypeOK, Receive, Pass, Raise, Break, RewriteFails,
       RejectBody, Goto
<1>2. CASE Refuse(q) \/ Answer(q) \/ Gather(q) \/ Rewrite(q) \/ Leave(q)
    BY <1>2 DEF ResponseInv, TypeOK, Refuse, Answer, Gather, Rewrite, Leave, Goto
<1>3. CASE SendStart(q) \/ SendBody(q) \/ HoldStart(q) \/ SendHeldBody(q)
    BY <1>3 DEF ResponseInv, TypeOK, SendStart, SendBody, HoldStart, SendHeldBody, Goto
<1>4. CASE SecureDocument(q) \/ PassPage(q)
    BY <1>4 DEF ResponseInv, TypeOK, SecureDocument, PassPage, Release, Goto
<1> QED
    BY <1>1, <1>2, <1>3, <1>4 DEF Relay, Secure

\* However requests are interleaved and whatever they ask for, a response under
\* way has a message left, and every step with it leaves fewer: what remains for
\* its delivery is that the event loop goes on resuming the coroutine.
THEOREM ChainComesToItsEnd == Spec => ComesToItsEnd
<1>1. ASSUME ResponseInv, Next, NEW r \in Request, phase[r] \in UnderWay
      PROVE  Shorter(r) \/ UNCHANGED <<phase[r], reply[r], gathered[r]>>
  <2>1. PICK q \in Request :
          \/ Receive(q) \/ Pass(q) \/ Refuse(q) \/ Answer(q) \/ Raise(q) \/ Break(q)
          \/ Relay(q) \/ Leave(q)
    BY <1>1 DEF Next
  <2>2. CASE q # r
    BY <1>1, <2>1, <2>2, OthersLeaveAlone
  <2>3. CASE q = r
    <3>1. ~Receive(r) /\ ~Pass(r) /\ ~Refuse(r) /\ ~Answer(r) /\ ~Raise(r) /\ ~Leave(r)
      BY <1>1 DEF Receive, Pass, Refuse, Answer, Raise, Leave, UnderWay
    <3> QED
      BY <1>1, <2>1, <2>3, <3>1, GatherShortens, RewriteShortens, StartShortens,
         ReleaseShortens, BodyShortens, EndShortens DEF Relay, Secure
  <2> QED
    BY <2>2, <2>3
<1>2. ResponseInv /\ [Next]_vars =>
        [\A r \in Request : phase[r] \in UnderWay =>
          /\ MessagesLeft(r) > 0
          /\ \/ phase'[r] \in {"done", "failed"}
             \/ phase'[r] \in UnderWay /\ MessagesLeft(r)' < MessagesLeft(r)
             \/ UNCHANGED <<phase[r], reply[r], gathered[r]>>]_vars
    BY <1>1, MessageLeft DEF Shorter
<1> QED
    BY <1>2, ResponseCoherent, PTL DEF Spec, ComesToItsEnd
=============================================================================
