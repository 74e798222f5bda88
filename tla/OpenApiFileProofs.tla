------------------------- MODULE OpenApiFileProofs -------------------------
(***************************************************************************)
(* Proofs about OpenApiFile for any set of workers, with or without        *)
(* failures and deletions.                                                 *)
(***************************************************************************)
EXTENDS OpenApiFile, TLAPS

USE DEF Part, Opened, Writing, GenState, fileVars

(* FileInv holds initially: no file, so nothing is owed. *)
LEMMA FileInitInv == FileInit => FileInv
  BY DEF FileInit, FileInv, FileTypeOK, MissingBlocksAreOwed,
         DetachedAreOpened, AbsentIsBlank, Linked

(* A truncation by a worker that goes on to open or write the file leaves    *)
(* that worker owing every block.                                            *)
LEMMA TruncateOwes ==
  ASSUME FileTypeOK, DetachedAreOpened, NEW w \in Worker, Truncate,
         \/ gen[w] = "touch" /\ Goto(w, "open")
         \/ gen[w] = "open"  /\ Goto(w, "generate")
  PROVE  FileTypeOK' /\ MissingBlocksAreOwed' /\ DetachedAreOpened' /\ AbsentIsBlank'
<1>1. FileTypeOK'
  BY DEF FileTypeOK, Truncate, Goto
<1>2. w \notin detached'
  BY DEF DetachedAreOpened, Truncate
<1>3. \A p \in Part : Owes(w, p)'
  BY <1>2 DEF Owes, Linked, FileTypeOK, Goto
<1>4. MissingBlocksAreOwed'
  BY <1>3 DEF MissingBlocksAreOwed
<1>5. DetachedAreOpened'
  BY <1>2 DEF DetachedAreOpened, Truncate, Goto, FileTypeOK
<1>6. AbsentIsBlank'
  BY DEF AbsentIsBlank, Truncate
<1>. QED  BY <1>1, <1>4, <1>5, <1>6

(* Each step of the function preserves FileInv. *)
LEMMA EnsureInv ==
  ASSUME FileInv, NEW w \in Worker, Ensure(w)
  PROVE  FileInv'
<1>. USE DEF FileInv
<1>1. CASE Check(w)
  <2>1. FileTypeOK'
    BY <1>1 DEF Check, Goto, FileTypeOK
  <2>2. \A v \in Worker : Linked(v)' <=> Linked(v)
    BY <1>1 DEF Check, Goto, FileTypeOK, Linked
  <2>3. \A v \in Worker, p \in Part : Owes(v, p) => Owes(v, p)'
    BY <1>1, <2>2 DEF Check, Goto, FileTypeOK, Owes
  <2>4. MissingBlocksAreOwed'
    BY <1>1, <2>3 DEF Check, MissingBlocksAreOwed
  <2>5. DetachedAreOpened' /\ AbsentIsBlank'
    BY <1>1, <2>2 DEF Check, Goto, FileTypeOK, DetachedAreOpened, AbsentIsBlank
  <2>. QED  BY <2>1, <2>4, <2>5
<1>2. CASE Touch(w)
  BY <1>2, TruncateOwes DEF Touch
<1>3. CASE Open(w)
  BY <1>3, TruncateOwes DEF Open
<1>4. CASE Generate(w)
  <2>1. FileTypeOK'
    BY <1>4 DEF Generate, Goto, FileTypeOK
  <2>2. \A v \in Worker : Linked(v)' <=> Linked(v)
    BY <1>4 DEF Generate, Goto, FileTypeOK, Linked
  <2>3. \A v \in Worker, p \in Part : Owes(v, p) => Owes(v, p)'
    BY <1>4, <2>2 DEF Generate, Goto, FileTypeOK, Owes
  <2>4. MissingBlocksAreOwed'
    BY <1>4, <2>3 DEF Generate, MissingBlocksAreOwed
  <2>5. DetachedAreOpened' /\ AbsentIsBlank'
    BY <1>4, <2>2 DEF Generate, Goto, FileTypeOK, DetachedAreOpened, AbsentIsBlank
  <2>. QED  BY <2>1, <2>4, <2>5
<1>5. CASE WriteHead(w)
  <2>1. FileTypeOK'
    BY <1>5 DEF WriteHead, WriteBlock, Goto, FileTypeOK
  <2>2. \A v \in Worker : Linked(v)' <=> Linked(v)
    BY <1>5 DEF WriteHead, Goto, FileTypeOK, Linked
  <2>3. \A v \in Worker, p \in Part \ parts' : Owes(v, p) => Owes(v, p)'
    BY <1>5, <2>2 DEF WriteHead, WriteBlock, Goto, FileTypeOK, Owes
  <2>4. MissingBlocksAreOwed'
    BY <1>5, <2>3 DEF WriteHead, WriteBlock, MissingBlocksAreOwed
  <2>5. DetachedAreOpened' /\ AbsentIsBlank'
    BY <1>5, <2>2
    DEF WriteHead, WriteBlock, Goto, FileTypeOK, DetachedAreOpened, AbsentIsBlank
  <2>. QED  BY <2>1, <2>4, <2>5
<1>6. CASE WriteTail(w)
  <2>1. FileTypeOK'
    BY <1>6 DEF WriteTail, WriteBlock, Goto, FileTypeOK
  <2>2. \A v \in Worker : Linked(v)' <=> (Linked(v) /\ v # w)
    BY <1>6 DEF WriteTail, Goto, FileTypeOK, Linked
  <2>3. \A v \in Worker, p \in Part \ parts' : Owes(v, p) => Owes(v, p)'
    BY <1>6, <2>2 DEF WriteTail, WriteBlock, Goto, FileTypeOK, Owes
  <2>4. MissingBlocksAreOwed'
    BY <1>6, <2>3 DEF WriteTail, WriteBlock, MissingBlocksAreOwed
  <2>5. DetachedAreOpened' /\ AbsentIsBlank'
    BY <1>6, <2>2
    DEF WriteTail, WriteBlock, Goto, FileTypeOK, DetachedAreOpened, AbsentIsBlank
  <2>. QED  BY <2>1, <2>4, <2>5
<1>. QED  BY <1>1, <1>2, <1>3, <1>4, <1>5, <1>6 DEF Ensure

(* The steps around the function preserve FileInv: a worker that stops while *)
(* it owes blocks abandons the file.                                         *)
LEMMA StartInv ==
  ASSUME FileInv, NEW w \in Worker, Start(w)
  PROVE  FileInv'
<1>. USE DEF FileInv
<1>1. FileTypeOK'
  BY DEF Start, Goto, FileTypeOK
<1>2. \A v \in Worker : Linked(v)' <=> Linked(v)
  BY DEF Start, Goto, FileTypeOK, Linked
<1>3. \A v \in Worker, p \in Part : Owes(v, p) => Owes(v, p)'
  BY <1>2 DEF Start, Goto, FileTypeOK, Owes
<1>4. MissingBlocksAreOwed'
  BY <1>3 DEF Start, MissingBlocksAreOwed
<1>5. DetachedAreOpened' /\ AbsentIsBlank'
  BY <1>2 DEF Start, Goto, FileTypeOK, DetachedAreOpened, AbsentIsBlank
<1>. QED  BY <1>1, <1>4, <1>5

LEMMA StopInv ==
  ASSUME FileInv, NEW w \in Worker, Stop(w)
  PROVE  FileInv'
<1>. USE DEF FileInv
<1>1. FileTypeOK'
  BY DEF Stop, Goto, FileTypeOK, Linked
<1>2. \A v \in Worker : Linked(v)' <=> (Linked(v) /\ v # w)
  BY DEF Stop, Goto, FileTypeOK, Linked
<1>3. \A v \in Worker \ {w}, p \in Part : Owes(v, p) => Owes(v, p)'
  BY <1>2 DEF Stop, Goto, FileTypeOK, Owes
<1>4. present /\ ~abandoned' => \A p \in Part : ~Owes(w, p)
  BY DEF Stop, Owes
<1>5. MissingBlocksAreOwed'
  <2>. SUFFICES ASSUME present, ~abandoned', NEW p \in Part \ parts
                PROVE  \E v \in Worker : Owes(v, p)'
    BY DEF Stop, MissingBlocksAreOwed
  <2>1. ~abandoned
    BY DEF Stop, FileTypeOK
  <2>2. PICK v \in Worker : Owes(v, p)
    BY <2>1 DEF MissingBlocksAreOwed
  <2>3. v # w
    BY <2>2, <1>4
  <2>. QED  BY <2>2, <2>3, <1>3
<1>6. DetachedAreOpened' /\ AbsentIsBlank'
  BY <1>2 DEF Stop, Goto, FileTypeOK, DetachedAreOpened, AbsentIsBlank
<1>. QED  BY <1>1, <1>5, <1>6

LEMMA RemoveInv == FileInv /\ Remove => FileInv'
<1>. SUFFICES ASSUME FileInv, Remove PROVE FileInv'
  OBVIOUS
<1>. USE DEF FileInv
<1>1. FileTypeOK'
  BY DEF Remove, FileTypeOK
<1>2. MissingBlocksAreOwed'
  BY DEF Remove, MissingBlocksAreOwed
<1>3. DetachedAreOpened' /\ AbsentIsBlank'
  BY DEF Remove, FileTypeOK, DetachedAreOpened, AbsentIsBlank, Linked
<1>. QED  BY <1>1, <1>2, <1>3

LEMMA FileNextInv == FileInv /\ [FileNext]_fileVars => FileInv'
<1>. SUFFICES ASSUME FileInv, [FileNext]_fileVars PROVE FileInv'
  OBVIOUS
<1>1. CASE \E w \in Worker : 
              Start(w) \/ Ensure(w) \/ ((MayStop \/ gen[w] = "settled") /\ Stop(w))
  BY <1>1, StartInv, EnsureInv, StopInv
<1>2. CASE Remove
  BY <1>2, RemoveInv
<1>3. CASE UNCHANGED fileVars
  BY <1>3 DEF FileInv, FileTypeOK, MissingBlocksAreOwed, DetachedAreOpened,
              AbsentIsBlank, Owes, Linked
<1>. QED  BY <1>1, <1>2, <1>3 DEF FileNext

(* The type invariant and the accounting of missing blocks hold throughout.  *)
THEOREM FileInvariant == FileSpec => []FileInv
  BY FileInitInv, FileNextInv, PTL DEF FileSpec

(* Whatever the number of workers racing in ensure_openapi_file_exists: once *)
(* they are through, a file nobody abandoned is complete.                    *)
THEOREM QuietFileCorrect == FileSpec => []QuietFileIsWhole
<1>1. FileInv => QuietFileIsWhole
  BY DEF FileInv, FileTypeOK, MissingBlocksAreOwed, QuietFileIsWhole, Quiet,
         Whole, Owes, Linked
<1>. QED  BY <1>1, FileInvariant, PTL

(* A boot never changes a file that was there before it started, with nobody *)
(* generating: it needs the invariant that gen is a function into GenState.  *)
THEOREM BootKeepsCorrect == FileSpec => BootKeepsQuietFile
<1>1. ASSUME FileInv, Quiet, present, FileNext PROVE (Quiet' /\ UNCHANGED parts) \/ ~present'
  <2>. USE <1>1 DEF FileInv, FileTypeOK, Quiet, Goto
  <2>1. ASSUME NEW w \in Worker, Start(w) \/ Stop(w) PROVE Quiet' /\ UNCHANGED parts
    BY <2>1 DEF Start, Stop
  <2>2. ASSUME NEW w \in Worker, Ensure(w) PROVE Quiet' /\ UNCHANGED parts
    BY <2>2 DEF Ensure, Check, Touch, Open, Generate, WriteHead, WriteTail
  <2>3. CASE Remove
    BY <2>3 DEF Remove
  <2>. QED  BY <2>1, <2>2, <2>3 DEF FileNext
<1>2. FileInv /\ [FileNext]_fileVars
        => [Quiet /\ present => (Quiet' /\ UNCHANGED parts) \/ ~present']_fileVars
  BY <1>1
<1>. QED  BY <1>2, FileInvariant, PTL DEF FileSpec, BootKeepsQuietFile
=============================================================================
