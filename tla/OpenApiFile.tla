---------------------------- MODULE OpenApiFile ----------------------------
(***************************************************************************)
(* The pygeoapi OpenAPI file on disk, as the workers of one deployment     *)
(* create it: ensure_openapi_file_exists() of                              *)
(* src/app/utils/openapi_generator.py, which every worker process runs at  *)
(* import time (src/app/main.py:395), with no lock between them.           *)
(*                                                                         *)
(* The function tests exists(), creates an empty file, opens it again for  *)
(* writing (which truncates whatever another worker has put there),        *)
(* generates the document while the empty file is already visible, and     *)
(* only then writes it.  A write is not atomic: readers and crashes can    *)
(* fall between its first and its last block, so the content is the set of *)
(* blocks that hold document text.  Two workers write the same text at the *)
(* same offsets, since both generate it from the same configuration.       *)
(***************************************************************************)
CONSTANTS
    Worker,      \* worker processes sharing the file
    MayStop,     \* generation may raise and workers may be killed while booting
    MayRemove    \* an operator may delete the file

ASSUME SwitchAssumption == MayStop \in BOOLEAN /\ MayRemove \in BOOLEAN

VARIABLES
    present,     \* the path exists
    parts,       \* the blocks of the file that hold document text
    gen,         \* where each worker is in ensure_openapi_file_exists
    detached,    \* workers whose open file has been unlinked from the path
    abandoned    \* a writer of the present file stopped before finishing it

fileVars == <<present, parts, gen, detached, abandoned>>

Part == {"head", "tail"}

\* Points of the function at which the worker holds the file open.
Opened == {"generate", "head", "tail"}

\* From the first truncation to the last block.
Writing == {"open"} \cup Opened

GenState == {"stopped", "check", "touch", "settled"} \cup Writing

\* Worker w has this file, and not an unlinked one, open.
Linked(w) == gen[w] \in Opened /\ w \notin detached

-----------------------------------------------------------------------------
FileInit ==
    /\ present = FALSE
    /\ parts = {}
    /\ gen = [w \in Worker |-> "stopped"]
    /\ detached = {}
    /\ abandoned = FALSE

Goto(w, state) == gen' = [gen EXCEPT ![w] = state]

\* A process starts (or is restarted by its supervisor) and calls the function.
Start(w) ==
    /\ gen[w] = "stopped"
    /\ Goto(w, "check")
    /\ UNCHANGED <<present, parts, detached, abandoned>>

\* (Slip) the exists() test is dropped: every boot generates.
CheckAlwaysGenerates(w) ==
    /\ gen[w] = "check"
    /\ Goto(w, "touch")
    /\ UNCHANGED <<present, parts, detached, abandoned>>

\* if not pygeoapi_oapi.exists(): an existing file is taken as it is.
Check(w) ==
    /\ gen[w] = "check"
    /\ Goto(w, IF present THEN "settled" ELSE "touch")
    /\ UNCHANGED <<present, parts, detached, abandoned>>

\* Creating or truncating the path.  The worker that does it goes on to write
\* every block, so what an earlier writer left unfinished no longer matters.
Truncate ==
    /\ present' = TRUE
    /\ parts' = {}
    /\ abandoned' = FALSE
    /\ UNCHANGED detached

\* pygeoapi_oapi.write_text(data="")
Touch(w) ==
    /\ gen[w] = "touch"
    /\ Goto(w, "open")
    /\ Truncate

\* with pygeoapi_oapi.open(mode="w") as oapi_file
Open(w) ==
    /\ gen[w] = "open"
    /\ Goto(w, "generate")
    /\ Truncate

\* (Slip) an exception of the generator is logged and swallowed.
GenerateSwallows(w) ==
    /\ gen[w] = "generate"
    /\ Goto(w, "head") \/ Goto(w, "settled")
    /\ UNCHANGED <<present, parts, detached, abandoned>>

\* generate_openapi_document(...) returns; nothing is written yet.
Generate(w) ==
    /\ gen[w] = "generate"
    /\ Goto(w, "head")
    /\ UNCHANGED <<present, parts, detached, abandoned>>

\* A block reaches the file only while the path still leads to it.
WriteBlock(w, block) ==
    parts' = IF Linked(w) THEN parts \cup {block} ELSE parts

\* oapi_file.write(oapi_content): the first blocks.
WriteHead(w) ==
    /\ gen[w] = "head"
    /\ WriteBlock(w, "head")
    /\ Goto(w, "tail")
    /\ UNCHANGED <<present, detached, abandoned>>

\* The remaining blocks, and the close at the end of the with statement.
WriteTail(w) ==
    /\ gen[w] = "tail"
    /\ WriteBlock(w, "tail")
    /\ Goto(w, "settled")
    /\ detached' = detached \ {w}
    /\ UNCHANGED <<present, abandoned>>

\* The process ends at any point: an exception out of the function (the with
\* statement closes the file and leaves it as it is), a kill, or later on.
Stop(w) ==
    /\ gen[w] # "stopped"
    /\ Goto(w, "stopped")
    /\ detached' = detached \ {w}
    /\ abandoned' = (abandoned \/ Linked(w) \/ (present /\ gen[w] = "open"))
    /\ UNCHANGED <<present, parts>>

\* The operator deletes the file to have it generated again.  A writer that
\* has it open keeps writing to a file no path leads to.
Remove ==
    /\ MayRemove
    /\ present
    /\ present' = FALSE
    /\ parts' = {}
    /\ detached' = detached \cup {w \in Worker : gen[w] \in Opened}
    /\ abandoned' = FALSE
    /\ UNCHANGED gen

\* The steps of the function.
Ensure(w) ==
    \/ Check(w) \/ Touch(w) \/ Open(w)
    \/ Generate(w) \/ WriteHead(w) \/ WriteTail(w)

\* A worker that has returned from the function may end even if MayStop is
\* FALSE: the rest of its boot may refuse to go on.
FileNext ==
    \/ \E w \in Worker :
          Start(w) \/ Ensure(w) \/ ((MayStop \/ gen[w] = "settled") /\ Stop(w))
    \/ Remove

FileSpec == FileInit /\ [][FileNext]_fileVars

-----------------------------------------------------------------------------
FileTypeOK ==
    /\ present \in BOOLEAN
    /\ parts \subseteq Part
    /\ gen \in [Worker -> GenState]
    /\ detached \subseteq Worker
    /\ abandoned \in BOOLEAN

\* Nobody is past the exists() test without having finished.
Quiet == \A w \in Worker : gen[w] \notin {"touch"} \cup Writing

Whole == present /\ parts = Part

\* However many workers raced to create the file, truncating each other's
\* work and however often it was deleted meanwhile, once they are done the
\* file holds the complete document, unless a writer stopped half-way and no
\* other truncated the file after it.
QuietFileIsWhole == Quiet /\ present /\ ~abandoned => Whole

\* A file that is there while no generation is under way is never touched by
\* a later boot, nor does any boot start to generate it, whether it is complete
\* or was left damaged: only deleting it makes a boot generate it again.  (The
\* exists() test of line 47.)
BootKeepsQuietFile ==
    [][Quiet /\ present => (Quiet' /\ UNCHANGED parts) \/ ~present']_fileVars

-----------------------------------------------------------------------------
(* The invariant behind QuietFileIsWhole. *)

\* w is bound to write block p of the file the path leads to, or of the one
\* it is about to open there.
Owes(w, p) ==
    \/ gen[w] = "open"
    \/ Linked(w) /\ gen[w] \in {"generate", "head"}
    \/ Linked(w) /\ gen[w] = "tail" /\ p = "tail"

\* Every block missing from a file nobody abandoned has a worker that owes it.
MissingBlocksAreOwed ==
    present /\ ~abandoned =>
        \A p \in Part \ parts : \E w \in Worker : Owes(w, p)

\* Only a worker with the file open can have it unlinked under it.
DetachedAreOpened == \A w \in detached : gen[w] \in Opened

AbsentIsBlank == ~present => parts = {} /\ \A w \in Worker : ~Linked(w)

FileInv ==
    FileTypeOK /\ MissingBlocksAreOwed /\ DetachedAreOpened /\ AbsentIsBlank
=============================================================================
