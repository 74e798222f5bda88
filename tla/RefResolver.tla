---------------------------- MODULE RefResolver ----------------------------
(***************************************************************************)
(* resolve_external_refs (src/app/utils/openapi_resolver.py) as the workers *)
(* of one deployment run it while create_mcp_server boots: each replaces    *)
(* the external references of the same specification by the documents they *)
(* lead to, from a memory cache of its own run, from a disk cache that all  *)
(* workers share without a lock, or from the remote server.                *)
(*                                                                         *)
(* A cache file is truncated, and then written and read in blocks, so      *)
(* another worker can see, or leave, a file made of two writes; a process  *)
(* can end anywhere.                                                       *)
(***************************************************************************)
EXTENDS Naturals, Sequences, FiniteSets

CONSTANTS
    Worker,      \* worker processes sharing the cache directory
    Url,         \* remote documents
    Ref,         \* external references, each to a fragment of a document
    HomeUrl,     \* the document each reference leads to
    Contents,    \* what "spec", the specification, and each fragment may refer to
    MaxDepth,    \* Python's recursion limit, in inlined fragments
    TTL,         \* cache_ttl_seconds
    MayFail,     \* fetches, cache writes, fragments may fail, workers be killed
    MaxVersion,  \* bound on the versions of a document
    MaxTime,     \* bound on the clock
    NoDoc,       \* a document that is not in a memory cache
    Mixed,       \* a document put together from two versions of it
    Void,        \* a block of a cache file that was not written
    Absent       \* no cache file

\* Besides external references, a text may hold references that stay: to a part
\* of its own document ("#/..."), or external ones with siblings beside "$ref".
Kept == {"local", "sibling"}

ASSUME ResolverAssumption ==
    /\ HomeUrl \in [Ref -> Url]
    /\ Ref \cap Kept = {} /\ "spec" \notin Ref
    /\ Contents \subseteq [Ref \cup {"spec"} -> Seq(Ref \cup Kept)]
    /\ MaxDepth \in Nat /\ TTL \in Nat /\ MaxVersion \in Nat /\ MaxTime \in Nat
    /\ MayFail \in BOOLEAN
    /\ {Mixed, NoDoc} \cap Nat = {} /\ Mixed # NoDoc

VARIABLES
    time,      \* the wall clock
    content,   \* what the specification and each fragment refer to
    since,     \* when the remote server published each version of a document
    file,      \* the cache file of each document
    pc,        \* where each worker is
    todo,      \* what it still has to look at, innermost first
    memory,    \* document_cache: the version of each document it holds
    hand,      \* the server's answer and when it was given, or the stamp it has
               \* read or is about to write
    used,      \* the fragments it has inlined so far, and the version of their document
    left,      \* the references it has kept
    raced,     \* documents whose cache file was written by one worker while
               \* another was reading or writing it
    slack      \* the longest a document has been on its way to its timestamp

remote == <<time, content, since>>
run == <<todo, memory, hand, used, left>>
history == <<raced, slack>>
vars == <<remote, file, pc, run, history>>

Version == 0 .. MaxVersion

\* A block of a cache file: of a write of some version at some time, or missing.
Stamp == [doc : Version, at : 0 .. MaxTime]
Block == Stamp \cup {Void}
File == [head : Block, tail : Block] \cup {Absent}

ASSUME AbsentAssumption ==
    Absent \notin [head : Block, tail : Block] /\ Void \notin Stamp

Doc == Version \cup {Mixed}

Todo == [item : Ref \cup Kept, depth : Nat]

\* A worker has the cache file of its document open.
Reading == {"loading"}
Writing == {"head", "tail"}
Place == {"idle", "walk", "lookup", "fetch", "fetched", "cache", "done", "failed"}
            \cup Reading \cup Writing

-----------------------------------------------------------------------------
\* (Slip) what was inlined is not looked into.
ItemsOfSpec(where, depth) ==
    IF where # "spec" THEN << >>
    ELSE [i \in 1 .. Len(content[where]) |-> [item |-> content[where][i], depth |-> depth]]

\* The items of a text, to be looked at depth first.
Items(where, depth) ==
    [i \in 1 .. Len(content[where]) |-> [item |-> content[where][i], depth |-> depth]]

Init ==
    /\ time = 0
    /\ content \in Contents
    /\ since = [u \in Url |-> <<0>>]
    /\ file = [u \in Url |-> Absent]
    /\ pc = [w \in Worker |-> "idle"]
    /\ todo = [w \in Worker |-> << >>]
    /\ memory = [w \in Worker |-> [u \in Url |-> NoDoc]]
    /\ hand = [w \in Worker |-> Void]
    /\ used = [w \in Worker |-> {}]
    /\ left = [w \in Worker |-> {}]
    /\ raced = {}
    /\ slack = 0

Goto(w, place) == pc' = [pc EXCEPT ![w] = place]

\* The version of u the remote server gives now.
Current(u) == Len(since[u]) - 1

\* The reference worker w is at, and its document.
Here(w) == Head(todo[w])
At(w) == HomeUrl[Here(w).item]

\* Another worker has the cache file of u open.
OpenElsewhere(w, u, places) ==
    \E v \in Worker \ {w} : pc[v] \in places /\ At(v) = u

\* resolve_external_refs is called, in a process that starts or starts again.
Begin(w) ==
    /\ pc[w] = "idle"
    /\ Goto(w, "walk")
    /\ todo' = [todo EXCEPT ![w] = Items("spec", 0)]
    /\ UNCHANGED <<remote, file, memory, hand, used, left, history>>

\* _resolve_object on something that is not to be resolved: it stays.
Keep(w) ==
    /\ pc[w] = "walk" /\ todo[w] # << >> /\ Here(w).item \in Kept
    /\ left' = [left EXCEPT ![w] = @ \cup {Here(w).item}]
    /\ todo' = [todo EXCEPT ![w] = Tail(@)]
    /\ UNCHANGED <<remote, file, pc, memory, hand, used, history>>

\* The document is there: _navigate_to_fragment, which raises if it has no such
\* fragment; the walk goes into the fragment, whose relative references are
\* resolved against the document's URL.
Inline(w, doc) ==
    \/ /\ Goto(w, "walk")
       /\ used' = [used EXCEPT ![w] = @ \cup {<<Here(w).item, doc>>}]
       /\ todo' = [todo EXCEPT ![w] = Items(Here(w).item, Here(w).depth + 1) \o Tail(@)]
    \/ MayFail /\ Goto(w, "failed") /\ UNCHANGED <<used, todo>>

\* A call raises what nobody catches, and it leaves resolve_external_refs.
Fail(w) == Goto(w, "failed") /\ UNCHANGED <<remote, file, run, history>>

\* (Slip) a reference nested too deep is left in place.
ResolveGivesUp(w) ==
    /\ pc[w] = "walk" /\ todo[w] # << >> /\ Here(w).item \in Ref
    /\ IF Here(w).depth > MaxDepth
       THEN /\ left' = [left EXCEPT ![w] = @ \cup {Here(w).item}]
            /\ todo' = [todo EXCEPT ![w] = Tail(@)]
            /\ UNCHANGED <<remote, file, pc, memory, hand, used, history>>
       ELSE /\ IF memory[w][At(w)] # NoDoc
               THEN Inline(w, memory[w][At(w)])
               ELSE Goto(w, "lookup") /\ UNCHANGED <<todo, used>>
            /\ UNCHANGED <<remote, file, memory, hand, left, history>>

\* _resolve_ref and the memory cache of _get_document.
Resolve(w) ==
    /\ pc[w] = "walk" /\ todo[w] # << >> /\ Here(w).item \in Ref
    /\ IF Here(w).depth > MaxDepth
       THEN Fail(w)
       ELSE /\ IF memory[w][At(w)] # NoDoc
               THEN Inline(w, memory[w][At(w)])
               ELSE Goto(w, "lookup") /\ UNCHANGED <<todo, used>>
            /\ UNCHANGED <<remote, file, memory, hand, left, history>>

\* The walk is over.
Finish(w) ==
    /\ pc[w] = "walk" /\ todo[w] = << >>
    /\ Goto(w, "done")
    /\ UNCHANGED <<remote, file, run, history>>

-----------------------------------------------------------------------------
\* _read_from_cache: exists(), open() and the first block.
Lookup(w) ==
    /\ pc[w] = "lookup"
    /\ IF file[At(w)] = Absent
       THEN Goto(w, "fetch") /\ UNCHANGED <<hand, raced>>
       ELSE /\ Goto(w, "loading")
            /\ hand' = [hand EXCEPT ![w] = file[At(w)].head]
            /\ raced' = IF OpenElsewhere(w, At(w), Writing) THEN raced \cup {At(w)} ELSE raced
    /\ UNCHANGED <<remote, file, todo, memory, used, left, slack>>

\* What json.load may make of two blocks: two writes of the same text are one
\* document, blocks of different writes are one only by accident.
Parsed(head, tail) ==
    IF Void \in {head, tail} THEN {NoDoc}
    ELSE IF head = tail THEN {head.doc}
    ELSE {NoDoc, IF head.doc = tail.doc THEN head.doc ELSE Mixed}

Expired(stamp) == time - stamp.at > TTL

\* (Slip) the cached document is not remembered for the rest of the run.
RememberNot(w, doc) == UNCHANGED memory

\* document_cache[url] = ...
Remember(w, doc) == memory' = [memory EXCEPT ![w][At(w)] = doc]

\* (Slip) a miss looks again, for another worker to have written the file.
MissRetries(w) == Goto(w, "lookup") /\ UNCHANGED <<todo, memory, used>>

\* A file that cannot be parsed, or an old one, counts as none.
Miss(w) == Goto(w, "fetch") /\ UNCHANGED <<todo, memory, used>>

\* (Slip) the age of a cached document is not looked at.
LoadAnyAge(w) ==
    /\ pc[w] = "loading"
    /\ \E doc \in Parsed(hand[w], file[At(w)].tail) :
          IF doc = NoDoc THEN Miss(w)
          ELSE Remember(w, doc) /\ Inline(w, doc)
    /\ hand' = [hand EXCEPT ![w] = Void]
    /\ UNCHANGED <<remote, file, left, history>>

\* _read_from_cache: the other block, json.load and the timestamp.  A file that
\* cannot be read is a miss.
Load(w) ==
    /\ pc[w] = "loading"
    /\ \/ \E doc \in Parsed(hand[w], file[At(w)].tail) :
             IF doc = NoDoc \/ Expired(hand[w]) THEN Miss(w)
             ELSE Remember(w, doc) /\ Inline(w, doc)
       \/ MayFail /\ Miss(w)
    /\ hand' = [hand EXCEPT ![w] = Void]
    /\ UNCHANGED <<remote, file, left, history>>

\* _fetch_remote_document: the server answers with what it gives at that moment,
\* or fails, which raises.
Fetch(w) ==
    /\ pc[w] = "fetch"
    /\ \/ MayFail /\ Fail(w)
       \/ /\ Goto(w, "fetched")
          /\ hand' = [hand EXCEPT ![w] = [doc |-> Current(At(w)), at |-> time]]
          /\ UNCHANGED <<remote, file, todo, memory, used, left, history>>

Larger(m, n) == IF m > n THEN m ELSE n

\* The answer has come and is remembered: _write_to_cache takes the timestamp of
\* now.  What cannot be parsed raises, and so does a failing mkdir.
Stamps(w) ==
    /\ pc[w] = "fetched"
    /\ \/ MayFail /\ Fail(w)
       \/ /\ Goto(w, "cache")
          /\ Remember(w, hand[w].doc)
          /\ hand' = [hand EXCEPT ![w].at = time]
          /\ slack' = Larger(slack, time - hand[w].at)
          /\ UNCHANGED <<remote, file, todo, used, left, raced>>

\* The cache is written, or an OSError is logged, and the walk goes on.
Cached(w) ==
    /\ Inline(w, memory[w][At(w)])
    /\ hand' = [hand EXCEPT ![w] = Void]
    /\ UNCHANGED <<remote, memory, left, slack>>

\* (Slip) the cache file is opened without truncating it.
OpenCacheKeeping(w) ==
    /\ pc[w] = "cache"
    /\ \/ MayFail /\ Cached(w) /\ UNCHANGED <<file, raced>>
       \/ /\ Goto(w, "head")
          /\ file' = [file EXCEPT ![At(w)] =
                         IF @ = Absent THEN [head |-> Void, tail |-> Void] ELSE @]
          /\ raced' = IF OpenElsewhere(w, At(w), Reading \cup Writing)
                      THEN raced \cup {At(w)} ELSE raced
          /\ UNCHANGED <<remote, run, slack>>

\* _write_to_cache: a failing open is logged; a file that opens is empty.
OpenCache(w) ==
    /\ pc[w] = "cache"
    /\ \/ MayFail /\ Cached(w) /\ UNCHANGED <<file, raced>>
       \/ /\ Goto(w, "head")
          /\ file' = [file EXCEPT ![At(w)] = [head |-> Void, tail |-> Void]]
          /\ raced' = IF OpenElsewhere(w, At(w), Reading \cup Writing)
                      THEN raced \cup {At(w)} ELSE raced
          /\ UNCHANGED <<remote, run, slack>>

\* json.dump: the first block reaches the file, or the write fails, or what
\* YAML made of the document cannot be dumped, which nobody catches.
WriteHead(w) ==
    /\ pc[w] = "head"
    /\ \/ /\ Goto(w, "tail")
          /\ file' = [file EXCEPT ![At(w)].head = hand[w]]
          /\ UNCHANGED <<remote, run, history>>
       \/ MayFail /\ Cached(w) /\ UNCHANGED <<file, raced>>
       \/ MayFail /\ Fail(w)

\* ... and the last one.
WriteTail(w) ==
    /\ pc[w] = "tail"
    /\ \/ /\ Cached(w)
          /\ \/ file' = [file EXCEPT ![At(w)].tail = hand[w]]
             \/ MayFail /\ UNCHANGED file
          /\ UNCHANGED raced
       \/ MayFail /\ Fail(w)

-----------------------------------------------------------------------------
\* The process ends, killed or after its work, and another takes its place.
Restart(w) ==
    /\ pc[w] \in {"done", "failed"} \/ (MayFail /\ pc[w] # "idle")
    /\ Goto(w, "idle")
    /\ todo' = [todo EXCEPT ![w] = << >>]
    /\ memory' = [memory EXCEPT ![w] = [u \in Url |-> NoDoc]]
    /\ hand' = [hand EXCEPT ![w] = Void]
    /\ used' = [used EXCEPT ![w] = {}]
    /\ left' = [left EXCEPT ![w] = {}]
    /\ UNCHANGED <<remote, file, history>>

\* The remote server publishes a new version of u.
Publish(u) ==
    /\ Current(u) < MaxVersion
    /\ since' = [since EXCEPT ![u] = Append(@, time)]
    /\ UNCHANGED <<time, content, file, pc, run, history>>

Tick ==
    /\ time < MaxTime
    /\ time' = time + 1
    /\ UNCHANGED <<content, since, file, pc, run, history>>

Work(w) ==
    \/ Keep(w) \/ Resolve(w) \/ Finish(w)
    \/ Lookup(w) \/ Load(w) \/ Fetch(w) \/ Stamps(w)
    \/ OpenCache(w) \/ WriteHead(w) \/ WriteTail(w)

Next ==
    \/ \E w \in Worker : Begin(w) \/ Work(w) \/ Restart(w)
    \/ \E u \in Url : Publish(u)
    \/ Tick

Spec == Init /\ [][Next]_vars

\* The operating system schedules every worker; httpx times out.
FairSpec == Spec /\ \A w \in Worker : WF_vars(Work(w))

-----------------------------------------------------------------------------
TypeOK ==
    /\ time \in 0 .. MaxTime
    /\ content \in Contents
    /\ since \in [Url -> Seq(0 .. MaxTime)]
    /\ \A u \in Url : Len(since[u]) \in 1 .. MaxVersion + 1
    /\ file \in [Url -> File]
    /\ pc \in [Worker -> Place]
    /\ todo \in [Worker -> Seq(Todo)]
    /\ memory \in [Worker -> [Url -> Doc \cup {NoDoc}]]
    /\ hand \in [Worker -> Block]
    /\ used \in [Worker -> SUBSET (Ref \X Doc)]
    /\ left \in [Worker -> SUBSET (Ref \cup Kept)]
    /\ raced \subseteq Url
    /\ slack \in 0 .. MaxTime

\* The document a worker is at is in its memory cache once it was read or
\* fetched, and not before; its cache file is there while it is open.
AtDocument ==
    \A w \in Worker :
        /\ pc[w] \in {"lookup", "fetch", "fetched", "cache"} \cup Reading \cup Writing =>
              todo[w] # << >> /\ Here(w).item \in Ref
        /\ pc[w] \in {"lookup", "fetch", "fetched"} \cup Reading =>
              memory[w][At(w)] = NoDoc
        /\ pc[w] \in {"cache"} \cup Writing => memory[w][At(w)] # NoDoc
        /\ pc[w] \in {"fetched", "cache"} \cup Writing => hand[w] # Void
        /\ pc[w] \in Reading \cup Writing => file[At(w)] # Absent

\* What was inlined is what is in memory.
UsedIsRemembered ==
    \A w \in Worker : \A p \in used[w] : memory[w][HomeUrl[p[1]]] = p[2]

\* A run gives up no reference that it resolves: it goes into it or raises.
LeftMayStay == \A w \in Worker : left[w] \subseteq Kept

ResolverInv == TypeOK /\ AtDocument /\ UsedIsRemembered /\ LeftMayStay

\* A stamp of a document names a version that the server still gave then, or
\* had given no longer before than some document was on its way.
StampHolds(u, stamp, late) ==
    stamp # Void =>
        /\ stamp.at <= time
        /\ stamp.doc <= Current(u)
        /\ stamp.doc < Current(u) => stamp.at <= since[u][stamp.doc + 2] + late

\* So do all stamps, in cache files and in the hands of workers; a document on
\* its way was given when it says.
StampsHold ==
    /\ \A u \in Url : file[u] # Absent =>
          StampHolds(u, file[u].head, slack) /\ StampHolds(u, file[u].tail, slack)
    /\ \A w \in Worker :
          /\ pc[w] = "fetched" => StampHolds(At(w), hand[w], 0)
          /\ pc[w] \in {"cache"} \cup Reading \cup Writing =>
                StampHolds(At(w), hand[w], slack)

\* However often a run comes back to a document, whatever other workers write
\* and the server publishes meanwhile, all it inlines of it is one version.
OneVersionPerRun ==
    \A w \in Worker : \A p, q \in used[w] : HomeUrl[p[1]] = HomeUrl[q[1]] => p[2] = q[2]

\* What a text refers to, and what a run has inlined.
References(where) == {content[where][i] : i \in 1 .. Len(content[where])}
Fragments(w) == {p[1] : p \in used[w]}

\* The least set that has what the specification refers to and, with a
\* fragment, what the fragment refers to.
Closed(texts) == \A x \in texts \ Kept : References(x) \subseteq texts
Reachable ==
    {x \in Ref \cup Kept : \A texts \in SUBSET (Ref \cup Kept \cup {"spec"}) :
        "spec" \in texts /\ Closed(texts) => x \in texts}

\* A run that comes to its end has inlined every fragment that the specification
\* leads to, directly or through others, wherever the documents came from and
\* whatever was published meanwhile; it has inlined nothing else, and what it
\* left in place is what it may leave.
InlinesTheReachable ==
    \A w \in Worker : pc[w] = "done" =>
        Fragments(w) = Reachable \cap Ref /\ left[w] = Reachable \cap Kept

\* It has also met no circle: among what it inlined no fragments lead back
\* to each other, so the text it returns is finite.
NoCircleInlined ==
    \A w \in Worker : pc[w] = "done" =>
        \A S \in SUBSET Fragments(w) : (\A x \in S : References(x) \cap S # {}) => S = {}

\* A document that never was is only ever read from the cache if a worker
\* opened the file while another was using it; no kill and no failed write
\* leaves one behind.
MixedOnlyByRace ==
    \A w \in Worker, u \in Url : memory[w][u] = Mixed => u \in raced

\* A run never starts to use a version of a document that the server had
\* replaced longer ago than the TTL and the time that documents take from the
\* server to their timestamp: the TTL counts from _write_to_cache, not from the
\* server's answer, and nothing bounds what lies between.
FreshWhenTaken ==
    [][\A w \in Worker, u \in Url :
          LET doc == memory'[w][u] IN
          memory[w][u] = NoDoc /\ doc \in Version =>
             doc = Current(u) \/ time - since[u][doc + 2] <= TTL + slack']_vars

\* A run ends, even one whose documents refer to each other in a circle.
RunEnds == \A w \in Worker : pc[w] = "walk" ~> pc[w] \in {"done", "failed", "idle"}

\* tests/test_openapi_resolver.py:435: resolution continues until no external
\* references remain.
NoExternalRefLeft == \A w \in Worker : pc[w] = "done" => left[w] \subseteq {"local"}
=============================================================================
