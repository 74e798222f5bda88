------------------------- MODULE RefResolverProofs -------------------------
(***************************************************************************)
(* For any workers, documents, references, failures and times: a run of    *)
(* resolve_external_refs inlines one version of each document, starts to   *)
(* use none that was replaced longer ago than the TTL and the time that    *)
(* documents take to their timestamp, and reads a mixed one only after a   *)
(* race for its cache file.                                                *)
(***************************************************************************)
EXTENDS RefResolver, SequenceTheorems, TLAPS

USE DEF remote, run, history, vars, Kept, Reading, Writing, Goto

-----------------------------------------------------------------------------
(* The references of a text are items for the walk.                          *)
LEMMA ItemsType ==
  ASSUME TypeOK, NEW where \in Ref \cup {"spec"}, NEW depth \in Nat
  PROVE  Items(where, depth) \in Seq(Todo)
<1>1. content[where] \in Seq(Ref \cup Kept)
  BY ResolverAssumption DEF TypeOK
<1>2. Len(content[where]) \in Nat /\ \A i \in 1 .. Len(content[where]) : content[where][i] \in Ref \cup Kept
  BY <1>1, ElementOfSeq, LenProperties
<1>. QED  BY <1>1, <1>2 DEF Items, Todo

(* Going into a fragment, or failing to, leaves a proper walk.               *)
LEMMA InlineType ==
  ASSUME TypeOK, NEW w \in Worker, NEW doc \in Doc, Inline(w, doc),
         todo[w] # << >>, Here(w).item \in Ref
  PROVE  /\ pc' \in [Worker -> Place]
         /\ todo' \in [Worker -> Seq(Todo)]
         /\ used' \in [Worker -> SUBSET (Ref \X Doc)]
<1>1. CASE /\ pc' = [pc EXCEPT ![w] = "walk"]
           /\ used' = [used EXCEPT ![w] = @ \cup {<<Here(w).item, doc>>}]
           /\ todo' = [todo EXCEPT ![w] = Items(Here(w).item, Here(w).depth + 1) \o Tail(@)]
  <2>1. todo[w] \in Seq(Todo) /\ Here(w) \in Todo /\ Tail(todo[w]) \in Seq(Todo)
    BY HeadTailProperties DEF TypeOK, Here
  <2>5. Here(w).depth + 1 \in Nat /\ Here(w).item \in Ref \cup {"spec"}
    BY <2>1 DEF Todo
  <2>2. Items(Here(w).item, Here(w).depth + 1) \in Seq(Todo)
    BY <2>5, ItemsType
  <2>3. Items(Here(w).item, Here(w).depth + 1) \o Tail(todo[w]) \in Seq(Todo)
    BY <2>1, <2>2, ConcatProperties
  <2>. QED  BY <1>1, <2>3 DEF TypeOK, Place
<1>2. CASE pc' = [pc EXCEPT ![w] = "failed"] /\ UNCHANGED <<used, todo>>
  BY <1>2 DEF TypeOK, Place
<1>. QED  BY <1>1, <1>2 DEF Inline

(* ... and adds to what was inlined nothing but what is in memory.           *)
LEMMA InlineUsed ==
  ASSUME TypeOK, UsedIsRemembered, NEW w \in Worker, NEW doc \in Doc,
         Inline(w, doc), At(w) \in Url,
         memory' = [memory EXCEPT ![w][At(w)] = doc],
         memory[w][At(w)] \in {NoDoc, doc}
  PROVE  UsedIsRemembered'
<1>1. NoDoc \notin Doc
  BY ResolverAssumption DEF Doc, Version
<1>2. \A p \in used[w] : p \in Ref \X Doc /\ memory[w][HomeUrl[p[1]]] = p[2]
  BY DEF TypeOK, UsedIsRemembered
<1>3. \A p \in used[w] : HomeUrl[p[1]] = At(w) => p[2] = doc
  BY <1>1, <1>2
<1>4. used'[w] \subseteq used[w] \cup {<<Here(w).item, doc>>} /\ \A v \in Worker \ {w} : used'[v] = used[v]
  BY DEF Inline, TypeOK
<1>5. \A u \in Url : memory'[w][u] = IF u = At(w) THEN doc ELSE memory[w][u]
  BY DEF TypeOK
<1>6. \A v \in Worker \ {w} : memory'[v] = memory[v]
  BY DEF TypeOK
<1>7. \A p \in used'[w] : memory'[w][HomeUrl[p[1]]] = p[2]
  <2>1. \A p \in used[w] : HomeUrl[p[1]] \in Url
    BY <1>2, ResolverAssumption
  <2>2. \A p \in used[w] : memory'[w][HomeUrl[p[1]]] = p[2]
    BY <1>2, <1>3, <1>5, <2>1
  <2>3. memory'[w][HomeUrl[Here(w).item]] = doc
    BY <1>5 DEF At
  <2>. QED  BY <1>4, <2>2, <2>3
<1>. QED  BY <1>4, <1>6, <1>7 DEF UsedIsRemembered

\* Nobody else's walk, memory or file is touched by a step of w at its document.
LEMMA HereType ==
  ASSUME TypeOK, NEW w \in Worker, todo[w] # << >>, Here(w).item \in Ref
  PROVE  At(w) \in Url /\ memory[w][At(w)] \in Doc \cup {NoDoc} /\ file[At(w)] \in File
<1>1. At(w) \in Url
  BY ResolverAssumption DEF At
<1>. QED  BY <1>1 DEF TypeOK

LEMMA TailType ==
  ASSUME TypeOK, NEW w \in Worker, todo[w] # << >>
  PROVE  Tail(todo[w]) \in Seq(Todo)
  BY HeadTailProperties DEF TypeOK

LEMMA NoDocFresh == NoDoc \notin Doc /\ Version \subseteq Nat
  BY ResolverAssumption DEF Doc, Version

LEMMA InitInv == Init => ResolverInv
<1>. SUFFICES ASSUME Init PROVE ResolverInv
  OBVIOUS
<1>1. \A u \in Url : since[u] \in Seq(0 .. MaxTime) /\ Len(since[u]) = 1
  BY ResolverAssumption DEF Init
<1>2. TypeOK
  BY <1>1, ResolverAssumption DEF Init, TypeOK, Place, File, Block
<1>3. AtDocument /\ UsedIsRemembered /\ LeftMayStay
  BY DEF Init, AtDocument, UsedIsRemembered, LeftMayStay
<1>. QED  BY <1>2, <1>3 DEF ResolverInv

-----------------------------------------------------------------------------
(* Steps of the walk.                                                        *)
LEMMA BeginInv ==
  ASSUME ResolverInv, NEW w \in Worker, Begin(w) PROVE ResolverInv'
<1>. USE DEF ResolverInv, Begin
<1>1. Items("spec", 0) \in Seq(Todo)
  BY ItemsType
<1>2. TypeOK'
  BY <1>1 DEF TypeOK, Place
<1>3. AtDocument'
  BY DEF TypeOK, AtDocument, At, Here
<1>4. UsedIsRemembered' /\ LeftMayStay'
  BY DEF UsedIsRemembered, LeftMayStay
<1>. QED  BY <1>2, <1>3, <1>4

LEMMA KeepInv ==
  ASSUME ResolverInv, NEW w \in Worker, Keep(w) PROVE ResolverInv'
<1>. USE DEF ResolverInv, Keep
<1>1. TypeOK'
  BY TailType DEF TypeOK
<1>2. AtDocument'
  BY DEF TypeOK, AtDocument, At, Here
<1>3. UsedIsRemembered' /\ LeftMayStay'
  BY DEF UsedIsRemembered, LeftMayStay, TypeOK
<1>. QED  BY <1>1, <1>2, <1>3

LEMMA FailInv ==
  ASSUME ResolverInv, NEW w \in Worker, Fail(w) PROVE ResolverInv'
<1>. USE DEF ResolverInv, Fail
<1>1. TypeOK'
  BY DEF TypeOK, Place
<1>2. AtDocument'
  BY DEF TypeOK, AtDocument, At, Here
<1>3. UsedIsRemembered' /\ LeftMayStay'
  BY DEF UsedIsRemembered, LeftMayStay
<1>. QED  BY <1>1, <1>2, <1>3

(* A step that inlines the document it has, or fails to.                     *)
LEMMA InlineInv ==
  ASSUME ResolverInv, NEW w \in Worker, NEW doc \in Doc, Inline(w, doc),
         todo[w] # << >>, Here(w).item \in Ref,
         memory' = [memory EXCEPT ![w][At(w)] = doc],
         memory[w][At(w)] \in {NoDoc, doc},
         hand' = [hand EXCEPT ![w] = Void] \/ UNCHANGED hand,
         file' \in [Url -> File],
         \A u \in Url : file[u] # Absent => file'[u] # Absent,
         raced' \subseteq Url,
         UNCHANGED <<remote, left, slack>>
  PROVE  ResolverInv'
<1>. USE DEF ResolverInv
<1>0. At(w) \in Url
  BY HereType
<1>1. TypeOK'
  <2>1. memory' \in [Worker -> [Url -> Doc \cup {NoDoc}]]
    BY <1>0 DEF TypeOK
  <2>2. hand' \in [Worker -> Block]
    BY DEF TypeOK, Block
  <2>. QED  BY <2>1, <2>2, InlineType DEF TypeOK
<1>2. pc'[w] \in {"walk", "failed"}
  BY DEF Inline, TypeOK
<1>3. \A v \in Worker \ {w} : /\ pc'[v] = pc[v] /\ todo'[v] = todo[v]
                              /\ memory'[v] = memory[v] /\ hand'[v] = hand[v]
  BY DEF Inline, TypeOK
<1>4. \A v \in Worker \ {w} : todo[v] # << >> /\ Here(v).item \in Ref => At(v) \in Url
  BY HereType
<1>5. \A v \in Worker \ {w} : Here(v)' = Here(v) /\ At(v)' = At(v)
  BY <1>3 DEF At, Here
<1>6. AtDocument'
  <2>1. AtDocument /\ \A u \in Url : file[u] # Absent => file'[u] # Absent
    OBVIOUS
  <2>. QED  BY ONLY <1>2, <1>3, <1>4, <1>5, <2>1 DEF AtDocument
<1>7. UsedIsRemembered' /\ LeftMayStay'
  BY <1>0, InlineUsed DEF LeftMayStay
<1>. QED  BY <1>1, <1>6, <1>7

(* A step of w from one point to another, at the same document.              *)
LEMMA MoveInv ==
  ASSUME ResolverInv, NEW w \in Worker, NEW place \in Place, Goto(w, place),
         todo[w] # << >>, Here(w).item \in Ref,
         memory' \in [Worker -> [Url -> Doc \cup {NoDoc}]],
         \A v \in Worker \ {w} : memory'[v] = memory[v] /\ hand'[v] = hand[v],
         \A p \in used[w] : memory'[w][HomeUrl[p[1]]] = p[2],
         place \in {"lookup", "fetch", "fetched"} \cup Reading => memory'[w][At(w)] = NoDoc,
         place \in {"cache"} \cup Writing => memory'[w][At(w)] # NoDoc,
         place \in {"fetched", "cache"} \cup Writing => hand'[w] # Void,
         place \in Reading \cup Writing => file'[At(w)] # Absent,
         hand' \in [Worker -> Block],
         file' \in [Url -> File],
         \A u \in Url : file[u] # Absent => file'[u] # Absent,
         raced' \subseteq Url, slack' \in 0 .. MaxTime,
         UNCHANGED <<remote, todo, used, left>>
  PROVE  ResolverInv'
<1>. USE DEF ResolverInv
<1>1. TypeOK'
  BY DEF TypeOK
<1>2. \A v \in Worker : todo[v] # << >> /\ Here(v).item \in Ref => At(v) \in Url
  BY HereType
<1>3. \A v \in Worker \ {w} : pc'[v] = pc[v]
  BY DEF TypeOK
<1>4. pc'[w] = place
  BY DEF TypeOK
<1>5. \A v \in Worker : Here(v)' = Here(v) /\ At(v)' = At(v)
  BY DEF At, Here
<1>6. AtDocument'
  <2>1. /\ AtDocument /\ todo' = todo
        /\ \A v \in Worker \ {w} : memory'[v] = memory[v] /\ hand'[v] = hand[v]
        /\ \A u \in Url : file[u] # Absent => file'[u] # Absent
    OBVIOUS
  <2>2. /\ todo[w] # << >> /\ Here(w).item \in Ref
        /\ place \in {"lookup", "fetch", "fetched"} \cup Reading => memory'[w][At(w)] = NoDoc
        /\ place \in {"cache"} \cup Writing => memory'[w][At(w)] # NoDoc
        /\ place \in {"fetched", "cache"} \cup Writing => hand'[w] # Void
        /\ place \in Reading \cup Writing => file'[At(w)] # Absent
    OBVIOUS
  <2>. QED  BY ONLY <1>2, <1>3, <1>4, <1>5, <2>1, <2>2 DEF AtDocument
<1>7. UsedIsRemembered' /\ LeftMayStay'
  BY DEF UsedIsRemembered, LeftMayStay
<1>. QED  BY <1>1, <1>6, <1>7

LEMMA ResolveInv ==
  ASSUME ResolverInv, NEW w \in Worker, Resolve(w) PROVE ResolverInv'
<1>. USE DEF ResolverInv
<1>0. todo[w] # << >> /\ Here(w).item \in Ref
  BY DEF Resolve
<1>1. CASE Here(w).depth > MaxDepth
  BY <1>1, FailInv DEF Resolve
<1>2. CASE ~(Here(w).depth > MaxDepth) /\ memory[w][At(w)] # NoDoc
  <2>1. memory[w][At(w)] \in Doc
    BY <1>0, <1>2, HereType
  <2>2. memory' = [memory EXCEPT ![w][At(w)] = memory[w][At(w)]]
    BY <1>0, <1>2, HereType DEF Resolve, TypeOK
  <2>3. Inline(w, memory[w][At(w)]) /\ UNCHANGED <<remote, file, hand, left, history>>
    BY <1>2 DEF Resolve
  <2>. QED  BY <1>0, <2>1, <2>2, <2>3, InlineInv DEF TypeOK
<1>3. CASE ~(Here(w).depth > MaxDepth) /\ memory[w][At(w)] = NoDoc
  <2>1. Goto(w, "lookup") /\ UNCHANGED <<remote, file, todo, used, memory, hand, left, history>>
    BY <1>3 DEF Resolve
  <2>2. "lookup" \in Place
    BY DEF Place
  <2>. QED  BY <1>0, <1>3, <2>1, <2>2, MoveInv DEF TypeOK, UsedIsRemembered
<1>. QED  BY <1>1, <1>2, <1>3

LEMMA FinishInv ==
  ASSUME ResolverInv, NEW w \in Worker, Finish(w) PROVE ResolverInv'
<1>. USE DEF ResolverInv, Finish
<1>1. TypeOK'
  BY DEF TypeOK, Place
<1>2. AtDocument'
  BY DEF TypeOK, AtDocument, At, Here
<1>3. UsedIsRemembered' /\ LeftMayStay'
  BY DEF UsedIsRemembered, LeftMayStay
<1>. QED  BY <1>1, <1>2, <1>3

-----------------------------------------------------------------------------
(* Steps of the disk cache.                                                  *)
LEMMA LookupInv ==
  ASSUME ResolverInv, NEW w \in Worker, Lookup(w) PROVE ResolverInv'
<1>. USE DEF ResolverInv
<1>0. /\ todo[w] # << >> /\ Here(w).item \in Ref /\ memory[w][At(w)] = NoDoc
      /\ At(w) \in Url /\ file[At(w)] \in File
  BY HereType DEF Lookup, AtDocument
<1>1. CASE file[At(w)] = Absent
  <2>1. Goto(w, "fetch") /\ UNCHANGED <<remote, file, todo, memory, hand, used, left, history>>
    BY <1>1 DEF Lookup
  <2>2. "fetch" \in Place
    BY DEF Place
  <2>. QED  BY <1>0, <2>1, <2>2, MoveInv DEF TypeOK, UsedIsRemembered
<1>2. CASE file[At(w)] # Absent
  <2>1. /\ Goto(w, "loading")
        /\ hand' = [hand EXCEPT ![w] = file[At(w)].head]
        /\ raced' \subseteq raced \cup {At(w)}
        /\ UNCHANGED <<remote, file, todo, memory, used, left, slack>>
    BY <1>2 DEF Lookup
  <2>2. "loading" \in Place
    BY DEF Place
  <2>3. file[At(w)].head \in Block
    BY <1>0, <1>2 DEF File
  <2>4. hand' \in [Worker -> Block] /\ raced' \subseteq Url
    BY <1>0, <2>1, <2>3 DEF TypeOK
  <2>. QED  BY <1>0, <1>2, <2>1, <2>2, <2>4, MoveInv DEF TypeOK, UsedIsRemembered
<1>. QED  BY <1>1, <1>2

LEMMA ParsedType ==
  ASSUME NEW head \in Block, NEW tail \in Block
  PROVE  Parsed(head, tail) \subseteq Doc \cup {NoDoc}
  BY DEF Parsed, Block, Stamp, Doc

LEMMA LoadInv ==
  ASSUME ResolverInv, NEW w \in Worker, Load(w) PROVE ResolverInv'
<1>. USE DEF ResolverInv
<1>0. /\ todo[w] # << >> /\ Here(w).item \in Ref /\ memory[w][At(w)] = NoDoc
      /\ At(w) \in Url /\ file[At(w)] \in File /\ file[At(w)] # Absent
  BY HereType DEF Load, AtDocument
<1>1. hand[w] \in Block /\ file[At(w)].tail \in Block
  BY <1>0 DEF TypeOK, File
<1>2. Miss(w) \/ \E doc \in Parsed(hand[w], file[At(w)].tail) :
                    doc # NoDoc /\ Remember(w, doc) /\ Inline(w, doc)
  BY DEF Load
<1>3. \A doc \in Parsed(hand[w], file[At(w)].tail) : doc \in Doc \cup {NoDoc}
  BY <1>1, ParsedType
<1>4. /\ hand' = [hand EXCEPT ![w] = Void] /\ hand' \in [Worker -> Block]
      /\ UNCHANGED <<remote, file, left, history>>
  BY DEF Load, TypeOK, Block
<1>5. CASE Miss(w)
  <2>1. Goto(w, "fetch") /\ UNCHANGED <<todo, memory, used>>
    BY <1>5 DEF Miss
  <2>2. "fetch" \in Place
    BY DEF Place
  <2>. QED  BY <1>0, <1>4, <2>1, <2>2, MoveInv DEF TypeOK, UsedIsRemembered
<1>6. ASSUME NEW doc \in Doc, Remember(w, doc), Inline(w, doc) PROVE ResolverInv'
  <2>1. memory' = [memory EXCEPT ![w][At(w)] = doc]
    BY <1>6 DEF Remember
  <2>. QED  BY <1>0, <1>4, <1>6, <2>1, InlineInv DEF TypeOK
<1>. QED  BY <1>2, <1>3, <1>5, <1>6

LEMMA FetchInv ==
  ASSUME ResolverInv, NEW w \in Worker, Fetch(w) PROVE ResolverInv'
<1>. USE DEF ResolverInv
<1>0. /\ todo[w] # << >> /\ Here(w).item \in Ref /\ memory[w][At(w)] = NoDoc /\ At(w) \in Url
  BY HereType DEF Fetch, AtDocument
<1>1. CASE Fail(w)
  BY <1>1, FailInv
<1>2. CASE /\ Goto(w, "fetched")
           /\ hand' = [hand EXCEPT ![w] = [doc |-> Current(At(w)), at |-> time]]
           /\ UNCHANGED <<remote, file, todo, memory, used, left, history>>
  <2>1. Current(At(w)) \in Version
    BY <1>0, ResolverAssumption DEF Current, Version, TypeOK
  <2>2. [doc |-> Current(At(w)), at |-> time] \in Stamp
    BY <2>1 DEF Stamp, TypeOK
  <2>3. /\ hand' \in [Worker -> Block] /\ hand'[w] # Void
        /\ \A v \in Worker \ {w} : hand'[v] = hand[v]
    BY <1>2, <2>2, AbsentAssumption DEF TypeOK, Block
  <2>4. "fetched" \in Place
    BY DEF Place
  <2>. QED  BY <1>0, <1>2, <2>3, <2>4, MoveInv DEF TypeOK, UsedIsRemembered
<1>. QED  BY <1>1, <1>2 DEF Fetch

(* What a worker holds between the server's answer and the cache file.       *)
LEMMA HandType ==
  ASSUME ResolverInv, NEW w \in Worker, pc[w] \in {"fetched", "cache"} \cup Writing
  PROVE  hand[w] \in Stamp
  BY DEF ResolverInv, AtDocument, TypeOK, Block

LEMMA StampsInv ==
  ASSUME ResolverInv, NEW w \in Worker, Stamps(w) PROVE ResolverInv'
<1>. USE DEF ResolverInv
<1>0. /\ todo[w] # << >> /\ Here(w).item \in Ref /\ memory[w][At(w)] = NoDoc /\ At(w) \in Url
      /\ hand[w] \in Stamp
  BY HereType, HandType DEF Stamps, AtDocument
<1>1. CASE Fail(w)
  BY <1>1, FailInv
<1>2. CASE /\ Goto(w, "cache")
           /\ Remember(w, hand[w].doc)
           /\ hand' = [hand EXCEPT ![w].at = time]
           /\ slack' = Larger(slack, time - hand[w].at)
           /\ UNCHANGED <<remote, file, todo, used, left, raced>>
  <2>1. hand[w].doc \in Version
    BY <1>0 DEF Stamp
  <2>2. /\ memory' \in [Worker -> [Url -> Doc \cup {NoDoc}]]
        /\ \A u \in Url : memory'[w][u] = IF u = At(w) THEN hand[w].doc ELSE memory[w][u]
        /\ \A v \in Worker \ {w} : memory'[v] = memory[v]
    BY <1>0, <1>2, <2>1 DEF TypeOK, Doc, Remember
  <2>3. \A p \in used[w] : p \in Ref \X Doc /\ memory[w][HomeUrl[p[1]]] = p[2]
    BY DEF TypeOK, UsedIsRemembered
  <2>4. \A p \in used[w] : HomeUrl[p[1]] # At(w) /\ HomeUrl[p[1]] \in Url
    BY <1>0, <2>3, NoDocFresh, ResolverAssumption
  <2>5. \A p \in used[w] : memory'[w][HomeUrl[p[1]]] = p[2]
    BY <2>2, <2>3, <2>4
  <2>6. memory'[w][At(w)] # NoDoc
    BY <1>0, <2>1, <2>2, NoDocFresh DEF Doc
  <2>7. [hand[w] EXCEPT !.at = time] \in Stamp
    BY <1>0 DEF Stamp, TypeOK
  <2>8. /\ hand' \in [Worker -> Block] /\ hand'[w] # Void
        /\ \A v \in Worker \ {w} : hand'[v] = hand[v]
    BY <1>2, <2>7, AbsentAssumption DEF TypeOK, Block
  <2>9. slack' \in 0 .. MaxTime
    <3>1. /\ hand[w].at \in 0 .. MaxTime /\ slack \in 0 .. MaxTime
          /\ time \in 0 .. MaxTime /\ MaxTime \in Nat
      BY <1>0, ResolverAssumption DEF TypeOK, Stamp
    <3>. QED  BY ONLY <1>2, <3>1 DEF Larger
  <2>10. "cache" \in Place
    BY DEF Place
  <2>. QED  BY <1>0, <1>2, <2>2, <2>5, <2>6, <2>8, <2>9, <2>10, MoveInv DEF TypeOK
<1>. QED  BY <1>1, <1>2 DEF Stamps

LEMMA CachedInv ==
  ASSUME ResolverInv, NEW w \in Worker, Cached(w), pc[w] \in {"cache"} \cup Writing,
         file' \in [Url -> File],
         \A u \in Url : file[u] # Absent => file'[u] # Absent,
         UNCHANGED history
  PROVE  ResolverInv'
<1>. USE DEF ResolverInv, Cached
<1>0. /\ todo[w] # << >> /\ Here(w).item \in Ref
      /\ memory[w][At(w)] \in Doc /\ At(w) \in Url
  BY HereType DEF AtDocument
<1>1. memory' = [memory EXCEPT ![w][At(w)] = memory[w][At(w)]]
  BY <1>0 DEF TypeOK
<1>. QED  BY <1>0, <1>1, InlineInv DEF TypeOK

LEMMA OpenCacheInv ==
  ASSUME ResolverInv, NEW w \in Worker, OpenCache(w) PROVE ResolverInv'
<1>. USE DEF ResolverInv
<1>0. /\ pc[w] = "cache" /\ todo[w] # << >> /\ Here(w).item \in Ref
      /\ memory[w][At(w)] # NoDoc /\ At(w) \in Url
  BY HereType DEF OpenCache, AtDocument
<1>2. CASE Cached(w) /\ UNCHANGED <<file, raced>>
  BY <1>0, <1>2, CachedInv DEF TypeOK, Cached
<1>3. CASE /\ Goto(w, "head")
           /\ file' = [file EXCEPT ![At(w)] = [head |-> Void, tail |-> Void]]
           /\ raced' = IF OpenElsewhere(w, At(w), Reading \cup Writing)
                       THEN raced \cup {At(w)} ELSE raced
           /\ UNCHANGED <<remote, run, slack>>
  <2>1. [head |-> Void, tail |-> Void] \in File /\ [head |-> Void, tail |-> Void] # Absent
    BY AbsentAssumption DEF File, Block
  <2>2. /\ file' \in [Url -> File] /\ file'[At(w)] # Absent
        /\ \A u \in Url : file[u] # Absent => file'[u] # Absent
    BY <1>0, <1>3, <2>1 DEF TypeOK
  <2>3. "head" \in Place /\ raced' \subseteq Url /\ hand[w] # Void
    BY <1>0, <1>3 DEF Place, TypeOK, AtDocument
  <2>. QED  BY <1>0, <1>3, <2>2, <2>3, MoveInv DEF TypeOK, UsedIsRemembered
<1>. QED  BY <1>2, <1>3 DEF OpenCache

\* A block written to a file that is there.
LEMMA BlockWritten ==
  ASSUME TypeOK, NEW w \in Worker, NEW u \in Url, file[u] # Absent,
         \/ file' = [file EXCEPT ![u].head = hand[w]]
         \/ file' = [file EXCEPT ![u].tail = hand[w]]
  PROVE  /\ file' \in [Url -> File]
         /\ \A v \in Url : file[v] # Absent => file'[v] # Absent
<1>1. file[u] \in [head : Block, tail : Block] /\ hand[w] \in Block
  BY DEF TypeOK, File
<1>3. file'[u] \in {[file[u] EXCEPT !.head = hand[w]], [file[u] EXCEPT !.tail = hand[w]]}
  BY DEF TypeOK
<1>4. [file[u] EXCEPT !.head = hand[w]] \in [head : Block, tail : Block]
  BY <1>1
<1>5. [file[u] EXCEPT !.tail = hand[w]] \in [head : Block, tail : Block]
  BY <1>1
<1>6. DOMAIN file' = Url /\ \A v \in Url \ {u} : file'[v] = file[v]
  BY DEF TypeOK
<1>7. file'[u] \in [head : Block, tail : Block]
  BY <1>3, <1>4, <1>5
<1>8. \A v \in Url : file'[v] \in File
  BY <1>6, <1>7 DEF TypeOK, File
<1>9. file' = [v \in Url |-> file'[v]]
  BY DEF TypeOK
<1>2. file' \in [Url -> File]
  BY <1>8, <1>9
<1>. QED  BY <1>2, <1>6, <1>7, AbsentAssumption DEF TypeOK

LEMMA WriteHeadInv ==
  ASSUME ResolverInv, NEW w \in Worker, WriteHead(w) PROVE ResolverInv'
<1>. USE DEF ResolverInv
<1>0. /\ pc[w] = "head" /\ todo[w] # << >> /\ Here(w).item \in Ref
      /\ memory[w][At(w)] # NoDoc /\ At(w) \in Url /\ file[At(w)] # Absent
      /\ hand[w] # Void
  BY HereType DEF WriteHead, AtDocument
<1>1. CASE Cached(w) /\ UNCHANGED <<file, raced>>
  BY <1>0, <1>1, CachedInv DEF TypeOK, Cached
<1>2. CASE /\ Goto(w, "tail")
           /\ file' = [file EXCEPT ![At(w)].head = hand[w]]
           /\ UNCHANGED <<remote, run, history>>
  <2>1. file' \in [Url -> File] /\ \A v \in Url : file[v] # Absent => file'[v] # Absent
    BY <1>0, <1>2, BlockWritten
  <2>2. "tail" \in Place
    BY DEF Place
  <2>. QED  BY <1>0, <1>2, <2>1, <2>2, MoveInv DEF TypeOK, UsedIsRemembered
<1>3. CASE Fail(w)
  BY <1>3, FailInv
<1>. QED  BY <1>1, <1>2, <1>3 DEF WriteHead

LEMMA WriteTailInv ==
  ASSUME ResolverInv, NEW w \in Worker, WriteTail(w) PROVE ResolverInv'
<1>. USE DEF ResolverInv
<1>0. pc[w] = "tail" /\ At(w) \in Url /\ file[At(w)] # Absent
  BY HereType DEF WriteTail, AtDocument
<1>1. CASE Fail(w)
  BY <1>1, FailInv
<1>2. CASE ~Fail(w)
  <2>1. file' \in [Url -> File] /\ \A v \in Url : file[v] # Absent => file'[v] # Absent
    BY <1>0, <1>2, BlockWritten DEF WriteTail, TypeOK
  <2>. QED  BY <1>0, <1>2, <2>1, CachedInv DEF WriteTail, Cached
<1>. QED  BY <1>1, <1>2

-----------------------------------------------------------------------------
(* Steps around the runs.                                                    *)
LEMMA RestartInv ==
  ASSUME ResolverInv, NEW w \in Worker, Restart(w) PROVE ResolverInv'
<1>. USE DEF ResolverInv, Restart
<1>1. TypeOK'
  BY EmptySeq DEF TypeOK, Place, Block
<1>2. AtDocument'
  BY DEF TypeOK, AtDocument, At, Here
<1>3. UsedIsRemembered' /\ LeftMayStay'
  BY DEF TypeOK, UsedIsRemembered, LeftMayStay
<1>. QED  BY <1>1, <1>2, <1>3

LEMMA PublishInv ==
  ASSUME ResolverInv, NEW u \in Url, Publish(u) PROVE ResolverInv'
<1>. USE DEF ResolverInv, Publish
<1>1. since[u] \in Seq(0 .. MaxTime) /\ Len(since[u]) \in Nat /\ Len(since[u]) <= MaxVersion
  BY ResolverAssumption DEF TypeOK, Current
<1>2. Append(since[u], time) \in Seq(0 .. MaxTime) /\ Len(Append(since[u], time)) = Len(since[u]) + 1
  BY <1>1 DEF TypeOK
<1>3. TypeOK'
  BY <1>1, <1>2, ResolverAssumption DEF TypeOK
<1>4. AtDocument' /\ UsedIsRemembered' /\ LeftMayStay'
  BY DEF AtDocument, At, Here, UsedIsRemembered, LeftMayStay
<1>. QED  BY <1>3, <1>4

LEMMA TickInv == ResolverInv /\ Tick => ResolverInv'
<1>. SUFFICES ASSUME ResolverInv, Tick PROVE ResolverInv'
  OBVIOUS
<1>. USE DEF ResolverInv, Tick
<1>1. TypeOK'
  BY ResolverAssumption DEF TypeOK
<1>2. AtDocument' /\ UsedIsRemembered' /\ LeftMayStay'
  BY DEF AtDocument, At, Here, UsedIsRemembered, LeftMayStay
<1>. QED  BY <1>1, <1>2

LEMMA NextInv == ResolverInv /\ [Next]_vars => ResolverInv'
<1>. SUFFICES ASSUME ResolverInv, [Next]_vars PROVE ResolverInv'
  OBVIOUS
<1>1. ASSUME NEW w \in Worker, Begin(w) \/ Work(w) \/ Restart(w) PROVE ResolverInv'
  BY <1>1, BeginInv, KeepInv, ResolveInv, FinishInv, LookupInv, LoadInv, FetchInv,
     StampsInv, OpenCacheInv, WriteHeadInv, WriteTailInv, RestartInv DEF Work
<1>2. ASSUME NEW u \in Url, Publish(u) PROVE ResolverInv'
  BY <1>2, PublishInv
<1>3. CASE Tick
  BY <1>3, TickInv
<1>4. CASE UNCHANGED vars
  BY <1>4 DEF ResolverInv, TypeOK, AtDocument, At, Here, UsedIsRemembered, LeftMayStay
<1>. QED  BY <1>1, <1>2, <1>3, <1>4 DEF Next

(* Types, and the agreement of the memory cache with the walk.               *)
THEOREM ResolverInvariant == Spec => []ResolverInv
  BY InitInv, NextInv, PTL DEF Spec

(* One version of each document per run, for any number of workers that      *)
(* rewrite the cache files under each other.                                 *)
THEOREM OneVersionCorrect == Spec => []OneVersionPerRun
<1>1. ResolverInv => OneVersionPerRun
  BY DEF ResolverInv, UsedIsRemembered, OneVersionPerRun
<1>. QED  BY <1>1, ResolverInvariant, PTL

-----------------------------------------------------------------------------
(* Freshness.                                                                *)

LEMMA SinceType ==
  ASSUME TypeOK, NEW u \in Url
  PROVE  /\ since[u] \in Seq(0 .. MaxTime) /\ Len(since[u]) \in Nat \ {0}
         /\ Current(u) \in Nat /\ Len(since[u]) = Current(u) + 1
         /\ \A i \in 1 .. Len(since[u]) : since[u][i] \in Nat
  BY ResolverAssumption DEF TypeOK, Current

LEMMA StampType == \A s \in Block : s = Void \/ (s.doc \in Nat /\ s.at \in Nat)
  BY ResolverAssumption DEF Block, Stamp, Version

\* A step that changes neither the clock nor the server keeps what stamps say,
\* and a longer way to the timestamp allows more.
LEMMA SameStamps ==
  ASSUME UNCHANGED remote
  PROVE  \A u, s, late : StampHolds(u, s, late)' <=> StampHolds(u, s, late')
  BY DEF StampHolds, Current

LEMMA LaterStamps ==
  ASSUME ResolverInv, NEW u \in Url, NEW s \in Block,
         NEW m \in Nat, NEW n \in Nat, m <= n, StampHolds(u, s, m)
  PROVE  StampHolds(u, s, n)
<1>1. CASE s = Void
  BY <1>1 DEF StampHolds
<1>2. CASE s # Void
  <2>1. /\ s.doc \in Nat /\ s.at \in Nat
        /\ s.doc < Current(u) => s.doc + 2 \in 1 .. Len(since[u])
    BY <1>2, StampType, SinceType DEF ResolverInv
  <2>2. s.doc < Current(u) => since[u][s.doc + 2] \in Nat
    BY <2>1, SinceType DEF ResolverInv
  <2>. QED  BY <2>1, <2>2 DEF StampHolds
<1>. QED  BY <1>1, <1>2

\* Nor does a step of one worker disturb the others' stamps.
LEMMA OthersStamps ==
  ASSUME ResolverInv, StampsHold, UNCHANGED remote, NEW w \in Worker,
         slack' \in Nat, slack <= slack',
         \A u \in Url : file'[u] # Absent =>
            StampHolds(u, file'[u].head, slack') /\ StampHolds(u, file'[u].tail, slack'),
         \A v \in Worker \ {w} :
            pc'[v] = pc[v] /\ todo'[v] = todo[v] /\ hand'[v] = hand[v],
         pc'[w] = "fetched" => StampHolds(At(w)', hand'[w], 0),
         pc'[w] \in {"cache"} \cup Reading \cup Writing => StampHolds(At(w)', hand'[w], slack')
  PROVE  StampsHold'
<1>1. \A u, s, late : StampHolds(u, s, late)' <=> StampHolds(u, s, late')
  BY SameStamps
<1>2. \A v \in Worker \ {w} : At(v)' = At(v)
  BY DEF At, Here
<1>3. slack \in Nat
  BY ResolverAssumption DEF ResolverInv, TypeOK
<1>4. ASSUME NEW v \in Worker \ {w}, pc[v] \in {"cache"} \cup Reading \cup Writing
      PROVE  StampHolds(At(v), hand[v], slack')
  <2>1. At(v) \in Url /\ hand[v] \in Block
    BY <1>4, HereType DEF ResolverInv, AtDocument, TypeOK
  <2>2. StampHolds(At(v), hand[v], slack)
    BY <1>4 DEF StampsHold
  <2>. QED  BY <1>3, <2>1, <2>2, LaterStamps
<1>. QED  BY <1>1, <1>2, <1>4 DEF StampsHold

\* What cache files held they still hold.
LEMMA FileStamps ==
  ASSUME ResolverInv, StampsHold, slack' \in Nat, slack <= slack'
  PROVE  \A u \in Url : file[u] # Absent =>
            StampHolds(u, file[u].head, slack') /\ StampHolds(u, file[u].tail, slack')
<1>. SUFFICES ASSUME NEW u \in Url, file[u] # Absent
              PROVE  StampHolds(u, file[u].head, slack') /\ StampHolds(u, file[u].tail, slack')
  OBVIOUS
<1>1. file[u].head \in Block /\ file[u].tail \in Block /\ slack \in Nat
  BY ResolverAssumption DEF ResolverInv, TypeOK, File
<1>2. StampHolds(u, file[u].head, slack) /\ StampHolds(u, file[u].tail, slack)
  BY DEF StampsHold
<1>. QED  BY <1>1, <1>2, LaterStamps

LEMMA StampsWork ==
  ASSUME ResolverInv, StampsHold, NEW w \in Worker, Work(w) PROVE StampsHold'
<1>. USE DEF ResolverInv
<1>r. UNCHANGED remote
  BY DEF Work, Keep, Resolve, Finish, Lookup, Load, Fetch, Stamps, OpenCache, WriteHead,
         WriteTail, Fail, Cached
<1>o. \A v \in Worker \ {w} : pc'[v] = pc[v] /\ todo'[v] = todo[v] /\ hand'[v] = hand[v]
  BY DEF Work, Keep, Resolve, Finish, Lookup, Load, Fetch, Stamps, OpenCache, WriteHead,
         WriteTail, Fail, Cached, Miss, Inline, TypeOK
<1>l. slack' \in Nat /\ slack <= slack'
  <2>1. slack \in Nat /\ time \in Nat
    BY ResolverAssumption DEF TypeOK
  <2>2. Stamps(w) => hand[w].at \in Nat
    BY HandType DEF Stamps, Stamp
  <2>. QED
    BY <2>1, <2>2 DEF Work, Keep, Resolve, Finish, Lookup, Load, Fetch, Stamps, OpenCache,
           WriteHead, WriteTail, Fail, Cached, Larger
<1>f. \A u \in Url : file[u] # Absent =>
         StampHolds(u, file[u].head, slack') /\ StampHolds(u, file[u].tail, slack')
  BY <1>l, FileStamps
<1>1. CASE pc'[w] \in {"walk", "lookup", "fetch", "done", "failed"} /\ file' = file
  BY <1>1, <1>r, <1>o, <1>l, <1>f, OthersStamps
<1>2. CASE Lookup(w) /\ pc'[w] = "loading"
  <2>1. /\ hand'[w] = file[At(w)].head /\ UNCHANGED <<file, todo>>
        /\ file[At(w)] # Absent /\ At(w) \in Url
    BY <1>2, HereType DEF Lookup, AtDocument, TypeOK
  <2>2. At(w)' = At(w)
    BY <2>1 DEF At, Here
  <2>. QED  BY <1>2, <1>r, <1>o, <1>l, <1>f, <2>1, <2>2, OthersStamps
<1>3. CASE Fetch(w) /\ pc'[w] = "fetched"
  <2>1. /\ hand'[w] = [doc |-> Current(At(w)), at |-> time] /\ UNCHANGED <<file, todo>>
        /\ At(w) \in Url
    BY <1>3, HereType DEF Fetch, AtDocument, TypeOK, Fail
  <2>2. At(w)' = At(w)
    BY <2>1 DEF At, Here
  <2>3. StampHolds(At(w), hand'[w], 0)
    BY <2>1, SinceType, ResolverAssumption DEF StampHolds, TypeOK
  <2>. QED  BY <1>3, <1>r, <1>o, <1>l, <1>f, <2>1, <2>2, <2>3, OthersStamps
<1>6. CASE Stamps(w) /\ pc'[w] = "cache"
  <2>1. /\ hand' = [hand EXCEPT ![w].at = time] /\ UNCHANGED <<file, todo>>
        /\ slack' = Larger(slack, time - hand[w].at)
        /\ At(w) \in Url /\ pc[w] = "fetched" /\ hand[w] \in Stamp
    BY <1>6, HereType, HandType DEF Stamps, AtDocument, TypeOK, Fail
  <2>2. At(w)' = At(w)
    BY <2>1 DEF At, Here
  <2>3. hand'[w] = [hand[w] EXCEPT !.at = time]
    BY <2>1 DEF TypeOK
  <2>4. hand'[w].doc = hand[w].doc /\ hand'[w].at = time
    BY <2>1, <2>3 DEF Stamp
  <2>5. /\ hand[w].doc \in Nat /\ hand[w].at \in Nat /\ time \in Nat
        /\ slack' \in Nat /\ slack' >= time - hand[w].at
    BY <1>l, <2>1, ResolverAssumption DEF Stamp, Version, TypeOK, Larger
  <2>6. /\ hand[w].doc <= Current(At(w))
        /\ hand[w].doc < Current(At(w)) =>
              hand[w].at <= since[At(w)][hand[w].doc + 2] + 0
    BY <2>1, AbsentAssumption DEF StampsHold, StampHolds
  <2>7. hand[w].doc < Current(At(w)) => since[At(w)][hand[w].doc + 2] \in Nat
    <3>1. /\ Len(since[At(w)]) = Current(At(w)) + 1 /\ Current(At(w)) \in Nat
          /\ \A i \in 1 .. Len(since[At(w)]) : since[At(w)][i] \in Nat
      BY <2>1, SinceType
    <3>. QED  BY <2>5, <3>1
  <2>8. StampHolds(At(w), hand'[w], slack')
    BY <2>4, <2>5, <2>6, <2>7 DEF StampHolds
  <2>. QED  BY <1>6, <1>r, <1>o, <1>l, <1>f, <2>1, <2>2, <2>8, OthersStamps
<1>4. CASE OpenCache(w) /\ pc'[w] = "head"
  <2>1. /\ file' = [file EXCEPT ![At(w)] = [head |-> Void, tail |-> Void]]
        /\ UNCHANGED <<run, slack>> /\ pc[w] = "cache"
    BY <1>4 DEF OpenCache, Fail, Cached, Inline, TypeOK
  <2>2. At(w)' = At(w) /\ hand'[w] = hand[w] /\ StampHolds(At(w), hand[w], slack')
    BY <2>1 DEF At, Here, StampsHold
  <2>3. \A u \in Url : file'[u] # Absent =>
           StampHolds(u, file'[u].head, slack') /\ StampHolds(u, file'[u].tail, slack')
    BY <1>f, <2>1 DEF StampHolds, TypeOK
  <2>. QED  BY <1>4, <1>r, <1>o, <1>l, <2>2, <2>3, OthersStamps
<1>5. CASE WriteHead(w) \/ WriteTail(w)
  <2>1. pc[w] \in Writing /\ At(w) \in Url /\ file[At(w)] # Absent
    BY <1>5, HereType DEF WriteHead, WriteTail, AtDocument
  <2>2. StampHolds(At(w), hand[w], slack')
    <3>1. slack' = slack
      BY <1>5 DEF WriteHead, WriteTail, Fail, Cached
    <3>. QED  BY <2>1, <3>1 DEF StampsHold
  <2>3. \/ file' = file
        \/ file' = [file EXCEPT ![At(w)].head = hand[w]]
        \/ file' = [file EXCEPT ![At(w)].tail = hand[w]]
    BY <1>5 DEF WriteHead, WriteTail, Fail
  <2>4. file[At(w)] \in [head : Block, tail : Block]
    BY <2>1 DEF TypeOK, File
  <2>5. \/ file' = file
        \/ /\ \A u \in Url \ {At(w)} : file'[u] = file[u]
           /\ \/ file'[At(w)] = [file[At(w)] EXCEPT !.head = hand[w]]
              \/ file'[At(w)] = [file[At(w)] EXCEPT !.tail = hand[w]]
    BY <2>1, <2>3 DEF TypeOK
  <2>6. \A h : /\ [file[At(w)] EXCEPT !.head = h].head = h
               /\ [file[At(w)] EXCEPT !.head = h].tail = file[At(w)].tail
               /\ [file[At(w)] EXCEPT !.tail = h].tail = h
               /\ [file[At(w)] EXCEPT !.tail = h].head = file[At(w)].head
    BY <2>4
  <2>7. \A u \in Url : file'[u] # Absent =>
           StampHolds(u, file'[u].head, slack') /\ StampHolds(u, file'[u].tail, slack')
    <3>1. /\ StampHolds(At(w), file[At(w)].head, slack')
          /\ StampHolds(At(w), file[At(w)].tail, slack')
      BY <1>f, <2>1
    <3>2. CASE file' = file
      BY <1>f, <3>2
    <3>3. CASE /\ \A u \in Url \ {At(w)} : file'[u] = file[u]
               /\ file'[At(w)] = [file[At(w)] EXCEPT !.head = hand[w]]
      <4>1. file'[At(w)].head = hand[w] /\ file'[At(w)].tail = file[At(w)].tail
        BY <2>6, <3>3
      <4>. QED  BY <1>f, <2>2, <3>1, <3>3, <4>1
    <3>4. CASE /\ \A u \in Url \ {At(w)} : file'[u] = file[u]
               /\ file'[At(w)] = [file[At(w)] EXCEPT !.tail = hand[w]]
      <4>1. file'[At(w)].tail = hand[w] /\ file'[At(w)].head = file[At(w)].head
        BY <2>6, <3>4
      <4>. QED  BY <1>f, <2>2, <3>1, <3>4, <4>1
    <3>. QED  BY <2>5, <3>2, <3>3, <3>4
  <2>8. \/ pc'[w] \in {"walk", "failed"}
        \/ pc'[w] = "tail" /\ UNCHANGED <<todo, hand>>
    BY <1>5 DEF WriteHead, WriteTail, Cached, Inline, Fail, TypeOK
  <2>9. pc'[w] \in {"fetched", "cache"} \cup Reading \cup Writing =>
           pc'[w] # "fetched" /\ StampHolds(At(w)', hand'[w], slack')
    BY <2>2, <2>8 DEF At, Here
  <2>. QED  BY <1>r, <1>o, <1>l, <2>7, <2>9, OthersStamps
<1>. QED
  <2>1. CASE Keep(w) \/ Resolve(w) \/ Finish(w) \/ Load(w)
    BY <1>1, <2>1 DEF Keep, Resolve, Finish, Load, Fail, Miss, Inline, TypeOK
  <2>2. CASE Lookup(w)
    BY <1>1, <1>2, <2>2 DEF Lookup, TypeOK
  <2>3. CASE Fetch(w)
    BY <1>1, <1>3, <2>3 DEF Fetch, Fail, TypeOK
  <2>5. CASE Stamps(w)
    BY <1>1, <1>6, <2>5 DEF Stamps, Fail, TypeOK
  <2>4. CASE OpenCache(w)
    BY <1>1, <1>4, <2>4 DEF OpenCache, Cached, Inline, TypeOK
  <2>. QED  BY <1>5, <2>1, <2>2, <2>3, <2>4, <2>5 DEF Work

\* What a stamp says stays true when only the clock and the server go on.
LEMMA StampsRemote ==
  ASSUME ResolverInv, StampsHold, UNCHANGED <<file, pc, todo, hand, slack>>,
         \A u \in Url : \A s \in Block : \A late \in Nat :
            StampHolds(u, s, late) => StampHolds(u, s, late)'
  PROVE  StampsHold'
<1>1. \A w \in Worker : At(w)' = At(w) /\ hand[w] \in Block
  BY DEF At, Here, ResolverInv, TypeOK
<1>2. \A u \in Url : file[u] # Absent => file[u].head \in Block /\ file[u].tail \in Block
  BY DEF ResolverInv, TypeOK, File
<1>3. \A w \in Worker :
         pc[w] \in {"fetched", "cache"} \cup Reading \cup Writing => At(w) \in Url
  BY HereType DEF ResolverInv, AtDocument
<1>4. slack \in Nat /\ 0 \in Nat
  BY ResolverAssumption DEF ResolverInv, TypeOK
<1>. QED  BY <1>1, <1>2, <1>3, <1>4 DEF StampsHold

LEMMA StampsPublish ==
  ASSUME ResolverInv, StampsHold, NEW u \in Url, Publish(u) PROVE StampsHold'
<1>1. UNCHANGED <<time, file, pc, todo, hand, slack>> /\ since' = [since EXCEPT ![u] = Append(@, time)]
  BY DEF Publish
<1>2. ASSUME NEW x \in Url, NEW s \in Block, NEW late \in Nat, StampHolds(x, s, late)
      PROVE  StampHolds(x, s, late)'
  <2>1. CASE x # u
    BY <1>1, <1>2, <2>1 DEF StampHolds, Current, ResolverInv, TypeOK
  <2>2. CASE x = u /\ s # Void
    <3>1. /\ s.doc \in Nat /\ s.at \in Nat /\ s.at <= time /\ s.doc <= Current(u)
          /\ s.doc < Current(u) => s.at <= since[u][s.doc + 2] + late
      BY <1>2, <2>2, StampType DEF StampHolds
    <3>2. /\ since[u] \in Seq(0 .. MaxTime) /\ time \in 0 .. MaxTime
          /\ Len(since[u]) = Current(u) + 1 /\ Current(u) \in Nat
      BY SinceType DEF ResolverInv, TypeOK
    <3>3. since'[u] = Append(since[u], time)
      BY <1>1 DEF ResolverInv, TypeOK
    <3>4. /\ Len(since'[u]) = Current(u) + 2
          /\ \A i \in 1 .. Current(u) + 1 : since'[u][i] = since[u][i]
          /\ since'[u][Current(u) + 2] = time
      BY <3>2, <3>3, AppendProperties
    <3>5. Current(u)' = Current(u) + 1
      BY <3>2, <3>4 DEF Current
    <3>6. CASE s.doc < Current(u)
      BY ONLY <1>1, <2>2, <3>1, <3>2, <3>4, <3>5, <3>6 DEF StampHolds
    <3>7. CASE s.doc = Current(u)
      BY ONLY <1>1, <2>2, <3>1, <3>2, <3>4, <3>5, <3>7 DEF StampHolds
    <3>. QED  BY <3>1, <3>2, <3>6, <3>7
  <2>3. CASE s = Void
    BY <2>3 DEF StampHolds
  <2>. QED  BY <2>1, <2>2, <2>3
<1>. QED  BY <1>1, <1>2, StampsRemote

LEMMA StampsTick ==
  ASSUME ResolverInv, StampsHold, Tick PROVE StampsHold'
<1>1. UNCHANGED <<since, file, pc, todo, hand, slack>> /\ time' = time + 1 /\ time \in Nat
  BY DEF Tick, ResolverInv, TypeOK
<1>2. ASSUME NEW x \in Url, NEW s \in Block, NEW late \in Nat, StampHolds(x, s, late)
      PROVE  StampHolds(x, s, late)'
  BY <1>1, <1>2, StampType DEF StampHolds, Current
<1>. QED  BY <1>1, <1>2, StampsRemote

LEMMA StampsNext ==
  ResolverInv /\ StampsHold /\ [Next]_vars => StampsHold'
<1>. SUFFICES ASSUME ResolverInv, StampsHold, [Next]_vars PROVE StampsHold'
  OBVIOUS
<1>1. CASE \E w \in Worker : Begin(w) \/ Restart(w)
  <2>1. PICK w \in Worker : Begin(w) \/ Restart(w)
    BY <1>1
  <2>2. /\ UNCHANGED <<remote, slack>> /\ file' = file /\ pc'[w] \in {"walk", "idle"}
        /\ \A v \in Worker \ {w} : pc'[v] = pc[v] /\ todo'[v] = todo[v] /\ hand'[v] = hand[v]
    BY <2>1 DEF Begin, Restart, ResolverInv, TypeOK
  <2>3. slack' \in Nat /\ slack <= slack'
    BY <2>2, ResolverAssumption DEF ResolverInv, TypeOK
  <2>4. \A u \in Url : file'[u] # Absent =>
           StampHolds(u, file'[u].head, slack') /\ StampHolds(u, file'[u].tail, slack')
    BY <2>2, <2>3, FileStamps
  <2>. QED  BY <2>2, <2>3, <2>4, OthersStamps
<1>2. CASE UNCHANGED vars
  BY <1>2, StampsRemote, SameStamps
<1>. QED  BY <1>1, <1>2, StampsWork, StampsPublish, StampsTick DEF Next

(* Every stamp in a cache file, or in the hands of a worker, names a version *)
(* that the server still gave then, or had given no longer before than       *)
(* documents have been on their way to their timestamp.                      *)
THEOREM StampsCorrect == Spec => [](ResolverInv /\ StampsHold)
<1>1. Init => StampsHold
  BY DEF Init, StampsHold
<1>. QED  BY <1>1, InitInv, NextInv, StampsNext, PTL DEF Spec

\* What a worker takes from the cache is fresh, and what it fetches was current
\* when the server gave it.
LEMMA TakenIsFresh ==
  ASSUME ResolverInv, StampsHold, [Next]_vars, NEW w \in Worker, NEW u \in Url,
         memory[w][u] = NoDoc, memory'[w][u] \in Version
  PROVE  LET doc == memory'[w][u] IN
         doc = Current(u) \/ time - since[u][doc + 2] <= TTL + slack'
<1>0. memory[w][u] # memory'[w][u]
  BY NoDocFresh DEF Version, Doc
<1>1. memory'[w] # memory[w]
  BY <1>0
<1>2. Load(w) \/ Stamps(w)
  <2>1. \A v \in Worker : v # w /\ (Load(v) \/ Stamps(v)) => memory'[w] = memory[w]
    BY DEF Load, Stamps, Miss, Remember, Fail, ResolverInv, TypeOK
  <2>2. \A v \in Worker : Begin(v) \/ Keep(v) \/ Resolve(v) \/ Finish(v) \/ Lookup(v)
            \/ Fetch(v) \/ OpenCache(v) \/ WriteHead(v) \/ WriteTail(v) => memory' = memory
    BY DEF Begin, Keep, Resolve, Finish, Lookup, Fetch, OpenCache, WriteHead, WriteTail, Fail, Cached
  <2>3. \A v \in Worker : Restart(v) => memory'[w][u] = NoDoc \/ memory'[w] = memory[w]
    BY DEF Restart, ResolverInv, TypeOK
  <2>4. ASSUME NEW x \in Url, Publish(x) PROVE memory' = memory
    BY <2>4 DEF Publish
  <2>5. Tick \/ UNCHANGED vars => memory' = memory
    BY DEF Tick
  <2>. QED  BY <1>0, <1>1, <2>1, <2>2, <2>3, <2>4, <2>5 DEF Next, Work
<1>3. todo[w] # << >> /\ Here(w).item \in Ref /\ At(w) \in Url
  BY <1>2, HereType DEF Load, Stamps, ResolverInv, AtDocument
<1>4. CASE Stamps(w)
  <2>1. /\ memory' = [memory EXCEPT ![w][At(w)] = hand[w].doc]
        /\ slack' = Larger(slack, time - hand[w].at) /\ pc[w] = "fetched"
    BY <1>1, <1>4 DEF Stamps, Fail, Remember
  <2>2. u = At(w) /\ memory'[w][u] = hand[w].doc
    BY <1>0, <1>3, <2>1 DEF ResolverInv, TypeOK
  <2>3. hand[w] \in Stamp /\ hand[w].doc \in Nat /\ hand[w].at \in Nat
    BY <2>1, HandType, ResolverAssumption DEF Stamp, Version
  <2>4. /\ hand[w].doc <= Current(u)
        /\ hand[w].doc < Current(u) => hand[w].at <= since[u][hand[w].doc + 2] + 0
    BY <2>1, <2>2, <2>3, AbsentAssumption DEF StampsHold, StampHolds
  <2>5. /\ Current(u) \in Nat
        /\ hand[w].doc < Current(u) => since[u][hand[w].doc + 2] \in Nat
    BY <2>3, SinceType DEF ResolverInv
  <2>6. time \in Nat /\ slack' >= time - hand[w].at /\ TTL \in Nat /\ slack' \in Nat
    BY <2>1, <2>3, ResolverAssumption DEF Larger, ResolverInv, TypeOK
  <2>. QED  BY <2>2, <2>3, <2>4, <2>5, <2>6
<1>5. CASE Load(w)
  <2>1. PICK doc \in Parsed(hand[w], file[At(w)].tail) :
           ~Expired(hand[w]) /\ Remember(w, doc)
    BY <1>1, <1>5 DEF Load, Miss
  <2>2. ~Expired(hand[w]) /\ memory' = [memory EXCEPT ![w][At(w)] = doc]
    BY <2>1 DEF Remember
  <2>3. u = At(w) /\ memory'[w][u] = doc /\ doc \in Version
    BY <1>0, <1>3, <2>2 DEF ResolverInv, TypeOK
  <2>4. hand[w] # Void /\ doc = hand[w].doc
    BY <2>3, NoDocFresh, ResolverAssumption DEF Parsed, Doc, Version
  <2>5. StampHolds(u, hand[w], slack)
    BY <1>5, <2>3 DEF Load, StampsHold
  <2>6. /\ doc <= Current(u)
        /\ doc < Current(u) => hand[w].at <= since[u][doc + 2] + slack
        /\ doc \in Nat /\ hand[w].at \in Nat
    BY <2>4, <2>5, StampType DEF StampHolds, ResolverInv, TypeOK
  <2>7. Current(u) \in Nat /\ (doc < Current(u) => since[u][doc + 2] \in Nat)
    BY <2>6, SinceType DEF ResolverInv
  <2>8. /\ time - hand[w].at <= TTL /\ time \in Nat /\ TTL \in Nat
        /\ slack \in Nat /\ slack' = slack
    BY <1>5, <2>2, ResolverAssumption, StampType, <2>6 DEF Load, Expired, ResolverInv, TypeOK
  <2>. QED  BY <2>3, <2>6, <2>7, <2>8
<1>. QED  BY <1>2, <1>4, <1>5

(* No run starts to use a version that was replaced longer ago than the TTL  *)
(* and the time documents have taken from the server to their timestamp.     *)
THEOREM FreshCorrect == Spec => FreshWhenTaken
<1>1. ResolverInv /\ StampsHold /\ [Next]_vars =>
        [\A w \in Worker, u \in Url :
            LET doc == memory'[w][u] IN
            memory[w][u] = NoDoc /\ doc \in Version =>
               doc = Current(u) \/ time - since[u][doc + 2] <= TTL + slack']_vars
  BY TakenIsFresh
<1>. QED  BY <1>1, StampsCorrect, PTL DEF Spec, FreshWhenTaken

-----------------------------------------------------------------------------
(* Mixed documents.                                                          *)

\* w has the cache file of u open.
Open(w, u) == pc[w] \in Reading \cup Writing /\ At(w) = u

\* Nobody has been in anybody's way at the cache file of u: a writer is alone
\* with it and finds what it has written so far, a reader finds the head it has
\* read, and a tail only ever follows the head of the same write.
Calm(u) ==
    /\ file[u] # Absent => file[u].tail \in {Void, file[u].head}
    /\ \A w \in Worker : Open(w, u) =>
          /\ pc[w] = "loading" => hand[w] = file[u].head
          /\ pc[w] = "head" => file[u].head = Void /\ file[u].tail = Void
          /\ pc[w] = "tail" => file[u].head = hand[w] /\ file[u].tail = Void
          /\ pc[w] \in Writing => \A v \in Worker \ {w} : ~Open(v, u)
    /\ \A w \in Worker : memory[w][u] # Mixed

RaceInv == \A u \in Url \ raced : Calm(u)

\* A worker that leaves the file alone and does not have it open disturbs nothing.
LEMMA CalmKept ==
  ASSUME NEW u \in Url, Calm(u), NEW w \in Worker, file'[u] = file[u], ~Open(w, u)',
         \A v \in Worker \ {w} :
            pc'[v] = pc[v] /\ todo'[v] = todo[v] /\ hand'[v] = hand[v],
         \A v \in Worker : memory'[v][u] # Mixed
  PROVE  Calm(u)'
<1>1. \A v \in Worker \ {w} : Open(v, u)' <=> Open(v, u)
  BY DEF Open, At, Here
<1>. QED  BY <1>1 DEF Calm

\* What is read from a file nobody was in the way at is one version.
LEMMA CalmRead ==
  ASSUME ResolverInv, NEW u \in Url, Calm(u), NEW w \in Worker, Load(w), At(w) = u,
         NEW doc \in Parsed(hand[w], file[u].tail)
  PROVE  doc # Mixed
<1>1. Open(w, u) /\ pc[w] = "loading" /\ file[u] # Absent
  BY DEF Load, Open, ResolverInv, AtDocument
<1>2. hand[w] = file[u].head /\ file[u].tail \in {Void, hand[w]} /\ hand[w] \in Block
  BY <1>1 DEF Calm, ResolverInv, TypeOK
<1>3. doc = NoDoc \/ (hand[w] # Void /\ doc = hand[w].doc)
  BY <1>2 DEF Parsed
<1>. QED  BY <1>2, <1>3, StampType, ResolverAssumption

LEMMA MemoryEntry ==
  ASSUME TypeOK, NEW u \in Url, NEW v \in Worker, NEW w \in Worker, NEW x \in Url, NEW doc,
         memory' = memory \/ memory' = [memory EXCEPT ![w][x] = doc]
  PROVE  memory'[v][u] = memory[v][u] \/ (x = u /\ memory'[v][u] = doc)
<1>1. memory \in [Worker -> [Url -> Doc \cup {NoDoc}]]
  BY DEF TypeOK
<1>. QED  BY <1>1

LEMMA MemoryUnmixed ==
  ASSUME ResolverInv, NEW u \in Url, Calm(u), NEW w \in Worker,
         Work(w) \/ Begin(w) \/ Restart(w), NEW v \in Worker
  PROVE  memory'[v][u] # Mixed
<1>. USE DEF ResolverInv
<1>1. memory[v][u] # Mixed /\ NoDoc # Mixed
  BY ResolverAssumption DEF Calm
<1>2. CASE Load(w)
  <2>1. At(w) \in Url
    BY <1>2, HereType DEF Load, AtDocument
  <2>2. UNCHANGED memory \/ \E doc \in Parsed(hand[w], file[At(w)].tail) :
                                memory' = [memory EXCEPT ![w][At(w)] = doc]
    BY <1>2 DEF Load, Miss, Remember
  <2>3. ASSUME NEW doc \in Parsed(hand[w], file[At(w)].tail),
               memory' = [memory EXCEPT ![w][At(w)] = doc]
        PROVE  memory'[v][u] # Mixed
    <3>1. At(w) = u => doc # Mixed
      BY <1>2, CalmRead
    <3>2. memory'[v][u] = memory[v][u] \/ (At(w) = u /\ memory'[v][u] = doc)
      BY <2>1, <2>3, MemoryEntry
    <3>. QED  BY <1>1, <3>1, <3>2
  <2>. QED  BY <1>1, <2>2, <2>3
<1>3. CASE Stamps(w)
  <2>1. At(w) \in Url /\ hand[w] \in Stamp
    BY <1>3, HereType, HandType DEF Stamps, AtDocument
  <2>2. UNCHANGED memory \/ memory' = [memory EXCEPT ![w][At(w)] = hand[w].doc]
    BY <1>3 DEF Stamps, Fail, Remember
  <2>3. hand[w].doc # Mixed
    BY <2>1, ResolverAssumption DEF Stamp, Version
  <2>4. memory'[v][u] = memory[v][u] \/ memory'[v][u] = hand[w].doc
    BY <2>1, <2>2, MemoryEntry
  <2>. QED  BY <1>1, <2>3, <2>4
<1>4. CASE Restart(w)
  BY <1>1, <1>4 DEF Restart, TypeOK
<1>5. CASE \/ Begin(w) \/ Keep(w) \/ Resolve(w) \/ Finish(w) \/ Lookup(w)
           \/ Fetch(w) \/ OpenCache(w) \/ WriteHead(w) \/ WriteTail(w)
  <2>1. UNCHANGED memory
    BY <1>5 DEF Begin, Keep, Resolve, Finish, Lookup, Fetch, OpenCache, WriteHead,
                WriteTail, Fail, Cached
  <2>. QED  BY <1>1, <2>1
<1>. QED  BY <1>2, <1>3, <1>4, <1>5 DEF Work

LEMMA RaceWork ==
  ASSUME ResolverInv, RaceInv, NEW w \in Worker, Work(w) \/ Begin(w) \/ Restart(w)
  PROVE  RaceInv'
<1>. USE DEF ResolverInv
<1>. SUFFICES ASSUME NEW u \in Url, u \notin raced' PROVE Calm(u)'
  BY DEF RaceInv
<1>1. Calm(u)
  <2>1. raced \subseteq raced'
    BY DEF Work, Begin, Restart, Keep, Resolve, Finish, Lookup, Load, Fetch, Stamps, OpenCache,
           WriteHead, WriteTail, Fail, Cached
  <2>. QED  BY <2>1 DEF RaceInv
<1>2. \A v \in Worker : memory'[v][u] # Mixed
  BY <1>1, MemoryUnmixed
<1>3. \A v \in Worker \ {w} : pc'[v] = pc[v] /\ todo'[v] = todo[v] /\ hand'[v] = hand[v]
  BY DEF Work, Begin, Restart, Keep, Resolve, Finish, Lookup, Load, Fetch, Stamps, OpenCache,
         WriteHead, WriteTail, Fail, Cached, Miss, Inline, TypeOK
<1>4. \A v \in Worker \ {w} : Open(v, u)' <=> Open(v, u)
  BY <1>3 DEF Open, At, Here
<1>5. CASE ~Open(w, u)' /\ file'[u] = file[u]
  BY <1>1, <1>2, <1>3, <1>5, CalmKept
<1>6. CASE Lookup(w) /\ pc'[w] = "loading" /\ At(w) = u
  <2>1. /\ file' = file /\ todo' = todo /\ hand'[w] = file[u].head
        /\ \A v \in Worker \ {w} : ~(Open(v, u) /\ pc[v] \in Writing)
    BY <1>6 DEF Lookup, OpenElsewhere, Open, TypeOK
  <2>. QED  BY <1>1, <1>2, <1>3, <1>4, <1>6, <2>1 DEF Calm
<1>7. CASE OpenCache(w) /\ pc'[w] = "head" /\ At(w) = u
  <2>1. /\ file' = [file EXCEPT ![u] = [head |-> Void, tail |-> Void]]
        /\ \A v \in Worker \ {w} : ~Open(v, u)
    BY <1>7 DEF OpenCache, Cached, Inline, Fail, OpenElsewhere, Open, TypeOK
  <2>2. file'[u].head = Void /\ file'[u].tail = Void
    BY <2>1 DEF TypeOK
  <2>. QED  BY <1>2, <1>4, <1>7, <2>1, <2>2 DEF Calm
<1>8. CASE (WriteHead(w) \/ WriteTail(w)) /\ At(w) = u
  <2>1. /\ pc[w] \in Writing /\ Open(w, u) /\ file[u] \in [head : Block, tail : Block]
        /\ pc[w] = "head" <=> WriteHead(w)
    BY <1>8 DEF WriteHead, WriteTail, Open, AtDocument, TypeOK, File
  <2>2. \A v \in Worker \ {w} : ~Open(v, u)
    BY <1>1, <2>1 DEF Calm
  <2>3. CASE WriteHead(w) /\ pc'[w] = "tail"
    <3>1. file'[u] = [file[u] EXCEPT !.head = hand[w]] /\ UNCHANGED hand
      BY <1>8, <2>3 DEF WriteHead, Cached, Inline, Fail, TypeOK
    <3>2. file'[u].head = hand[w] /\ file'[u].tail = file[u].tail /\ file[u].tail = Void
      BY <1>1, <2>1, <2>3, <3>1 DEF Calm
    <3>. QED  BY <1>2, <1>4, <2>2, <2>3, <3>1, <3>2 DEF Calm
  <2>4. CASE WriteTail(w) /\ file'[u] # file[u]
    <3>1. file'[u] = [file[u] EXCEPT !.tail = hand[w]] /\ pc'[w] \in {"walk", "failed"}
      BY <1>8, <2>4 DEF WriteTail, Cached, Inline, Fail, TypeOK
    <3>2. file'[u].tail = hand[w] /\ file'[u].head = file[u].head /\ file[u].head = hand[w]
      BY <1>1, <2>1, <2>4, <3>1 DEF Calm, WriteTail
    <3>3. ~Open(w, u)'
      BY <3>1 DEF Open
    <3>. QED  BY <1>2, <1>4, <2>2, <3>2, <3>3 DEF Calm
  <2>5. CASE pc'[w] \in {"walk", "failed"} /\ file'[u] = file[u]
    BY <1>5, <2>5 DEF Open
  <2>. QED  BY <1>8, <2>3, <2>4, <2>5 DEF WriteHead, WriteTail, Cached, Inline, Fail, TypeOK
<1>9. CASE (Lookup(w) \/ OpenCache(w) \/ WriteHead(w) \/ WriteTail(w)) /\ At(w) # u
  <2>1. file'[u] = file[u]
    BY <1>9 DEF Lookup, OpenCache, WriteHead, WriteTail, Cached, Fail, TypeOK
  <2>2. pc'[w] \in {"walk", "failed", "fetch"} \/ todo'[w] = todo[w]
    BY <1>9 DEF Lookup, OpenCache, WriteHead, WriteTail, Cached, Inline, Fail, TypeOK
  <2>3. ~Open(w, u)'
    BY <1>9, <2>2 DEF Open, At, Here
  <2>. QED  BY <1>5, <2>1, <2>3
<1>10. CASE pc'[w] \notin Reading \cup Writing /\ file' = file
  BY <1>5, <1>10 DEF Open
<1>. QED
  <2>1. CASE Lookup(w)
    BY <1>6, <1>9, <1>10, <2>1 DEF Lookup, TypeOK
  <2>2. CASE OpenCache(w)
    BY <1>7, <1>9, <1>10, <2>2 DEF OpenCache, Cached, Inline, Fail, TypeOK
  <2>3. CASE Keep(w) \/ Resolve(w) \/ Finish(w) \/ Load(w) \/ Fetch(w) \/ Stamps(w)
    BY <1>10, <2>3 DEF Keep, Resolve, Finish, Load, Fetch, Stamps, Fail, Miss, Inline, TypeOK
  <2>4. CASE Begin(w) \/ Restart(w)
    BY <1>10, <2>4 DEF Begin, Restart, TypeOK
  <2>. QED  BY <1>8, <1>9, <2>1, <2>2, <2>3, <2>4 DEF Work

LEMMA RaceNext == ResolverInv /\ RaceInv /\ [Next]_vars => RaceInv'
<1>. SUFFICES ASSUME ResolverInv, RaceInv, [Next]_vars PROVE RaceInv'
  OBVIOUS
<1>1. CASE UNCHANGED <<file, pc, todo, memory, hand, raced>>
  BY <1>1 DEF RaceInv, Calm, Open, At, Here
<1>2. ASSUME NEW u \in Url, Publish(u) PROVE RaceInv'
  BY <1>1, <1>2 DEF Publish
<1>3. Tick \/ UNCHANGED vars => RaceInv'
  BY <1>1 DEF Tick
<1>. QED  BY <1>2, <1>3, RaceWork DEF Next

(* A document put together from two is read only after one worker had opened *)
(* the cache file while another was using it; kills and failed writes alone  *)
(* never lead to one.                                                        *)
THEOREM MixedOnlyByRaceCorrect == Spec => []MixedOnlyByRace
<1>1. Init => RaceInv
  BY ResolverAssumption DEF Init, RaceInv, Calm, Open
<1>2. RaceInv => MixedOnlyByRace
  BY DEF RaceInv, Calm, MixedOnlyByRace
<1>. QED  BY <1>1, <1>2, InitInv, NextInv, RaceNext, PTL DEF Spec

-----------------------------------------------------------------------------
(* What a run gathers.                                                       *)

\* The items of a part of the walk that lies ahead.
ItemsOf(s) == {s[i].item : i \in 1 .. Len(s)}

LEMMA ItemsOfText ==
  ASSUME TypeOK, NEW where \in Ref \cup {"spec"}, NEW depth
  PROVE  ItemsOf(Items(where, depth)) = References(where)
<1>1. Len(content[where]) \in Nat
  BY ResolverAssumption, LenProperties DEF TypeOK
<1>2. /\ Len(Items(where, depth)) = Len(content[where])
      /\ \A i \in 1 .. Len(content[where]) : Items(where, depth)[i].item = content[where][i]
  BY <1>1 DEF Items
<1>. QED  BY <1>2 DEF ItemsOf, References

LEMMA ItemsOfTail ==
  ASSUME NEW s \in Seq(Todo), s # << >>
  PROVE  ItemsOf(s) = {Head(s).item} \cup ItemsOf(Tail(s))
<1>1. /\ Len(s) \in Nat \ {0} /\ Head(s) = s[1] /\ Len(Tail(s)) = Len(s) - 1
      /\ \A i \in 1 .. Len(s) - 1 : Tail(s)[i] = s[i + 1]
  BY HeadTailProperties, LenProperties, EmptySeq
<1>2. ASSUME NEW i \in 1 .. Len(s) PROVE s[i].item \in {Head(s).item} \cup ItemsOf(Tail(s))
  <2>1. CASE i = 1
    BY <1>1, <2>1
  <2>2. CASE i # 1
    <3>1. i - 1 \in 1 .. Len(Tail(s)) /\ Tail(s)[i - 1] = s[i]
      BY <1>1, <2>2
    <3>. QED  BY <3>1 DEF ItemsOf
  <2>. QED  BY <2>1, <2>2
<1>3. ASSUME NEW i \in 1 .. Len(Tail(s)) PROVE Tail(s)[i].item \in ItemsOf(s)
  <2>1. i + 1 \in 1 .. Len(s) /\ Tail(s)[i] = s[i + 1]
    BY <1>1
  <2>. QED  BY <2>1 DEF ItemsOf
<1>4. Head(s).item \in ItemsOf(s)
  BY <1>1 DEF ItemsOf
<1>. QED  BY <1>2, <1>3, <1>4 DEF ItemsOf

LEMMA ItemsOfConcat ==
  ASSUME NEW s \in Seq(Todo), NEW t \in Seq(Todo)
  PROVE  ItemsOf(s \o t) = ItemsOf(s) \cup ItemsOf(t)
<1>1. /\ Len(s) \in Nat /\ Len(t) \in Nat /\ Len(s \o t) = Len(s) + Len(t)
      /\ \A i \in 1 .. Len(s) : (s \o t)[i] = s[i]
      /\ \A i \in 1 .. Len(t) : (s \o t)[Len(s) + i] = t[i]
  BY ConcatProperties, LenProperties
<1>2. ASSUME NEW i \in 1 .. Len(s \o t) PROVE (s \o t)[i].item \in ItemsOf(s) \cup ItemsOf(t)
  <2>1. CASE i <= Len(s)
    BY <1>1, <2>1 DEF ItemsOf
  <2>2. CASE i > Len(s)
    <3>1. i - Len(s) \in 1 .. Len(t) /\ (s \o t)[i] = t[i - Len(s)]
      BY <1>1, <2>2
    <3>. QED  BY <3>1 DEF ItemsOf
  <2>. QED  BY <1>1, <2>1, <2>2
<1>3. ASSUME NEW i \in 1 .. Len(s) PROVE s[i].item \in ItemsOf(s \o t)
  BY <1>1 DEF ItemsOf
<1>4. ASSUME NEW i \in 1 .. Len(t) PROVE t[i].item \in ItemsOf(s \o t)
  <2>1. Len(s) + i \in 1 .. Len(s \o t) /\ (s \o t)[Len(s) + i] = t[i]
    BY <1>1
  <2>. QED  BY <2>1 DEF ItemsOf
<1>. QED  BY <1>2, <1>3, <1>4 DEF ItemsOf

\* What a step does to what worker w has gathered and to what lies ahead of it:
\* the run begins, an item stays, a fragment is inlined, the process ends, or
\* nothing.
Begins(w) ==
    /\ pc[w] = "idle" /\ pc'[w] = "walk"
    /\ ItemsOf(todo'[w]) = References("spec")
    /\ used'[w] = used[w] /\ left'[w] = left[w]
Keeps(w) ==
    /\ pc[w] # "idle" /\ pc'[w] \notin {"idle", "done"}
    /\ \E item \in Kept : /\ ItemsOf(todo[w]) = {item} \cup ItemsOf(todo'[w])
                          /\ left'[w] = left[w] \cup {item}
    /\ used'[w] = used[w]
Inlines(w) ==
    /\ pc[w] # "idle" /\ pc'[w] \notin {"idle", "done"}
    /\ \E item \in Ref, doc \in Doc, rest \in SUBSET (Ref \cup Kept) :
          /\ ItemsOf(todo[w]) = {item} \cup rest
          /\ ItemsOf(todo'[w]) = References(item) \cup rest
          /\ used'[w] = used[w] \cup {<<item, doc>>}
    /\ left'[w] = left[w]
Ends(w) == pc'[w] = "idle" /\ todo'[w] = << >> /\ used'[w] = {} /\ left'[w] = {}
Rests(w) ==
    /\ todo'[w] = todo[w] /\ used'[w] = used[w] /\ left'[w] = left[w]
    /\ pc'[w] = "idle" <=> pc[w] = "idle"
    /\ pc'[w] = "done" => pc[w] = "done" \/ todo[w] = << >>

LEMMA InlineGathers ==
  ASSUME ResolverInv, NEW w \in Worker, NEW doc \in Doc, Inline(w, doc),
         todo[w] # << >>, Here(w).item \in Ref, pc[w] \notin {"idle", "done"},
         UNCHANGED left
  PROVE  Inlines(w) \/ Rests(w)
<1>1. CASE pc' = [pc EXCEPT ![w] = "failed"] /\ UNCHANGED <<used, todo>>
  BY <1>1 DEF Rests, ResolverInv, TypeOK
<1>2. CASE /\ pc' = [pc EXCEPT ![w] = "walk"]
           /\ used' = [used EXCEPT ![w] = @ \cup {<<Here(w).item, doc>>}]
           /\ todo' = [todo EXCEPT ![w] = Items(Here(w).item, Here(w).depth + 1) \o Tail(@)]
  <2>1. /\ todo[w] \in Seq(Todo) /\ Here(w) \in Todo /\ Tail(todo[w]) \in Seq(Todo)
    BY HeadTailProperties DEF ResolverInv, TypeOK, Here
  <2>2. Items(Here(w).item, Here(w).depth + 1) \in Seq(Todo)
    <3>1. Here(w).depth + 1 \in Nat /\ Here(w).item \in Ref \cup {"spec"}
      BY <2>1 DEF Todo
    <3>. QED  BY <3>1, ItemsType DEF ResolverInv
  <2>3. ItemsOf(todo[w]) = {Here(w).item} \cup ItemsOf(Tail(todo[w]))
    BY <2>1, ItemsOfTail DEF Here
  <2>4. ItemsOf(todo'[w]) = References(Here(w).item) \cup ItemsOf(Tail(todo[w]))
    <3>1. todo'[w] = Items(Here(w).item, Here(w).depth + 1) \o Tail(todo[w])
      BY <1>2 DEF ResolverInv, TypeOK
    <3>. QED  BY <2>1, <2>2, <3>1, ItemsOfText, ItemsOfConcat DEF ResolverInv
  <2>5. ItemsOf(Tail(todo[w])) \in SUBSET (Ref \cup Kept)
    <3>1. \A i \in 1 .. Len(Tail(todo[w])) : Tail(todo[w])[i] \in Todo
      BY <2>1, ElementOfSeq
    <3>. QED  BY <3>1 DEF ItemsOf, Todo
  <2>6. /\ pc'[w] = "walk" /\ used'[w] = used[w] \cup {<<Here(w).item, doc>>}
        /\ left'[w] = left[w]
    BY <1>2 DEF ResolverInv, TypeOK
  <2>. QED  BY <2>3, <2>4, <2>5, <2>6 DEF Inlines
<1>. QED  BY <1>1, <1>2 DEF Inline

LEMMA Gathers ==
  ASSUME ResolverInv, [Next]_vars, NEW w \in Worker
  PROVE  /\ content' = content
         /\ Begins(w) \/ Keeps(w) \/ Inlines(w) \/ Ends(w) \/ Rests(w)
<1>. USE DEF ResolverInv
<1>1. content' = content
  BY DEF Next, Work, Begin, Restart, Keep, Resolve, Finish, Lookup, Load, Fetch, Stamps, OpenCache,
         WriteHead, WriteTail, Fail, Cached, Publish, Tick
<1>. SUFFICES Begins(w) \/ Keeps(w) \/ Inlines(w) \/ Ends(w) \/ Rests(w)
  BY <1>1
<1>2. CASE UNCHANGED <<pc, todo, used, left>>
  BY <1>2 DEF Rests
<1>3. ASSUME NEW v \in Worker \ {w}, Begin(v) \/ Work(v) \/ Restart(v) PROVE Rests(w)
  <2>1. /\ pc'[w] = pc[w] /\ todo'[w] = todo[w] /\ used'[w] = used[w] /\ left'[w] = left[w]
    BY <1>3 DEF Work, Begin, Restart, Keep, Resolve, Finish, Lookup, Load, Fetch, Stamps, OpenCache,
           WriteHead, WriteTail, Fail, Cached, Miss, Inline, TypeOK
  <2>. QED  BY <2>1 DEF Rests
<1>4. CASE Begin(w)
  <2>1. /\ pc[w] = "idle" /\ pc'[w] = "walk" /\ todo'[w] = Items("spec", 0)
        /\ used' = used /\ left' = left
    BY <1>4 DEF Begin, TypeOK
  <2>2. ItemsOf(Items("spec", 0)) = References("spec")
    BY ItemsOfText
  <2>. QED  BY <2>1, <2>2 DEF Begins
<1>5. CASE Restart(w)
  BY <1>5 DEF Restart, Ends, TypeOK
<1>6. CASE Keep(w)
  <2>1. ItemsOf(todo[w]) = {Here(w).item} \cup ItemsOf(Tail(todo[w]))
    BY <1>6, ItemsOfTail DEF Keep, Here, TypeOK
  <2>2. /\ pc'[w] = "walk" /\ pc[w] = "walk" /\ Here(w).item \in Kept /\ used' = used
        /\ todo'[w] = Tail(todo[w]) /\ left'[w] = left[w] \cup {Here(w).item}
    BY <1>6 DEF Keep, TypeOK
  <2>3. /\ ItemsOf(todo[w]) = {Here(w).item} \cup ItemsOf(todo'[w])
        /\ left'[w] = left[w] \cup {Here(w).item} /\ Here(w).item \in Kept
    BY <2>1, <2>2
  <2>4. pc[w] # "idle" /\ pc'[w] \notin {"idle", "done"} /\ used'[w] = used[w]
    BY <2>2
  <2>. QED  BY ONLY <2>3, <2>4 DEF Keeps
<1>7. CASE Finish(w) \/ Lookup(w) \/ Fetch(w) \/ Stamps(w)
  BY <1>7 DEF Finish, Lookup, Fetch, Stamps, Fail, Rests, TypeOK
<1>8. CASE Resolve(w)
  BY <1>8, InlineGathers, HereType DEF Resolve, Fail, Rests, TypeOK
<1>9. CASE Load(w)
  <2>1. /\ todo[w] # << >> /\ Here(w).item \in Ref /\ pc[w] = "loading"
        /\ pc[w] \notin {"idle", "done"}
        /\ file[At(w)] \in [head : Block, tail : Block] /\ hand[w] \in Block
    BY <1>9, HereType DEF Load, AtDocument, TypeOK, File
  <2>2. Miss(w) \/ \E doc \in Parsed(hand[w], file[At(w)].tail) : doc # NoDoc /\ Inline(w, doc)
    BY <1>9 DEF Load
  <2>3. left' = left /\ Parsed(hand[w], file[At(w)].tail) \subseteq Doc \cup {NoDoc}
    BY <1>9, <2>1, ParsedType DEF Load
  <2>4. CASE Miss(w)
    BY <2>1, <2>3, <2>4 DEF Miss, Rests, TypeOK
  <2>5. ASSUME NEW doc \in Doc, Inline(w, doc) PROVE Inlines(w) \/ Rests(w)
    BY <2>1, <2>3, <2>5, InlineGathers
  <2>. QED  BY <2>2, <2>3, <2>4, <2>5
<1>10. CASE OpenCache(w) \/ WriteHead(w) \/ WriteTail(w)
  <2>1. /\ todo[w] # << >> /\ Here(w).item \in Ref /\ pc[w] \notin {"idle", "done"}
        /\ memory[w][At(w)] \in Doc
    BY <1>10, HereType DEF OpenCache, WriteHead, WriteTail, AtDocument
  <2>2. CASE Cached(w)
    BY <2>1, <2>2, InlineGathers DEF Cached
  <2>3. CASE UNCHANGED <<todo, used, left>> /\ pc'[w] \in {"failed", "head", "tail"}
    BY <2>1, <2>3 DEF Rests
  <2>. QED  BY <1>10, <2>2, <2>3 DEF OpenCache, WriteHead, WriteTail, Fail, TypeOK
<1>11. ASSUME NEW u \in Url, Publish(u) PROVE Rests(w)
  BY <1>2, <1>11 DEF Publish, Rests
<1>12. CASE Tick \/ UNCHANGED vars
  BY <1>2, <1>12 DEF Tick
<1>. QED
  BY <1>3, <1>4, <1>5, <1>6, <1>7, <1>8, <1>9, <1>10, <1>11, <1>12 DEF Next, Work

\* What a text that was looked into refers to has been gathered or lies ahead;
\* all of it can be reached from the specification; and who leads back to what
\* was inlined still lies ahead.
Gathered(w) ==
    /\ pc[w] = "idle" => used[w] = {} /\ left[w] = {}
    /\ pc[w] = "done" => todo[w] = << >>
    /\ pc[w] # "idle" => \A x \in Fragments(w) \cup {"spec"} :
          References(x) \subseteq Fragments(w) \cup left[w] \cup ItemsOf(todo[w])
    /\ Fragments(w) \cup left[w] \cup ItemsOf(todo[w]) \subseteq Reachable
    /\ \A S \in SUBSET Ref :
          (\A x \in S : References(x) \cap S # {}) /\ S \cap Fragments(w) # {}
             => S \cap ItemsOf(todo[w]) # {}

GatheredInv == \A w \in Worker : Gathered(w)

\* A text that can be reached refers only to what can be reached.
LEMMA ReachableClosed ==
  ASSUME TypeOK, NEW x \in (Reachable \cap Ref) \cup {"spec"}
  PROVE  References(x) \subseteq Reachable
<1>1. References(x) \subseteq Ref \cup Kept
  <2>1. content[x] \in Seq(Ref \cup Kept)
    BY ResolverAssumption DEF TypeOK
  <2>. QED  BY <2>1, ElementOfSeq DEF References
<1>2. ASSUME NEW S \in SUBSET (Ref \cup Kept \cup {"spec"}), "spec" \in S, Closed(S)
      PROVE  References(x) \subseteq S
  <2>1. x \in S /\ x \notin Kept
    BY <1>2, ResolverAssumption DEF Reachable
  <2>. QED  BY <1>2, <2>1 DEF Closed
<1>. QED  BY <1>1, <1>2 DEF Reachable

LEMMA FragmentsType ==
  ASSUME TypeOK, NEW w \in Worker PROVE Fragments(w) \subseteq Ref
  BY DEF TypeOK, Fragments

LEMMA GatheredNext ==
  ResolverInv /\ ResolverInv' /\ GatheredInv /\ [Next]_vars => GatheredInv'
<1>. SUFFICES ASSUME ResolverInv, ResolverInv', GatheredInv, [Next]_vars, NEW w \in Worker
              PROVE  Gathered(w)'
  BY DEF GatheredInv
<1>1. /\ Reachable' = Reachable
      /\ \A x : References(x)' = References(x)
  BY Gathers DEF Reachable, Closed, References
<1>2. Gathered(w)
  BY DEF GatheredInv
<1>3. \A x \in (Reachable \cap Ref) \cup {"spec"} : References(x) \subseteq Reachable
  BY ReachableClosed DEF ResolverInv
<1>4. CASE Begins(w)
  <2>1. /\ Fragments(w) = {} /\ left[w] = {} /\ Fragments(w)' = {} /\ left'[w] = {}
        /\ ItemsOf(todo[w])' = References("spec") /\ pc'[w] = "walk"
    BY <1>2, <1>4 DEF Begins, Gathered, Fragments
  <2>. QED  BY <1>1, <1>3, <2>1 DEF Gathered
<1>5. CASE Keeps(w)
  <2>1. PICK item \in Kept : /\ ItemsOf(todo[w]) = {item} \cup ItemsOf(todo[w])'
                             /\ left'[w] = left[w] \cup {item}
    BY <1>5 DEF Keeps
  <2>2. pc[w] # "idle" /\ pc'[w] \notin {"idle", "done"} /\ Fragments(w)' = Fragments(w)
    BY <1>5 DEF Keeps, Fragments
  <2>3. item \notin Ref
    BY ResolverAssumption
  <2>. QED  BY <1>1, <1>2, <2>1, <2>2, <2>3 DEF Gathered
<1>6. CASE Inlines(w)
  <2>1. PICK item \in Ref, doc \in Doc, rest \in SUBSET (Ref \cup Kept) :
          /\ ItemsOf(todo[w]) = {item} \cup rest
          /\ ItemsOf(todo'[w]) = References(item) \cup rest
          /\ used'[w] = used[w] \cup {<<item, doc>>}
    BY <1>6 DEF Inlines
  <2>2. /\ pc[w] # "idle" /\ pc'[w] \notin {"idle", "done"} /\ left'[w] = left[w]
        /\ Fragments(w)' = Fragments(w) \cup {item}
    <3>1. <<item, doc>>[1] = item
      OBVIOUS
    <3>2. {p[1] : p \in used'[w]} = {p[1] : p \in used[w]} \cup {item}
      BY ONLY <2>1, <3>1
    <3>. QED  BY <1>6, <3>2 DEF Inlines, Fragments
  <2>3. item \in Reachable
    BY <1>2, <2>1 DEF Gathered
  <2>4. References(item) \subseteq Reachable
    BY <1>3, <2>3
  <2>5. ASSUME NEW S \in SUBSET Ref, \A x \in S : References(x) \cap S # {},
               S \cap (Fragments(w) \cup {item}) # {}
        PROVE  S \cap (References(item) \cup rest) # {}
    <3>1. CASE item \in S
      BY <2>5, <3>1
    <3>2. CASE item \notin S
      BY <1>2, <2>1, <2>5, <3>2 DEF Gathered
    <3>. QED  BY <3>1, <3>2
  <2>. QED  BY <1>1, <1>2, <2>1, <2>2, <2>3, <2>4, <2>5 DEF Gathered
<1>7. CASE Ends(w)
  <2>1. /\ Fragments(w)' = {} /\ left'[w] = {} /\ todo'[w] = << >> /\ used'[w] = {}
        /\ pc'[w] = "idle" /\ ItemsOf(todo[w])' = {}
    BY <1>7 DEF Ends, Fragments, ItemsOf
  <2>. QED  BY <2>1 DEF Gathered
<1>8. CASE Rests(w)
  <2>1. /\ Fragments(w)' = Fragments(w) /\ left'[w] = left[w] /\ todo'[w] = todo[w]
        /\ used'[w] = used[w] /\ ItemsOf(todo[w])' = ItemsOf(todo[w])
        /\ pc'[w] = "idle" <=> pc[w] = "idle"
        /\ pc'[w] = "done" => pc[w] = "done" \/ todo[w] = << >>
    BY <1>8 DEF Rests, Fragments
  <2>. QED  BY <1>1, <1>2, <2>1 DEF Gathered
<1>. QED  BY <1>4, <1>5, <1>6, <1>7, <1>8, Gathers

LEMMA GatheredCorrect == Spec => [](ResolverInv /\ GatheredInv)
<1>1. Init => GatheredInv
  BY DEF Init, GatheredInv, Gathered, Fragments, ItemsOf
<1>. QED  BY <1>1, InitInv, NextInv, GatheredNext, PTL DEF Spec

(* A run that comes to its end has inlined exactly the fragments that the    *)
(* specification leads to, and left exactly what may stay.                   *)
THEOREM InlinesTheReachableCorrect == Spec => []InlinesTheReachable
<1>1. ASSUME ResolverInv, GatheredInv, NEW w \in Worker, pc[w] = "done"
      PROVE  Fragments(w) = Reachable \cap Ref /\ left[w] = Reachable \cap Kept
  <2>1. /\ Gathered(w) /\ ItemsOf(todo[w]) = {}
        /\ Fragments(w) \subseteq Ref /\ left[w] \subseteq Kept
    <3>1. Gathered(w) /\ todo[w] = << >>
      BY <1>1 DEF GatheredInv, Gathered
    <3>2. ItemsOf(todo[w]) = {}
      BY <3>1 DEF ItemsOf
    <3>. QED  BY <1>1, <3>1, <3>2, FragmentsType DEF ResolverInv, LeftMayStay
  <2>2. Closed(Fragments(w) \cup left[w] \cup {"spec"})
    BY <1>1, <2>1 DEF Closed, Gathered
  <2>3. Reachable \subseteq Fragments(w) \cup left[w] \cup {"spec"} /\ "spec" \notin Reachable
    BY <2>1, <2>2, ResolverAssumption DEF Reachable
  <2>. QED  BY <2>1, <2>3, ResolverAssumption DEF Gathered
<1>2. ResolverInv /\ GatheredInv => InlinesTheReachable
  BY <1>1 DEF InlinesTheReachable
<1>. QED  BY <1>2, GatheredCorrect, PTL

(* A run that comes to its end has met no circle of references.              *)
THEOREM NoCircleCorrect == Spec => []NoCircleInlined
<1>1. ASSUME ResolverInv, GatheredInv, NEW w \in Worker, pc[w] = "done",
             NEW S \in SUBSET Fragments(w), \A x \in S : References(x) \cap S # {}
      PROVE  S = {}
  <2>1. Gathered(w) /\ ItemsOf(todo[w]) = {} /\ S \in SUBSET Ref
    BY <1>1, FragmentsType DEF GatheredInv, Gathered, ItemsOf, ResolverInv
  <2>. QED  BY <1>1, <2>1 DEF Gathered
<1>2. ResolverInv /\ GatheredInv => NoCircleInlined
  BY <1>1 DEF NoCircleInlined
<1>. QED  BY <1>2, GatheredCorrect, PTL

\* A run has inlined every reference it can reach, but those into the documents
\* themselves.
AllExternalInlined ==
    \A w \in Worker : pc[w] = "done" => Fragments(w) = Reachable \ {"local"}

(* Where no text has a reference with siblings, the documented result holds: *)
(* a run ends with every external reference it can reach inlined, none left  *)
(* in place for another reason.                                              *)
THEOREM NoExternalRefLeftWithoutSiblings ==
  ASSUME \A texts \in Contents, x \in Ref \cup {"spec"} :
            \A i \in 1 .. Len(texts[x]) : texts[x][i] # "sibling"
  PROVE  Spec => [](NoExternalRefLeft /\ AllExternalInlined)
<1>1. ASSUME ResolverInv PROVE "sibling" \notin Reachable
  <2>1. content \in Contents
    BY <1>1 DEF ResolverInv, TypeOK
  <2>2. \A x \in Ref \cup {"spec"} : References(x) \subseteq (Ref \cup Kept) \ {"sibling"}
    <3>1. \A x \in Ref \cup {"spec"} : content[x] \in Seq(Ref \cup Kept)
      BY <2>1, ResolverAssumption
    <3>. QED  BY <2>1, <3>1, ElementOfSeq DEF References
  <2>3. "sibling" \notin Ref
    BY ResolverAssumption
  <2>4. Closed((Ref \cup Kept \cup {"spec"}) \ {"sibling"})
    BY <2>2 DEF Closed
  <2>. QED  BY <2>4 DEF Reachable
<1>2. Reachable \subseteq Ref \cup Kept /\ "local" \notin Ref
  BY ResolverAssumption DEF Reachable
<1>3. ResolverInv /\ InlinesTheReachable => NoExternalRefLeft /\ AllExternalInlined
  BY <1>1, <1>2 DEF InlinesTheReachable, NoExternalRefLeft, AllExternalInlined
<1>. QED  BY <1>3, ResolverInvariant, InlinesTheReachableCorrect, PTL

-----------------------------------------------------------------------------
NeverRaced == raced = {}
NeverMixed == \A w \in Worker, u \in Url : memory[w][u] # Mixed

(* A deployment of one worker never reads a mixed document, wherever the     *)
(* process was killed and whichever write failed: truncating the file before *)
(* writing it is enough then.                                                *)
THEOREM SoleWorkerNeverMixed ==
  ASSUME \A v, w \in Worker : v = w
  PROVE  Spec => []NeverMixed
<1>1. Init => NeverRaced
  BY DEF Init, NeverRaced
<1>2. NeverRaced /\ [Next]_vars => NeverRaced'
  <2>. USE DEF NeverRaced
  <2>1. ASSUME raced = {}, NEW w \in Worker, Lookup(w) \/ OpenCache(w) PROVE raced' = {}
    BY <2>1 DEF Lookup, OpenCache, OpenElsewhere, Cached
  <2>. QED
    BY <2>1 DEF Next, Work, Begin, Restart, Keep, Resolve, Finish, Load, Fetch, Stamps, WriteHead,
                WriteTail, Fail, Cached, Publish, Tick
<1>3. NeverRaced /\ MixedOnlyByRace => NeverMixed
  BY DEF NeverRaced, MixedOnlyByRace, NeverMixed
<1>. QED  BY <1>1, <1>2, <1>3, MixedOnlyByRaceCorrect, PTL DEF Spec
=============================================================================
