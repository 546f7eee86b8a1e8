----------------------------- MODULE TreeStore -----------------------------
(***************************************************************************)
(* The logical store around the B-tree: the sparse mutation overlay over    *)
(* the published page table, the three read paths (resident, lazy, merged), *)
(* single and batch mutations, publication, clean and replaying reopen, and *)
(* resumable vacuum.                                                        *)
(*                                                                          *)
(* One &mut handle serialises everything but the bounded vacuum calls, so   *)
(* an action is one public call.  Device placement, cache frames, blobs and *)
(* the durability protocol are the other modules'; here a publication       *)
(* either happens or is lost with the handle (Reopen).                      *)
(***************************************************************************)
EXTENDS BTree

CONSTANTS
  Vals,         \* [Keys -> set of values the clients put under the key]
  Deletable,    \* the keys the clients delete
  Batches,      \* the batches they commit: sequences of [key, val]
  MaxJournal    \* bound: mutations since the last publication

VARIABLES
  tree,      \* StorageEngine::btree
  lazy,      \* lazy_root is Some: the published generation backs the reads
  pub,       \* the published generation: page table contents, root, allocator
  map,       \* what the accepted mutations amount to, [Keys -> value]
  saved,     \* the same at the last publication
  journal,   \* the mutations accepted since then, in order
  vac,       \* DB::vacuum: the candidate and the cursor
  res        \* the last call's error, "ok" when there was none

vars == <<tree, lazy, pub, map, saved, journal, vac, res>>

NoPub == [nodes |-> <<>>, root |-> 0, next |-> 1]
Idle == [on |-> FALSE, cand |-> NewTree, cursor |-> CursorAt(NewTree, 0, 0)]
EmptyMap == [k \in Keys |-> NotFound]
EndKey == Max(Keys) + 1

Init ==
  /\ tree = NewTree /\ lazy = FALSE /\ pub = NoPub
  /\ map = EmptyMap /\ saved = EmptyMap /\ journal = <<>>
  /\ vac = Idle /\ res = "ok"

(***************************************************************************)
(* The pieces of a mutation.                                                *)
(***************************************************************************)
\* prepare_mutation: make the route to k resident.
RECURSIVE LoadRoute(_, _, _)
LoadRoute(t, p, k) ==
  LET loaded == IF Resident(t, p) THEN t ELSE AddNode(t, p, pub.nodes[p])
  IN IF loaded.nodes[p].leaf THEN loaded
     ELSE LoadRoute(loaded, ChildForKey(loaded.nodes[p], k), k)
PrepareMutation(t, k) == IF lazy THEN LoadRoute(t, t.root, k) ELSE t

Put(k, v) == [key |-> k, val |-> v]
Apply(t, op) == IF op.val = Tombstone THEN Delete(t, op.key) ELSE Upsert(t, op.key, op.val)

\* The tree after all of ops, or the error of the first that fails.
ApplyAll(t, ops) ==
  FoldLeft(LAMBDA r, op : IF r.err = "ok" THEN Apply(r.tree, op) ELSE r, Done(t), ops)

Write(m, op) == [m EXCEPT ![op.key] = IF op.val = Tombstone THEN NotFound ELSE op.val]
WriteAll(m, ops) == FoldLeft(Write, m, ops)

\* complete_generation over what write_dirty_pages put into the page table.
Published(t, old) ==
  [nodes |-> [p \in DOMAIN old \cup t.dirty |-> IF p \in t.dirty THEN t.nodes[p] ELSE old[p]],
   root |-> t.root, next |-> t.next]
Install(t, old, m) ==
  /\ pub' = Published(t, old)
  /\ tree' = [t EXCEPT !.dirty = {}]
  /\ lazy' = TRUE
  /\ saved' = m /\ journal' = <<>>

Materialized ==
  IF pub = NoPub THEN NewTree
  ELSE [nodes |-> pub.nodes, root |-> pub.root, dirty |-> {}, next |-> pub.next]

(***************************************************************************)
(* Calls.                                                                   *)
(***************************************************************************)
\* Mutant of Mutate: the log record is kept when the tree refuses the write.
MutateLoggingFirst(op) ==
  /\ ~vac.on
  /\ Len(journal) < MaxJournal
  /\ \E r \in {Apply(PrepareMutation(tree, op.key), op)} :
       /\ tree' = r.tree
       /\ res' = r.err
       /\ map' = IF r.err = "ok" THEN Write(map, op) ELSE map
  /\ journal' = Append(journal, op)
  /\ UNCHANGED <<lazy, pub, saved, vac>>

\* DB::put and DB::delete.
Mutate(op) ==
  /\ ~vac.on
  /\ Len(journal) < MaxJournal
  /\ \E r \in {Apply(PrepareMutation(tree, op.key), op)} :
       /\ tree' = r.tree
       /\ res' = r.err
       /\ map' = IF r.err = "ok" THEN Write(map, op) ELSE map
       /\ journal' = IF r.err = "ok" THEN Append(journal, op) ELSE journal
  /\ UNCHANGED <<lazy, pub, saved, vac>>

\* DB::commit_batch: all routes first, then a candidate that is published whole
\* or dropped.  The routes stay resident either way.
CommitBatch(ops) ==
  /\ ~vac.on
  /\ journal = <<>>
  /\ \E t \in {FoldLeft(LAMBDA u, op : PrepareMutation(u, op.key), tree, ops)} :
     \E r \in {ApplyAll(t, ops)} :
       /\ res' = r.err
       /\ IF r.err = "ok"
          THEN map' = WriteAll(map, ops) /\ Install(r.tree, pub.nodes, WriteAll(map, ops))
          ELSE tree' = t /\ UNCHANGED <<lazy, pub, map, saved, journal>>
  /\ UNCHANGED vac

\* DB::flush.
Flush ==
  /\ ~vac.on
  /\ journal # <<>>
  /\ Install(tree, pub.nodes, map)
  /\ res' = "ok"
  /\ UNCHANGED <<map, vac>>

\* A new handle on what is durable: the published generation and the first n
\* mutations of the log.  Only a replay materialises the tree, and publishes.
Reopen(n) ==
  /\ vac' = Idle
  /\ map' = WriteAll(saved, SubSeq(journal, 1, n))
  /\ IF n = 0
     THEN /\ tree' = IF pub = NoPub THEN NewTree ELSE SparseTree(pub.root, pub.next)
          /\ lazy' = (pub # NoPub)
          /\ journal' = <<>>
          /\ res' = "ok"
          /\ UNCHANGED <<pub, saved>>
     ELSE \E r \in {ApplyAll(Materialized, SubSeq(journal, 1, n))} :
            /\ Install(r.tree, pub.nodes, map')
            /\ res' = r.err

\* start_vacuum: publish what is pending, then make every page resident.
StartVacuum ==
  /\ ~vac.on
  /\ \E gen \in {IF journal = <<>> THEN pub ELSE Published(tree, pub.nodes)} :
     \E t \in {IF journal = <<>> /\ ~lazy THEN tree
               ELSE [nodes |-> gen.nodes, root |-> gen.root, dirty |-> {}, next |-> gen.next]} :
       /\ pub' = gen
       /\ tree' = t
       /\ vac' = [on |-> TRUE, cand |-> NewTree, cursor |-> CursorAt(t, 0, EndKey)]
  /\ lazy' = FALSE
  /\ saved' = map /\ journal' = <<>>
  /\ res' = "ok"
  /\ UNCHANGED map

\* Mutant of VacuumStep: the cursor is saved from before the entry.
VacuumStepRepeating ==
  /\ vac.on
  /\ \E next \in {CursorNext(tree, vac.cursor)} :
       IF next.row = NoRow
       THEN /\ Install(vac.cand, <<>>, map)
            /\ vac' = Idle
            /\ res' = "ok"
       ELSE \E r \in {Upsert(vac.cand, next.row.key, next.row.val)} :
              /\ vac' = IF r.err = "ok" THEN [vac EXCEPT !.cand = r.tree] ELSE Idle
              /\ res' = r.err
              /\ UNCHANGED <<tree, lazy, pub, saved, journal>>
  /\ UNCHANGED map

\* vacuum_step of one entry; without one left the candidate is published in
\* place of the whole page table.  A refused upsert drops the candidate.
VacuumStep ==
  /\ vac.on
  /\ \E next \in {CursorNext(tree, vac.cursor)} :
       IF next.row = NoRow
       THEN /\ Install(vac.cand, <<>>, map)
            /\ vac' = Idle
            /\ res' = "ok"
       ELSE \E r \in {Upsert(vac.cand, next.row.key, next.row.val)} :
              /\ vac' = IF r.err = "ok" THEN [on |-> TRUE, cand |-> r.tree, cursor |-> next.cursor]
                        ELSE Idle
              /\ res' = r.err
              /\ UNCHANGED <<tree, lazy, pub, saved, journal>>
  /\ UNCHANGED map

CancelVacuum ==
  /\ vac.on
  /\ vac' = Idle
  /\ res' = "ok"
  /\ UNCHANGED <<tree, lazy, pub, map, saved, journal>>

Next ==
  \/ \E k \in Keys : \E v \in Vals[k] : Mutate(Put(k, v))
  \/ \E k \in Deletable : Mutate(Put(k, Tombstone))
  \/ \E ops \in Batches : CommitBatch(ops)
  \/ Flush
  \/ \E n \in 0 .. Len(journal) : Reopen(n)
  \/ StartVacuum
  \/ VacuumStep
  \/ CancelVacuum

Spec == Init /\ [][Next]_vars

(***************************************************************************)
(* Reads.                                                                   *)
(***************************************************************************)
\* The published generation as the lazy paths walk it.
LazyTree == [nodes |-> pub.nodes, root |-> pub.root, dirty |-> {}, next |-> pub.next]
LookupLazy(k) == Lookup(LazyTree, k)
RangeLazy(start, end) == RangeScan(LazyTree, start, end)

EngineLookup(k) ==
  IF lazy /\ (tree.dirty = {} \/ FindLeaf(tree, k) = Missing)
  THEN LookupLazy(k)
  ELSE Lookup(tree, k)

\* Mutant of Overlay: a tombstone does not hide the row below it.
OverlayLiveOnly(base, dirty) ==
  LET live == {d \in dirty : d.val # Tombstone}
  IN {e \in base : \A d \in live : d.key # e.key} \cup live

\* Rows as a set of [key, val]: the merged view of the lazy base and the dirty
\* leaves, or the resident cursor's output.
Overlay(base, dirty) ==
  {e \in base : \A d \in dirty : d.key # e.key} \cup {d \in dirty : d.val # Tombstone}
EngineRange(start, end) ==
  IF lazy
  THEN Overlay(Range(RangeLazy(start, end)), DirtyLeafEntries(tree, start, end))
  ELSE Range(RangeScan(tree, start, end))

(***************************************************************************)
(* Properties.                                                              *)
(***************************************************************************)
\* The logical tree: resident pages over the published ones.
Whole ==
  [tree EXCEPT !.nodes = [p \in DOMAIN @ \cup (IF lazy THEN DOMAIN pub.nodes ELSE {}) |->
                            IF p \in DOMAIN @ THEN @[p] ELSE pub.nodes[p]]]

MapRows(m, start, end) ==
  {[key |-> k, val |-> m[k]] : k \in {x \in Keys : start <= x /\ x < end /\ m[x] # NotFound}}

\* Reads agree with the ordered map of the accepted writes: a point read
\* (StorageEngine::lookup) returns the last write of its key, whichever of the
\* resident, lazy and fallback routes answers it, and a range read
\* (StorageEngine::range) exactly the live rows of its range, however they are
\* spread over dirty leaves and published pages.
ReadsAgree ==
  /\ \A k \in Keys :
       EngineLookup(k) = map[k] \/ (map[k] = NotFound /\ EngineLookup(k) = Tombstone)
  /\ \A start \in Keys : \A end \in {k \in Keys \cup {EndKey} : k > start} :
       EngineRange(start, end) = MapRows(map, start, end)

\* The published pages alone are a complete tree of the saved rows: verify(),
\* and retain_commit's check of a root, accept them and collect exactly the
\* saved blob pointers; a reopened handle or a read view misses nothing.
PublishedComplete ==
  pub # NoPub =>
    /\ VerifyTree(LazyTree)
    /\ BlobPointers(LazyTree) = {saved[k] : k \in {x \in Keys : saved[x].tag = "blob"}}
    /\ Range(RangeLazy(0, EndKey)) = MapRows(saved, 0, EndKey)

\* The height of the subtree at p, 0 unless all its leaves are level.
RECURSIVE Height(_, _)
Height(t, p) ==
  IF t.nodes[p].leaf THEN 1
  ELSE LET below == {Height(t, q) : q \in Range(Children(t.nodes[p]))}
       IN IF 0 \in below \/ Cardinality(below) # 1 THEN 0 ELSE 1 + Max(below)

\* The right neighbour the parent hints give, when they give one, is the one a
\* walk from the root finds: stale hints cost time, never a row.
HintsAgree(w) ==
  \A p \in {q \in DOMAIN w.nodes : w.nodes[q].leaf} :
    NextLeafFromHint(w, p) \in {NoAnswer, NextLeafByPath(w, p)}

\* Whatever splits, overlays and reopens did, the logical tree is a B-tree that
\* verification would accept, with level leaves and no key twice in a page; its
\* pages are all the allocated ids (ensure_materialized reads 0 ..= max and
\* takes a hole for corruption); and no scan is misled by a hint.
TreeSound ==
  /\ \E w \in {Whole} :
       /\ VerifyTree(w)
       /\ Height(w, w.root) > 0
       /\ \A p \in DOMAIN w.nodes :
            Cardinality({e.key : e \in Range(w.nodes[p].ents)}) = Len(w.nodes[p].ents)
       /\ DOMAIN w.nodes = 0 .. w.next - 1
  /\ HintsAgree(IF lazy THEN LazyTree ELSE tree)

\* Recovery accepts every prefix of the log that the live handle accepted, and
\* rebuilds the same rows, although it replays on a materialised tree what was
\* applied to a sparse one.
ReplayAgrees ==
  \A n \in 1 .. Len(journal) :
    \E r \in {ApplyAll(Materialized, SubSeq(journal, 1, n))} :
      /\ r.err = "ok"
      /\ Range(RangeScan(r.tree, 0, EndKey)) = MapRows(WriteAll(saved, SubSeq(journal, 1, n)), 0, EndKey)

\* At every pause of a vacuum the candidate and the rest of the cursor make up
\* the live rows, in order and without a repeat, and there is no unpublished
\* mutation beside it.
VacuumExact ==
  vac.on =>
    /\ journal = <<>> /\ ~lazy
    /\ \E rows \in {RangeScan(vac.cand, 0, EndKey) \o Drain(tree, vac.cursor)} :
         /\ Range(rows) = MapRows(map, 0, EndKey)
         /\ \A i, j \in DOMAIN rows : i < j => rows[i].key < rows[j].key

\* A refused mutation, split half done or batch half applied, leaves the
\* logical tree, its root and its allocator as they were.
RefusalKeepsTree ==
  [][res' # "ok" => Whole'.nodes = Whole.nodes /\ Whole'.root = Whole.root
                    /\ Whole'.next = Whole.next /\ map' = map]_vars

\* A put whose key and value the length checks admit is accepted: no refusal
\* comes from pages that happen not to be loaded.
NoMissingPage == res # "MissingPage"

\* Every put the length checks admit finds room: a full leaf is split.
PutFindsRoom == res \notin {"PageFull", "TooFewKeys", "EntryTooLarge"}
============================================================================
