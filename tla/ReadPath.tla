------------------------------ MODULE ReadPath ------------------------------
(***************************************************************************)
(* storage/read_path.rs, page_cache.rs and flush.rs over the buffer pool of *)
(* one open handle.  Readers share the handle and run concurrently; a flush *)
(* owns it exclusively (&mut self), fails at any device call, and is tried  *)
(* again with the pages that are dirty by then.                             *)
(*                                                                          *)
(* The image of a page version is the cache key <<page, version>> itself.   *)
(* The checksum tells an image from the zeros of a fresh buffer, and does   *)
(* not tell one image from another.                                         *)
(***************************************************************************)
EXTENDS BufferPool

CONSTANTS
  Writer,      \* the thread that flushes
  MaxFaults,   \* bound: device errors
  DirtySets,   \* the sets of pages a generation dirties
  Retained     \* the pages whose superseded versions are still read

ASSUME ReadPathAssumption ==
  /\ Pages \subseteq Nat
  /\ Images = (Pages \X (1 .. MaxVersion)) \cup {Zero}
  /\ Zero \notin Pages \X Nat
  /\ Writer \in Clients
  /\ MaxVersion > 0 /\ MaxFaults \in Nat
  /\ Retained \subseteq Pages /\ DirtySets \subseteq (SUBSET Pages) \ {{}}
  /\ \A S \in DirtySets : IsFiniteSet(S)

Readers == Clients \ {Writer}

VARIABLES
  mutex,    \* the thread inside the pool's mutex across several calls
  parsed,   \* ParsedPageCache::pages; Zero where the key has no entry
  ver,      \* the version of each page in the live PMT
  pub,      \* the versions each published or retained PMT may name
  rd,       \* the readers
  fl,       \* the flush
  faults

engineVars == <<mutex, parsed, ver, pub, rd, fl, faults>>
vars == <<bufVars, engineVars>>

NoRead == [pc |-> "idle", key |-> None, buf |-> Zero]
NoFlush == [pc |-> "idle", dirty |-> {}, todo |-> {}, cur |-> None, stream |-> FALSE,
            staged |-> {}, retired |-> {}]

Init ==
  /\ BufInit
  /\ mutex = None
  /\ parsed = [k \in Keys |-> Zero]
  /\ ver = [p \in Pages |-> 1]
  /\ pub = [p \in Pages |-> {1}]
  /\ rd = [r \in Readers |-> NoRead]
  /\ fl = NoFlush
  /\ faults = 0

(***************************************************************************)
(* read_node_arc_from_pmt.                                                  *)
(***************************************************************************)
At(r, pc) == rd[r].pc = pc

\* A parsed node answers at once and leaves no trace.  StorageEngine reads on
\* after a failed flush, through a PMT that names the pages it got to.
StartRead(r, p, v) ==
  /\ At(r, "idle") /\ fl.pc \in {"idle", "failed"}
  /\ v \in pub[p] \cup {ver[p]} /\ parsed[<<p, v>>] = Zero
  /\ rd' = [rd EXCEPT ![r] = [pc |-> "check", key |-> <<p, v>>, buf |-> Zero]]
  /\ UNCHANGED <<bufVars, mutex, parsed, ver, pub, fl, faults>>

\* is_resident_key: the mutex is released before the answer is used.
CheckResident(r) ==
  /\ At(r, "check") /\ mutex = None
  /\ rd' = [rd EXCEPT ![r].pc = IF IsResident(rd[r].key) THEN "fetch" ELSE "device"]
  /\ UNCHANGED <<bufVars, mutex, parsed, ver, pub, fl, faults>>

\* The extent check and read_page; the read ends if one of them fails.
ReadDevice(r) ==
  /\ At(r, "device")
  /\ \/ rd' = [rd EXCEPT ![r].buf = rd[r].key, ![r].pc = "fetch"]
     \/ rd' = [rd EXCEPT ![r] = NoRead]
  /\ UNCHANGED <<bufVars, mutex, parsed, ver, pub, fl, faults>>

\* fetch_key under the mutex, which stays held until the copy.
PoolFetch(c, k, d, w) == FetchHit(c, k, w) \/ FetchFree(c, k, d, w) \/ FetchSweep(c, k, d, w)

FetchPage(r) ==
  /\ At(r, "fetch") /\ mutex = None
  /\ mutex' = r
  /\ PoolFetch(r, rd[r].key, rd[r].buf, FALSE)
  /\ rd' = [rd EXCEPT ![r].pc = "copy"]
  /\ UNCHANGED <<parsed, ver, pub, fl, faults>>

Sweeping(c) == (SweepSkip(c) \/ SweepEvict(c)) /\ UNCHANGED engineVars

\* fetch_key finds no frame: the read fails.
RefuseRead(r) ==
  /\ At(r, "copy") /\ SweepFail(r)
  /\ rd' = [rd EXCEPT ![r] = NoRead]
  /\ mutex' = None
  /\ UNCHANGED <<parsed, ver, pub, fl, faults>>

CopyPage(r) ==
  /\ At(r, "copy") /\ guard[r] # NoGuard
  /\ rd' = [rd EXCEPT ![r].pc = "parse", ![r].buf = data[guard[r].frame]]
  /\ DropGuard(r)
  /\ mutex' = None
  /\ UNCHANGED <<parsed, ver, pub, fl, faults>>

\* ParsedPageCache::insert: a full cache starts over.
Remember(k, image) ==
  IF parsed[k] = Zero /\ Cardinality({j \in Keys : parsed[j] # Zero}) >= NumFrames
  THEN [j \in Keys |-> IF j = k THEN image ELSE Zero]
  ELSE [parsed EXCEPT ![k] = image]

\* from_bytes and verify_checksum: zeros are an error, anything else is
\* answered and remembered.
ParsePage(r) ==
  /\ At(r, "parse")
  /\ parsed' = IF rd[r].buf = Zero THEN parsed ELSE Remember(rd[r].key, rd[r].buf)
  /\ rd' = [rd EXCEPT ![r] = NoRead]
  /\ UNCHANGED <<bufVars, mutex, ver, pub, fl, faults>>

(***************************************************************************)
(* write_dirty_pages and sync_data.                                         *)
(***************************************************************************)
\* The dirty pages of the tree: those a failed flush left, and new ones.
StartFlush(S) ==
  /\ fl.pc \in {"idle", "failed"} /\ \A r \in Readers : At(r, "idle")
  /\ fl.dirty \subseteq S
  /\ \A p \in S : ver[p] + (IF fl.pc = "idle" THEN MaxFaults ELSE 0) < MaxVersion
  /\ fl' = [NoFlush EXCEPT !.pc = "stage", !.dirty = S, !.todo = S,
                           !.stream = Cardinality(S) > NumFrames]
  /\ UNCHANGED <<bufVars, mutex, parsed, ver, pub, rd, faults>>

\* The next page in id order: its old identity retires, and its image goes
\* through the pool under the unversioned key.
StagePage ==
  /\ fl.pc = "stage"
  /\ \E p \in fl.todo :
       /\ \A q \in fl.todo : p <= q
       /\ PoolFetch(Writer, <<p, 0>>, <<p, ver[p] + 1>>, TRUE)
       /\ fl' = [fl EXCEPT !.pc = "fill", !.cur = p, !.todo = @ \ {p},
                           !.retired = @ \cup {<<p, ver[p]>>}]
  /\ UNCHANGED <<mutex, parsed, ver, pub, rd, faults>>

RefuseFlush ==
  /\ SweepFail(Writer)
  /\ fl' = [fl EXCEPT !.pc = "refused"]
  /\ UNCHANGED <<mutex, parsed, ver, pub, rd, faults>>

\* Mutant of FillPage: a page that is already staged is not copied again.
FillPageUnlessStaged ==
  /\ fl.pc = "fill" /\ guard[Writer] # NoGuard
  /\ fl' = [fl EXCEPT !.pc = "drop"]
  /\ UNCHANGED <<bufVars, mutex, parsed, ver, pub, rd, faults>>

FillPage ==
  /\ fl.pc = "fill" /\ guard[Writer] # NoGuard
  /\ WriteFrame(Writer, <<fl.cur, ver[fl.cur] + 1>>)
  /\ fl' = [fl EXCEPT !.pc = "drop"]
  /\ UNCHANGED <<mutex, parsed, ver, pub, rd, faults>>

DropPage ==
  /\ fl.pc = "drop"
  /\ DropGuard(Writer)
  /\ fl' = [fl EXCEPT !.pc = "begin"]
  /\ UNCHANGED <<mutex, parsed, ver, pub, rd, faults>>

BeginPage ==
  /\ fl.pc = "begin"
  /\ BeginWriteback(<<fl.cur, 0>>)
  /\ fl' = [fl EXCEPT !.pc = "device"]
  /\ UNCHANGED <<mutex, parsed, ver, pub, rd, faults>>

\* Mutant of WriteDevice: the page table keeps the page's old version.
WriteDeviceSameVersion ==
  /\ fl.pc = "device"
  /\ IF fl.stream THEN \E t \in tokens : DiscardWriteback(t) ELSE UNCHANGED bufVars
  /\ fl' = [fl EXCEPT !.pc = IF fl.todo = {} THEN "sync" ELSE "stage",
                      !.staged = IF fl.stream THEN @ ELSE @ \cup {fl.cur}]
  /\ UNCHANGED <<ver, mutex, parsed, pub, rd, faults>>

\* The page is on the device: the PMT names its new version; the frame waits
\* for the sync, or is discarded when the generation streams.
WriteDevice ==
  /\ fl.pc = "device"
  /\ IF fl.stream THEN \E t \in tokens : DiscardWriteback(t) ELSE UNCHANGED bufVars
  /\ ver' = [ver EXCEPT ![fl.cur] = @ + 1]
  /\ fl' = [fl EXCEPT !.pc = IF fl.todo = {} THEN "sync" ELSE "stage",
                      !.staged = IF fl.stream THEN @ ELSE @ \cup {fl.cur}]
  /\ UNCHANGED <<mutex, parsed, pub, rd, faults>>

SyncDevice ==
  /\ fl.pc = "sync"
  /\ fl' = [fl EXCEPT !.pc = "complete"]
  /\ UNCHANGED <<bufVars, mutex, parsed, ver, pub, rd, faults>>

\* A device write or sync fails, or the pool refused a page: the images
\* already handed out are dropped.
FlushFails ==
  /\ \/ fl.pc = "refused" /\ faults' = faults
     \/ fl.pc \in {"device", "sync"} /\ faults < MaxFaults /\ faults' = faults + 1
  /\ tokens' = {}
  /\ fl' = [NoFlush EXCEPT !.pc = "failed", !.dirty = fl.dirty]
  /\ UNCHANGED <<key, state, data, ref, map, hand, free, guard, sweep, mutex, parsed, ver, pub, rd>>

CompletePage ==
  /\ fl.pc = "complete"
  /\ \E t \in tokens : CompleteWriteback(t)
  /\ UNCHANGED engineVars

RekeyPage ==
  /\ fl.pc = "complete" /\ tokens = {}
  /\ \E p \in fl.staged : Rekey(p, ver[p]) /\ fl' = [fl EXCEPT !.staged = @ \ {p}]
  /\ UNCHANGED <<mutex, parsed, ver, pub, rd, faults>>

\* complete_generation once the frame that names the new PMT is durable.
RetirePage ==
  /\ fl.pc = "complete" /\ tokens = {} /\ fl.staged = {}
  /\ \E k \in fl.retired :
       /\ fl' = [fl EXCEPT !.retired = @ \ {k}]
       /\ IF IsResident(k) THEN EvictKey(k) ELSE UNCHANGED bufVars
  /\ UNCHANGED <<mutex, parsed, ver, pub, rd, faults>>

FinishFlush ==
  /\ fl.pc = "complete" /\ tokens = {} /\ fl.staged = {} /\ fl.retired = {}
  /\ pub' = [p \in Pages |->
              IF p \notin fl.dirty THEN pub[p]
              ELSE {ver[p]} \cup IF p \in Retained THEN pub[p] ELSE {}]
  /\ fl' = NoFlush
  /\ UNCHANGED <<bufVars, mutex, parsed, ver, rd, faults>>

ReaderStep(r) ==
  \/ \E p \in Pages, v \in 1 .. MaxVersion : StartRead(r, p, v)
  \/ CheckResident(r) \/ ReadDevice(r) \/ FetchPage(r) \/ Sweeping(r)
  \/ RefuseRead(r) \/ CopyPage(r) \/ ParsePage(r)

FlushStep ==
  \/ StagePage \/ Sweeping(Writer) \/ RefuseFlush \/ FillPage \/ DropPage \/ BeginPage
  \/ WriteDevice \/ SyncDevice \/ FlushFails
  \/ CompletePage \/ RekeyPage \/ RetirePage \/ FinishFlush

Next ==
  \/ \E r \in Readers : ReaderStep(r)
  \/ \E S \in DirtySets : StartFlush(S)
  \/ FlushStep

Spec == Init /\ [][Next]_vars

(***************************************************************************)
(* Properties.                                                              *)
(***************************************************************************)
ReadType == [pc : {"idle", "check", "device", "fetch", "copy", "parse"},
             key : Keys \cup {None}, buf : Images]
FlushType == [pc : {"idle", "stage", "fill", "drop", "begin", "device", "sync", "complete",
                    "refused", "failed"},
              dirty : SUBSET Pages, todo : SUBSET Pages, cur : Pages \cup {None},
              stream : BOOLEAN, staged : SUBSET Pages, retired : SUBSET Keys]

EngineTypeOK ==
  /\ mutex \in Readers \cup {None}
  /\ parsed \in [Keys -> Images]
  /\ ver \in [Pages -> 1 .. MaxVersion]
  /\ pub \in [Pages -> SUBSET (1 .. MaxVersion)]
  /\ rd \in [Readers -> ReadType]
  /\ fl \in FlushType
  /\ faults \in 0 .. MaxFaults

\* The engine and its pool are well formed.
TypeOK == EngineTypeOK /\ BufTypeOK

\* No read ever returns another page's or another version's bytes: a frame or
\* parsed node filed under a PMT version holds that image, or (a frame) zeros,
\* through staging, rekeying, failed flushes, the reads that follow them and
\* their retries.
NoWrongPage ==
  /\ \A f \in Frames : key[f] # None /\ key[f][2] > 0 => data[f] \in {key[f], Zero}
  /\ \A k \in Keys : parsed[k] \in {k, Zero}
  /\ \A r \in Readers : rd[r].buf \in {rd[r].key, Zero}

\* The pool has a frame for whoever needs one.  Readers meet dirty frames only
\* after a failed flush, so before one, or once it has been retried, a read is
\* never refused (fetch_key's DirtyPage and AllFramesPinned), however many share
\* the handle; and until a device write or sync has failed every page a flush
\* stages finds a frame: a generation that fits stays resident, a larger one
\* streams.
PoolHasRoom ==
  /\ sweep.by \in Readers /\ sweep.left = 0 => fl.pc = "failed"
  /\ fl.pc = "idle" => \A f \in Frames : state[f] # "dirty"
  /\ fl.pc = "refused" => faults > 0

\* What sync_data finds: every write-back it completes is still the bytes of an
\* unpinned dirty frame, and every rekey has its source and a vacant target,
\* retries included.
StagedCurrent ==
  /\ fl.pc = "complete" => \A t \in tokens : Current(t)
  /\ fl.pc \in {"sync", "complete"} =>
       \A p \in fl.staged : IsResident(<<p, 0>>) /\ ~IsResident(<<p, ver[p]>>)

\* Concurrent readers of a shared handle get the page they ask for
\* (tests/concurrent_reads.rs): no read reports corruption.
ReadsSucceed == \A r \in Readers : At(r, "parse") => rd[r].buf # Zero
============================================================================
