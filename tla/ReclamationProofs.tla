------------------------- MODULE ReclamationProofs -------------------------
(***************************************************************************)
(* Theorems about Reclamation, for any set of pages, any device capacity,  *)
(* any number of views and retained roots and any number of operations:    *)
(* the inductive invariant, what it says of roots and pins, its            *)
(* preservation by every step, and the properties that follow.             *)
(***************************************************************************)
EXTENDS Reclamation, FiniteSetTheorems, TLAPS

\* The leaves are Zenon's, unless they cite the SMT solver.
USE ZenonT(40)

\* The pins whose slots the free list promises to leave alone.
Held(i) == pins[i].kind \in {"view", "lease", "durable"} /\ ~pins[i].late

\* A mapped page's image is never empty or torn.
GoodRoot(r) == \A p \in Mapped(r) : r.img[p].page = p

\* The slots the writer may take while it runs.
Claimed == IF st = "open" THEN free ELSE {}

\* Root r reads back from file d, and its slots lie inside the first n and
\* outside the set f: out of reach of the next page write.
Safe(r, d, n, f) ==
    \A p \in Mapped(r) :
        d[r.off[p]] = r.img[p] /\ r.off[p] < n /\ r.off[p] \notin f

\* The phases in which the active mapping is the published one (a vacuum
\* has set it aside in rsv), and no frame is in flight.
Settled == job.phase \in {"idle", "snapshot", "store", "admit", "copy",
                          "copied", "trim", "pin", "protect"}

GoodInv ==
    /\ GoodRoot(pmt)
    /\ \A k \in 1 .. Len(hist) : GoodRoot(hist[k].root)
    /\ \A i \in Pins : GoodRoot(pins[i].root)
    /\ \A i \in Pins : pins[i].kind = "none" => pins[i] = NoPin

AuthInv ==
    \A k \in synced .. Len(hist) :
        /\ Safe(hist[k].root, dev, size, Claimed)
        /\ RootIntact(hist[k].root, disk)

PinInv ==
    \A i \in Pins : Held(i) =>
        /\ Safe(pins[i].root, dev, size, Claimed)
        /\ pins[i].kind = "durable" => RootIntact(pins[i].root, disk)

\* Who protects what, and what a refresh in flight has already seen.
ProtInv ==
    /\ st = "closed" => \A i \in Pins : pins[i].kind \notin {"view", "lease"}
    /\ st # "closed" =>
         \A i \in Pins : pins[i].kind \in {"lease", "durable"} =>
            /\ Offsets(pins[i].root) \subseteq prot
            /\ job.phase \in {"protect", "store"} =>
                 Offsets(pins[i].root) \subseteq job.stash
    /\ job.phase = "store" =>
         \A i \in Pins : pins[i].kind = "view" =>
            Offsets(pins[i].root) \subseteq job.stash

PhaseInv ==
    /\ st # "open" => job = NoJob
    /\ st = "open" =>
         /\ job.phase \notin {"force"} => synced = Len(hist)
         /\ (Settled /\ job.op # "vacuum") =>
               pmt = Current.root /\ pending = {} /\ rsv = {}
         /\ (job.op = "vacuum" /\ job.phase \in {"snapshot", "store", "admit"}) =>
               /\ pmt = EmptyRoot /\ pending = {}
               /\ rsv = Offsets(Current.root)
         /\ job.op \in {"gc", "vacuum"} =>
               job.phase \in {"snapshot", "store", "admit", "write",
                              "frame", "force", "complete"}
         /\ (job.op \in {"gc", "vacuum"} /\ job.phase \in {"snapshot", "store", "admit"})
               => size + Cardinality(job.todo) <= Capacity
         /\ job.phase = "write" =>
               Cardinality(job.todo) <= Cardinality(free) + (Capacity - next)
         /\ job.phase = "write" => pending = {}
         /\ job.phase # "write" => job.retired = {}
         /\ job.phase = "frame" => disk = dev
         /\ job.phase \in {"force", "complete"} => pmt = Current.root

SlotInv ==
    st = "open" =>
        /\ next = size
        /\ SlotsDisjoint
        /\ RootIntact(pmt, dev)
        /\ job.retired \cap (Offsets(pmt) \cup free \cup rsv) = {}
        /\ \A s \in job.retired : s < size

\* The copies of a relocation: one per page, into free slots, and readable.
MoveInv ==
    job.phase = "copied" =>
        /\ job.moves \subseteq Mapped(pmt) \X free
        /\ \A m, n \in job.moves : (m[1] = n[1] \/ m[2] = n[2]) => m = n
        /\ \A m \in job.moves : dev[m[2]] = pmt.img[m[1]]

IInv == /\ TypeOK /\ GoodInv /\ AuthInv /\ PinInv
        /\ ProtInv /\ PhaseInv /\ SlotInv /\ MoveInv

----------------------------------------------------------------------------

\* Slots and images of a well-typed root.
LEMMA RootFacts ==
    ASSUME NEW r \in Root
    PROVE  /\ Offsets(r) \subseteq Slot
           /\ \A p \in Mapped(r) : /\ p \in Pages /\ r.off[p] \in Slot
                                   /\ r.off[p] \in Offsets(r)
                                   /\ r.img[p] \in Image
BY DEF Root, Mapped, Offsets

\* Slots, sizes and generations are numbers.
LEMMA Numbers ==
    /\ \A s \in Slot : s \in Int
    /\ \A n \in 0 .. Capacity : n \in Int
    /\ \A i \in Image : i.gen \in Int
<1>1. (\A s \in Slot : s \in Int) /\ (\A n \in 0 .. Capacity : n \in Int)
  BY SMTT(20), ReclamationAssumption DEF Slot
<1>2. \A i \in Image : i.gen \in Nat
  BY DEF Image
<1> QED BY SMTT(20), <1>1, <1>2

\* The device has finitely many slots.
LEMMA SlotsFinite == IsFiniteSet(Slot)
BY SMTT(20), FS_Interval, ReclamationAssumption DEF Slot

\* Writes, reuse and truncation confined to claimed or absent slots leave a
\* safe root safe.
LEMMA SafeKept ==
    ASSUME NEW r \in Root, NEW d, NEW n, NEW f, NEW d2, NEW n2, NEW f2,
           Safe(r, d, n, f),
           \A s \in Slot : (s \in Offsets(r) /\ s < n /\ s \notin f) =>
                              d2[s] = d[s] /\ s < n2 /\ s \notin f2
    PROVE  Safe(r, d2, n2, f2)
BY RootFacts DEF Safe

\* A safe root reads back.
LEMMA SafeIntact ==
    ASSUME NEW r, NEW d, NEW n, NEW f, Safe(r, d, n, f)
    PROVE  RootIntact(r, d)
BY DEF Safe, RootIntact

\* Every root the state holds is well typed.
LEMMA TypedRoots ==
    ASSUME TypeOK
    PROVE  /\ pmt \in Root
           /\ \A k \in 1 .. Len(hist) : hist[k] \in Manifest /\ hist[k].root \in Root
           /\ Len(hist) \in Nat /\ Len(hist) >= 1
           /\ Current \in Manifest /\ Current.root \in Root
           /\ \A i \in Pins : pins[i] \in Pin /\ pins[i].root \in Root
<1>1. /\ Len(hist) \in Nat /\ Len(hist) >= 1
      /\ \A k \in 1 .. Len(hist) : hist[k] \in Manifest
  BY SMTT(20) DEF TypeOK
<1>2. \A i \in Pins : pins[i] \in Pin
  BY DEF TypeOK
<1>3. (\A m \in Manifest : m.root \in Root) /\ (\A q \in Pin : q.root \in Root)
  BY DEF Manifest, Pin
<1> QED BY SMTT(20), <1>1, <1>2, <1>3 DEF TypeOK, Current

\* The engine does not disturb what recovery and the pins rely on as long as
\* it keeps out of their slots.
LEMMA Undisturbed ==
    ASSUME TypeOK, AuthInv, PinInv,
           \A s \in Slot : (s < size /\ s \notin Claimed) =>
               dev'[s] = dev[s] /\ s < size' /\ s \notin Claimed',
           disk' \in {disk, dev, dev'},
           hist' = hist, synced' \in synced .. Len(hist),
           \A i \in Pins : pins'[i] = pins[i] \/ pins'[i] = NoPin
    PROVE  AuthInv' /\ PinInv'
<1>1. ASSUME NEW r \in Root, Safe(r, dev, size, Claimed)
      PROVE  /\ Safe(r, dev', size', Claimed')
             /\ RootIntact(r, disk) => RootIntact(r, disk')
  <2>1. Safe(r, dev', size', Claimed')
    BY SMTT(20), <1>1, SafeKept
  <2> QED BY <1>1, <2>1, SafeIntact
<1>2. AuthInv'
  BY SMTT(20), <1>1, TypedRoots DEF AuthInv, TypeOK
<1>3. Mapped(NoPin.root) = {}
  BY DEF Mapped, NoPin, EmptyRoot
<1>4. PinInv'
  BY SMTT(20), <1>1, <1>3, TypedRoots DEF PinInv, Held, NoPin
<1> QED BY <1>2, <1>4

\* Registered roots lie inside the registry's offsets.
LEMMA RegistryFacts ==
    ASSUME NEW ps \in [Pins -> Pin]
    PROVE  /\ RegistryOffsets(ps) \subseteq Slot
           /\ \A i \in Pins : ps[i].kind \in {"lease", "durable"} =>
                 Offsets(ps[i].root) \subseteq RegistryOffsets(ps)
<1>1. \A i \in Pins : ps[i].root \in Root
  BY DEF Pin
<1> QED BY <1>1, RootFacts DEF RegistryOffsets

\* The empty root maps nothing, so it is intact in any file.
LEMMA EmptyRootFacts ==
    /\ EmptyRoot \in Root /\ Mapped(EmptyRoot) = {} /\ Offsets(EmptyRoot) = {}
    /\ GoodRoot(EmptyRoot)
    /\ NoPin \in Pin /\ NoPin.kind = "none" /\ NoPin.root = EmptyRoot
<1>1. /\ EmptyRoot \in Root /\ Mapped(EmptyRoot) = {}
      /\ GoodRoot(EmptyRoot) /\ Offsets(EmptyRoot) = {}
  BY DEF EmptyRoot, Root, Mapped, Offsets, GoodRoot, Absent, Image
<1> QED BY <1>1 DEF NoPin, Pin

----------------------------------------------------------------------------
\* The writer's operations start.

\* Starting an operation changes no list, file or pin.
LEMMA Started ==
    ASSUME IInv, Idle, job' \in Job, job'.retired = {}, job'.op # "vacuum",
           job'.phase \in {"snapshot", "admit"},
           job'.op = "gc" => size + Cardinality(job'.todo) <= Capacity,
           tick' \in Nat, gcs' \in Nat,
           UNCHANGED <<st, pmt, free, next, pending, rsv, wgen, prot, dirty,
                       pins, dev, disk, size, hist, synced, vacuums, pinned,
                       crashes>>
    PROVE  IInv'
<1>1. TypeOK'
  BY DEF IInv, TypeOK
<1>2. GoodInv'
  BY DEF IInv, GoodInv, GoodRoot, Mapped
<1>3. AuthInv' /\ PinInv'
  BY SMTT(20), Undisturbed DEF IInv, Claimed, TypeOK
<1>4. ProtInv'
  BY DEF IInv, ProtInv, Idle, Offsets, Mapped
<1>5. PhaseInv'
  BY DEF IInv, PhaseInv, Idle, NoJob, Current, Settled
<1>6. SlotInv' /\ MoveInv'
  BY SMTT(20) DEF IInv, SlotInv, MoveInv, Idle, NoJob, SlotsDisjoint, RootIntact,
         Offsets, Mapped
<1> QED BY <1>1, <1>2, <1>3, <1>4, <1>5, <1>6 DEF IInv

\* flush and commit_batch: the start of a commit.
LEMMA StartFlushStep ==
    ASSUME IInv, NEW todo \in SUBSET Pages, StartFlush(todo)
    PROVE  IInv'
<1>1. /\ job' \in Job /\ job'.retired = {} /\ job'.op # "vacuum"
      /\ job'.phase \in {"snapshot", "admit"} /\ job'.op # "gc"
  BY DEF StartFlush, RefreshThen, NoJob, Job
<1>2. tick' \in Nat /\ gcs' \in Nat
  BY SMTT(20) DEF StartFlush, IInv, TypeOK
<1> QED BY <1>1, <1>2, Started DEF StartFlush, engineVars, sharedVars, fileVars

\* gc: the start of a blob rewrite's flush.
LEMMA StartGcStep ==
    ASSUME IInv, NEW todo \in SUBSET Pages, StartGc(todo)
    PROVE  IInv'
<1>1. /\ job' \in Job /\ job'.retired = {} /\ job'.op # "vacuum"
      /\ job'.phase \in {"snapshot", "admit"}
      /\ size + Cardinality(job'.todo) <= Capacity
  BY DEF StartGc, RefreshThen, NoJob, Job
<1>2. tick' \in Nat /\ gcs' \in Nat
  BY SMTT(20) DEF StartGc, IInv, TypeOK
<1> QED BY <1>1, <1>2, Started DEF StartGc, engineVars, sharedVars, fileVars

\* compact: its first refresh.
LEMMA StartCompactStep ==
    ASSUME IInv, NEW limit \in Nat, StartCompact(limit)
    PROVE  IInv'
<1>1. /\ job' \in Job /\ job'.retired = {} /\ job'.op # "vacuum"
      /\ job'.phase \in {"snapshot", "admit"} /\ job'.op # "gc"
  BY DEF StartCompact, NoJob, Job
<1>2. tick' \in Nat /\ gcs' \in Nat
  BY SMTT(20) DEF StartCompact, IInv, TypeOK
<1> QED BY <1>1, <1>2, Started DEF StartCompact, engineVars, sharedVars,
                                   fileVars

\* prepare_logical_rebuild sets the old mapping aside in rsv.
LEMMA StartVacuumStep ==
    ASSUME IInv, NEW todo \in SUBSET Pages, StartVacuum(todo)
    PROVE  IInv'
<1>1. /\ st = "open" /\ job = NoJob /\ pending = {}
      /\ job' = RefreshThen("vacuum", "admit", todo)
      /\ size + Cardinality(todo) <= Capacity
      /\ rsv' = Offsets(pmt) /\ pmt' = EmptyRoot /\ next' = size
      /\ tick' = tick + 1 /\ vacuums' = vacuums + 1
      /\ UNCHANGED <<st, free, pending, wgen, prot, dirty, pins, dev, disk,
                     size, hist, synced, gcs, pinned, crashes>>
  BY DEF StartVacuum, Idle, sharedVars, fileVars
<1>2. /\ job' \in Job /\ job'.retired = {} /\ job'.op = "vacuum"
      /\ job'.phase \in {"snapshot", "admit"} /\ job'.todo = todo
  BY <1>1 DEF RefreshThen, NoJob, Job
<1>3. /\ EmptyRoot \in Root /\ Mapped(EmptyRoot) = {} /\ Offsets(EmptyRoot) = {}
      /\ GoodRoot(EmptyRoot)
  BY DEF EmptyRoot, Root, Mapped, Offsets, GoodRoot, Absent, Image
<1>4. TypeOK'
  <2>1. tick' \in Nat /\ vacuums' \in Nat /\ rsv' \subseteq Slot
    BY SMTT(20), <1>1, RootFacts DEF IInv, TypeOK
  <2> QED BY <1>1, <1>2, <1>3, <2>1 DEF IInv, TypeOK
<1>5. GoodInv'
  BY <1>1, <1>3 DEF IInv, GoodInv
<1>6. AuthInv' /\ PinInv'
  BY SMTT(20), <1>1, Undisturbed DEF IInv, Claimed, TypeOK
<1>7. ProtInv'
  BY <1>1, <1>2 DEF IInv, ProtInv
<1>8. PhaseInv'
  BY <1>1, <1>2 DEF IInv, PhaseInv, NoJob, Current, Settled
<1>9. SlotInv' /\ MoveInv'
  BY <1>1, <1>2, <1>3 DEF IInv, SlotInv, MoveInv, SlotsDisjoint, RootIntact
<1> QED BY <1>4, <1>5, <1>6, <1>7, <1>8, <1>9 DEF IInv

----------------------------------------------------------------------------
\* A refresh of the free list.

\* refresh_reclamation copies the protected set.
LEMMA RefreshSnapshotStep ==
    ASSUME IInv, RefreshSnapshot
    PROVE  IInv'
<1>1. /\ st = "open" /\ job.phase = "snapshot"
      /\ job' = [job EXCEPT !.phase = "store", !.stash = ProtectedSnapshot]
      /\ UNCHANGED <<st, pmt, free, next, pending, rsv, wgen, prot, dirty,
                     pins, dev, disk, size, hist, synced, tick, gcs, vacuums,
                     pinned, crashes>>
  BY DEF RefreshSnapshot, engineVars, sharedVars, fileVars, boundVars
<1>2. ProtectedSnapshot \subseteq Slot
  BY TypedRoots, RootFacts DEF IInv, TypeOK, ProtectedSnapshot
<1>3. /\ job' \in Job /\ job'.phase = "store" /\ job'.op = job.op
      /\ job'.retired = job.retired /\ job'.stash = ProtectedSnapshot
      /\ job'.todo = job.todo
  BY <1>1, <1>2 DEF IInv, TypeOK, Job
<1>4. TypeOK'
  BY <1>1, <1>3 DEF IInv, TypeOK
<1>5. GoodInv'
  BY <1>1 DEF IInv, GoodInv
<1>6. AuthInv' /\ PinInv'
  BY SMTT(20), <1>1, Undisturbed DEF IInv, Claimed, TypeOK
<1>7. ProtInv'
  BY <1>1, <1>3 DEF IInv, ProtInv, ProtectedSnapshot
<1>8. PhaseInv'
  BY <1>1, <1>3 DEF IInv, PhaseInv, Settled, Current
<1>9. SlotInv' /\ MoveInv'
  BY <1>1, <1>3 DEF IInv, SlotInv, MoveInv, SlotsDisjoint
<1> QED BY <1>4, <1>5, <1>6, <1>7, <1>8, <1>9 DEF IInv

\* refresh_reclamation installs the free list built from that copy.
LEMMA RefreshStoreStep ==
    ASSUME IInv, RefreshStore
    PROVE  IInv'
<1>1. /\ st = "open" /\ job.phase = "store"
      /\ free' = Reclaimable(job.stash) /\ next' = size /\ dirty' = FALSE
      /\ job' = IF AfterRefresh = "idle" THEN NoJob
                ELSE [job EXCEPT !.phase = AfterRefresh, !.stash = {}]
      /\ UNCHANGED <<st, pmt, pending, rsv, wgen, prot, pins, dev, disk, size,
                     hist, synced, tick, gcs, vacuums, pinned, crashes>>
  BY DEF RefreshStore, fileVars, boundVars
<1>2. /\ job' \in Job /\ job'.retired = {}
      /\ \/ /\ job'.op = job.op /\ job.op \in {"gc", "vacuum"}
            /\ job'.phase = "admit" /\ job'.todo = job.todo
         \/ /\ job.op \notin {"gc", "vacuum"} /\ job'.op \notin {"gc", "vacuum"}
            /\ job'.phase \in {"idle", "admit", "copy", "pin"}
  BY <1>1 DEF IInv, TypeOK, Job, AfterRefresh, NoJob, PhaseInv
<1>3. TypeOK'
  BY <1>1, <1>2 DEF IInv, TypeOK, Reclaimable
<1>4. GoodInv'
  BY <1>1 DEF IInv, GoodInv
<1>5. \A s \in free' : s \notin Offsets(Current.root)
  BY <1>1 DEF IInv, PhaseInv, Settled, Reclaimable
<1>6. AuthInv'
  <2>1. synced = Len(hist)
    BY <1>1 DEF IInv, PhaseInv
  <2>2. Safe(Current.root, dev, size, free')
    <3>1. Safe(Current.root, dev, size, Claimed)
      BY SMTT(20), <2>1, TypedRoots DEF IInv, AuthInv, Current
    <3> QED BY <3>1, <1>5, TypedRoots, SafeKept DEF IInv
  <2> QED BY SMTT(20), <1>1, <2>1, <2>2 DEF IInv, AuthInv, Claimed, Current
<1>7. PinInv'
  <2> SUFFICES ASSUME NEW i \in Pins, Held(i)
               PROVE  Safe(pins[i].root, dev, size, free')
    BY <1>1 DEF IInv, PinInv, Held, Claimed
  <2>1. Offsets(pins[i].root) \subseteq job.stash
    BY <1>1 DEF IInv, ProtInv, Held
  <2>2. Safe(pins[i].root, dev, size, Claimed)
    BY DEF IInv, PinInv
  <2> QED BY <1>1, <2>1, <2>2, TypedRoots, SafeKept DEF IInv, Reclaimable
<1>8. ProtInv'
  BY <1>1, <1>2 DEF IInv, ProtInv
<1>9. PhaseInv'
  BY <1>1, <1>2 DEF IInv, PhaseInv, Settled, Current
<1>10. SlotInv' /\ MoveInv'
  BY <1>1, <1>2 DEF IInv, SlotInv, MoveInv, SlotsDisjoint, Reclaimable, PhaseInv,
     Settled
<1> QED BY <1>3, <1>4, <1>6, <1>7, <1>8, <1>9, <1>10 DEF IInv

----------------------------------------------------------------------------
\* A flush and its authority frame.

\* The capacity preflight counts enough slots for the pages to write.
LEMMA AdmitStep ==
    ASSUME IInv, Admit
    PROVE  IInv'
<1> DEFINE n == Cardinality(job.todo)
<1>1. /\ st = "open" /\ job.phase = "admit"
      /\ wgen' = IF job.op \in {"gc", "vacuum"} THEN wgen ELSE Current.gen + 1
      /\ UNCHANGED <<pmt, free, next, pending, rsv, prot, dirty, pins, dev,
                     disk, size, hist, synced, tick, gcs, vacuums, pinned,
                     crashes>>
  BY DEF Admit, sharedVars, fileVars, boundVars
<1>0. \/ /\ job' = [job EXCEPT !.phase = "write"] /\ st' = st
         /\ n <= Cardinality(free) + (Capacity - next)
      \/ job' = NoJob /\ st' = st /\ job.op # "vacuum"
  <2>1. job.op = "vacuum" => Room(n)
    <3>1. IsFiniteSet(job.todo) /\ IsFiniteSet(free)
      BY SlotsFinite, FS_Subset, ReclamationAssumption DEF IInv, TypeOK, Job
    <3>2. n \in Nat /\ Cardinality(free) \in Nat
      BY <3>1, FS_CardinalityType
    <3>3. job.op = "vacuum" => size + n <= Capacity
      BY <1>1 DEF IInv, PhaseInv
    <3>4. next = size /\ size \in 0 .. Capacity /\ Capacity \in Nat
      BY <1>1, ReclamationAssumption DEF IInv, SlotInv, TypeOK
    <3> QED BY SMTT(20), <3>2, <3>3, <3>4 DEF Room
  <2> QED BY <2>1 DEF Admit, Room
<1>2. /\ job' \in Job /\ job'.retired = {}
      /\ \/ job'.phase = "idle" /\ job'.op = "none" /\ job.op # "vacuum"
         \/ /\ job'.phase = "write" /\ job'.op = job.op /\ job'.todo = job.todo
            /\ n <= Cardinality(free) + (Capacity - next)
  <2>1. job \in Job /\ job.retired = {}
    BY <1>1 DEF IInv, TypeOK, PhaseInv
  <2> QED BY SMTT(20), <1>0, <2>1 DEF Job, NoJob
<1>3. TypeOK'
  <2>1. wgen' \in Nat
    BY SMTT(20), <1>1, TypedRoots DEF IInv, Manifest, TypeOK
  <2> QED BY <1>0, <1>1, <1>2, <2>1 DEF IInv, TypeOK
<1>4. GoodInv'
  BY <1>1 DEF IInv, GoodInv
<1>5. AuthInv' /\ PinInv'
  BY SMTT(20), <1>0, <1>1, Undisturbed DEF IInv, Claimed, TypeOK
<1>6. ProtInv'
  BY <1>0, <1>1, <1>2 DEF IInv, ProtInv
<1>7. PhaseInv'
  BY <1>0, <1>1, <1>2 DEF IInv, PhaseInv, Settled, Current
<1>8. SlotInv' /\ MoveInv'
  BY <1>0, <1>1, <1>2 DEF IInv, SlotInv, MoveInv, SlotsDisjoint
<1> QED BY <1>3, <1>4, <1>5, <1>6, <1>7, <1>8 DEF IInv

\* The slot a page is written to lies on the device: the preflight has counted
\* it, whether it is a free one or the file grows.
LEMMA WriteFits ==
    ASSUME IInv, NEW p \in Pages, NEW s, WritePage(p, s)
    PROVE  /\ s \in Slot
           /\ IsFiniteSet(job.todo) /\ IsFiniteSet(free) /\ p \in job.todo
           /\ Cardinality(job.todo) <= Cardinality(free) + (Capacity - next)
<1>1. /\ IsFiniteSet(job.todo) /\ IsFiniteSet(free) /\ p \in job.todo
      /\ Cardinality(job.todo) <= Cardinality(free) + (Capacity - next)
  BY SlotsFinite, FS_Subset, ReclamationAssumption
     DEF IInv, TypeOK, PhaseInv, Job, WritePage
<1>2. TakesSlot(s) /\ free \subseteq Slot
  BY DEF WritePage, IInv, TypeOK
<1>3. CASE free # {}
  BY <1>1, <1>2, <1>3 DEF TakesSlot
<1>4. CASE free = {}
  <2>1. Cardinality(job.todo) \in Nat /\ Cardinality(job.todo) # 0
    BY <1>1, FS_CardinalityType, FS_EmptySet
  <2>2. Cardinality(free) = 0
    BY <1>4, FS_EmptySet
  <2>3. s = next /\ next \in 0 .. Capacity /\ Capacity \in Nat
    BY <1>2, <1>4, ReclamationAssumption DEF TakesSlot, IInv, TypeOK
  <2> QED BY SMTT(20), <1>1, <2>1, <2>2, <2>3 DEF Slot
<1> QED BY <1>1, <1>3, <1>4

\* write_dirty_pages takes a free slot or extends the file.
LEMMA WritePageStep ==
    ASSUME IInv, NEW p \in Pages, NEW s, WritePage(p, s)
    PROVE  IInv'
<1>0. /\ s \in Slot
      /\ IsFiniteSet(job.todo) /\ IsFiniteSet(free) /\ p \in job.todo
      /\ Cardinality(job.todo) <= Cardinality(free) + (Capacity - next)
  BY WriteFits
<1> s \in Slot
  BY <1>0
<1> DEFINE image == [page |-> p, gen |-> wgen, tick |-> tick]
<1>1. /\ st = "open" /\ job.phase = "write" /\ TakesSlot(s)
      /\ dev' = [dev EXCEPT ![s] = image]
      /\ free' = free \ {s}
      /\ next' = IF free = {} THEN next + 1 ELSE next
      /\ size' = IF s < size THEN size ELSE s + 1
      /\ pmt' = Remap(pmt, p, s, tick, image)
      /\ job' = [job EXCEPT !.todo = @ \ {p},
                   !.retired = @ \cup (Offsets(pmt) \cap {pmt.off[p]})]
      /\ UNCHANGED <<st, pending, rsv, wgen, prot, dirty, pins, disk, hist,
                     synced, tick, gcs, vacuums, pinned, crashes>>
  BY DEF WritePage, sharedVars, boundVars
<1>2. /\ pmt \in Root /\ dev \in [Slot -> Image] /\ Capacity \in Nat
      /\ size \in 0 .. Capacity /\ free \subseteq Slot
      /\ next = size /\ \A t \in free : t < size
      /\ job \in Job
  BY <1>1, ReclamationAssumption DEF IInv, TypeOK, SlotInv, SlotsDisjoint
<1>f. Cardinality(job.todo \ {p}) <= Cardinality(free') + (Capacity - next')
  <2>1. /\ Cardinality(job.todo \ {p}) = Cardinality(job.todo) - 1
        /\ Cardinality(job.todo) \in Nat /\ Cardinality(free) \in Nat
    BY <1>0, FS_CardinalityType, FS_RemoveElement
  <2>2. CASE free # {}
    <3>1. Cardinality(free') = Cardinality(free) - 1
      BY <1>0, <1>1, <2>2, FS_RemoveElement DEF TakesSlot
    <3> QED BY SMTT(20), <1>0, <1>1, <1>2, <2>1, <2>2, <3>1
  <2>3. CASE free = {}
    <3>1. free' = free
      BY <1>1, <2>3
    <3> QED BY SMTT(20), <1>0, <1>1, <1>2, <2>1, <2>3, <3>1
  <2> QED BY <2>2, <2>3
<1>3. /\ free # {} => s \in free /\ s < size
      /\ free = {} => s = size
      /\ size' \in 0 .. Capacity /\ next' = size' /\ size <= size' /\ s < size'
  BY SMTT(20), <1>1, <1>2 DEF TakesSlot, Slot
<1>4. image \in Image
  BY DEF IInv, TypeOK, Image
<1>5. /\ pmt' \in Root
      /\ Mapped(pmt') = Mapped(pmt) \cup {p}
      /\ pmt'.off[p] = s /\ pmt'.img[p] = image
      /\ \A q \in Pages \ {p} : /\ pmt'.off[q] = pmt.off[q]
                                /\ pmt'.img[q] = pmt.img[q]
  BY SMTT(20), <1>1, <1>2, <1>4 DEF Remap, Root, Mapped, Slot, NoSlot, IInv, TypeOK
<1>6. /\ job' \in Job /\ job'.phase = "write" /\ job'.op = job.op
      /\ job'.todo = job.todo \ {p}
      /\ job'.retired = job.retired \cup (Offsets(pmt) \cap {pmt.off[p]})
  <2>1. Offsets(pmt) \subseteq Slot
    BY <1>2, RootFacts
  <2> QED BY <1>1, <1>2, <2>1 DEF Job
<1>7. TypeOK'
  <2>1. dev' \in [Slot -> Image] /\ free' \subseteq Slot
    BY <1>1, <1>2, <1>4
  <2> QED BY <1>1, <1>3, <1>5, <1>6, <2>1 DEF IInv, TypeOK
<1>8. GoodInv'
  <2>1. GoodRoot(pmt')
    BY SMTT(20), <1>5 DEF IInv, GoodInv, GoodRoot, Mapped
  <2> QED BY <1>1, <2>1 DEF IInv, GoodInv
<1>9. AuthInv' /\ PinInv'
  <2>1. \A t \in Slot : (t < size /\ t \notin Claimed) =>
            dev'[t] = dev[t] /\ t < size' /\ t \notin Claimed'
    BY SMTT(20), <1>1, <1>2, <1>3 DEF Claimed, Slot
  <2> QED BY SMTT(20), <1>1, <2>1, Undisturbed DEF IInv, TypeOK
<1>10. ProtInv'
  BY <1>1, <1>6 DEF IInv, ProtInv
<1>11. PhaseInv'
  BY <1>1, <1>f, <1>6 DEF IInv, PhaseInv, Settled, Current
<1>12. s \notin Offsets(pmt) \cup pending \cup rsv \cup job.retired
  BY SMTT(20), <1>1, <1>2, <1>3 DEF IInv, SlotInv, SlotsDisjoint, Slot
<1>13. /\ Offsets(pmt') = (Offsets(pmt) \ {pmt.off[p]}) \cup {s}
       /\ \A q \in Mapped(pmt) : pmt.off[q] \in Offsets(pmt)
  <2>1. \A q, r \in Mapped(pmt) : pmt.off[q] = pmt.off[r] => q = r
    BY <1>1 DEF IInv, SlotInv, SlotsDisjoint
  <2>2. \A q \in Mapped(pmt) : q \in Pages
    BY DEF Mapped
  <2>3. p \notin Mapped(pmt) => pmt.off[p] \notin Offsets(pmt)
    BY DEF Mapped, Offsets
  <2> QED BY SMTT(20), <1>5, <2>1, <2>2, <2>3 DEF Offsets
<1>14. SlotInv'
  <2> DEFINE used == Offsets(pmt) \cup free \cup pending \cup rsv \cup job.retired
  <2>0. \A t \in used : t \in Slot /\ t < size /\ t < size'
    <3>1. \A t \in used : t < size
      BY <1>1 DEF IInv, SlotInv, SlotsDisjoint
    <3>2. \A t \in used : t \in Slot
      BY <1>2, RootFacts DEF IInv, TypeOK, Job
    <3> QED BY SMTT(20), <1>2, <1>3, <3>1, <3>2 DEF Slot
  <2>1. \A q, r \in Mapped(pmt') : pmt'.off[q] = pmt'.off[r] => q = r
    BY SMTT(20), <1>1, <1>5, <1>12, <1>13 DEF IInv, SlotInv, SlotsDisjoint, Mapped
  <2>2. \A t \in Offsets(pmt') \cup free' \cup pending \cup rsv : t < next'
    BY <1>1, <1>3, <1>13, <2>0
  <2>3. SlotsDisjoint'
    BY SMTT(20), <1>1, <1>12, <1>13, <2>1, <2>2 DEF IInv, SlotInv, SlotsDisjoint
  <2>4. RootIntact(pmt', dev')
    <3> SUFFICES ASSUME NEW q \in Mapped(pmt')
                 PROVE  dev'[pmt'.off[q]] = pmt'.img[q]
      BY DEF RootIntact
    <3>1. CASE q = p
      BY <1>1, <1>2, <1>5, <3>1
    <3>2. CASE q # p
      <4>1. q \in Mapped(pmt) /\ q \in Pages /\ pmt.off[q] \in Slot /\ pmt.off[q] # s
        BY <1>2, <1>5, <1>12, <1>13, <3>2, RootFacts
      <4> QED BY <1>1, <1>2, <1>5, <3>2, <4>1 DEF IInv, SlotInv, RootIntact
    <3> QED BY <3>1, <3>2
  <2>5. /\ job'.retired \cap (Offsets(pmt') \cup free' \cup rsv) = {}
        /\ \A t \in job'.retired : t < size'
    BY SMTT(20), <1>1, <1>6, <1>12, <1>13, <2>0 DEF IInv, SlotInv, SlotsDisjoint
  <2> QED BY <1>1, <1>3, <2>3, <2>4, <2>5 DEF SlotInv
<1>15. MoveInv'
  BY <1>6 DEF MoveInv
<1> QED BY <1>7, <1>8, <1>9, <1>10, <1>11, <1>14, <1>15 DEF IInv

\* The data sync makes every written page durable.
LEMMA SyncDataStep ==
    ASSUME IInv, SyncData
    PROVE  IInv'
<1>1. /\ st = "open" /\ job.phase = "write"
      /\ disk' = dev /\ pending' = job.retired
      /\ job' = [job EXCEPT !.phase = "frame", !.retired = {}]
      /\ UNCHANGED <<st, pmt, free, next, rsv, wgen, prot, dirty, pins, dev,
                     size, hist, synced, tick, gcs, vacuums, pinned, crashes>>
  BY DEF SyncData, sharedVars, boundVars
<1>2. /\ job' \in Job /\ job'.retired = {} /\ job'.op = job.op
      /\ job'.phase = "frame" /\ job.retired \subseteq Slot
  BY <1>1 DEF IInv, TypeOK, Job
<1>3. TypeOK'
  BY <1>1, <1>2 DEF IInv, TypeOK
<1>4. GoodInv'
  BY <1>1 DEF IInv, GoodInv
<1>5. AuthInv' /\ PinInv'
  BY SMTT(20), <1>1, Undisturbed DEF IInv, Claimed, TypeOK
<1>6. ProtInv'
  BY <1>1, <1>2 DEF IInv, ProtInv
<1>7. PhaseInv'
  BY <1>1, <1>2 DEF IInv, PhaseInv, Settled, Current
<1>8. SlotInv' /\ MoveInv'
  BY <1>1, <1>2 DEF IInv, SlotInv, MoveInv, SlotsDisjoint
<1> QED BY <1>3, <1>4, <1>5, <1>6, <1>7, <1>8 DEF IInv

\* The frame of the flushed mapping is appended.
LEMMA AppendFrameStep ==
    ASSUME IInv, AppendFrame
    PROVE  IInv'
<1> DEFINE m == [gen |-> Current.gen + 1,
                 cid |-> IF job.op = "commit" THEN Current.cid + 1
                         ELSE Current.cid,
                 root |-> pmt]
<1>1. /\ st = "open" /\ job.phase = "frame"
      /\ hist' = Append(hist, m)
      /\ job' = [job EXCEPT !.phase = "force"]
      /\ UNCHANGED <<st, pmt, free, next, pending, rsv, wgen, prot, dirty,
                     pins, dev, disk, size, synced, tick, gcs, vacuums, pinned,
                     crashes>>
  BY DEF AppendFrame, engineVars, sharedVars, boundVars
<1>2. /\ job' \in Job /\ job'.phase = "force" /\ job'.op = job.op
      /\ job'.retired = {}
  BY <1>1 DEF IInv, TypeOK, PhaseInv, Job
<1>3. m \in Manifest /\ m.root = pmt
  BY SMTT(20), TypedRoots DEF IInv, Manifest
<1> HIDE DEF m
<1>4. /\ hist' \in Seq(Manifest) /\ Len(hist') = Len(hist) + 1
      /\ \A k \in 1 .. Len(hist) : hist'[k] = hist[k]
      /\ hist'[Len(hist) + 1] = m /\ Current' = m
  BY SMTT(20), <1>1, <1>3 DEF IInv, TypeOK, Current
<1>5. TypeOK'
  BY SMTT(20), <1>1, <1>2, <1>4 DEF IInv, TypeOK
<1>6. GoodInv'
  <2>1. \A k \in 1 .. Len(hist') : GoodRoot(hist'[k].root)
    BY SMTT(20), <1>3, <1>4, TypedRoots DEF IInv, GoodInv
  <2> QED BY <1>1, <2>1 DEF IInv, GoodInv
<1>7. AuthInv'
  <2>1. Safe(pmt, dev, size, free) /\ RootIntact(pmt, disk)
    BY <1>1, TypedRoots, RootFacts
       DEF IInv, SlotInv, SlotsDisjoint, PhaseInv, RootIntact, Safe
  <2>2. \A k \in synced .. Len(hist) : k \in 1 .. Len(hist)
    BY SMTT(20), TypedRoots DEF IInv, TypeOK
  <2>3. \A k \in synced .. Len(hist') :
            k \in synced .. Len(hist) \/ k = Len(hist) + 1
    <3>1. Len(hist) \in Nat /\ synced \in Nat
      BY SMTT(20), TypedRoots DEF IInv, TypeOK
    <3> QED BY SMTT(20), <1>4, <3>1
  <2> QED BY <1>1, <1>3, <1>4, <2>1, <2>2, <2>3 DEF IInv, AuthInv, Claimed
<1>8. PinInv'
  BY <1>1 DEF IInv, PinInv, Held, Claimed
<1>9. ProtInv'
  BY <1>1, <1>2 DEF IInv, ProtInv
<1>10. PhaseInv'
  BY <1>1, <1>2, <1>3, <1>4 DEF IInv, PhaseInv, Settled
<1>11. SlotInv' /\ MoveInv'
  BY <1>1, <1>2 DEF IInv, SlotInv, MoveInv, SlotsDisjoint, PhaseInv
<1> QED BY <1>5, <1>6, <1>7, <1>8, <1>9, <1>10, <1>11 DEF IInv

\* The frame is forced and becomes the authority.
LEMMA ForceFrameStep ==
    ASSUME IInv, ForceFrame
    PROVE  IInv'
<1>1. /\ st = "open" /\ job.phase = "force" /\ synced' = Len(hist)
      /\ job' = [job EXCEPT !.phase = "complete"]
      /\ UNCHANGED <<st, pmt, free, next, pending, rsv, wgen, prot, dirty,
                     pins, dev, disk, size, hist, tick, gcs, vacuums, pinned,
                     crashes>>
  BY DEF ForceFrame, engineVars, sharedVars, boundVars
<1>2. /\ job' \in Job /\ job'.phase = "complete" /\ job'.op = job.op
      /\ job'.retired = {}
  BY <1>1 DEF IInv, TypeOK, PhaseInv, Job
<1>3. TypeOK'
  BY SMTT(20), <1>1, <1>2, TypedRoots DEF IInv, TypeOK
<1>4. GoodInv'
  BY <1>1 DEF IInv, GoodInv
<1>5. AuthInv' /\ PinInv'
  <2>1. Len(hist) \in synced .. Len(hist)
    BY SMTT(20), TypedRoots DEF IInv, TypeOK
  <2> QED BY <1>1, <2>1, Undisturbed DEF IInv, Claimed
<1>6. ProtInv'
  BY <1>1, <1>2 DEF IInv, ProtInv
<1>7. PhaseInv'
  BY <1>1, <1>2 DEF IInv, PhaseInv, Settled, Current
<1>8. SlotInv' /\ MoveInv'
  BY <1>1, <1>2 DEF IInv, SlotInv, MoveInv, SlotsDisjoint, PhaseInv
<1> QED BY <1>3, <1>4, <1>5, <1>6, <1>7, <1>8 DEF IInv

\* complete_generation frees the superseded slots.
LEMMA CompleteGenerationStep ==
    ASSUME IInv, CompleteGeneration
    PROVE  IInv'
<1>1. /\ st = "open" /\ job.phase = "complete"
      /\ free' = free \cup ((pending \cup rsv) \ ProtectedSnapshot)
      /\ pending' = {} /\ rsv' = {}
      /\ job' = IF job.op = "compact" THEN [job EXCEPT !.phase = "trim"]
                ELSE NoJob
      /\ UNCHANGED <<st, pmt, next, wgen, prot, dirty, pins, dev, disk, size,
                     hist, synced, tick, gcs, vacuums, pinned, crashes>>
  BY DEF CompleteGeneration, sharedVars, fileVars, boundVars
<1>2. /\ job' \in Job /\ job'.phase \in {"idle", "trim"}
      /\ job'.op \notin {"gc", "vacuum"} /\ job'.retired = {}
  BY <1>1 DEF IInv, TypeOK, PhaseInv, Job, NoJob
<1>3. TypeOK'
  BY <1>1, <1>2 DEF IInv, TypeOK
<1>4. GoodInv'
  BY <1>1 DEF IInv, GoodInv
<1>5. AuthInv'
  <2>1. synced = Len(hist) /\ pmt = Current.root
    BY <1>1 DEF IInv, PhaseInv
  <2>2. Safe(Current.root, dev, size, free')
    <3>1. Safe(Current.root, dev, size, Claimed)
      BY SMTT(20), <2>1, TypedRoots DEF IInv, AuthInv, Current
    <3>2. Offsets(pmt) \cap free' = {}
      BY <1>1 DEF IInv, SlotInv, SlotsDisjoint
    <3> QED BY <2>1, <3>1, <3>2, TypedRoots, SafeKept DEF IInv
  <2> QED BY SMTT(20), <1>1, <2>1, <2>2 DEF IInv, AuthInv, Claimed, Current
<1>6. PinInv'
  <2> SUFFICES ASSUME NEW i \in Pins, Held(i)
               PROVE  Safe(pins[i].root, dev, size, free')
    BY <1>1 DEF IInv, PinInv, Held, Claimed
  <2>1. Offsets(pins[i].root) \subseteq ProtectedSnapshot
    BY <1>1 DEF IInv, ProtInv, Held, ProtectedSnapshot
  <2>2. Safe(pins[i].root, dev, size, free)
    BY <1>1 DEF IInv, PinInv, Claimed
  <2> QED BY SMTT(20), <1>1, <2>1, <2>2, TypedRoots, SafeKept DEF IInv
<1>7. ProtInv'
  BY <1>1, <1>2 DEF IInv, ProtInv
<1>8. PhaseInv'
  BY <1>1, <1>2 DEF IInv, PhaseInv, Settled, Current
<1>9. SlotInv' /\ MoveInv'
  BY <1>1, <1>2 DEF IInv, SlotInv, MoveInv, SlotsDisjoint
<1> QED BY <1>3, <1>4, <1>5, <1>6, <1>7, <1>8, <1>9 DEF IInv

----------------------------------------------------------------------------
\* Compaction.

\* No two planned moves share a page or a target: both are ranked, from the
\* top and from the bottom.
LEMMA MovesInjective ==
    ASSUME TypeOK, NEW limit, NEW m \in Moves(limit), NEW n \in Moves(limit),
           \A p, q \in Mapped(pmt) : pmt.off[p] = pmt.off[q] => p = q,
           m[1] = n[1] \/ m[2] = n[2]
    PROVE  m = n
<1> DEFINE Above(p) == {q \in Movable : pmt.off[q] > pmt.off[p]}
           Below(s) == {t \in free : t < s}
<1>1. /\ m \in Movable \X free /\ n \in Movable \X free
      /\ Cardinality(Above(m[1])) = Cardinality(Below(m[2]))
      /\ Cardinality(Above(n[1])) = Cardinality(Below(n[2]))
  BY DEF Moves
<1>2. /\ Movable \subseteq Mapped(pmt) /\ Movable \subseteq Pages
      /\ \A p \in Movable : pmt.off[p] \in Int
      /\ free \subseteq Slot /\ \A s \in free : s \in Int
  <2>1. /\ Movable \subseteq Mapped(pmt) /\ Movable \subseteq Pages
        /\ \A p \in Movable : pmt.off[p] \in Slot
    BY TypedRoots, RootFacts DEF Movable, Mapped
  <2>2. free \subseteq Slot
    BY DEF TypeOK
  <2> QED BY <2>1, <2>2, Numbers
<1>3. /\ \A p \in Movable : IsFiniteSet(Above(p))
      /\ \A s \in free : IsFiniteSet(Below(s))
  <2>1. IsFiniteSet(free) /\ IsFiniteSet(Movable)
    BY <1>2, SlotsFinite, FS_Subset, ReclamationAssumption
  <2> QED BY <2>1, FS_Subset
<1>4. ASSUME NEW s \in free, NEW t \in free,
             Cardinality(Below(s)) = Cardinality(Below(t))
      PROVE  s = t
  <2>1. ASSUME NEW a \in free, NEW b \in free, a < b,
               Cardinality(Below(a)) = Cardinality(Below(b))
        PROVE  FALSE
    <3>1. Below(a) \subseteq Below(b) /\ a \in Below(b) /\ a \notin Below(a)
      BY SMTT(20), <1>2, <2>1
    <3>2. Below(a) = Below(b)
      BY <1>3, <2>1, <3>1, FS_Subset
    <3> QED BY <3>1, <3>2
  <2>2. ~(s < t) /\ ~(t < s)
    BY <1>4, <2>1
  <2> QED BY SMTT(20), <1>2, <2>2
<1>5. ASSUME NEW p \in Movable, NEW q \in Movable,
             Cardinality(Above(p)) = Cardinality(Above(q))
      PROVE  p = q
  <2>1. ASSUME NEW a \in Movable, NEW b \in Movable, pmt.off[a] > pmt.off[b],
               Cardinality(Above(a)) = Cardinality(Above(b))
        PROVE  FALSE
    <3>1. Above(a) \subseteq Above(b) /\ a \in Above(b) /\ a \notin Above(a)
      BY SMTT(20), <1>2, <2>1
    <3>2. Above(a) = Above(b)
      BY <1>3, <2>1, <3>1, FS_Subset
    <3> QED BY <3>1, <3>2
  <2>2. ~(pmt.off[p] > pmt.off[q]) /\ ~(pmt.off[q] > pmt.off[p])
    BY <1>5, <2>1
  <2>3. pmt.off[p] = pmt.off[q]
    BY SMTT(20), <1>2, <2>2
  <2> QED BY <1>2, <2>3
<1> HIDE DEF Above, Below
<1>6. /\ m[1] \in Movable /\ n[1] \in Movable /\ m[2] \in free /\ n[2] \in free
      /\ m = <<m[1], m[2]>> /\ n = <<n[1], n[2]>>
  BY SMTT(20), <1>1
<1>7. m[1] = n[1] => Cardinality(Below(m[2])) = Cardinality(Below(n[2]))
  BY <1>1
<1>8. m[2] = n[2] => Cardinality(Above(m[1])) = Cardinality(Above(n[1]))
  BY <1>1
<1>9. m[1] = n[1] /\ m[2] = n[2]
  BY <1>4, <1>5, <1>6, <1>7, <1>8
<1> QED BY <1>6, <1>9

\* relocate_interior_pages copies high pages into low holes.
LEMMA CopyPagesStep ==
    ASSUME IInv, CopyPages
    PROVE  IInv'
<1> DEFINE moves == Moves(job.limit)
<1>1. /\ st = "open" /\ job.phase = "copy"
      /\ dev' = [s \in Slot |->
                   IF s \in Targets(moves)
                   THEN dev[pmt.off[(CHOOSE m \in moves : m[2] = s)[1]]]
                   ELSE dev[s]]
      /\ job' = [job EXCEPT !.moves = moves,
                   !.phase = IF moves = {} THEN "trim" ELSE "copied"]
      /\ UNCHANGED <<st, pmt, free, next, pending, rsv, wgen, prot, dirty,
                     pins, disk, size, hist, synced, tick, gcs, vacuums,
                     pinned, crashes>>
  BY DEF CopyPages, engineVars, sharedVars, boundVars
<1>2. /\ moves \subseteq Mapped(pmt) \X free
      /\ \A m, n \in moves : (m[1] = n[1] \/ m[2] = n[2]) => m = n
  <2>1. moves \subseteq Mapped(pmt) \X free
    BY DEF Moves, Movable
  <2>2. \A p, q \in Mapped(pmt) : pmt.off[p] = pmt.off[q] => p = q
    BY <1>1 DEF IInv, SlotInv, SlotsDisjoint
  <2> QED BY <2>1, <2>2, MovesInjective DEF IInv
<1> HIDE DEF moves
<1>3. /\ free \subseteq Slot /\ pmt \in Root /\ dev \in [Slot -> Image]
      /\ Mapped(pmt) \subseteq Pages
      /\ \A p \in Mapped(pmt) : pmt.off[p] \in Slot
  BY TypedRoots, RootFacts DEF IInv, TypeOK, Mapped
<1>4. \A m \in moves : /\ m[1] \in Mapped(pmt) /\ m[2] \in free
                       /\ dev'[m[2]] = dev[pmt.off[m[1]]]
  <2> SUFFICES ASSUME NEW m \in moves
               PROVE  /\ m[1] \in Mapped(pmt) /\ m[2] \in free
                      /\ dev'[m[2]] = dev[pmt.off[m[1]]]
    OBVIOUS
  <2>1. m[1] \in Mapped(pmt) /\ m[2] \in free /\ m[2] \in Targets(moves)
    BY <1>2 DEF Targets
  <2>2. (CHOOSE n \in moves : n[2] = m[2]) = m
    BY <1>2
  <2> QED BY <1>1, <1>3, <2>1, <2>2
<1>5. \A s \in Slot : s \notin free => dev'[s] = dev[s]
  <2>1. Targets(moves) \subseteq free
    BY <1>2 DEF Targets
  <2> QED BY <1>1, <2>1
<1>6. dev' \in [Slot -> Image]
  <2>1. \A s \in Slot : dev'[s] \in Image
    <3> SUFFICES ASSUME NEW s \in Slot PROVE dev'[s] \in Image
      OBVIOUS
    <3>1. CASE s \in Targets(moves)
      <4>1. PICK m \in moves : m[2] = s
        BY <3>1 DEF Targets
      <4> QED BY <1>3, <1>4, <4>1
    <3>2. CASE s \notin Targets(moves)
      BY <1>1, <1>3, <3>2
    <3> QED BY <3>1, <3>2
  <2> QED BY <1>1, <2>1
<1>7. /\ job' \in Job /\ job'.retired = {} /\ job'.op = job.op
      /\ job'.op # "vacuum" /\ job'.moves = moves
      /\ job'.phase \in {"trim", "copied"}
  <2>1. moves \in SUBSET (Pages \X Slot)
    BY <1>2, <1>3
  <2>2. job \in Job /\ job.retired = {} /\ job.op # "vacuum"
    BY <1>1 DEF IInv, TypeOK, PhaseInv
  <2> QED BY <1>1, <2>1, <2>2 DEF Job
<1>8. TypeOK'
  BY <1>1, <1>6, <1>7 DEF IInv, TypeOK
<1>9. GoodInv'
  BY <1>1 DEF IInv, GoodInv
<1>10. AuthInv' /\ PinInv'
  BY SMTT(20), <1>1, <1>5, Undisturbed DEF IInv, Claimed, TypeOK
<1>11. ProtInv'
  BY <1>1, <1>7 DEF IInv, ProtInv
<1>12. PhaseInv'
  BY <1>1, <1>7 DEF IInv, PhaseInv, Settled, Current
<1>13. SlotInv'
  <2>1. RootIntact(pmt, dev')
    BY <1>1, <1>3, <1>5, RootFacts DEF IInv, SlotInv, SlotsDisjoint, RootIntact
  <2> QED BY <1>1, <1>7, <2>1 DEF IInv, SlotInv, SlotsDisjoint, PhaseInv
<1>14. MoveInv'
  <2>1. \A m \in moves : dev'[m[2]] = pmt.img[m[1]]
    BY <1>1, <1>4 DEF IInv, SlotInv, RootIntact
  <2> QED BY SMTT(20), <1>1, <1>2, <1>7, <2>1 DEF MoveInv
<1> QED BY <1>8, <1>9, <1>10, <1>11, <1>12, <1>13, <1>14 DEF IInv

\* A compaction without room or work ends unchanged.
LEMMA RefuseCompactStep ==
    ASSUME IInv, RefuseCompact
    PROVE  IInv'
<1>1. /\ st = "open" /\ job.phase = "copy" /\ job' = NoJob
      /\ UNCHANGED <<st, pmt, free, next, pending, rsv, wgen, prot, dirty,
                     pins, dev, disk, size, hist, synced, tick, gcs, vacuums,
                     pinned, crashes>>
  BY DEF RefuseCompact, engineVars, sharedVars, fileVars, boundVars
<1>2. /\ job' \in Job /\ job'.retired = {} /\ job'.op = "none"
      /\ job'.phase = "idle" /\ job.op # "vacuum"
  BY <1>1 DEF IInv, PhaseInv, Job, NoJob
<1>3. TypeOK'
  BY <1>1, <1>2 DEF IInv, TypeOK
<1>4. GoodInv'
  BY <1>1 DEF IInv, GoodInv
<1>5. AuthInv' /\ PinInv'
  BY SMTT(20), <1>1, Undisturbed DEF IInv, Claimed, TypeOK
<1>6. ProtInv'
  BY <1>1, <1>2 DEF IInv, ProtInv
<1>7. PhaseInv'
  BY <1>1, <1>2 DEF IInv, PhaseInv, Settled, Current
<1>8. SlotInv' /\ MoveInv'
  BY <1>1, <1>2 DEF IInv, SlotInv, MoveInv, SlotsDisjoint
<1> QED BY <1>3, <1>4, <1>5, <1>6, <1>7, <1>8 DEF IInv

\* The copies are forced and mapped.
LEMMA SyncCopiesStep ==
    ASSUME IInv, SyncCopies
    PROVE  IInv'
<1> DEFINE moved(p) == \E m \in job.moves : m[1] = p
           to(p) == (CHOOSE m \in job.moves : m[1] = p)[2]
           off2 == [p \in Pages |-> IF moved(p) THEN to(p) ELSE pmt.off[p]]
           ver2 == [p \in Pages |-> IF moved(p) THEN tick ELSE pmt.ver[p]]
<1>1. /\ st = "open" /\ job.phase = "copied" /\ disk' = dev
      /\ pmt' = [pmt EXCEPT !.off = off2, !.ver = ver2]
      /\ free' = free \ Targets(job.moves)
      /\ pending' = Sources(job.moves)
      /\ job' = [job EXCEPT !.phase = "frame", !.moves = {}]
      /\ UNCHANGED <<st, next, rsv, wgen, prot, dirty, pins, dev, size, hist,
                     synced, tick, gcs, vacuums, pinned, crashes>>
  BY DEF SyncCopies, sharedVars, boundVars
<1>2. /\ job.moves \subseteq Mapped(pmt) \X free
      /\ \A m, n \in job.moves : (m[1] = n[1] \/ m[2] = n[2]) => m = n
      /\ \A m \in job.moves : dev[m[2]] = pmt.img[m[1]]
  BY <1>1 DEF IInv, MoveInv
<1>3. /\ pmt \in Root /\ free \subseteq Slot /\ Mapped(pmt) \subseteq Pages
      /\ \A p \in Mapped(pmt) : pmt.off[p] \in Slot /\ pmt.off[p] \in Offsets(pmt)
      /\ job.op # "vacuum" /\ rsv = {} /\ pending = {} /\ tick \in Nat
  BY <1>1, TypedRoots, RootFacts DEF IInv, TypeOK, Mapped, PhaseInv, Settled
<1>4. \A p \in Pages : moved(p) =>
          /\ p \in Mapped(pmt) /\ to(p) \in free /\ to(p) \in Slot
          /\ <<p, to(p)>> \in job.moves /\ dev[to(p)] = pmt.img[p]
  <2> SUFFICES ASSUME NEW p \in Pages, NEW m \in job.moves, m[1] = p
               PROVE  /\ p \in Mapped(pmt) /\ to(p) \in free /\ to(p) \in Slot
                      /\ <<p, to(p)>> \in job.moves /\ dev[to(p)] = pmt.img[p]
    OBVIOUS
  <2>1. (CHOOSE n \in job.moves : n[1] = p) = m
    BY <1>2
  <2>2. m = <<p, to(p)>> /\ p \in Mapped(pmt) /\ to(p) \in free
    BY SMTT(20), <1>2, <2>1
  <2> QED BY <1>2, <1>3, <2>1, <2>2
<1> HIDE DEF moved, to
<1>5. /\ pmt' \in Root /\ pmt'.img = pmt.img
      /\ \A p \in Pages : pmt'.off[p] = IF moved(p) THEN to(p) ELSE pmt.off[p]
  <2>1. /\ off2 \in [Pages -> Slot \cup {NoSlot}] /\ ver2 \in [Pages -> Nat]
    BY <1>3, <1>4 DEF Root
  <2> QED BY <1>1, <1>3, <2>1 DEF Root
<1>6. Mapped(pmt') = Mapped(pmt)
  <2>1. \A s \in Slot : s # NoSlot
    BY SMTT(20) DEF Slot, NoSlot
  <2>2. \A p \in Pages : p \in Mapped(pmt') <=> p \in Mapped(pmt)
    <3> SUFFICES ASSUME NEW p \in Pages
                 PROVE  p \in Mapped(pmt') <=> p \in Mapped(pmt)
      OBVIOUS
    <3>1. CASE moved(p)
      BY <1>4, <1>5, <2>1, <3>1 DEF Mapped
    <3>2. CASE ~moved(p)
      BY <1>5, <3>2 DEF Mapped
    <3> QED BY <3>1, <3>2
  <2> QED BY <2>2 DEF Mapped
<1>7. /\ \A m \in job.moves : m = <<m[1], to(m[1])>> /\ moved(m[1])
      /\ \A m \in job.moves : m[1] \in Mapped(pmt) /\ m[1] \in Pages
  <2>1. \A m \in job.moves : moved(m[1]) /\ m[1] \in Mapped(pmt) /\ m[1] \in Pages
    BY <1>2, <1>3 DEF moved
  <2> QED BY <1>2, <1>4, <2>1
<1>8. /\ \A p \in Pages : moved(p) => to(p) \in Targets(job.moves)
                                      /\ pmt.off[p] \in Sources(job.moves)
      /\ \A s \in Targets(job.moves) : s \in free
      /\ \A s \in Sources(job.moves) :
            \E p \in Mapped(pmt) : moved(p) /\ s = pmt.off[p]
  <2>1. ASSUME NEW p \in Pages, moved(p)
        PROVE  to(p) \in Targets(job.moves) /\ pmt.off[p] \in Sources(job.moves)
    <3>1. PICK m \in job.moves : m = <<p, to(p)>>
      BY <1>4, <2>1
    <3>2. m[1] = p /\ m[2] = to(p)
      BY <3>1
    <3> QED BY <3>2 DEF Targets, Sources
  <2>2. \A s \in Targets(job.moves) : s \in free
    BY <1>2 DEF Targets
  <2>3. \A s \in Sources(job.moves) :
            \E p \in Mapped(pmt) : moved(p) /\ s = pmt.off[p]
    BY <1>7 DEF Sources
  <2> QED BY <2>1, <2>2, <2>3
<1>9. /\ job' \in Job /\ job'.retired = {} /\ job'.op = job.op
      /\ job'.phase = "frame"
  BY <1>1 DEF IInv, TypeOK, PhaseInv, Job
<1>10. Sources(job.moves) \subseteq Offsets(pmt) /\ Offsets(pmt) \subseteq Slot
  BY <1>3, <1>8, RootFacts
<1>11. TypeOK'
  BY <1>1, <1>5, <1>9, <1>10 DEF IInv, TypeOK
<1>12. GoodInv'
  <2>1. GoodRoot(pmt')
    BY <1>5, <1>6 DEF IInv, GoodInv, GoodRoot
  <2> QED BY <1>1, <2>1 DEF IInv, GoodInv
<1>13. AuthInv' /\ PinInv'
  BY SMTT(20), <1>1, Undisturbed DEF IInv, Claimed, TypeOK
<1>14. ProtInv'
  BY <1>1, <1>9 DEF IInv, ProtInv
<1>15. PhaseInv'
  BY <1>1, <1>3, <1>9 DEF IInv, PhaseInv, Settled, Current
<1>16. SlotInv'
  <2>1. /\ \A p, q \in Mapped(pmt) : pmt.off[p] = pmt.off[q] => p = q
        /\ Offsets(pmt) \cap free = {} /\ next = size
        /\ \A s \in Offsets(pmt) \cup free : s < next
        /\ RootIntact(pmt, dev)
    BY <1>1 DEF IInv, SlotInv, SlotsDisjoint
  <2>2. \A p, q \in Mapped(pmt) : (moved(p) /\ moved(q) /\ to(p) = to(q)) => p = q
    <3> SUFFICES ASSUME NEW p \in Mapped(pmt), NEW q \in Mapped(pmt),
                        moved(p), moved(q), to(p) = to(q)
                 PROVE  p = q
      OBVIOUS
    <3>1. <<p, to(p)>> \in job.moves /\ <<q, to(q)>> \in job.moves
      BY <1>3, <1>4
    <3> QED BY <1>2, <3>1
  <2>3. \A p, q \in Mapped(pmt') : pmt'.off[p] = pmt'.off[q] => p = q
    <3> SUFFICES ASSUME NEW p \in Mapped(pmt), NEW q \in Mapped(pmt),
                        pmt'.off[p] = pmt'.off[q]
                 PROVE  p = q
      BY <1>6
    <3>1. p \in Pages /\ q \in Pages
      BY <1>3
    <3>2. CASE moved(p) /\ moved(q)
      BY <1>5, <2>2, <3>1, <3>2
    <3>3. CASE moved(p) /\ ~moved(q)
      BY <1>3, <1>4, <1>5, <2>1, <3>1, <3>3
    <3>4. CASE ~moved(p) /\ moved(q)
      BY <1>3, <1>4, <1>5, <2>1, <3>1, <3>4
    <3>5. CASE ~moved(p) /\ ~moved(q)
      BY <1>5, <2>1, <3>1, <3>5
    <3> QED BY <3>2, <3>3, <3>4, <3>5
  <2>4. \A s \in Offsets(pmt') :
           \/ s \in Targets(job.moves)
           \/ s \in Offsets(pmt) /\ s \notin Sources(job.moves)
    <3> SUFFICES ASSUME NEW p \in Mapped(pmt)
                 PROVE  \/ pmt'.off[p] \in Targets(job.moves)
                        \/ /\ pmt'.off[p] \in Offsets(pmt)
                           /\ pmt'.off[p] \notin Sources(job.moves)
      BY <1>6 DEF Offsets
    <3>1. CASE moved(p)
      BY <1>3, <1>5, <1>8, <3>1
    <3>2. CASE ~moved(p)
      BY SMTT(20), <1>3, <1>5, <1>8, <2>1, <3>2
    <3> QED BY <3>1, <3>2
  <2>5. SlotsDisjoint'
    BY <1>1, <1>3, <1>8, <1>10, <2>1, <2>3, <2>4 DEF SlotsDisjoint
  <2>6. RootIntact(pmt', dev)
    BY <1>3, <1>4, <1>5, <1>6, <2>1 DEF RootIntact
  <2> QED BY <1>1, <1>9, <2>1, <2>5, <2>6 DEF SlotInv
<1>17. MoveInv'
  BY <1>9 DEF MoveInv
<1> QED BY <1>11, <1>12, <1>13, <1>14, <1>15, <1>16, <1>17 DEF IInv

\* truncate_reclaimable_tail cuts free slots off the end.
LEMMA TruncateTailStep ==
    ASSUME IInv, NEW n \in 0 .. Capacity, TruncateTail(n)
    PROVE  IInv'
<1>1. /\ st = "open" /\ job.phase = "trim" /\ TailStart(n)
      /\ dev' = [s \in Slot |-> IF s < n THEN dev[s] ELSE Absent]
      /\ disk' = IF n = size THEN disk ELSE dev'
      /\ size' = n
      /\ next' = IF n = size THEN next ELSE n
      /\ free' = {s \in free : s < n}
      /\ job' = NoJob
      /\ UNCHANGED <<st, pmt, pending, rsv, wgen, prot, dirty, pins, hist,
                     synced, tick, gcs, vacuums, pinned, crashes>>
  BY DEF TruncateTail, sharedVars, boundVars
<1>2. /\ job' \in Job /\ job'.retired = {} /\ job'.op = "none"
      /\ job'.phase = "idle" /\ job.op # "vacuum"
  BY <1>1 DEF IInv, PhaseInv, Job, NoJob
<1>3. /\ pmt = Current.root /\ pending = {} /\ rsv = {} /\ next = size
      /\ size \in 0 .. Capacity /\ Capacity \in Nat /\ n \in 0 .. size
      /\ dev \in [Slot -> Image] /\ disk \in [Slot -> Image]
  BY <1>1, <1>2, ReclamationAssumption
     DEF IInv, PhaseInv, Settled, SlotInv, TypeOK, TailStart
<1>4. \A s \in Slot : (s < size /\ s \notin free) => s < n
  BY SMTT(20), <1>1, <1>3 DEF TailStart, Slot
<1>5. TypeOK'
  <2>1. dev' \in [Slot -> Image]
    BY <1>1, <1>3 DEF Absent, Image
  <2> QED BY <1>1, <1>2, <1>3, <2>1 DEF IInv, TypeOK
<1>6. GoodInv'
  BY <1>1 DEF IInv, GoodInv
<1>7. AuthInv' /\ PinInv'
  <2>1. \A s \in Slot : (s < size /\ s \notin Claimed) =>
            dev'[s] = dev[s] /\ s < size' /\ s \notin Claimed'
    BY <1>1, <1>4 DEF Claimed
  <2> QED BY SMTT(20), <1>1, <2>1, Undisturbed DEF IInv, TypeOK
<1>8. ProtInv'
  BY <1>1, <1>2 DEF IInv, ProtInv
<1>9. PhaseInv'
  BY <1>1, <1>2 DEF IInv, PhaseInv, Settled, Current
<1>10. SlotInv' /\ MoveInv'
  <2>1. /\ \A s \in Offsets(pmt) : s \in Slot /\ s < n
        /\ \A p \in Mapped(pmt) : pmt.off[p] \in Offsets(pmt)
    BY <1>1, <1>4, TypedRoots, RootFacts DEF IInv, SlotInv, SlotsDisjoint
  <2>2. RootIntact(pmt, dev')
    BY <1>1, <2>1 DEF IInv, SlotInv, RootIntact
  <2>3. SlotsDisjoint'
    BY <1>1, <1>3, <2>1 DEF IInv, SlotInv, SlotsDisjoint
  <2> QED BY <1>1, <1>2, <1>3, <2>2, <2>3 DEF SlotInv, MoveInv
<1> QED BY <1>5, <1>6, <1>7, <1>8, <1>9, <1>10 DEF IInv

----------------------------------------------------------------------------
\* Read views and retained roots.

\* Starting a read view, a transaction or a retention.
LEMMA StartViewStep ==
    ASSUME IInv, StartView
    PROVE  IInv'
<1>1. /\ st = "open" /\ job = NoJob /\ prot' = RegistryOffsets(pins)
      /\ job' = [NoJob EXCEPT !.op = "view", !.phase = "snapshot"]
      /\ pinned' = pinned + 1
      /\ UNCHANGED <<st, pmt, free, next, pending, rsv, wgen, dirty, pins, dev,
                     disk, size, hist, synced, tick, gcs, vacuums, crashes>>
  BY DEF StartView, Idle, engineVars, fileVars
<1>2. /\ job' \in Job /\ job'.retired = {} /\ job'.op = "view"
      /\ job'.phase = "snapshot"
  BY <1>1 DEF NoJob, Job
<1>3. TypeOK'
  <2>1. pinned' \in Nat
    BY SMTT(20), <1>1 DEF IInv, TypeOK
  <2>2. prot' \subseteq Slot
    BY <1>1, RegistryFacts DEF IInv, TypeOK
  <2> QED BY <1>1, <1>2, <2>1, <2>2 DEF IInv, TypeOK
<1>4. GoodInv'
  BY <1>1 DEF IInv, GoodInv
<1>5. AuthInv' /\ PinInv'
  BY SMTT(20), <1>1, Undisturbed DEF IInv, Claimed, TypeOK
<1>6. ProtInv'
  BY <1>1, <1>2, RegistryFacts DEF IInv, TypeOK, ProtInv
<1>7. PhaseInv'
  BY <1>1, <1>2 DEF IInv, PhaseInv, Settled, Current, NoJob
<1>8. SlotInv' /\ MoveInv'
  BY <1>1, <1>2 DEF IInv, SlotInv, MoveInv, SlotsDisjoint
<1> QED BY <1>3, <1>4, <1>5, <1>6, <1>7, <1>8 DEF IInv

\* read_view leases the current mapping.
LEMMA LeasePmtStep ==
    ASSUME IInv, NEW i \in Pins, LeasePmt(i)
    PROVE  IInv'
<1> DEFINE pin == [kind |-> "view", root |-> pmt, late |-> FALSE]
<1>1. /\ st = "open" /\ job.phase = "pin" /\ pins[i] = NoPin
      /\ pins' = [pins EXCEPT ![i] = pin]
      /\ dirty' = TRUE /\ job' = NoJob
      /\ UNCHANGED <<st, pmt, free, next, pending, rsv, wgen, prot, dev, disk,
                     size, hist, synced, tick, gcs, vacuums, pinned, crashes>>
  BY DEF LeasePmt, engineVars, fileVars, boundVars
<1>2. /\ job' \in Job /\ job'.retired = {} /\ job'.op = "none"
      /\ job'.phase = "idle" /\ job.op # "vacuum"
  BY <1>1 DEF IInv, PhaseInv, Job, NoJob
<1>3. pin \in Pin /\ pin.root = pmt /\ pin.kind = "view" /\ ~pin.late
  BY DEF IInv, TypeOK, Pin
<1> HIDE DEF pin
<1>4. /\ pins' \in [Pins -> Pin] /\ pins'[i] = pin
      /\ \A j \in Pins : j # i => pins'[j] = pins[j]
  BY <1>1, <1>3 DEF IInv, TypeOK
<1>5. TypeOK'
  BY <1>1, <1>2, <1>4 DEF IInv, TypeOK
<1>6. GoodInv'
  BY <1>1, <1>3, <1>4 DEF IInv, GoodInv
<1>7. AuthInv'
  BY <1>1 DEF IInv, AuthInv, Claimed
<1>8. PinInv'
  <2>1. Safe(pmt, dev, size, free)
    BY <1>1, TypedRoots, RootFacts
       DEF IInv, SlotInv, SlotsDisjoint, RootIntact, Safe
  <2> QED BY <1>1, <1>3, <1>4, <2>1 DEF IInv, PinInv, Held, Claimed
<1>9. ProtInv'
  BY <1>1, <1>2, <1>3, <1>4 DEF IInv, ProtInv
<1>10. PhaseInv'
  BY <1>1, <1>2 DEF IInv, PhaseInv, Settled, Current
<1>11. SlotInv' /\ MoveInv'
  BY <1>1, <1>2 DEF IInv, SlotInv, MoveInv, SlotsDisjoint
<1> QED BY <1>5, <1>6, <1>7, <1>8, <1>9, <1>10, <1>11 DEF IInv

\* A transaction or retain_commit registers a root.
LEMMA RetainStep ==
    ASSUME IInv, NEW i \in Pins, NEW kind \in {"lease", "durable"},
           NEW k \in 1 .. Len(hist), Retain(i, kind, hist[k])
    PROVE  IInv'
<1> DEFINE m == hist[k]
           pin == [kind |-> kind, root |-> m.root, late |-> m # Current]
<1>1. /\ st = "open" /\ job = NoJob /\ pins[i] = NoPin
      /\ pins' = [pins EXCEPT ![i] = pin]
      /\ prot' = RegistryOffsets(pins')
      /\ job' = [NoJob EXCEPT !.op = "retain", !.phase = "protect",
                              !.stash = RegistryOffsets(pins')]
      /\ pinned' = pinned + 1
      /\ UNCHANGED <<st, pmt, free, next, pending, rsv, wgen, dirty, dev, disk,
                     size, hist, synced, tick, gcs, vacuums, crashes>>
  BY DEF Retain, Idle, engineVars, fileVars
<1>2. /\ pin \in Pin /\ pin.root = m.root /\ pin.kind = kind
      /\ pin.late = (m # Current)
  BY TypedRoots DEF IInv, Pin
<1> HIDE DEF pin
<1>3. /\ pins' \in [Pins -> Pin] /\ pins'[i] = pin
      /\ \A j \in Pins : j # i => pins'[j] = pins[j]
  BY <1>1, <1>2 DEF IInv, TypeOK
<1>4. prot' \subseteq Slot
  BY <1>1, <1>3, RegistryFacts
<1>5. /\ job' \in Job /\ job'.retired = {} /\ job'.op = "retain"
      /\ job'.phase = "protect" /\ job'.stash = prot'
  BY <1>1, <1>4 DEF NoJob, Job
<1>6. TypeOK'
  <2>1. pinned' \in Nat
    BY SMTT(20), <1>1 DEF IInv, TypeOK
  <2> QED BY <1>1, <1>3, <1>4, <1>5, <2>1 DEF IInv, TypeOK
<1>7. GoodInv'
  BY <1>1, <1>2, <1>3 DEF IInv, GoodInv
<1>8. AuthInv'
  BY <1>1 DEF IInv, AuthInv, Claimed
<1>9. PinInv'
  <2>1. /\ Safe(Current.root, dev, size, Claimed)
        /\ RootIntact(Current.root, disk)
    <3>1. Len(hist) \in synced .. Len(hist)
      BY SMTT(20), TypedRoots DEF IInv, TypeOK
    <3> QED BY <3>1 DEF IInv, AuthInv, Current
  <2>2. Claimed' = Claimed
    BY <1>1 DEF Claimed
  <2>3. ASSUME NEW j \in Pins, Held(j)'
        PROVE  /\ Safe(pins'[j].root, dev, size, Claimed)
               /\ pins'[j].kind = "durable" => RootIntact(pins'[j].root, disk)
    <3>1. CASE j = i
      <4>1. m = Current
        BY <1>2, <1>3, <2>3, <3>1 DEF Held
      <4> QED BY <1>2, <1>3, <2>1, <3>1, <4>1
    <3>2. CASE j # i
      BY <1>3, <2>3, <3>2 DEF IInv, PinInv, Held
    <3> QED BY <3>1, <3>2
  <2> QED BY <1>1, <2>2, <2>3 DEF PinInv
<1>10. ProtInv'
  <2>1. \A j \in Pins : pins'[j].kind \in {"lease", "durable"} =>
            Offsets(pins'[j].root) \subseteq prot'
    BY <1>1, <1>3, RegistryFacts
  <2> QED BY <1>1, <1>5, <2>1 DEF ProtInv
<1>11. PhaseInv'
  BY <1>1, <1>5 DEF IInv, PhaseInv, Settled, Current, NoJob
<1>12. SlotInv' /\ MoveInv'
  BY <1>1, <1>5 DEF IInv, SlotInv, MoveInv, SlotsDisjoint
<1> QED BY <1>6, <1>7, <1>8, <1>9, <1>10, <1>11, <1>12 DEF IInv

\* set_protected_offsets installs the copy it was given.
LEMMA SetProtectedStep ==
    ASSUME IInv, SetProtected
    PROVE  IInv'
<1>1. /\ st = "open" /\ job.phase = "protect" /\ prot' = job.stash
      /\ job' = [job EXCEPT !.phase = "snapshot", !.stash = {}]
      /\ UNCHANGED <<st, pmt, free, next, pending, rsv, wgen, dirty, pins, dev,
                     disk, size, hist, synced, tick, gcs, vacuums, pinned,
                     crashes>>
  BY DEF SetProtected, engineVars, fileVars, boundVars
<1>2. /\ job' \in Job /\ job'.retired = {} /\ job'.op = job.op
      /\ job'.phase = "snapshot" /\ job.op # "vacuum"
      /\ job.stash \subseteq Slot
  BY <1>1 DEF IInv, TypeOK, PhaseInv, Job
<1>3. TypeOK'
  BY <1>1, <1>2 DEF IInv, TypeOK
<1>4. GoodInv'
  BY <1>1 DEF IInv, GoodInv
<1>5. AuthInv' /\ PinInv'
  BY SMTT(20), <1>1, Undisturbed DEF IInv, Claimed, TypeOK
<1>6. ProtInv'
  BY <1>1, <1>2 DEF IInv, ProtInv
<1>7. PhaseInv'
  BY <1>1, <1>2 DEF IInv, PhaseInv, Settled, Current
<1>8. SlotInv' /\ MoveInv'
  BY <1>1, <1>2 DEF IInv, SlotInv, MoveInv, SlotsDisjoint
<1> QED BY <1>3, <1>4, <1>5, <1>6, <1>7, <1>8 DEF IInv

\* A drop takes one pin away and never shrinks the protection of the others.
LEMMA DropStep ==
    ASSUME IInv, NEW i \in Pins,
           DropView(i) \/ DropStray(i) \/ ReleaseRoot(i)
    PROVE  IInv'
<1>1. /\ pins' = [pins EXCEPT ![i] = NoPin] /\ dirty' \in BOOLEAN
      /\ UNCHANGED <<st, pmt, free, next, pending, rsv, wgen, job, dev, disk,
                     size, hist, synced, tick, gcs, vacuums, pinned, crashes>>
  BY DEF DropView, DropStray, ReleaseRoot, engineVars, fileVars, boundVars,
         IInv, TypeOK
<1>2. prot' \in {prot, RegistryOffsets(pins), RegistryOffsets(pins')}
  BY DEF DropView, DropStray, ReleaseRoot
<1>3. /\ pins \in [Pins -> Pin] /\ pins' \in [Pins -> Pin]
      /\ pins'[i] = NoPin /\ \A j \in Pins : j # i => pins'[j] = pins[j]
  BY <1>1, EmptyRootFacts DEF IInv, TypeOK
<1>4. TypeOK'
  <2>1. prot' \subseteq Slot
    BY <1>2, <1>3, RegistryFacts DEF IInv, TypeOK
  <2> QED BY <1>1, <1>3, <2>1 DEF IInv, TypeOK
<1>5. GoodInv'
  BY <1>1, <1>3, EmptyRootFacts DEF IInv, GoodInv
<1>6. AuthInv' /\ PinInv'
  BY SMTT(20), <1>1, <1>3, Undisturbed DEF IInv, Claimed, TypeOK
<1>7. ProtInv'
  <2>1. st # "closed" =>
          \A j \in Pins : pins'[j].kind \in {"lease", "durable"} =>
             Offsets(pins'[j].root) \subseteq prot'
    BY <1>2, <1>3, RegistryFacts, EmptyRootFacts DEF IInv, ProtInv
  <2> QED BY <1>1, <1>3, <2>1, EmptyRootFacts DEF IInv, ProtInv
<1>8. PhaseInv'
  BY <1>1 DEF IInv, PhaseInv, Settled, Current
<1>9. SlotInv' /\ MoveInv'
  BY <1>1 DEF IInv, SlotInv, MoveInv, SlotsDisjoint
<1> QED BY <1>4, <1>5, <1>6, <1>7, <1>8, <1>9 DEF IInv

----------------------------------------------------------------------------
\* Failure, close, crash and reopen.

\* An I/O error fences the handle.
LEMMA FailStep ==
    ASSUME IInv, Fail
    PROVE  IInv'
<1>1. /\ st = "open" /\ st' = "fenced" /\ job' = NoJob
      /\ UNCHANGED <<pmt, free, next, pending, rsv, wgen, prot, dirty, pins,
                     dev, disk, size, hist, synced, tick, gcs, vacuums, pinned,
                     crashes>>
  BY DEF Fail, engineVars, sharedVars, fileVars, boundVars
<1>2. job' \in Job /\ job'.phase = "idle"
  BY <1>1 DEF Job, NoJob
<1>3. TypeOK'
  BY <1>1, <1>2 DEF IInv, TypeOK
<1>4. GoodInv'
  BY <1>1 DEF IInv, GoodInv
<1>5. AuthInv' /\ PinInv'
  BY SMTT(20), <1>1, Undisturbed DEF IInv, Claimed, TypeOK
<1>6. ProtInv'
  BY <1>1, <1>2 DEF IInv, ProtInv
<1>7. PhaseInv' /\ SlotInv' /\ MoveInv'
  BY <1>1, <1>2 DEF PhaseInv, SlotInv, MoveInv
<1> QED BY <1>3, <1>4, <1>5, <1>6, <1>7 DEF IInv

\* What is left of the pins when the handle goes away.
LEMMA SurvivingFacts ==
    ASSUME TypeOK, NEW closing \in BOOLEAN, NEW i \in Pins,
           NEW q, q = SurvivingPins(closing)[i]
    PROVE  /\ q \in Pin /\ q.kind \in {"none", "durable", "stray"}
           /\ q.kind = "none" => q = NoPin
           /\ q.kind = "durable" => q = pins[i]
           /\ q = NoPin \/ q.root = pins[i].root
<1>1. pins[i] \in Pin
  BY DEF TypeOK
<1>2. q = CASE pins[i].kind = "durable" -> pins[i]
            [] pins[i].kind = "stray" /\ closing -> pins[i]
            [] pins[i].kind = "view" /\ closing /\ Outlive ->
                 [pins[i] EXCEPT !.kind = "stray"]
            [] OTHER -> NoPin
  BY DEF SurvivingPins
<1>3. CASE pins[i].kind = "durable"
  BY <1>1, <1>2, <1>3
<1>4. CASE pins[i].kind = "stray" /\ closing
  BY <1>1, <1>2, <1>4
<1>5. CASE pins[i].kind = "view" /\ closing /\ Outlive
  <2>1. q = [pins[i] EXCEPT !.kind = "stray"]
    BY <1>2, <1>5
  <2> QED BY <1>1, <2>1 DEF Pin
<1>6. CASE /\ pins[i].kind # "durable"
           /\ ~(pins[i].kind = "stray" /\ closing)
           /\ ~(pins[i].kind = "view" /\ closing /\ Outlive)
  <2>1. q = NoPin
    BY <1>2, <1>6
  <2> QED BY <2>1, EmptyRootFacts
<1> QED BY <1>3, <1>4, <1>5, <1>6

\* Losing the handle keeps the invariant if the files still hold what the
\* surviving frames and pins name.
LEMMA HandleGoneStep ==
    ASSUME IInv, HandleGone, NEW closing \in BOOLEAN,
           pins' = SurvivingPins(closing),
           dev' \in [Slot -> Image], disk' \in [Slot -> Image],
           size' \in 0 .. Capacity, hist' \in Seq(Manifest),
           synced' \in 1 .. Len(hist'), Len(hist') <= Len(hist),
           \A k \in 1 .. Len(hist') : hist'[k] = hist[k],
           {tick', gcs', vacuums', pinned', crashes'} \subseteq Nat,
           AuthInv',
           \A i \in Pins : (pins[i].kind = "durable" /\ ~pins[i].late) =>
               /\ Safe(pins[i].root, dev', size', {})
               /\ RootIntact(pins[i].root, disk')
    PROVE  IInv'
<1>1. /\ st' = "closed" /\ job' = NoJob /\ pmt' = EmptyRoot
      /\ free' = {} /\ pending' = {} /\ rsv' = {} /\ next' = 0 /\ wgen' = 0
      /\ prot' = {} /\ dirty' = FALSE
  BY DEF HandleGone
<1>2. \A i \in Pins : LET q == pins'[i]
                      IN  /\ q \in Pin /\ q.kind \in {"none", "durable", "stray"}
                          /\ q.kind = "none" => q = NoPin
                          /\ q.kind = "durable" => q = pins[i]
                          /\ q = NoPin \/ q.root = pins[i].root
  BY SMTT(20), SurvivingFacts DEF IInv
<1>3. pins' \in [Pins -> Pin]
  BY <1>2 DEF SurvivingPins
<1>4. job' \in Job /\ job'.phase = "idle"
  BY <1>1 DEF NoJob, Job
<1>5. TypeOK'
  <2>1. 0 \in 0 .. Capacity
    BY SMTT(20), ReclamationAssumption
  <2> QED BY <1>1, <1>3, <1>4, <2>1, EmptyRootFacts DEF TypeOK
<1>6. GoodInv'
  <2>1. \A k \in 1 .. Len(hist') : GoodRoot(hist'[k].root)
    <3>1. Len(hist) \in Nat /\ Len(hist') \in Nat
      BY SMTT(20), TypedRoots DEF IInv
    <3>2. \A k \in 1 .. Len(hist') : k \in 1 .. Len(hist)
      BY SMTT(20), <3>1
    <3> QED BY <3>2 DEF IInv, GoodInv
  <2>2. \A i \in Pins : GoodRoot(pins'[i].root)
    BY <1>2, EmptyRootFacts DEF IInv, GoodInv
  <2> QED BY <1>1, <1>2, <2>1, <2>2, EmptyRootFacts DEF GoodInv
<1>7. PinInv'
  <2>1. Claimed' = {}
    BY <1>1 DEF Claimed
  <2> SUFFICES ASSUME NEW i \in Pins, Held(i)'
               PROVE  /\ Safe(pins'[i].root, dev', size', {})
                      /\ RootIntact(pins'[i].root, disk')
    BY <2>1 DEF PinInv
  <2>2. pins'[i] = pins[i] /\ pins[i].kind = "durable" /\ ~pins[i].late
    BY <1>2 DEF Held
  <2> QED BY <2>2
<1>8. ProtInv'
  BY <1>1, <1>2, <1>4 DEF ProtInv
<1>9. PhaseInv' /\ SlotInv' /\ MoveInv'
  BY <1>1, <1>4 DEF PhaseInv, SlotInv, MoveInv
<1> QED BY <1>5, <1>6, <1>7, <1>8, <1>9 DEF IInv

\* close and a process crash leave the files alone.
LEMMA StopStep ==
    ASSUME IInv, Close \/ ProcessCrash
    PROVE  IInv'
<1>1. /\ HandleGone /\ \E c \in BOOLEAN : pins' = SurvivingPins(c)
      /\ UNCHANGED <<dev, disk, size, hist, synced, tick, gcs, vacuums, pinned>>
      /\ crashes' \in {crashes, crashes + 1}
  BY DEF Close, ProcessCrash, fileVars, boundVars
<1>2. PICK c \in BOOLEAN : pins' = SurvivingPins(c)
  BY <1>1
<1>3. \A f : \A r \in Root : Safe(r, dev, size, f) => Safe(r, dev, size, {})
  BY SafeKept
<1>4. Claimed' = {}
  BY <1>1 DEF HandleGone, Claimed
<1>5. AuthInv'
  BY SMTT(20), <1>1, <1>3, <1>4, TypedRoots DEF IInv, TypeOK, AuthInv
<1>6. \A i \in Pins : (pins[i].kind = "durable" /\ ~pins[i].late) =>
          Safe(pins[i].root, dev', size', {}) /\ RootIntact(pins[i].root, disk')
  BY <1>1, <1>3, TypedRoots DEF IInv, PinInv, Held
<1>7. {tick', gcs', vacuums', pinned', crashes'} \subseteq Nat
  BY SMTT(20), <1>1 DEF IInv, TypeOK
<1>8. /\ dev' \in [Slot -> Image] /\ disk' \in [Slot -> Image]
      /\ size' \in 0 .. Capacity /\ hist' \in Seq(Manifest)
      /\ synced' \in 1 .. Len(hist') /\ Len(hist') <= Len(hist)
      /\ \A k \in 1 .. Len(hist') : hist'[k] = hist[k]
  BY SMTT(20), <1>1, TypedRoots DEF IInv, TypeOK
<1> QED BY <1>1, <1>2, <1>5, <1>6, <1>7, <1>8, HandleGoneStep

\* A root that reads back from both the cache and the disk is out of reach of
\* a power loss: none of its slots is in flight, and the file is not cut above
\* one.
LEMMA PowerLossKeeps ==
    ASSUME NEW fate, NEW len \in 0 .. Capacity, NEW k, PowerLoss(fate, len, k),
           NEW r \in Root, GoodRoot(r), RootIntact(r, dev), RootIntact(r, disk)
    PROVE  Safe(r, dev', size', {}) /\ RootIntact(r, disk')
<1>1. /\ len \in 0 .. size
      /\ \A s \in Slot : s >= len => disk[s] = Absent
      /\ \A s \in Slot : (s < len /\ s \notin Unforced) => dev'[s] = dev[s]
      /\ disk' = dev' /\ size' = len
  <2>1. \A s \in Slot : s \in Int /\ len \in Int
    BY SMTT(20), ReclamationAssumption DEF Slot
  <2> QED BY SMTT(20), <2>1 DEF PowerLoss
<1>2. ASSUME NEW p \in Mapped(r)
      PROVE  dev'[r.off[p]] = r.img[p] /\ r.off[p] < len
  <2>1. p \in Pages /\ r.off[p] \in Slot /\ p # 0
    BY RootFacts, ReclamationAssumption
  <2>2. dev[r.off[p]] = r.img[p] /\ disk[r.off[p]] = r.img[p]
    BY DEF RootIntact
  <2>3. r.img[p] # Absent
    BY SMTT(20), <2>1 DEF GoodRoot, Absent
  <2>4. r.off[p] \in Int /\ len \in Int
    BY SMTT(20), <2>1, ReclamationAssumption DEF Slot
  <2>5. r.off[p] < len
    BY SMTT(20), <1>1, <2>1, <2>2, <2>3, <2>4
  <2>6. r.off[p] \notin Unforced
    BY <2>2 DEF Unforced
  <2> QED BY <1>1, <2>1, <2>2, <2>5, <2>6
<1> QED BY <1>1, <1>2 DEF Safe, RootIntact

\* A power loss keeps the invariant.
LEMMA PowerLossStep ==
    ASSUME IInv, NEW fate, NEW len \in 0 .. Capacity, NEW k \in 1 .. Len(hist),
           PowerLoss(fate, len, k)
    PROVE  IInv'
<1>1. /\ HandleGone /\ pins' = SurvivingPins(FALSE)
      /\ len \in 0 .. size /\ k \in synced .. Len(hist)
      /\ \A s \in Slot : s >= len => disk[s] = Absent
      /\ dev' = [s \in Slot |->
                   IF s >= len THEN Absent
                   ELSE IF s \notin Unforced THEN dev[s]
                   ELSE IF fate[s] = "new" THEN dev[s]
                   ELSE IF fate[s] = "old" /\ disk[s] # Absent THEN disk[s]
                   ELSE Torn]
      /\ disk' = dev' /\ size' = len
      /\ hist' = SubSeq(hist, 1, k) /\ synced' = k
      /\ crashes' = crashes + 1
      /\ UNCHANGED <<tick, gcs, vacuums, pinned>>
  BY DEF PowerLoss
<1>2. /\ dev \in [Slot -> Image] /\ disk \in [Slot -> Image]
      /\ size \in 0 .. Capacity /\ hist \in Seq(Manifest)
      /\ Len(hist) \in Nat /\ Capacity \in Nat /\ synced \in 1 .. Len(hist)
  BY TypedRoots, ReclamationAssumption DEF IInv, TypeOK
<1>3. dev' \in [Slot -> Image]
  <2>1. Absent \in Image /\ Torn \in Image
    BY DEF Absent, Torn, Image
  <2> QED BY <1>1, <1>2, <2>1
<1>4. /\ hist' \in Seq(Manifest) /\ Len(hist') = k
      /\ \A j \in 1 .. k : hist'[j] = hist[j]
  BY SMTT(20), <1>1, <1>2
<1>5. ASSUME NEW r \in Root, GoodRoot(r), RootIntact(r, dev), RootIntact(r, disk)
      PROVE  Safe(r, dev', size', {}) /\ RootIntact(r, disk')
  BY <1>5, PowerLossKeeps
<1>6. AuthInv'
  <2>1. k \in synced .. Len(hist) /\ k \in 1 .. Len(hist)
    BY <1>1
  <2>2. GoodRoot(hist[k].root) /\ hist[k].root \in Root
    BY <2>1, TypedRoots DEF IInv, GoodInv
  <2>3. RootIntact(hist[k].root, dev) /\ RootIntact(hist[k].root, disk)
    BY <2>1, SafeIntact DEF IInv, AuthInv
  <2>4. Claimed' = {}
    BY <1>1 DEF HandleGone, Claimed
  <2>5. /\ \A j \in synced' .. Len(hist') : j = k
        /\ hist'[k] = hist[k]
    BY SMTT(20), <1>1, <1>4, <2>1
  <2> QED BY <1>5, <2>2, <2>3, <2>4, <2>5 DEF AuthInv
<1>7. \A i \in Pins : (pins[i].kind = "durable" /\ ~pins[i].late) =>
          Safe(pins[i].root, dev', size', {}) /\ RootIntact(pins[i].root, disk')
  <2> SUFFICES ASSUME NEW i \in Pins, pins[i].kind = "durable", ~pins[i].late
               PROVE  /\ Safe(pins[i].root, dev', size', {})
                      /\ RootIntact(pins[i].root, disk')
    OBVIOUS
  <2>1. RootIntact(pins[i].root, dev) /\ RootIntact(pins[i].root, disk)
    BY SafeIntact DEF IInv, PinInv, Held
  <2> QED BY <1>5, <2>1, TypedRoots DEF IInv, GoodInv
<1>8. {tick', gcs', vacuums', pinned', crashes'} \subseteq Nat
  BY SMTT(20), <1>1 DEF IInv, TypeOK
<1>9. /\ size' \in 0 .. Capacity /\ synced' \in 1 .. Len(hist')
      /\ Len(hist') <= Len(hist) /\ disk' \in [Slot -> Image]
      /\ \A j \in 1 .. Len(hist') : hist'[j] = hist[j]
  BY SMTT(20), <1>1, <1>2, <1>3, <1>4
<1> QED BY <1>1, <1>3, <1>4, <1>6, <1>7, <1>8, <1>9, HandleGoneStep

\* open rebuilds the lists from the selected frame and the registry.
LEMMA OpenStep ==
    ASSUME IInv, WrittenBack, Open
    PROVE  IInv'
<1>1. /\ st = "closed" /\ st' = "open" /\ pmt' = Current.root
      /\ pending' = {} /\ rsv' = {} /\ prot' = RegistryOffsets(pins)
      /\ free' = IF Mapped(Current.root) = {} THEN {}
                 ELSE {s \in Slot : /\ s < size
                                    /\ s \notin Offsets(Current.root)
                                    /\ s \notin RegistryOffsets(pins)}
      /\ next' = size /\ dirty' = FALSE /\ wgen' = 0
      /\ disk' = dev /\ synced' = Len(hist)
      /\ UNCHANGED <<job, pins, dev, size, hist, tick, gcs, vacuums, pinned,
                     crashes>>
  BY DEF Open, boundVars
<1>2. /\ job = NoJob /\ job.phase = "idle" /\ job.op = "none"
      /\ job.retired = {}
  BY SMTT(20), <1>1 DEF IInv, PhaseInv, NoJob
<1>3. /\ pins \in [Pins -> Pin] /\ Current.root \in Root
      /\ \A s \in free' : /\ s \in Slot /\ s < size
                          /\ s \notin Offsets(Current.root)
                          /\ s \notin RegistryOffsets(pins)
      /\ Len(hist) \in 1 .. Len(hist) /\ Len(hist) \in synced .. Len(hist)
  BY SMTT(20), <1>1, TypedRoots DEF IInv, TypeOK
<1>4. TypeOK'
  <2>1. RegistryOffsets(pins) \subseteq Slot /\ 0 \in Nat /\ free' \subseteq Slot
    BY <1>3, RegistryFacts
  <2> QED BY <1>1, <1>3, <2>1 DEF IInv, TypeOK
<1>5. GoodInv'
  BY <1>1, <1>3 DEF IInv, GoodInv, Current
<1>6. Safe(Current.root, dev, size, free')
  <2>1. Safe(Current.root, dev, size, Claimed)
    BY <1>3 DEF IInv, AuthInv, Current
  <2> QED BY <1>3, <2>1, SafeKept
<1>7. AuthInv'
  <2>1. \A k \in synced' .. Len(hist') : hist'[k] = Current
    BY SMTT(20), <1>1, <1>3 DEF Current
  <2> QED BY <1>1, <1>6, <2>1, SafeIntact DEF AuthInv, Claimed
<1>8. PinInv'
  <2> SUFFICES ASSUME NEW i \in Pins, Held(i)
               PROVE  Safe(pins[i].root, dev, size, free')
    BY <1>1, SafeIntact DEF PinInv, Held, Claimed
  <2>1. pins[i].kind = "durable"
    BY <1>1 DEF IInv, ProtInv, Held
  <2>2. Offsets(pins[i].root) \subseteq RegistryOffsets(pins)
    BY <1>3, <2>1, RegistryFacts
  <2>3. Safe(pins[i].root, dev, size, Claimed)
    BY DEF IInv, PinInv
  <2> QED BY SMTT(20), <1>3, <2>2, <2>3, TypedRoots, SafeKept DEF IInv
<1>9. ProtInv'
  BY <1>1, <1>2, <1>3, RegistryFacts DEF ProtInv
<1>10. PhaseInv'
  BY <1>1, <1>2 DEF PhaseInv, Settled, Current
<1>11. SlotInv' /\ MoveInv'
  <2>1. /\ RootIntact(Current.root, dev)
        /\ \A s \in Offsets(Current.root) : s < size
    <3>1. RootIntact(Current.root, dev)
      BY <1>6, SafeIntact
    <3> QED BY <1>6, <3>1 DEF Safe, Offsets
  <2>2. \A p, q \in Mapped(Current.root) :
            Current.root.off[p] = Current.root.off[q] => p = q
    <3>1. \A p \in Mapped(Current.root) : Current.root.img[p].page = p
      BY <1>3 DEF IInv, GoodInv, GoodRoot, Current
    <3> QED BY <2>1, <3>1 DEF RootIntact
  <2> QED BY <1>1, <1>2, <1>3, <2>1, <2>2 DEF SlotInv, MoveInv, SlotsDisjoint
<1> QED BY <1>4, <1>5, <1>7, <1>8, <1>9, <1>10, <1>11 DEF IInv

----------------------------------------------------------------------------
\* The theorems.

\* A freshly created store satisfies the invariant.
LEMMA InitHolds == Init => IInv
<1> SUFFICES ASSUME Init PROVE IInv
  OBVIOUS
<1>1. /\ st = "closed" /\ pmt = EmptyRoot /\ job = NoJob
      /\ hist = <<Bootstrap>> /\ synced = 1 /\ size = 0
      /\ pins = [i \in Pins |-> NoPin]
  BY DEF Init
<1>2. /\ Bootstrap \in Manifest /\ Bootstrap.root = EmptyRoot
      /\ hist \in Seq(Manifest) /\ Len(hist) = 1 /\ hist[1] = Bootstrap
  BY SMTT(20), <1>1, EmptyRootFacts DEF Bootstrap, Manifest
<1>3. job \in Job /\ job.phase = "idle"
  BY <1>1 DEF NoJob, Job
<1>4. TypeOK
  <2>1. Absent \in Image /\ Capacity \in Nat
    BY ReclamationAssumption DEF Absent, Image
  <2>2. pins \in [Pins -> Pin] /\ pmt \in Root
    BY <1>1, EmptyRootFacts
  <2>3. dev \in [Slot -> Image] /\ disk \in [Slot -> Image]
    BY <2>1 DEF Init
  <2>4. /\ next \in 0 .. Capacity /\ size \in 0 .. Capacity /\ wgen \in Nat
        /\ {tick, gcs, vacuums, pinned, crashes} \subseteq Nat
    BY SMTT(20), <2>1 DEF Init
  <2>5. hist \in Seq(Manifest) /\ synced \in 1 .. Len(hist)
    BY SMTT(20), <1>1, <1>2
  <2>6. /\ st \in {"open", "fenced", "closed"} /\ dirty \in BOOLEAN
        /\ free \subseteq Slot /\ pending \subseteq Slot /\ rsv \subseteq Slot
        /\ prot \subseteq Slot
    BY DEF Init
  <2> QED BY <1>3, <2>2, <2>3, <2>4, <2>5, <2>6 DEF TypeOK
<1>5. GoodInv
  BY SMTT(20), <1>1, <1>2, EmptyRootFacts DEF GoodInv
<1>6. AuthInv /\ PinInv
  BY SMTT(20), <1>1, <1>2, EmptyRootFacts DEF AuthInv, PinInv, Held, Safe, RootIntact
<1>7. ProtInv
  BY <1>1, <1>3, EmptyRootFacts DEF ProtInv
<1>8. PhaseInv /\ SlotInv /\ MoveInv
  BY <1>1, <1>3 DEF PhaseInv, SlotInv, MoveInv
<1> QED BY <1>4, <1>5, <1>6, <1>7, <1>8 DEF IInv

\* Every step keeps the invariant.
LEMMA NextKeeps ==
    ASSUME WrittenBack, IInv, [Next]_vars
    PROVE  IInv'
<1>1. CASE Call
  <2>1. \A limit \in 0 .. Cardinality(Pages) : limit \in Nat
    BY SMTT(20)
  <2> QED BY <1>1, <2>1, StartFlushStep, StartGcStep, StartVacuumStep,
             StartCompactStep, StartViewStep, RetainStep, StopStep DEF Call
<1>2. CASE JobStep
  BY <1>2, RefreshSnapshotStep, RefreshStoreStep, AdmitStep, WritePageStep,
     SyncDataStep, AppendFrameStep, ForceFrameStep, CompleteGenerationStep,
     CopyPagesStep, RefuseCompactStep, SyncCopiesStep, TruncateTailStep,
     SetProtectedStep, LeasePmtStep DEF JobStep
<1>3. CASE Drop
  BY <1>3, DropStep DEF Drop
<1>4. CASE Stop
  BY <1>4, FailStep, StopStep, PowerLossStep DEF Stop
<1>5. CASE Open
  BY <1>5, OpenStep
<1>6. CASE UNCHANGED vars
  <2>1. UNCHANGED <<st, pmt, free, next, pending, rsv, wgen, prot, dirty, pins,
                    job, dev, disk, size, hist, synced, tick, gcs, vacuums,
                    pinned, crashes>>
    BY <1>6 DEF vars, engineVars, sharedVars, fileVars, boundVars
  <2>2. TypeOK' /\ GoodInv'
    BY <2>1 DEF IInv, TypeOK, GoodInv
  <2>3. AuthInv' /\ PinInv'
    BY <2>1 DEF IInv, AuthInv, PinInv, Held, Claimed
  <2>4. ProtInv' /\ PhaseInv'
    BY <2>1 DEF IInv, ProtInv, PhaseInv, Settled, Current
  <2>5. SlotInv' /\ MoveInv'
    BY <2>1 DEF IInv, SlotInv, SlotsDisjoint, MoveInv
  <2> QED BY <2>2, <2>3, <2>4, <2>5 DEF IInv
<1> QED BY <1>1, <1>2, <1>3, <1>4, <1>5, <1>6 DEF Next

\* The inductive invariant holds in every reachable state of the engine.
THEOREM Inductive ==
    ASSUME WrittenBack PROVE Spec => []IInv
BY InitHolds, NextKeeps, PTL DEF Spec

\* preflight_flush_capacity and preflight_rebuild_capacity admit a generation
\* only if it fits, for any device, any pages and whatever the free list holds:
\* write_dirty_pages, which takes slots without looking at the limit, never
\* needs one past it, and a blob rewrite or a vacuum is never refused once the
\* new tree is in place.
THEOREM GenerationsFit ==
    ASSUME WrittenBack PROVE Spec => []GenerationFits
<1>1. ASSUME IInv PROVE GenerationFits
  <2> SUFFICES ASSUME st = "open" PROVE GenerationFits
    BY DEF GenerationFits
  <2>1. next \in 0 .. Capacity /\ next = size /\ Capacity \in Nat
    BY <1>1, ReclamationAssumption DEF IInv, TypeOK, SlotInv
  <2>2. next <= Capacity
    BY SMTT(20), <2>1
  <2> QED BY <1>1, <2>1, <2>2 DEF IInv, PhaseInv, GenerationFits
<1> QED BY <1>1, Inductive, PTL

\* Whatever frame recovery may select after a crash at any moment, its pages
\* read back exactly as published: write_dirty_pages, relocation, truncation
\* and vacuum never touch a slot of the newest forced frame or of one in
\* flight, for any device, any pages and any number of operations.
THEOREM AuthoritySafe ==
    ASSUME WrittenBack PROVE Spec => []AuthorityIntact
<1>1. IInv => AuthorityIntact
  BY SafeIntact DEF IInv, AuthInv, AuthorityIntact
<1> QED BY <1>1, Inductive, PTL

\* A read view, a transaction or a root retained while current keeps reading
\* the generation it captured until it is dropped, although leases are dropped
\* by other threads in the middle of the writer's refresh; a durable root also
\* across crashes and reopens.
THEOREM PinsSafe ==
    ASSUME WrittenBack PROVE Spec => []PinsIntact
<1>1. ASSUME IInv PROVE PinsIntact
  <2> SUFFICES ASSUME NEW i \in Pins, pins[i].kind # "stray", ~pins[i].late
               PROVE  /\ RootIntact(pins[i].root, dev)
                      /\ pins[i].kind = "durable" =>
                           RootIntact(pins[i].root, disk)
    BY DEF PinsIntact
  <2>1. CASE pins[i].kind = "none"
    BY <1>1, <2>1, EmptyRootFacts DEF IInv, GoodInv, RootIntact
  <2>2. CASE pins[i].kind # "none"
    <3>1. Held(i)
      BY <1>1, <2>2, TypedRoots DEF IInv, Pin, Held
    <3> QED BY <1>1, <3>1, SafeIntact DEF IInv, PinInv
  <2> QED BY <2>1, <2>2
<1> QED BY <1>1, Inductive, PTL

\* What storage/invariants.rs checks of an open engine always holds: no slot
\* serves two pages, and the free, pending and reserved lists are disjoint
\* from the mapping and from each other and lie inside the file.
THEOREM ListsDisjoint ==
    ASSUME WrittenBack PROVE Spec => []SlotsDisjoint
<1>1. IInv => SlotsDisjoint
  BY DEF IInv, SlotInv, SlotsDisjoint
<1> QED BY <1>1, Inductive, PTL

----------------------------------------------------------------------------
\* Roots retained after they were superseded.  Their slots may have been
\* reused before the root was registered; the header stamps tell, as long as
\* every page write is stamped with the generation it is part of.

\* Mapping r holds every page of manifest m, as m published it or newer.
Follows(m, r) ==
    \A p \in Mapped(m.root) :
        /\ p \in Mapped(r)
        /\ r.img[p] = m.root.img[p] \/ r.img[p].gen > m.gen

\* A slot of manifest m whose header is not newer than m holds m's page.
Stamped(m, file) ==
    \A p \in Mapped(m.root) :
        LET i == file[m.root.off[p]]
        IN  (i.page = p /\ i.gen <= m.gen) => i = m.root.img[p]

\* The slots that may be taken from a late root: none while a refresh is under
\* way, which drops its slots from the free list.
Refreshing == job.phase \in {"protect", "snapshot", "store"}

LateClaimed == IF st = "open" /\ ~Refreshing THEN free ELSE {}

GenInv ==
    /\ job.op \notin {"gc", "vacuum"}
    /\ \A k \in 1 .. Len(hist) : hist[k].gen = k - 1
    /\ (st = "open" /\ job.phase = "write") => wgen = Len(hist)

ForcedInv ==
    /\ \A s \in Slot : s >= size => dev[s] = Absent
    /\ (st = "open" /\ job.phase \notin {"write", "copied"}) => disk = dev

FollowInv ==
    /\ \A k \in 1 .. Len(hist) :
          \A j \in 1 .. k : Follows(hist[j], hist[k].root)
    /\ st = "open" => \A j \in 1 .. Len(hist) : Follows(hist[j], pmt)

StampInv ==
    \A k \in 1 .. Len(hist) : Stamped(hist[k], dev) /\ Stamped(hist[k], disk)

LatePins ==
    \A i \in Pins : pins[i].late =>
        /\ pins[i].kind = "durable"
        /\ Safe(pins[i].root, dev, size, LateClaimed)
        /\ RootIntact(pins[i].root, disk)

LateInv == GenInv /\ ForcedInv /\ FollowInv /\ StampInv /\ LatePins

\* The newest frame follows every frame of the log.
LEMMA CurrentFollows ==
    ASSUME TypeOK, FollowInv
    PROVE  \A j \in 1 .. Len(hist) : Follows(hist[j], Current.root)
<1>1. Len(hist) \in 1 .. Len(hist)
  BY SMTT(20), TypedRoots
<1> QED BY <1>1 DEF FollowInv, Current

\* A step that leaves the files and the log alone.
LEMMA LateUnmoved ==
    ASSUME IInv, LateInv, UNCHANGED <<dev, disk, size, hist>>,
           st' = "open" => (st = "open" /\ pmt' = pmt) \/ pmt' = Current.root,
           job'.op \notin {"gc", "vacuum"},
           (st' = "open" /\ job'.phase = "write") => wgen' = Len(hist),
           (st' = "open" /\ job'.phase \notin {"write", "copied"}) => disk = dev,
           \A i \in Pins : pins'[i].late => pins'[i] = pins[i],
           \A i \in Pins : pins[i].late =>
               \A s \in Offsets(pins[i].root) : s \notin LateClaimed'
    PROVE  LateInv'
<1>1. GenInv' /\ ForcedInv' /\ StampInv'
  BY DEF LateInv, GenInv, ForcedInv, StampInv
<1>2. FollowInv'
  BY CurrentFollows DEF LateInv, FollowInv, IInv
<1>3. LatePins'
  <2> SUFFICES ASSUME NEW i \in Pins, pins'[i].late
               PROVE  /\ pins'[i].kind = "durable"
                      /\ Safe(pins'[i].root, dev, size, LateClaimed')
                      /\ RootIntact(pins'[i].root, disk)
    BY DEF LatePins
  <2>1. /\ pins'[i] = pins[i] /\ pins[i].kind = "durable"
        /\ Safe(pins[i].root, dev, size, LateClaimed)
        /\ RootIntact(pins[i].root, disk)
        /\ \A s \in Offsets(pins[i].root) : s \notin LateClaimed'
    BY DEF LateInv, LatePins
  <2> QED BY <2>1 DEF Safe, Offsets
<1> QED BY <1>1, <1>2, <1>3 DEF LateInv

\* Late roots stay outside a free list that does not grow.
LEMMA LateShrinks ==
    ASSUME LatePins, LateClaimed' \subseteq LateClaimed, NEW i \in Pins,
           pins[i].late, NEW s \in Offsets(pins[i].root)
    PROVE  s \notin LateClaimed'
BY SMTT(20) DEF LatePins, Safe, Offsets

\* The calls and steps of the writer that move neither pages nor pins.
LEMMA LateQuietStep ==
    ASSUME IInv, LateInv, MaxGc = 0, MaxVacuum = 0,
           \/ \E todo \in SUBSET Pages :
                 StartFlush(todo) \/ StartGc(todo) \/ StartVacuum(todo)
           \/ \E limit \in 0 .. Cardinality(Pages) : StartCompact(limit)
           \/ StartView \/ RefreshSnapshot \/ Admit \/ ForceFrame
           \/ RefuseCompact \/ SetProtected
    PROVE  LateInv'
<1> DEFINE Quiet ==
             /\ UNCHANGED <<st, pmt, free, pins, dev, disk, size, hist>>
             /\ st = "open" /\ job.phase \notin {"write", "copied"}
             /\ job'.op \notin {"gc", "vacuum"}
             /\ job'.phase = "write" => wgen' = Current.gen + 1
             /\ Refreshing' \/ ~Refreshing
<1>1. /\ ~(gcs < MaxGc) /\ ~(vacuums < MaxVacuum)
      /\ job \in Job /\ job.op \notin {"gc", "vacuum"}
  BY SMTT(20) DEF IInv, TypeOK, LateInv, GenInv
<1>2. ASSUME NEW todo \in SUBSET Pages, StartFlush(todo)
      PROVE  Quiet
  BY <1>2 DEF StartFlush, Idle, RefreshThen, NoJob, Refreshing, engineVars,
              sharedVars, fileVars
<1>3. ASSUME NEW todo \in SUBSET Pages, StartGc(todo) \/ StartVacuum(todo)
      PROVE  Quiet
  BY <1>1, <1>3 DEF StartGc, StartVacuum
<1>4. ASSUME NEW limit \in 0 .. Cardinality(Pages), StartCompact(limit)
      PROVE  Quiet
  BY <1>4 DEF StartCompact, Idle, NoJob, Refreshing, engineVars, sharedVars,
              fileVars
<1>5. ASSUME StartView PROVE Quiet
  BY <1>5 DEF StartView, Idle, NoJob, Refreshing, engineVars, sharedVars,
              fileVars
<1>6. ASSUME RefreshSnapshot PROVE Quiet
  BY <1>1, <1>6 DEF RefreshSnapshot, Refreshing, engineVars, sharedVars,
                    fileVars, Job
<1>7. ASSUME Admit PROVE Quiet
  <2>1. /\ st' = st /\ st = "open" /\ job.phase = "admit"
        /\ wgen' = Current.gen + 1
        /\ job' = [job EXCEPT !.phase = "write"] \/ job' = NoJob
        /\ UNCHANGED <<pmt, free, pins, dev, disk, size, hist>>
    BY <1>1, <1>7 DEF Admit, sharedVars, fileVars
  <2>2. job'.op \notin {"gc", "vacuum"}
    BY SMTT(20), <1>1, <2>1 DEF Job, NoJob
  <2> QED BY <2>1, <2>2 DEF Refreshing
<1>8. ASSUME ForceFrame PROVE Quiet
  BY <1>1, <1>8 DEF ForceFrame, Refreshing, engineVars, sharedVars, Job
<1>9. ASSUME RefuseCompact PROVE Quiet
  BY <1>9 DEF RefuseCompact, NoJob, Refreshing, engineVars, sharedVars, fileVars
<1>10. ASSUME SetProtected PROVE Quiet
  BY <1>1, <1>10 DEF SetProtected, Refreshing, engineVars, fileVars, Job
<1>11. Quiet
  BY <1>2, <1>3, <1>4, <1>5, <1>6, <1>7, <1>8, <1>9, <1>10
<1>12. Current.gen + 1 = Len(hist)
  BY SMTT(20), TypedRoots DEF IInv, LateInv, GenInv, Current
<1>13. LateClaimed' \subseteq LateClaimed
  BY <1>11 DEF LateClaimed
<1>14. disk = dev
  BY <1>11 DEF LateInv, ForcedInv
<1> QED BY <1>11, <1>12, <1>13, <1>14, LateUnmoved, LateShrinks DEF LateInv

\* The steps that give slots to the free list leave late roots out.
LEMMA LateFreeStep ==
    ASSUME IInv, LateInv, RefreshStore \/ CompleteGeneration
    PROVE  LateInv'
<1>1. /\ UNCHANGED <<st, pmt, pins, dev, disk, size, hist, wgen>>
      /\ st = "open" /\ job.phase \in {"store", "complete"}
  BY DEF RefreshStore, CompleteGeneration, sharedVars, fileVars
<1>2. job \in Job /\ job.op \notin {"gc", "vacuum"} /\ disk = dev
  BY <1>1 DEF IInv, TypeOK, LateInv, GenInv, ForcedInv
<1>3. job'.op \notin {"gc", "vacuum"} /\ job'.phase \notin {"write", "copied"}
  <2>1. CASE RefreshStore
    BY <1>2, <2>1 DEF RefreshStore, AfterRefresh, NoJob, Job
  <2>2. CASE CompleteGeneration
    BY <1>2, <2>2 DEF CompleteGeneration, NoJob, Job
  <2> QED BY <2>1, <2>2
<1>4. ASSUME NEW i \in Pins, pins[i].late, NEW s \in Offsets(pins[i].root)
      PROVE  s \notin LateClaimed'
  <2>1. /\ pins[i].kind = "durable" /\ Safe(pins[i].root, dev, size, LateClaimed)
    BY <1>4 DEF LateInv, LatePins
  <2>2. Offsets(pins[i].root) \subseteq prot
    BY <1>1, <2>1 DEF IInv, ProtInv
  <2>3. CASE RefreshStore
    <3>1. Offsets(pins[i].root) \subseteq job.stash
      BY <1>1, <2>1, <2>3 DEF IInv, ProtInv, RefreshStore
    <3>2. s \notin free'
      BY <1>4, <2>3, <3>1 DEF RefreshStore, Reclaimable
    <3> QED BY <3>2 DEF LateClaimed
  <2>4. CASE CompleteGeneration
    <3>1. s \notin free
      BY <1>1, <1>4, <2>1, <2>4
         DEF CompleteGeneration, Safe, LateClaimed, Refreshing, Offsets
    <3>2. s \notin free'
      BY <1>4, <2>2, <2>4, <3>1 DEF CompleteGeneration, ProtectedSnapshot
    <3> QED BY <3>2 DEF LateClaimed
  <2> QED BY <2>3, <2>4
<1> QED BY <1>1, <1>2, <1>3, <1>4, LateUnmoved

\* Leasing the mapping and dropping a pin.
LEMMA LatePinStep ==
    ASSUME IInv, LateInv, NEW i \in Pins,
           LeasePmt(i) \/ DropView(i) \/ DropStray(i) \/ ReleaseRoot(i)
    PROVE  LateInv'
<1>1. /\ UNCHANGED <<st, pmt, free, dev, disk, size, hist, wgen>>
      /\ job' = job \/ (job' = NoJob /\ st = "open" /\ job.phase = "pin")
  BY DEF LeasePmt, DropView, DropStray, ReleaseRoot, engineVars, fileVars
<1>2. \A j \in Pins : pins'[j].late => pins'[j] = pins[j]
  <2>1. pins \in [Pins -> Pin]
    BY DEF IInv, TypeOK
  <2>2. /\ \A j \in Pins : j # i => pins'[j] = pins[j]
        /\ pins'[i].late = FALSE
    BY SMTT(20), <2>1 DEF LeasePmt, DropView, DropStray, ReleaseRoot, NoPin
  <2> QED BY <2>2
<1>3. LateClaimed' \subseteq LateClaimed
  BY <1>1 DEF LateClaimed, Refreshing, NoJob
<1>4. /\ job'.op \notin {"gc", "vacuum"}
      /\ (st' = "open" /\ job'.phase = "write") => wgen' = Len(hist)
      /\ (st' = "open" /\ job'.phase \notin {"write", "copied"}) => disk = dev
  BY SMTT(20), <1>1 DEF LateInv, GenInv, ForcedInv, NoJob
<1> QED BY <1>1, <1>2, <1>3, <1>4, LateUnmoved, LateShrinks DEF LateInv

\* Late roots are durable, and outlive the handle as they are.
LEMMA LateSurvives ==
    ASSUME TypeOK, LatePins, NEW c \in BOOLEAN, NEW i \in Pins
    PROVE  /\ SurvivingPins(c)[i].late => SurvivingPins(c)[i] = pins[i]
           /\ pins[i].late => SurvivingPins(c)[i] = pins[i]
<1> DEFINE q == SurvivingPins(c)[i]
<1>1. pins[i] \in Pin /\ (pins[i].late => pins[i].kind = "durable")
  BY DEF TypeOK, LatePins
<1>2. q = CASE pins[i].kind = "durable" -> pins[i]
            [] pins[i].kind = "stray" /\ c -> pins[i]
            [] pins[i].kind = "view" /\ c /\ Outlive ->
                 [pins[i] EXCEPT !.kind = "stray"]
            [] OTHER -> NoPin
  BY DEF SurvivingPins
<1>3. CASE pins[i].kind = "durable"
  BY <1>2, <1>3
<1>4. CASE pins[i].kind = "stray" /\ c
  BY <1>2, <1>4
<1>5. CASE pins[i].kind = "view" /\ c /\ Outlive
  BY <1>1, <1>2, <1>5 DEF Pin
<1>6. CASE /\ pins[i].kind # "durable"
           /\ ~(pins[i].kind = "stray" /\ c)
           /\ ~(pins[i].kind = "view" /\ c /\ Outlive)
  BY SMTT(20), <1>1, <1>2, <1>6 DEF NoPin
<1> QED BY <1>3, <1>4, <1>5, <1>6

\* A fenced handle, a close and a process crash.
LEMMA LateStopStep ==
    ASSUME IInv, LateInv, Fail \/ Close \/ ProcessCrash
    PROVE  LateInv'
<1>1. /\ UNCHANGED <<dev, disk, size, hist>> /\ st' # "open" /\ job' = NoJob
      /\ pins' = pins \/ \E c \in BOOLEAN : pins' = SurvivingPins(c)
  BY DEF Fail, Close, ProcessCrash, HandleGone, fileVars, sharedVars
<1>2. \A i \in Pins : pins'[i].late => pins'[i] = pins[i]
  BY <1>1, LateSurvives DEF IInv, LateInv
<1>3. LateClaimed' = {}
  BY <1>1 DEF LateClaimed
<1> QED BY <1>1, <1>2, <1>3, LateUnmoved DEF NoJob

\* Late roots stay readable while their slots are left alone.
LEMMA LateKept ==
    ASSUME TypeOK, LatePins, disk' \in {disk, dev'}, pins' = pins,
           \A s \in Slot : (s < size /\ s \notin LateClaimed) =>
               dev'[s] = dev[s] /\ s < size' /\ s \notin LateClaimed'
    PROVE  LatePins'
<1> SUFFICES ASSUME NEW i \in Pins, pins[i].late
             PROVE  /\ pins[i].kind = "durable"
                    /\ Safe(pins[i].root, dev', size', LateClaimed')
                    /\ RootIntact(pins[i].root, disk')
  BY DEF LatePins
<1>1. /\ pins[i].kind = "durable" /\ RootIntact(pins[i].root, disk)
      /\ Safe(pins[i].root, dev, size, LateClaimed)
  BY DEF LatePins
<1>2. Safe(pins[i].root, dev', size', LateClaimed')
  BY SMTT(20), <1>1, TypedRoots, SafeKept
<1> QED BY <1>1, <1>2, SafeIntact

\* Restoring either image of a slot, or erasing it, keeps the stamps honest.
LEMMA StampKept ==
    ASSUME TypeOK, NEW k \in 1 .. Len(hist), NEW d,
           Stamped(hist[k], dev), Stamped(hist[k], disk),
           \A s \in Slot : d[s] \in {dev[s], disk[s], Absent, Torn}
    PROVE  Stamped(hist[k], d)
<1> SUFFICES ASSUME NEW p \in Mapped(hist[k].root),
                    d[hist[k].root.off[p]].page = p,
                    d[hist[k].root.off[p]].gen <= hist[k].gen
             PROVE  d[hist[k].root.off[p]] = hist[k].root.img[p]
  BY DEF Stamped
<1>1. p # 0 /\ hist[k].root.off[p] \in Slot
  BY TypedRoots, RootFacts, ReclamationAssumption
<1>2. d[hist[k].root.off[p]] \notin {Absent, Torn}
  BY SMTT(20), <1>1 DEF Absent, Torn
<1> QED BY <1>1, <1>2 DEF Stamped

\* open frees no slot of a registered root.
LEMMA LateOpenStep ==
    ASSUME IInv, LateInv, WrittenBack, Open
    PROVE  LateInv'
<1>1. /\ st = "closed" /\ st' = "open" /\ pmt' = Current.root
      /\ free' = IF Mapped(Current.root) = {} THEN {}
                 ELSE {s \in Slot : /\ s < size
                                    /\ s \notin Offsets(Current.root)
                                    /\ s \notin RegistryOffsets(pins)}
      /\ disk' = dev /\ UNCHANGED <<job, pins, dev, size, hist>>
  BY DEF Open
<1>2. job = NoJob
  BY <1>1 DEF IInv, PhaseInv
<1>3. ForcedInv' /\ GenInv' /\ StampInv'
  BY <1>1, <1>2 DEF LateInv, ForcedInv, GenInv, StampInv, NoJob
<1>4. FollowInv'
  BY <1>1, CurrentFollows DEF IInv, LateInv, FollowInv
<1>5. LatePins'
  <2> SUFFICES ASSUME NEW i \in Pins, pins[i].late
               PROVE  /\ pins[i].kind = "durable"
                      /\ Safe(pins[i].root, dev, size, LateClaimed')
                      /\ RootIntact(pins[i].root, dev)
    BY <1>1 DEF LatePins
  <2>1. /\ pins[i].kind = "durable"
        /\ Safe(pins[i].root, dev, size, LateClaimed)
    BY DEF LateInv, LatePins
  <2>2. Offsets(pins[i].root) \subseteq RegistryOffsets(pins)
    BY <2>1, RegistryFacts DEF IInv, TypeOK
  <2>3. \A s \in Offsets(pins[i].root) : s \notin LateClaimed'
    BY <1>1, <2>2 DEF LateClaimed
  <2> QED BY <2>1, <2>3 DEF Safe, RootIntact, Offsets
<1> QED BY <1>3, <1>4, <1>5 DEF LateInv

\* validate_historical_page_liveness: what passes was never overwritten.
LEMMA LateRetainStep ==
    ASSUME IInv, LateInv, NEW i \in Pins, NEW kind \in {"lease", "durable"},
           NEW k \in 1 .. Len(hist), Retain(i, kind, hist[k])
    PROVE  LateInv'
<1> DEFINE m == hist[k]
<1>1. /\ st = "open" /\ job = NoJob /\ Live(m)
      /\ m # Current => kind = "durable"
      /\ pins' = [pins EXCEPT ![i] = [kind |-> kind, root |-> m.root,
                                      late |-> m # Current]]
      /\ job' = [NoJob EXCEPT !.op = "retain", !.phase = "protect",
                              !.stash = RegistryOffsets(pins')]
      /\ UNCHANGED <<st, pmt, dev, disk, size, hist>>
  BY DEF Retain, Idle, engineVars, fileVars
<1>2. /\ job'.op = "retain" /\ job'.phase = "protect" /\ LateClaimed' = {}
      /\ disk = dev
  BY <1>1 DEF NoJob, LateClaimed, Refreshing, LateInv, ForcedInv
<1>3. /\ pins'[i].kind = kind /\ pins'[i].root = m.root
      /\ pins'[i].late => m # Current
      /\ \A j \in Pins : j # i => pins'[j] = pins[j]
  BY <1>1 DEF IInv, TypeOK
<1>4. Safe(m.root, dev, size, {}) /\ RootIntact(m.root, disk)
  <2>1. Stamped(m, dev)
    BY DEF LateInv, StampInv
  <2>2. ASSUME NEW p \in Mapped(m.root)
        PROVE  dev[m.root.off[p]] = m.root.img[p] /\ m.root.off[p] < size
    <3>1. p \in Pages /\ p # 0 /\ m.root.off[p] \in Slot
      BY TypedRoots, RootFacts, ReclamationAssumption DEF IInv
    <3>2. dev[m.root.off[p]].page = p /\ dev[m.root.off[p]].gen <= m.gen
      BY <1>1, <2>2 DEF Live
    <3>3. dev[m.root.off[p]] = m.root.img[p]
      BY <2>1, <2>2, <3>2 DEF Stamped
    <3>4. dev[m.root.off[p]] # Absent
      BY SMTT(20), <3>1, <3>2 DEF Absent
    <3>5. size \in Int /\ m.root.off[p] \in Int
      BY <3>1, Numbers DEF IInv, TypeOK
    <3> QED BY SMTT(20), <3>1, <3>3, <3>4, <3>5 DEF LateInv, ForcedInv
  <2> QED BY <1>2, <2>2 DEF Safe, RootIntact
<1>5. LatePins'
  <2> SUFFICES ASSUME NEW j \in Pins, pins'[j].late
               PROVE  /\ pins'[j].kind = "durable"
                      /\ Safe(pins'[j].root, dev, size, {})
                      /\ RootIntact(pins'[j].root, disk)
    BY <1>1, <1>2 DEF LatePins
  <2>1. CASE j = i
    BY <1>1, <1>3, <1>4, <2>1
  <2>2. CASE j # i
    BY SMTT(20), <1>3, <2>2 DEF LateInv, LatePins, Safe
  <2> QED BY <2>1, <2>2
<1>6. GenInv' /\ ForcedInv' /\ FollowInv' /\ StampInv'
  BY <1>1, <1>2 DEF LateInv, GenInv, ForcedInv, FollowInv, StampInv
<1> QED BY <1>5, <1>6 DEF LateInv

\* A page write is stamped later than every published frame, so it satisfies
\* Stamped wherever it lands; it lands on no slot of a late root.
LEMMA LateWriteStep ==
    ASSUME IInv, LateInv, NEW p \in Pages, NEW s, WritePage(p, s)
    PROVE  LateInv'
<1> s \in Slot
  BY WriteFits
<1> DEFINE image == [page |-> p, gen |-> wgen, tick |-> tick]
<1>1. /\ st = "open" /\ job.phase = "write" /\ TakesSlot(s)
      /\ dev' = [dev EXCEPT ![s] = image]
      /\ free' = free \ {s}
      /\ size' = IF s < size THEN size ELSE s + 1
      /\ pmt' = Remap(pmt, p, s, tick, image)
      /\ job' = [job EXCEPT !.todo = @ \ {p},
                            !.retired = @ \cup (Offsets(pmt) \cap {pmt.off[p]})]
      /\ UNCHANGED <<st, wgen, pins, disk, hist>>
  BY DEF WritePage, sharedVars
<1>2. /\ job \in Job /\ wgen = Len(hist) /\ Len(hist) \in Nat
      /\ dev \in [Slot -> Image] /\ size \in Int /\ s \in Int
      /\ pmt \in Root /\ next = size /\ image.gen = wgen
      /\ \A k \in 1 .. Len(hist) : hist[k].gen < wgen
  <2>1. wgen = Len(hist) /\ next = size /\ Len(hist) \in Nat
    BY <1>1, TypedRoots DEF IInv, SlotInv, LateInv, GenInv
  <2>2. \A k \in 1 .. Len(hist) : hist[k].gen < wgen
    BY SMTT(20), <2>1 DEF LateInv, GenInv
  <2> QED BY SMTT(20), <2>1, <2>2, ReclamationAssumption DEF IInv, TypeOK, Slot
<1> HIDE DEF image
<1>3. GenInv'
  <2>1. job'.op = job.op /\ job'.phase = job.phase
    BY <1>1, <1>2 DEF Job
  <2> QED BY <1>1, <2>1 DEF LateInv, GenInv
<1>4. ForcedInv'
  <2>1. job'.phase = "write"
    BY <1>1, <1>2 DEF Job
  <2>2. ASSUME NEW t \in Slot, t >= size' PROVE dev'[t] = Absent
    <3>1. t >= size /\ t # s
      BY SMTT(20), <1>1, <1>2, <2>2 DEF Slot
    <3> QED BY <1>1, <1>2, <3>1 DEF LateInv, ForcedInv
  <2> QED BY <2>1, <2>2 DEF ForcedInv
<1>5. FollowInv'
  <2>1. /\ pmt'.img = [pmt.img EXCEPT ![p] = image]
        /\ pmt'.off = [pmt.off EXCEPT ![p] = s]
    BY <1>1 DEF Remap
  <2>2. /\ pmt'.img[p] = image /\ pmt'.off[p] = s
        /\ \A q \in Pages : q # p => /\ pmt'.img[q] = pmt.img[q]
                                     /\ pmt'.off[q] = pmt.off[q]
    BY <1>2, <2>1 DEF Root
  <2>3. s # NoSlot
    BY SMTT(20) DEF Slot, NoSlot
  <2>4. ASSUME NEW k \in 1 .. Len(hist) PROVE Follows(hist[k], pmt')
    <3>1. Follows(hist[k], pmt) /\ hist[k].gen < image.gen
      BY <1>1, <1>2 DEF LateInv, FollowInv
    <3> QED BY <2>2, <2>3, <3>1 DEF Follows, Mapped
  <2> QED BY <1>1, <2>4 DEF LateInv, FollowInv
<1>6. StampInv'
  <2>1. ASSUME NEW k \in 1 .. Len(hist) PROVE Stamped(hist[k], dev')
    <3>1. /\ Stamped(hist[k], dev) /\ ~(image.gen <= hist[k].gen)
      <4>1. hist[k].gen \in Int /\ image.gen \in Int /\ hist[k].gen < image.gen
        BY SMTT(20), <1>2, TypedRoots DEF IInv, Manifest
      <4> QED BY SMTT(20), <4>1 DEF LateInv, StampInv
    <3>2. \A q \in Mapped(hist[k].root) : hist[k].root.off[q] \in Slot
      BY TypedRoots, RootFacts DEF IInv
    <3> QED BY <1>1, <1>2, <3>1, <3>2 DEF Stamped
  <2> QED BY <1>1, <2>1 DEF LateInv, StampInv
<1>7. LatePins'
  <2>1. /\ LateClaimed = free /\ LateClaimed' \subseteq free
        /\ s \in free \/ s = size
    BY <1>1, <1>2 DEF LateClaimed, Refreshing, TakesSlot
  <2>2. \A t \in Slot : (t < size /\ t \notin free) =>
                            dev'[t] = dev[t] /\ t < size' /\ t \notin LateClaimed'
    BY SMTT(20), <1>1, <1>2, <2>1 DEF Slot
  <2> QED BY <1>1, <2>1, <2>2, LateKept DEF IInv, LateInv
<1> QED BY <1>3, <1>4, <1>5, <1>6, <1>7 DEF LateInv

\* The data file is forced with what it reads.
LEMMA LateSyncStep ==
    ASSUME IInv, LateInv, SyncData
    PROVE  LateInv'
<1>1. /\ st = "open" /\ job.phase = "write" /\ disk' = dev
      /\ job' = [job EXCEPT !.phase = "frame", !.retired = {}]
      /\ UNCHANGED <<st, pmt, free, pins, dev, size, hist>>
  BY DEF SyncData, sharedVars
<1>2. job'.op = job.op /\ job'.phase = "frame" /\ LateClaimed' = LateClaimed
  BY <1>1 DEF IInv, TypeOK, Job, LateClaimed, Refreshing
<1>3. GenInv' /\ ForcedInv' /\ FollowInv' /\ StampInv'
  BY <1>1, <1>2 DEF LateInv, GenInv, ForcedInv, FollowInv, StampInv
<1>4. LatePins'
  BY <1>1, <1>2, SafeIntact DEF LateInv, LatePins
<1> QED BY <1>3, <1>4 DEF LateInv

\* The frame appended follows the log, and its pages were just forced.
LEMMA LateAppendStep ==
    ASSUME IInv, LateInv, AppendFrame
    PROVE  LateInv'
<1> DEFINE n == Len(hist)
           m == [gen |-> Current.gen + 1,
                 cid |-> IF job.op = "commit" THEN Current.cid + 1
                         ELSE Current.cid,
                 root |-> pmt]
<1>1. /\ st = "open" /\ job.phase = "frame" /\ hist' = Append(hist, m)
      /\ job' = [job EXCEPT !.phase = "force"]
      /\ UNCHANGED <<st, pmt, free, pins, dev, disk, size>>
  BY DEF AppendFrame, engineVars, sharedVars
<1>2. m.root = pmt /\ m.gen = n /\ n \in Nat /\ hist \in Seq(Manifest)
  <2>1. Len(hist) \in Nat /\ Len(hist) \in 1 .. Len(hist)
    BY SMTT(20), TypedRoots DEF IInv
  <2>2. Current.gen = Len(hist) - 1 /\ hist \in Seq(Manifest)
    BY <2>1 DEF IInv, TypeOK, LateInv, GenInv, Current
  <2> QED BY SMTT(20), <2>1, <2>2
<1> HIDE DEF m
<1>3. /\ Len(hist') = n + 1 /\ hist'[n + 1] = m
      /\ \A k \in 1 .. n : hist'[k] = hist[k]
      /\ \A k \in 1 .. n + 1 : k \in 1 .. n \/ k = n + 1
  BY SMTT(20), <1>1, <1>2
<1> HIDE DEF n
<1>4. job'.op = job.op /\ job'.phase = "force" /\ LateClaimed' = LateClaimed
  BY <1>1 DEF IInv, TypeOK, Job, LateClaimed, Refreshing
<1>5. /\ \A k \in 1 .. n : Follows(hist[k], pmt)
      /\ \A k \in 1 .. n : Stamped(hist[k], dev) /\ Stamped(hist[k], disk)
      /\ \A k \in 1 .. n : hist[k].gen = k - 1
      /\ \A k \in 1 .. n : \A j \in 1 .. k : Follows(hist[j], hist[k].root)
      /\ RootIntact(pmt, dev) /\ disk = dev /\ job.op \notin {"gc", "vacuum"}
  BY <1>1 DEF LateInv, FollowInv, StampInv, GenInv, ForcedInv, IInv, SlotInv, n
<1>6. GenInv'
  BY SMTT(20), <1>2, <1>3, <1>4, <1>5 DEF GenInv
<1>7. ForcedInv'
  BY <1>1, <1>5 DEF LateInv, ForcedInv
<1>8. FollowInv'
  <2>1. Follows(m, pmt)
    BY <1>2 DEF Follows
  <2>2. \A k \in 1 .. n + 1 : Follows(hist'[k], pmt)
    BY <1>3, <1>5, <2>1
  <2>3. ASSUME NEW k \in 1 .. n + 1, NEW j \in 1 .. k
        PROVE  Follows(hist'[j], hist'[k].root)
    <3>1. CASE k = n + 1
      BY <1>2, <1>3, <2>2, <3>1
    <3>2. CASE k \in 1 .. n
      <4>1. j \in 1 .. n
        BY SMTT(20), <1>2, <3>2
      <4> QED BY <1>3, <1>5, <3>2, <4>1
    <3> QED BY <1>3, <3>1, <3>2
  <2> QED BY <1>1, <1>3, <2>2, <2>3 DEF FollowInv
<1>9. StampInv'
  <2>1. Stamped(m, dev)
    BY <1>2, <1>5 DEF Stamped, RootIntact
  <2> QED BY <1>1, <1>3, <1>5, <2>1 DEF StampInv
<1>10. LatePins'
  BY <1>1, <1>4 DEF LateInv, LatePins
<1> QED BY <1>6, <1>7, <1>8, <1>9, <1>10 DEF LateInv

\* A relocated copy carries the stamp of its source: on a slot of an older
\* frame it is that frame's own page or a newer version.
LEMMA LateCopyStep ==
    ASSUME IInv, LateInv, CopyPages, IInv'
    PROVE  LateInv'
<1> DEFINE moves == Moves(job.limit)
<1>1. /\ st = "open" /\ job.phase = "copy"
      /\ dev' = [s \in Slot |->
                   IF s \in Targets(moves)
                   THEN dev[pmt.off[(CHOOSE m \in moves : m[2] = s)[1]]]
                   ELSE dev[s]]
      /\ job' = [job EXCEPT !.moves = moves,
                            !.phase = IF moves = {} THEN "trim" ELSE "copied"]
      /\ UNCHANGED <<st, pmt, free, pins, disk, size, hist>>
  BY DEF CopyPages, engineVars, sharedVars
<1> HIDE DEF moves
<1>2. /\ job'.op = job.op /\ job'.moves = moves
      /\ job'.phase = IF moves = {} THEN "trim" ELSE "copied"
      /\ LateClaimed = free /\ LateClaimed' = free /\ disk = dev
  <2>1. job \in Job
    BY DEF IInv, TypeOK
  <2> QED BY <1>1, <2>1 DEF Job, LateClaimed, Refreshing, LateInv, ForcedInv
<1>3. \A s \in Slot : s \in Targets(moves) =>
          s \in free /\ \E p \in Mapped(pmt) : dev'[s] = pmt.img[p]
  <2> SUFFICES ASSUME NEW m \in moves
               PROVE  m[2] \in free /\ \E p \in Mapped(pmt) :
                                          dev'[m[2]] = pmt.img[p]
    BY DEF Targets
  <2>1. job'.phase = "copied"
    BY <1>2
  <2>2. /\ moves \subseteq Mapped(pmt) \X free
        /\ dev'[m[2]] = pmt.img[m[1]]
    BY <1>1, <1>2, <2>1 DEF IInv, MoveInv
  <2> QED BY <2>2
<1>4. \A s \in Slot : s \notin Targets(moves) => dev'[s] = dev[s]
  BY <1>1
<1>5. GenInv' /\ FollowInv'
  BY SMTT(20), <1>1, <1>2 DEF LateInv, GenInv, FollowInv
<1>6. ForcedInv'
  <2>1. \A s \in free : s \in Slot /\ s < size
    BY SMTT(20), <1>1 DEF IInv, TypeOK, SlotInv, SlotsDisjoint
  <2>2. \A s \in Slot : s >= size => dev'[s] = Absent
    <3>1. size \in Int /\ \A s \in Slot : s \in Int
      BY SMTT(20), ReclamationAssumption DEF IInv, TypeOK, Slot
    <3> QED BY SMTT(20), <1>3, <1>4, <2>1, <3>1 DEF LateInv, ForcedInv
  <2>3. moves = {} => dev' = dev
    <3>1. moves = {} => \A s \in Slot : dev'[s] = dev[s]
      BY <1>4 DEF Targets
    <3>2. dev \in [Slot -> Image] /\ dev' \in [Slot -> Image]
      BY DEF IInv, TypeOK
    <3> QED BY SMTT(20), <3>1, <3>2
  <2> QED BY <1>1, <1>2, <2>2, <2>3 DEF ForcedInv
<1>7. StampInv'
  <2>0. hist' = hist /\ disk' = disk /\ \A k \in 1 .. Len(hist) : Stamped(hist[k], disk)
    BY <1>1 DEF LateInv, StampInv
  <2> SUFFICES ASSUME NEW k \in 1 .. Len(hist) PROVE Stamped(hist[k], dev')
    BY <2>0 DEF StampInv
  <2> SUFFICES ASSUME NEW q \in Mapped(hist[k].root),
                      dev'[hist[k].root.off[q]].page = q,
                      dev'[hist[k].root.off[q]].gen <= hist[k].gen
               PROVE  dev'[hist[k].root.off[q]] = hist[k].root.img[q]
    BY DEF Stamped
  <2>1. hist[k].root.off[q] \in Slot /\ hist[k].gen \in Int
    BY SMTT(20), TypedRoots, RootFacts DEF IInv, Manifest
  <2>2. CASE hist[k].root.off[q] \notin Targets(moves)
    <3>1. dev'[hist[k].root.off[q]] = dev[hist[k].root.off[q]]
      BY <1>4, <2>1, <2>2
    <3>2. Stamped(hist[k], dev)
      BY DEF LateInv, StampInv
    <3> QED BY <3>1, <3>2 DEF Stamped
  <2>3. CASE hist[k].root.off[q] \in Targets(moves)
    <3>1. PICK p \in Mapped(pmt) : dev'[hist[k].root.off[q]] = pmt.img[p]
      BY <1>3, <2>1, <2>3
    <3>2. p = q /\ pmt.img[p].gen \in Int
      <4>1. pmt.img[p].page = p
        BY <3>1 DEF IInv, GoodInv, GoodRoot
      <4>2. pmt.img[p] \in Image
        BY <3>1, TypedRoots, RootFacts DEF IInv
      <4> QED BY <3>1, <4>1, <4>2, Numbers
    <3>3. Follows(hist[k], pmt)
      BY <1>1 DEF LateInv, FollowInv
    <3> QED BY SMTT(20), <2>1, <3>1, <3>2, <3>3 DEF Follows
  <2> QED BY <2>2, <2>3
<1>8. LatePins'
  BY <1>1, <1>2, <1>3, <1>4, LateKept DEF IInv, LateInv
<1> QED BY <1>5, <1>6, <1>7, <1>8 DEF LateInv

\* Mapping the copies changes no image.
LEMMA LateMapStep ==
    ASSUME IInv, LateInv, SyncCopies
    PROVE  LateInv'
<1> DEFINE moved(p) == \E m \in job.moves : m[1] = p
           to(p) == (CHOOSE m \in job.moves : m[1] = p)[2]
           off2 == [p \in Pages |-> IF moved(p) THEN to(p) ELSE pmt.off[p]]
           ver2 == [p \in Pages |-> IF moved(p) THEN tick ELSE pmt.ver[p]]
<1>1. /\ st = "open" /\ job.phase = "copied" /\ disk' = dev
      /\ pmt' = [pmt EXCEPT !.off = off2, !.ver = ver2]
      /\ free' = free \ Targets(job.moves)
      /\ job' = [job EXCEPT !.phase = "frame", !.moves = {}]
      /\ UNCHANGED <<st, pins, dev, size, hist>>
  BY DEF SyncCopies, sharedVars
<1>2. /\ job'.op = job.op /\ job'.phase = "frame"
      /\ LateClaimed' \subseteq LateClaimed
  BY <1>1 DEF IInv, TypeOK, Job, LateClaimed, Refreshing
<1>3. pmt'.img = pmt.img /\ pmt'.off = off2
  BY <1>1 DEF IInv, TypeOK, Root
<1>4. \A p \in Mapped(pmt) : p \in Mapped(pmt')
  <2> SUFFICES ASSUME NEW p \in Mapped(pmt) PROVE off2[p] # NoSlot
    BY <1>3 DEF Mapped
  <2>1. CASE moved(p)
    <3>1. (CHOOSE m \in job.moves : m[1] = p) \in job.moves
      BY <2>1
    <3>2. to(p) \in Slot
      BY <1>1, <3>1 DEF IInv, TypeOK, MoveInv
    <3> QED BY SMTT(20), <2>1, <3>2 DEF Mapped, Slot, NoSlot
  <2>2. CASE ~moved(p)
    BY <2>2 DEF Mapped
  <2> QED BY <2>1, <2>2
<1> HIDE DEF off2, ver2
<1>5. FollowInv'
  BY <1>1, <1>3, <1>4 DEF LateInv, FollowInv, Follows
<1>6. GenInv' /\ ForcedInv' /\ StampInv'
  BY <1>1, <1>2 DEF LateInv, GenInv, ForcedInv, StampInv
<1>7. LatePins'
  BY <1>1, <1>2, LateKept DEF IInv, LateInv
<1> QED BY <1>5, <1>6, <1>7 DEF LateInv

\* Only free slots are cut off.
LEMMA LateTrimStep ==
    ASSUME IInv, LateInv, NEW n \in 0 .. Capacity, TruncateTail(n)
    PROVE  LateInv'
<1>1. /\ st = "open" /\ job.phase = "trim" /\ TailStart(n)
      /\ dev' = [s \in Slot |-> IF s < n THEN dev[s] ELSE Absent]
      /\ disk' = IF n = size THEN disk ELSE dev'
      /\ size' = n /\ free' = {s \in free : s < n} /\ job' = NoJob
      /\ UNCHANGED <<st, pmt, pins, hist>>
  BY DEF TruncateTail, sharedVars
<1>2. /\ LateClaimed = free /\ LateClaimed' = free' /\ disk = dev
      /\ job'.op = "none" /\ job'.phase = "idle"
  BY <1>1 DEF LateClaimed, Refreshing, NoJob, LateInv, ForcedInv
<1>3. /\ size \in Int /\ n \in Int /\ \A s \in Slot : s \in Int
      /\ \A s \in Slot : (s < size /\ s \notin free) => s < n
      /\ dev \in [Slot -> Image] /\ n <= size
  <2>1. size \in Int /\ n \in Int /\ dev \in [Slot -> Image]
    BY Numbers DEF IInv, TypeOK
  <2>2. \A s \in Slot : s \in Int
    BY Numbers
  <2> QED BY SMTT(20), <1>1, <2>1, <2>2 DEF TailStart
<1>4. GenInv' /\ FollowInv'
  BY <1>1, <1>2 DEF LateInv, GenInv, FollowInv
<1>5. ForcedInv'
  <2>1. n = size => \A s \in Slot : dev'[s] = dev[s]
    BY SMTT(20), <1>1, <1>3 DEF LateInv, ForcedInv
  <2>2. n = size => dev' = dev
    BY <1>1, <1>3, <2>1
  <2> QED BY SMTT(20), <1>1, <1>2, <1>3, <2>2 DEF ForcedInv
<1>6. StampInv'
  <2>1. \A s \in Slot : dev'[s] = dev[s] \/ dev'[s] = Absent
    BY <1>1
  <2>2. \A k \in 1 .. Len(hist) : Stamped(hist[k], dev')
    BY <2>1, StampKept DEF IInv, LateInv, StampInv
  <2> QED BY <1>1, <2>2 DEF LateInv, StampInv
<1>7. LatePins'
  BY <1>1, <1>2, <1>3, LateKept DEF IInv, LateInv
<1> QED BY <1>4, <1>5, <1>6, <1>7 DEF LateInv

\* After a power loss a slot holds one of its two images or none.
LEMMA LatePowerLossStep ==
    ASSUME IInv, LateInv, NEW fate, NEW len \in 0 .. Capacity,
           NEW k \in 1 .. Len(hist), PowerLoss(fate, len, k)
    PROVE  LateInv'
<1>1. /\ st' = "closed" /\ job' = NoJob /\ pins' = SurvivingPins(FALSE)
      /\ dev' = [s \in Slot |->
                   IF s >= len THEN Absent
                   ELSE IF s \notin Unforced THEN dev[s]
                   ELSE IF fate[s] = "new" THEN dev[s]
                   ELSE IF fate[s] = "old" /\ disk[s] # Absent THEN disk[s]
                   ELSE Torn]
      /\ disk' = dev' /\ size' = len /\ hist' = SubSeq(hist, 1, k)
  BY DEF PowerLoss, HandleGone
<1>2. /\ Len(hist') = k /\ \A j \in 1 .. k : hist'[j] = hist[j] /\ j \in 1 .. Len(hist)
      /\ LateClaimed' = {}
  <2>1. hist \in Seq(Manifest) /\ Len(hist) \in Nat
    BY TypedRoots DEF IInv, TypeOK
  <2> QED BY SMTT(20), <1>1, <2>1 DEF LateClaimed
<1>3. GenInv' /\ ForcedInv' /\ FollowInv'
  <2>1. GenInv'
    BY <1>1, <1>2 DEF LateInv, GenInv, NoJob
  <2>2. ForcedInv'
    BY <1>1 DEF ForcedInv
  <2>3. \A i \in 1 .. k : \A j \in 1 .. i : j \in 1 .. k
    BY SMTT(20), TypedRoots DEF IInv, TypeOK
  <2>4. FollowInv'
    <3>1. \A i \in 1 .. k : \A j \in 1 .. i : Follows(hist'[j], hist'[i].root)
      BY <1>2, <2>3 DEF LateInv, FollowInv
    <3> QED BY <1>1, <1>2, <3>1 DEF FollowInv
  <2> QED BY <2>1, <2>2, <2>4
<1>4. StampInv'
  <2>1. \A s \in Slot : dev'[s] \in {dev[s], disk[s], Absent, Torn}
    BY <1>1
  <2>2. \A j \in 1 .. Len(hist) : Stamped(hist[j], dev')
    BY <2>1, StampKept DEF IInv, LateInv, StampInv
  <2> QED BY <1>1, <1>2, <2>2 DEF StampInv
<1>5. LatePins'
  <2> SUFFICES ASSUME NEW i \in Pins, pins'[i].late
               PROVE  /\ pins'[i].kind = "durable"
                      /\ Safe(pins'[i].root, dev', size', {})
                      /\ RootIntact(pins'[i].root, disk')
    BY <1>2 DEF LatePins
  <2>1. pins'[i] = pins[i]
    BY <1>1, LateSurvives DEF IInv, LateInv
  <2>2. /\ pins[i].kind = "durable" /\ RootIntact(pins[i].root, dev)
        /\ RootIntact(pins[i].root, disk)
    BY <2>1, SafeIntact DEF LateInv, LatePins
  <2> QED BY <2>1, <2>2, TypedRoots, PowerLossKeeps DEF IInv, GoodInv
<1> QED BY <1>3, <1>4, <1>5 DEF LateInv

\* A freshly created store satisfies the invariant of late roots.
LEMMA LateInitHolds == Init => LateInv
<1> SUFFICES ASSUME Init PROVE LateInv
  OBVIOUS
<1>1. /\ st = "closed" /\ job = NoJob /\ hist = <<Bootstrap>>
      /\ \A s \in Slot : dev[s] = Absent
      /\ \A i \in Pins : ~pins[i].late
  BY DEF Init, NoPin
<1>2. /\ Len(hist) = 1 /\ hist[1].gen = 0 /\ hist[1].root = EmptyRoot
      /\ \A k \in 1 .. Len(hist) : k = 1
  BY SMTT(20), <1>1 DEF Bootstrap
<1>3. Mapped(EmptyRoot) = {}
  BY EmptyRootFacts
<1>4. \A k \in 1 .. Len(hist) : \A j \in 1 .. k : j = 1 /\ k = 1
  BY <1>2
<1>5. \A r : Follows(hist[1], r) /\ Stamped(hist[1], r)
  BY <1>2, <1>3 DEF Follows, Stamped
<1>6. GenInv /\ ForcedInv
  BY SMTT(20), <1>1, <1>2 DEF GenInv, ForcedInv, NoJob
<1>7. FollowInv /\ StampInv
  BY <1>1, <1>2, <1>4, <1>5 DEF FollowInv, StampInv
<1> QED BY <1>1, <1>6, <1>7 DEF LateInv, LatePins

\* Every step keeps it.
LEMMA LateNextKeeps ==
    ASSUME WrittenBack, MaxGc = 0, MaxVacuum = 0, IInv, LateInv, [Next]_vars
    PROVE  LateInv'
<1>1. CASE Call
  <2>1. CASE Close
    BY <2>1, LateStopStep
  <2>2. CASE \E i \in Pins, kind \in {"lease", "durable"}, k \in 1 .. Len(hist) :
                Retain(i, kind, hist[k])
    BY <2>2, LateRetainStep
  <2> QED BY <1>1, <2>1, <2>2, LateQuietStep DEF Call
<1>2. CASE JobStep
  <2>1. IInv'
    BY <1>2, NextKeeps DEF Next
  <2> QED BY <1>2, <2>1, LateQuietStep, LateFreeStep, LateWriteStep,
             LateSyncStep, LateAppendStep, LateCopyStep, LateMapStep,
             LateTrimStep, LatePinStep DEF JobStep
<1>3. CASE Drop
  BY <1>3, LatePinStep DEF Drop
<1>4. CASE Stop
  BY <1>4, LateStopStep, LatePowerLossStep DEF Stop
<1>5. CASE Open
  BY <1>5, LateOpenStep
<1>6. CASE UNCHANGED vars
  <2>1. /\ UNCHANGED <<st, pmt, free, wgen, pins, job, dev, disk, size, hist>>
    BY <1>6 DEF vars, engineVars, sharedVars, fileVars, boundVars
  <2>2. LateClaimed' \subseteq LateClaimed
    BY <2>1 DEF LateClaimed, Refreshing
  <2>3. /\ job'.op \notin {"gc", "vacuum"}
        /\ (st' = "open" /\ job'.phase = "write") => wgen' = Len(hist)
        /\ (st' = "open" /\ job'.phase \notin {"write", "copied"}) => disk = dev
    BY <2>1 DEF LateInv, GenInv, ForcedInv
  <2> QED BY <2>1, <2>2, <2>3, LateUnmoved, LateShrinks DEF LateInv
<1> QED BY <1>1, <1>2, <1>3, <1>4, <1>5, <1>6 DEF Next

\* retain_commit of a superseded commit: whatever validate_historical_page_
\* liveness lets through reads the images the commit was published with, then
\* and until it is released, across reuse of its slots, relocation, crashes
\* and reopens.  Gc and vacuum are left out: they write pages without setting
\* the generation that the check relies on.
THEOREM LateRootsSafe ==
    ASSUME WrittenBack, MaxGc = 0, MaxVacuum = 0
    PROVE  Spec => []LateRootIntact
<1>1. Spec => [](IInv /\ LateInv)
  BY InitHolds, NextKeeps, LateInitHolds, LateNextKeeps, PTL DEF Spec
<1>2. IInv /\ LateInv => LateRootIntact
  BY SafeIntact DEF LateInv, LatePins, LateRootIntact
<1> QED BY <1>1, <1>2, PTL
=============================================================================
