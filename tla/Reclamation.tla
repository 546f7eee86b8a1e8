---------------------------- MODULE Reclamation ----------------------------
(***************************************************************************)
(* Out-of-place pages and their physical reclamation.                      *)
(*                                                                         *)
(* StorageEngine maps logical pages to slots of the data file through the  *)
(* PMT (page mapping table).  A flush writes every dirty page into a free  *)
(* slot or past the end of the file, and the slots of the superseded       *)
(* versions become free only once the authority frame that names the new   *)
(* ones is forced.  Slots that a read view or a retained root still names  *)
(* are kept out of the free list.  Compaction copies high pages into low   *)
(* holes and trims the tail; a vacuum replaces the whole mapping.          *)
(*                                                                         *)
(* One writer owns the engine; handles on read views and retained roots    *)
(* are dropped by other threads at any moment, and the process or the      *)
(* machine may stop between any two steps.                                 *)
(*                                                                         *)
(* A page image is abstracted to who wrote it: the logical page, the       *)
(* write_generation stamped in its header, and the attempt that wrote it.  *)
(***************************************************************************)
EXTENDS Integers, Sequences, FiniteSets

CONSTANTS
    Pages,         \* logical page ids, positive integers
    Capacity,      \* slots the data device can hold
    Pins,          \* identities for read views and retained roots
    LateRetain,    \* retain_commit is called for superseded commits too
    Outlive,       \* a ReadView may be held across close() and reopen
    WrittenBack,   \* what a process crash left unforced is on disk by the
                   \* time the store is opened again
    MaxTick,       \* bound: flushes, relocations and gcs, vacuums
    MaxGc,         \* bound: blob rewrites among them
    MaxVacuum,     \* bound: vacuums among them
    MaxPin,        \* bound: views and roots ever registered
    MaxCrash       \* bound: crashes

ASSUME ReclamationAssumption ==
    /\ Pages \subseteq Nat \ {0} /\ IsFiniteSet(Pages)
    /\ Capacity \in Nat
    /\ {LateRetain, Outlive, WrittenBack} \subseteq BOOLEAN
    /\ {MaxTick, MaxGc, MaxVacuum, MaxPin, MaxCrash} \subseteq Nat

VARIABLES
    \* the handle (StorageEngine, DB)
    st,            \* "open", "fenced" (write_fenced) or "closed"
    pmt,           \* the active mapping, with the image each page should read
    free,          \* free_offsets
    next,          \* next_offset
    pending,       \* pending_reclaimed_offsets
    rsv,           \* rebuild_reserved_offsets
    prot,          \* protected_offsets, shared with the retention state
    dirty,         \* reclamation_dirty, shared with every lease
    wgen,          \* write_generation
    job,           \* the writer's operation in flight
    \* the files
    dev, disk,     \* the data file as read, and as it survives a power loss
    size,          \* its length, in slots
    hist, synced,  \* the authority log and its forced prefix
    \* views and retained roots
    pins,
    \* history and bounds
    tick, gcs, vacuums, pinned, crashes

engineVars == <<pmt, free, next, pending, rsv, wgen>>
sharedVars == <<prot, dirty, pins>>
fileVars == <<dev, disk, size, hist, synced>>
boundVars == <<tick, gcs, vacuums, pinned, crashes>>
vars == <<st, engineVars, sharedVars, job, fileVars, boundVars>>

----------------------------------------------------------------------------
\* Pages, roots, pins.

Slot == 0 .. Capacity - 1

NoSlot == -1

\* What a slot holds: nothing (past the end of the file), bytes whose
\* checksum fails, or a page image.
Absent == [page |-> 0, gen |-> 0, tick |-> 0]

Torn == [page |-> 0, gen |-> 0, tick |-> 1]

Image == [page : Pages \cup {0}, gen : Nat, tick : Nat]

Root == [off : [Pages -> Slot \cup {NoSlot}], ver : [Pages -> Nat],
         img : [Pages -> Image]]

EmptyRoot == [off |-> [p \in Pages |-> NoSlot], ver |-> [p \in Pages |-> 0],
              img |-> [p \in Pages |-> Absent]]

Mapped(r) == {p \in Pages : r.off[p] # NoSlot}

Offsets(r) == {r.off[p] : p \in Mapped(r)}

Remap(r, p, s, v, i) == [off |-> [r.off EXCEPT ![p] = s],
                         ver |-> [r.ver EXCEPT ![p] = v],
                         img |-> [r.img EXCEPT ![p] = i]]

Manifest == [gen : Nat, cid : Nat, root : Root]

Bootstrap == [gen |-> 0, cid |-> 0, root |-> EmptyRoot]

NoPin == [kind |-> "none", root |-> EmptyRoot, late |-> FALSE]

\* A "view" pins through protected_pmts, a "lease" (transaction) and a
\* "durable" root (retention registry) through protected_offsets.  A "stray"
\* view outlived the handle that registered it.
Pin == [kind : {"none", "view", "lease", "durable", "stray"},
        root : Root, late : BOOLEAN]

NoJob == [op |-> "none", phase |-> "idle", todo |-> {}, retired |-> {},
          stash |-> {}, moves |-> {}, limit |-> 0]

Job == [op : {"none", "commit", "gc", "vacuum", "compact", "view", "retain"},
        phase : {"idle", "snapshot", "store", "admit", "write", "frame",
                 "force", "complete", "copy", "copied", "trim", "pin",
                 "protect"},
        todo : SUBSET Pages, retired : SUBSET Slot, stash : SUBSET Slot,
        moves : SUBSET (Pages \X Slot), limit : Nat]

Current == hist[Len(hist)]

----------------------------------------------------------------------------
\* What the free list must leave alone.

\* replace_protected_offsets: the union over the registered roots.
RegistryOffsets(ps) ==
    UNION {Offsets(ps[i].root) :
             i \in {j \in Pins : ps[j].kind \in {"lease", "durable"}}}

\* Faulty variant: forgets the leased PMTs.
SnapshotWithoutViews == prot

\* protected_offsets_snapshot: the shared set and every leased PMT.
ProtectedSnapshot ==
    prot \cup UNION {Offsets(pins[i].root) :
                       i \in {j \in Pins : pins[j].kind = "view"}}

\* Faulty variants: forget the slots a rebuild set aside, or the active ones.
ReclaimableNoReserve(protected) ==
    {s \in Slot : s < size /\ s \notin Offsets(pmt) /\ s \notin protected}

ReclaimableNoActive(protected) ==
    {s \in Slot : s < size /\ s \notin protected /\ s \notin rsv}

\* The slots a refresh finds reusable, given what it saw protected.
Reclaimable(protected) ==
    {s \in Slot : /\ s < size
                  /\ s \notin Offsets(pmt)
                  /\ s \notin protected
                  /\ s \notin rsv}

----------------------------------------------------------------------------
\* The writer's operations.

Idle == st = "open" /\ job = NoJob

\* needs_refresh ? refresh : go on with phase.
RefreshThen(op, phase, todo) ==
    [NoJob EXCEPT !.op = op, !.todo = todo,
                  !.phase = IF dirty THEN "snapshot" ELSE phase]

\* publish_generation: a commit's dirty pages.
StartFlush(todo) ==
    /\ Idle
    /\ tick < MaxTick
    /\ todo # {}
    /\ job' = RefreshThen("commit", "admit", todo)
    /\ tick' = tick + 1
    /\ UNCHANGED <<st, engineVars, sharedVars, fileVars, gcs, vacuums, pinned,
                   crashes>>

\* rewrite_mixed_blob_files: the pages whose blob pointers move.  Refused
\* while any root is retained; admitted only if every page could be appended.
StartGc(todo) ==
    /\ Idle
    /\ tick < MaxTick
    /\ gcs < MaxGc
    /\ todo # {} /\ todo \subseteq Mapped(pmt)
    /\ \A i \in Pins : pins[i].kind \in {"none", "stray"}
    /\ size + Cardinality(todo) <= Capacity
    /\ job' = RefreshThen("gc", "admit", todo)
    /\ tick' = tick + 1
    /\ gcs' = gcs + 1
    /\ UNCHANGED <<st, engineVars, sharedVars, fileVars, vacuums, pinned,
                   crashes>>

\* finish_vacuum: prepare_logical_rebuild reserves every active slot and
\* clears the mapping, then the candidate tree's pages are flushed.
StartVacuum(todo) ==
    /\ Idle
    /\ tick < MaxTick
    /\ vacuums < MaxVacuum
    /\ todo # {}
    /\ size + Cardinality(todo) <= Capacity
    /\ pending = {}
    /\ rsv' = Offsets(pmt)
    /\ pmt' = EmptyRoot
    /\ next' = size
    /\ job' = RefreshThen("vacuum", "admit", todo)
    /\ tick' = tick + 1
    /\ vacuums' = vacuums + 1
    /\ UNCHANGED <<st, free, pending, wgen, sharedVars, fileVars, gcs, pinned,
                   crashes>>

\* compact_with_limit: always refreshes before it plans.
StartCompact(limit) ==
    /\ Idle
    /\ tick < MaxTick
    /\ job' = [NoJob EXCEPT !.op = "compact", !.phase = "snapshot",
                            !.limit = limit]
    /\ tick' = tick + 1
    /\ UNCHANGED <<st, engineVars, sharedVars, fileVars, gcs, vacuums, pinned,
                   crashes>>

----------------------------------------------------------------------------
\* refresh_reclaimable_offsets.  The protected set is read first and
\* reclamation_dirty is cleared last; leases are dropped in between.

AfterRefresh ==
    CASE job.op \in {"commit", "gc", "vacuum"} -> "admit"
      [] job.op = "compact" -> "copy"
      [] job.op = "view" -> "pin"
      [] OTHER -> "idle"

RefreshSnapshot ==
    /\ st = "open"
    /\ job.phase = "snapshot"
    /\ job' = [job EXCEPT !.phase = "store", !.stash = ProtectedSnapshot]
    /\ UNCHANGED <<st, engineVars, sharedVars, fileVars, boundVars>>

RefreshStore ==
    /\ st = "open"
    /\ job.phase = "store"
    /\ free' = Reclaimable(job.stash)
    /\ next' = size
    /\ dirty' = FALSE
    /\ job' = IF AfterRefresh = "idle" THEN NoJob
              ELSE [job EXCEPT !.phase = AfterRefresh, !.stash = {}]
    /\ UNCHANGED <<st, pmt, pending, rsv, wgen, prot, pins, fileVars,
                   boundVars>>

----------------------------------------------------------------------------
\* write_dirty_pages, sync_data and the authority frame.

\* Faulty variant: compares where a page starts with the limit, not its end.
RoomForStart(n) == n <= Cardinality(free) + (Capacity + 1 - next)

\* preflight_flush_capacity: n pages have a free slot or room past the end.
Room(n) == n <= Cardinality(free) + (Capacity - next)

\* set_write_generation, which a blob rewrite and a vacuum do not call, then
\* write_dirty_pages up to its loop: a flush without room is refused before it
\* writes anything.  vacuum fences the handle then; the others return the error.
Admit ==
    /\ st = "open"
    /\ job.phase = "admit"
    /\ wgen' = IF job.op \in {"gc", "vacuum"} THEN wgen ELSE Current.gen + 1
    /\ IF Room(Cardinality(job.todo))
       THEN job' = [job EXCEPT !.phase = "write"] /\ UNCHANGED st
       ELSE /\ job' = NoJob
            /\ st' = IF job.op = "vacuum" THEN "fenced" ELSE st
    /\ UNCHANGED <<pmt, free, next, pending, rsv, sharedVars, fileVars, boundVars>>

\* The slot the next page goes to: free_offsets.last(), else next_offset.
TakesSlot(s) ==
    IF free # {} THEN s \in free /\ \A t \in free : t <= s
    ELSE s = next

\* The loop of write_dirty_pages takes its slot without looking at the limit:
\* it relies on what Admit counted.
WritePage(p, s) ==
    /\ st = "open"
    /\ job.phase = "write"
    /\ p \in job.todo /\ \A q \in job.todo : p <= q
    /\ TakesSlot(s)
    /\ dev' = [dev EXCEPT ![s] = [page |-> p, gen |-> wgen, tick |-> tick]]
    /\ free' = free \ {s}
    /\ next' = IF free = {} THEN next + 1 ELSE next
    /\ size' = IF s < size THEN size ELSE s + 1
    /\ pmt' = Remap(pmt, p, s, tick, [page |-> p, gen |-> wgen, tick |-> tick])
    /\ job' = [job EXCEPT !.todo = @ \ {p},
                          !.retired = @ \cup (Offsets(pmt) \cap {pmt.off[p]})]
    /\ UNCHANGED <<st, pending, rsv, wgen, sharedVars, disk, hist, synced,
                   boundVars>>

SyncData ==
    /\ st = "open"
    /\ job.phase = "write"
    /\ job.todo = {}
    /\ disk' = dev
    /\ pending' = job.retired
    /\ job' = [job EXCEPT !.phase = "frame", !.retired = {}]
    /\ UNCHANGED <<st, pmt, free, next, rsv, wgen, sharedVars, dev, size,
                   hist, synced, boundVars>>

\* append_generation_meta's write: readable, not yet forced.  Only a commit
\* advances the commit id.
AppendFrame ==
    /\ st = "open"
    /\ job.phase = "frame"
    /\ hist' = Append(hist, [gen |-> Current.gen + 1,
                             cid |-> IF job.op = "commit" THEN Current.cid + 1
                                     ELSE Current.cid,
                             root |-> pmt])
    /\ job' = [job EXCEPT !.phase = "force"]
    /\ UNCHANGED <<st, engineVars, sharedVars, dev, disk, size, synced,
                   boundVars>>

ForceFrame ==
    /\ st = "open"
    /\ job.phase = "force"
    /\ synced' = Len(hist)
    /\ job' = [job EXCEPT !.phase = "complete"]
    /\ UNCHANGED <<st, engineVars, sharedVars, dev, disk, size, hist,
                   boundVars>>

\* complete_generation: what no view or root protects becomes free.
CompleteGeneration ==
    /\ st = "open"
    /\ job.phase = "complete"
    /\ free' = free \cup ((pending \cup rsv) \ ProtectedSnapshot)
    /\ pending' = {}
    /\ rsv' = {}
    /\ job' = IF job.op = "compact" THEN [job EXCEPT !.phase = "trim"]
              ELSE NoJob
    /\ UNCHANGED <<st, pmt, next, wgen, sharedVars, fileVars, boundVars>>

----------------------------------------------------------------------------
\* Compaction.

\* relocate_interior_pages_with_limit: the i-th highest unprotected page
\* moves to the i-th lowest free slot, as long as that is lower.
Movable == {p \in Mapped(pmt) : pmt.off[p] \notin ProtectedSnapshot}

Moves(limit) ==
    {m \in Movable \X free :
       LET rank == Cardinality({q \in Movable : pmt.off[q] > pmt.off[m[1]]})
       IN  /\ m[2] < pmt.off[m[1]]
           /\ rank < limit
           /\ rank = Cardinality({s \in free : s < m[2]})}

Sources(moves) == {pmt.off[m[1]] : m \in moves}

Targets(moves) == {m[2] : m \in moves}

\* The copies are written first, with the bytes (and header) of the source.
CopyPages ==
    /\ st = "open"
    /\ job.phase = "copy"
    /\ pending = {}
    /\ LET moves == Moves(job.limit)
       IN  /\ dev' = [s \in Slot |->
                        IF s \in Targets(moves)
                        THEN dev[pmt.off[(CHOOSE m \in moves : m[2] = s)[1]]]
                        ELSE dev[s]]
           /\ job' = [job EXCEPT !.moves = moves,
                        !.phase = IF moves = {} THEN "trim" ELSE "copied"]
    /\ UNCHANGED <<st, engineVars, sharedVars, disk, size, hist, synced,
                   boundVars>>

\* preflight_maintenance_capacity: no room for the frame or the catalog.
RefuseCompact ==
    /\ st = "open"
    /\ job.phase = "copy"
    /\ Moves(job.limit) # {}
    /\ job' = NoJob
    /\ UNCHANGED <<st, engineVars, sharedVars, fileVars, boundVars>>

\* The mapping changes once every copy is synced.
SyncCopies ==
    /\ st = "open"
    /\ job.phase = "copied"
    /\ disk' = dev
    /\ pmt' = [pmt EXCEPT
                 !.off = [p \in Pages |-> IF \E m \in job.moves : m[1] = p
                            THEN (CHOOSE m \in job.moves : m[1] = p)[2]
                            ELSE pmt.off[p]],
                 !.ver = [p \in Pages |-> IF \E m \in job.moves : m[1] = p
                            THEN tick ELSE pmt.ver[p]]]
    /\ free' = free \ Targets(job.moves)
    /\ pending' = Sources(job.moves)
    /\ job' = [job EXCEPT !.phase = "frame", !.moves = {}]
    /\ UNCHANGED <<st, next, rsv, wgen, sharedVars, dev, size, hist, synced,
                   boundVars>>

\* reclaimable_tail_range: the length left once trailing free slots go.
TailStart(n) ==
    /\ n \in 0 .. size
    /\ \A s \in n .. size - 1 : s \in free
    /\ n = 0 \/ n - 1 \notin free

\* truncate_reclaimable_tail: set_len and its sync.
TruncateTail(n) ==
    /\ st = "open"
    /\ job.phase = "trim"
    /\ pending = {}
    /\ TailStart(n)
    /\ dev' = [s \in Slot |-> IF s < n THEN dev[s] ELSE Absent]
    /\ disk' = IF n = size THEN disk ELSE dev'
    /\ size' = n
    /\ next' = IF n = size THEN next ELSE n
    /\ free' = {s \in free : s < n}
    /\ job' = NoJob
    /\ UNCHANGED <<st, pmt, pending, rsv, wgen, sharedVars, hist, synced,
                   boundVars>>

----------------------------------------------------------------------------
\* Read views and retained roots.

\* begin_read_view: set_protected_offsets refreshes, then the PMT is leased.
StartView ==
    /\ Idle
    /\ pinned < MaxPin
    /\ \E i \in Pins : pins[i] = NoPin
    /\ prot' = RegistryOffsets(pins)
    /\ job' = [NoJob EXCEPT !.op = "view", !.phase = "snapshot"]
    /\ pinned' = pinned + 1
    /\ UNCHANGED <<st, engineVars, dirty, pins, fileVars, tick, gcs, vacuums,
                   crashes>>

LeasePmt(i) ==
    /\ st = "open"
    /\ job.phase = "pin"
    /\ pins[i] = NoPin
    /\ pins' = [pins EXCEPT ![i] = [kind |-> "view", root |-> pmt,
                                    late |-> FALSE]]
    /\ dirty' = TRUE
    /\ job' = NoJob
    /\ UNCHANGED <<st, engineVars, prot, fileVars, boundVars>>

\* find_commit: the newest manifest of a commit.
Findable == {m \in {hist[k] : k \in 1 .. Len(hist)} :
               \A k \in 1 .. Len(hist) :
                  hist[k].cid = m.cid => hist[k].gen <= m.gen}

\* Faulty variant: trusts the later manifests and ignores the page headers.
LiveUnstamped(m) ==
    \A p \in Mapped(m.root) :
        LET s == m.root.off[p]
        IN  /\ dev[s].page = p
            /\ \A k \in 1 .. Len(hist) :
                  hist[k].gen > m.gen =>
                    \A q \in Pages :
                       hist[k].root.off[q] = s =>
                         (q = p /\ hist[k].root.ver[q] = m.root.ver[p])

\* validate_historical_page_liveness: no header is newer than the root, and
\* no later manifest maps one of its slots with another mapping; then
\* verify_tree_at, which a page of another key range does not pass.
Live(m) ==
    \A p \in Mapped(m.root) :
        LET s == m.root.off[p]
        IN  /\ dev[s].page = p
            /\ dev[s].gen <= m.gen
            /\ \A k \in 1 .. Len(hist) :
                  hist[k].gen > m.gen =>
                    \A q \in Pages :
                       hist[k].root.off[q] = s =>
                         (q = p /\ hist[k].root.ver[q] = m.root.ver[p])

\* register_manifest: the root enters the registry (a "durable" one reaches
\* the disk), and the handle takes a copy of the protected set.
Retain(i, kind, m) ==
    /\ Idle
    /\ pinned < MaxPin
    /\ pins[i] = NoPin
    /\ m \in Findable
    /\ m # Current => LateRetain /\ kind = "durable"
    /\ Live(m)
    /\ pins' = [pins EXCEPT ![i] = [kind |-> kind, root |-> m.root,
                                    late |-> m # Current]]
    /\ prot' = RegistryOffsets(pins')
    /\ job' = [NoJob EXCEPT !.op = "retain", !.phase = "protect",
                            !.stash = RegistryOffsets(pins')]
    /\ pinned' = pinned + 1
    /\ UNCHANGED <<st, engineVars, dirty, fileVars, tick, gcs, vacuums,
                   crashes>>

\* set_protected_offsets stores that copy, whatever was dropped meanwhile.
SetProtected ==
    /\ st = "open"
    /\ job.phase = "protect"
    /\ prot' = job.stash
    /\ job' = [job EXCEPT !.phase = "snapshot", !.stash = {}]
    /\ UNCHANGED <<st, engineVars, dirty, pins, fileVars, boundVars>>

\* Dropping a ReadView, from any thread: its PMT lease goes, then its
\* registry entry.
DropView(i) ==
    /\ pins[i].kind = "view"
    /\ pins' = [pins EXCEPT ![i] = NoPin]
    /\ prot' = RegistryOffsets(pins)
    /\ dirty' = TRUE
    /\ UNCHANGED <<st, engineVars, job, fileVars, boundVars>>

\* A view held past its handle tells only the old handle's shared state.
DropStray(i) ==
    /\ pins[i].kind = "stray"
    /\ pins' = [pins EXCEPT ![i] = NoPin]
    /\ UNCHANGED <<st, engineVars, prot, dirty, job, fileVars, boundVars>>

\* RetentionLease::release or drop, and release_snapshot.
ReleaseRoot(i) ==
    /\ st # "closed"
    /\ pins[i].kind \in {"lease", "durable"}
    /\ pins' = [pins EXCEPT ![i] = NoPin]
    /\ prot' = RegistryOffsets(pins')
    /\ dirty' = TRUE
    /\ UNCHANGED <<st, engineVars, job, fileVars, boundVars>>

----------------------------------------------------------------------------
\* Failure, close, crash and reopen.

\* An I/O error in a publication, in maintenance or in installing a retained
\* root fences the handle.
Fail ==
    /\ st = "open"
    /\ job # NoJob /\ job.op # "view"
    /\ st' = "fenced"
    /\ job' = NoJob
    /\ UNCHANGED <<engineVars, sharedVars, fileVars, boundVars>>

\* Only the retention registry outlives the handle.
SurvivingPins(closing) ==
    [i \in Pins |->
       CASE pins[i].kind = "durable" -> pins[i]
         [] pins[i].kind = "stray" /\ closing -> pins[i]
         [] pins[i].kind = "view" /\ closing /\ Outlive ->
              [pins[i] EXCEPT !.kind = "stray"]
         [] OTHER -> NoPin]

HandleGone ==
    /\ st' = "closed"
    /\ job' = NoJob
    /\ pmt' = EmptyRoot
    /\ free' = {} /\ pending' = {} /\ rsv' = {}
    /\ next' = 0 /\ wgen' = 0
    /\ prot' = {} /\ dirty' = FALSE

Close ==
    /\ Idle
    /\ HandleGone
    /\ pins' = SurvivingPins(TRUE)
    /\ UNCHANGED <<fileVars, boundVars>>

\* The process stops; what it wrote stays in the page cache.
ProcessCrash ==
    /\ st # "closed"
    /\ crashes < MaxCrash
    /\ HandleGone
    /\ pins' = SurvivingPins(FALSE)
    /\ crashes' = crashes + 1
    /\ UNCHANGED <<fileVars, tick, gcs, vacuums, pinned>>

Unforced == {s \in Slot : dev[s] # disk[s]}

\* The machine stops: each unforced page write reached the disk, did not, or
\* tore; the file keeps a length between the forced and the written one; the
\* unforced tail of the log is kept or cut.
PowerLoss(fate, len, k) ==
    /\ st # "closed" \/ Unforced # {} \/ synced < Len(hist)
    /\ crashes < MaxCrash
    /\ fate \in [Unforced -> {"new", "old", "torn"}]
    /\ len \in 0 .. size
    /\ \A s \in Slot : s >= len => disk[s] = Absent
    /\ k \in synced .. Len(hist)
    /\ HandleGone
    /\ pins' = SurvivingPins(FALSE)
    /\ dev' = [s \in Slot |->
                 IF s >= len THEN Absent
                 ELSE IF s \notin Unforced THEN dev[s]
                 ELSE IF fate[s] = "new" THEN dev[s]
                 ELSE IF fate[s] = "old" /\ disk[s] # Absent THEN disk[s]
                 ELSE Torn]
    /\ disk' = dev'
    /\ size' = len
    /\ hist' = SubSeq(hist, 1, k)
    /\ synced' = k
    /\ crashes' = crashes + 1
    /\ UNCHANGED <<tick, gcs, vacuums, pinned>>

\* open: select_authority_manifest, load_retention, load_from_manifest.
Open ==
    /\ st = "closed"
    /\ st' = "open"
    /\ pmt' = Current.root
    /\ pending' = {} /\ rsv' = {}
    /\ prot' = RegistryOffsets(pins)
    /\ free' = IF Mapped(Current.root) = {} THEN {}
               ELSE {s \in Slot : /\ s < size
                                  /\ s \notin Offsets(Current.root)
                                  /\ s \notin RegistryOffsets(pins)}
    /\ next' = size
    /\ dirty' = FALSE
    /\ wgen' = 0
    /\ disk' = IF WrittenBack THEN dev ELSE disk
    /\ synced' = IF WrittenBack THEN Len(hist) ELSE synced
    /\ UNCHANGED <<job, pins, dev, size, hist, boundVars>>

----------------------------------------------------------------------------

Init ==
    /\ st = "closed"
    /\ pmt = EmptyRoot
    /\ free = {} /\ pending = {} /\ rsv = {}
    /\ next = 0 /\ wgen = 0
    /\ prot = {} /\ dirty = FALSE
    /\ job = NoJob
    /\ dev = [s \in Slot |-> Absent]
    /\ disk = [s \in Slot |-> Absent]
    /\ size = 0
    /\ hist = <<Bootstrap>>
    /\ synced = 1
    /\ pins = [i \in Pins |-> NoPin]
    /\ tick = 0 /\ gcs = 0 /\ vacuums = 0 /\ pinned = 0 /\ crashes = 0

Call ==
    \/ \E todo \in SUBSET Pages :
          StartFlush(todo) \/ StartGc(todo) \/ StartVacuum(todo)
    \/ \E limit \in 0 .. Cardinality(Pages) : StartCompact(limit)
    \/ StartView
    \/ \E i \in Pins, kind \in {"lease", "durable"}, k \in 1 .. Len(hist) :
          Retain(i, kind, hist[k])
    \/ Close

JobStep ==
    \/ RefreshSnapshot \/ RefreshStore
    \/ Admit
    \/ \E p \in Pages, s \in free \cup {next} : WritePage(p, s)
    \/ SyncData \/ AppendFrame \/ ForceFrame \/ CompleteGeneration
    \/ CopyPages \/ RefuseCompact \/ SyncCopies
    \/ \E n \in 0 .. Capacity : TruncateTail(n)
    \/ SetProtected
    \/ \E i \in Pins : LeasePmt(i)

Drop == \E i \in Pins : DropView(i) \/ DropStray(i) \/ ReleaseRoot(i)

Stop ==
    \/ Fail
    \/ ProcessCrash
    \/ \E fate \in [Unforced -> {"new", "old", "torn"}],
          len \in 0 .. Capacity, k \in 1 .. Len(hist) :
          PowerLoss(fate, len, k)

Next == Call \/ JobStep \/ Drop \/ Stop \/ Open

Spec == Init /\ [][Next]_vars

----------------------------------------------------------------------------
\* Properties.

\* Types.
TypeOK ==
    /\ st \in {"open", "fenced", "closed"}
    /\ pmt \in Root
    /\ free \subseteq Slot /\ pending \subseteq Slot /\ rsv \subseteq Slot
    /\ prot \subseteq Slot
    /\ next \in 0 .. Capacity /\ size \in 0 .. Capacity
    /\ dirty \in BOOLEAN
    /\ wgen \in Nat
    /\ job \in Job
    /\ dev \in [Slot -> Image] /\ disk \in [Slot -> Image]
    /\ hist \in Seq(Manifest) /\ synced \in 1 .. Len(hist)
    /\ pins \in [Pins -> Pin]
    /\ {tick, gcs, vacuums, pinned, crashes} \subseteq Nat

\* An admitted generation fits: as long as pages remain to be written, free
\* slots and the end of the file can take every one of them, so the loop of
\* write_dirty_pages never leaves the device.  A blob rewrite or a vacuum, which
\* preflight_rebuild_capacity admits before the tree is replaced, still has room
\* when its flush is admitted; it cannot be refused with the new tree installed.
GenerationFits ==
    st = "open" =>
        /\ next <= Capacity
        /\ job.phase = "write" =>
              Cardinality(job.todo) <= Cardinality(free) + (Capacity - next)
        /\ (job.phase = "admit" /\ job.op \in {"gc", "vacuum"}) =>
              next + Cardinality(job.todo) <= Capacity

RootIntact(r, file) == \A p \in Mapped(r) : file[r.off[p]] = r.img[p]

\* Every root that recovery could select after a crash at this moment, the
\* newest forced frame or a later one still unforced, reads back exactly the
\* page images it was published with: write_dirty_pages, relocation and
\* truncation never touch one of its slots before a newer frame is forced.
AuthorityIntact ==
    \A k \in synced .. Len(hist) :
        /\ RootIntact(hist[k].root, dev)
        /\ RootIntact(hist[k].root, disk)

\* A read view, a transaction or a root retained while it was current reads
\* the images of the generation it captured until it is dropped, whatever is
\* flushed, compacted, vacuumed or dropped meanwhile; a durable one also
\* across crashes and reopens.
PinsIntact ==
    \A i \in Pins :
        (pins[i].kind # "stray" /\ ~pins[i].late) =>
            /\ RootIntact(pins[i].root, dev)
            /\ pins[i].kind = "durable" => RootIntact(pins[i].root, disk)

\* A commit retained after it was superseded reads the images it was
\* published with: validate_historical_page_liveness refuses every root whose
\* slots were rewritten.
LateRootIntact ==
    \A i \in Pins : pins[i].late => RootIntact(pins[i].root, dev)

\* A ReadView "remains on the root and physical files it captured" for as
\* long as it is held, even if its handle is closed and the store reopened.
HeldViewIntact ==
    \A i \in Pins :
        pins[i].kind \in {"view", "stray"} => RootIntact(pins[i].root, dev)

\* What validate_runtime_state demands of an open handle: no slot serves two
\* pages, and the free, pending and reserved lists are disjoint from the
\* active slots, from each other, and lie below next_offset.
SlotsDisjoint ==
    st = "open" =>
        /\ \A p, q \in Mapped(pmt) : pmt.off[p] = pmt.off[q] => p = q
        /\ Offsets(pmt) \cap (free \cup pending \cup rsv) = {}
        /\ free \cap pending = {} /\ free \cap rsv = {}
        /\ pending \cap rsv = {}
        /\ \A s \in Offsets(pmt) \cup free \cup pending \cup rsv : s < next

\* "A released root becomes reusable at the next flush or explicit refresh
\* boundary" (set_protected_offsets): while reclamation_dirty is clear, no
\* flush will refresh, so every slot of the file must already be active,
\* protected or free.
ReleasedReusable ==
    (Idle /\ ~dirty) =>
        \A s \in Slot : s < size =>
            s \in Offsets(pmt) \cup ProtectedSnapshot \cup free
=============================================================================
