----------------------------- MODULE Retention -----------------------------
(***************************************************************************)
(* Roots that outlive the commit that made them (db/retention.rs,          *)
(* db/retention_state.rs, db/retention_artifacts.rs, db/transaction.rs,    *)
(* db/snapshot.rs, db/history_prune.rs, storage/retention_format.rs).      *)
(*                                                                         *)
(* A named root is an entry of the registry file and a sidecar with the    *)
(* blob records it may need.  A transaction has a sidecar and an entry in  *)
(* memory, a view only the entry.  Handles of any thread give their roots  *)
(* back, through the RetentionState they were created with, also after the *)
(* database was closed and opened again in the same process.               *)
(*                                                                         *)
(* The store has one key; its value is a number kept as a blob record, in  *)
(* the segmented layout in a segment of its own.  A manifest carries the   *)
(* value and the pointer of its root.  Pages are intact or overwritten as  *)
(* a whole: Reclamation is about them.                                     *)
(***************************************************************************)
EXTENDS Integers, Sequences

CONSTANTS
    Layouts,    \* blob layouts checked: "whole", "segmented"
    Modes,      \* commit paths checked: "default", "wal_first"
    Leases,     \* handles callers may hold: ReadView, BatchTransaction, RetainedSnapshot
    Known,      \* situations the callers do not avoid: see the guards that name them
    MaxCommit,  \* bound: commits
    MaxMaint,   \* bound: gc, vacuum and prune_history calls
    MaxRoot,    \* bound: roots registered
    MaxOpen,    \* bound: opens
    MaxFault    \* bound: failing registry writes

Situations == {"shared_id", "stale_lease", "renumbered", "soft_base",
               "unsynced_registry", "half_removed", "shared_tmp"}

ASSUME RetentionAssumption ==
    /\ Layouts \subseteq {"whole", "segmented"}
    /\ Modes \subseteq {"default", "wal_first"} /\ Known \subseteq Situations
    /\ {MaxCommit, MaxMaint, MaxRoot, MaxOpen, MaxFault} \subseteq Nat

VARIABLES
    layout,           \* BlobStorageMode
    mode,             \* wal_first_commits
    st,               \* "open" or "closed"
    db,               \* the handle, and the log, WAL and blob files under it
    gone,             \* generations some of whose pages were overwritten
    epoch,            \* oldest generation whose pointers count as today's do
    rs,               \* the RetentionStates of this process, the last open()'s last
    job,              \* the writer's call in progress
    rel,              \* a RetentionState::remove in progress
    lease,            \* the callers' handles
    named,            \* ids retain_commit returned, until release_snapshot
    reg, side, tmp,   \* the registry file, the sidecars, the file seerdb.tmp
    blobFile,         \* what seerdb.blob holds: "blobs" or "registry"
    maints, roots, opens, faults

handleVars == <<layout, mode, st, db, gone, epoch>>
fileVars == <<reg, side, tmp, blobFile>>
boundVars == <<maints, roots, opens, faults>>
vars == <<handleVars, rs, job, rel, lease, named, fileVars, boundVars>>

None == 0
NoJob == [op |-> "none", step |-> "none"]
NoRel == [by |-> "none", step |-> "none"]
NoLease == [kind |-> "none"]
NoTmp == [kind |-> "none"]

h == Len(rs)

\* The map f with g's entries for the keys f lacks, and a map of one entry.
Merge(f, g) == [x \in DOMAIN f \cup DOMAIN g |-> IF x \in DOMAIN f THEN f[x] ELSE g[x]]
Single(i, v) == [x \in {i} |-> v]

-----------------------------------------------------------------------------
(* The handle: commits, frames and blob records. *)

Latest(s) == CHOOSE m \in s.log : \A n \in s.log : n.gen <= m.gen

\* A put of a separated value.
Write(s, v) == [s EXCEPT !.blobs = Merge(@, Single(s.next, v)), !.next = @ + 1,
                         !.val = v, !.ptr = s.next]

\* A generation is published: frame, blob catalog, WAL superseded.
Frame(s) ==
    [s EXCEPT !.log = @ \cup {[gen |-> Latest(s).gen + 1, commit |-> s.cid,
                               val |-> s.val, ptr |-> s.ptr]},
              !.image = s.blobs, !.soft = <<>>]

\* The pending group becomes a commit: a frame, or under WAL-first a record.
Commit(s) ==
    LET t == [s EXCEPT !.cid = @ + 1, !.staged = FALSE]
    IN  IF mode = "wal_first" THEN [t EXCEPT !.soft = Append(@, t.val)] ELSE Frame(t)

\* flush
Flushed(s) == IF s.staged THEN Commit(s) ELSE IF s.soft # <<>> THEN Frame(s) ELSE s

\* vacuum: blob files are numbered from the start.  (In the segmented layout
\* BlobPublication has its own say on it.)
Vacuumed(s) ==
    LET t == IF s.ptr = None THEN [s EXCEPT !.blobs = <<>>, !.next = 1]
             ELSE [s EXCEPT !.blobs = Single(1, s.val), !.next = 2, !.ptr = 1]
    IN  Frame(t)

\* gc, in a generation of its own: dead segments go, or the live record moves
\* to a new file.  (When a file is worth it: BlobPublication.)
Swept(s) ==
    IF DOMAIN s.blobs \subseteq {s.ptr} THEN s
    ELSE IF layout = "segmented" THEN Frame([s EXCEPT !.blobs = Single(s.ptr, s.val)])
    ELSE Frame([Write(s, s.val) EXCEPT !.blobs = Single(s.next, s.val)])

\* all_roots of the current handle
AllRoots == Merge(rs[h].roots, rs[h].eph)

\* Faulty variant: transactions and views do not count.
NamedGens == {rs[h].roots[i].gen : i \in DOMAIN rs[h].roots}

ProtectedGens == {AllRoots[i].gen : i \in DOMAIN AllRoots}

\* Faulty variant: forgets the retained roots.
PrunedToRecovery(s) == [s EXCEPT !.log = {m \in @ : m.gen >= Latest(s).gen - 1},
                                 !.boot = FALSE]

\* prune_history: the two newest generations and those of roots stay, the
\* bootstrap frame only in memory.
Pruned(s) ==
    [s EXCEPT !.log = {m \in @ : m.gen >= Latest(s).gen - 1 \/ m.gen \in ProtectedGens},
              !.boot = FALSE]

\* Publishing s may overwrite the pages of superseded generations but keep.
Reuse(s, keep) ==
    gone' \in {gone} \cup IF s.log \subseteq db.log THEN {} ELSE
        {gone \cup ({m.gen : m \in {n \in s.log : n.gen < Latest(s).gen - 1}} \ keep)}

\* Puts of the values vs, one commit each.
WriteAll(s, vs) ==
    LET n == Len(vs)
    IN  [s EXCEPT !.blobs = Merge(@, [p \in s.next .. s.next + n - 1 |-> vs[p - s.next + 1]]),
                  !.next = @ + n, !.val = vs[n], !.ptr = s.next + n - 1, !.cid = @ + n]

\* The highest file a blob catalog names.
LastFile(blobs) == CHOOSE p \in DOMAIN blobs \cup {0} : \A q \in DOMAIN blobs : q <= p

\* What open() makes of the log, the image and the WAL.
Recovered ==
    LET m == Latest(db)
        s == [db EXCEPT !.cid = m.commit, !.val = m.val, !.ptr = m.ptr, !.staged = FALSE,
                        !.blobs = db.image, !.next = LastFile(db.image) + 1,
                        !.log = {n \in @ : db.boot \/ n.gen > 0}]
    IN  IF db.soft = <<>> THEN s ELSE Frame(WriteAll(s, db.soft))

-----------------------------------------------------------------------------
(* The registry and its file. *)

Empty == [next |-> 1, roots |-> <<>>]

\* RetentionRegistry::insert
WithRoot(r, m) == [next |-> r.next + 1, roots |-> Merge(r.roots, Single(r.next, m))]

Without(f, i) == [j \in DOMAIN f \ {i} |-> f[j]]

WithoutRoot(r, i) == [r EXCEPT !.roots = Without(@, i)]

Registry(k) == [next |-> rs[k].next, roots |-> rs[k].roots]

\* Faulty variant: counts ids from the start again.
LoadedFromOne == [next |-> 1, roots |-> reg.roots, eph |-> <<>>, nextEph |-> -1]

\* RetentionState::load
Loaded == [next |-> reg.next, roots |-> reg.roots, eph |-> <<>>, nextEph |-> -1]

\* Faulty variant: sidecars of forgotten roots stay.
KeptSidecars == side

\* cleanup_orphaned_retained_blobs
OwnedSidecars == [i \in DOMAIN side \cap DOMAIN reg.roots |-> side[i]]

\* What open() requires of the registry file and its sidecars, and of
\* seerdb.blob.
Loadable ==
    /\ blobFile = "blobs" /\ reg.next # 0
    /\ \A i \in DOMAIN reg.roots : /\ i \in DOMAIN side /\ i < reg.next
                                   /\ reg.roots[i].gen = 0 \/ reg.roots[i] \in db.log

\* A registry read from bytes that are not one.
Garbage == [next |-> 0, roots |-> <<>>]

\* The state mutex of handle k is held across a registry write.
Locked(k) == \/ rel # NoRel /\ rel.h = k
             \/ job.step = "rename" /\ k = h

-----------------------------------------------------------------------------
(* Calls of the writer.  Each computes what it publishes first. *)

Idle == st = "open" /\ job = NoJob /\ rel.by # "writer"

\* The call's own arguments, then the publication it starts with.  A blob
\* catalog goes through seerdb.tmp unless space was reserved for it.
Start(op, l, c, s) ==
    /\ Idle
    /\ \E step \in {"install"} \cup (IF s.log \subseteq db.log THEN {} ELSE {"blob_tmp"}) :
          job' = [op |-> op, lease |-> l, commit |-> c, to |-> s, step |-> step,
                  id |-> 0, man |-> Latest(db)]
    /\ UNCHANGED <<handleVars, rs, rel, lease, named, fileVars, opens, faults>>

Value == db.cid + 1

\* commit_batch
CommitBatch ==
    /\ db.cid < MaxCommit /\ ~db.staged
    /\ Start("publish", None, 0, Commit(Write(db, Value)))
    /\ UNCHANGED <<maints, roots>>

\* admit_batch
Stage ==
    /\ Idle /\ db.cid < MaxCommit /\ ~db.staged
    /\ db' = [Write(db, Value) EXCEPT !.staged = TRUE]
    /\ UNCHANGED <<layout, mode, st, gone, epoch, rs, job, rel, lease, named, fileVars, boundVars>>

Flush ==
    /\ Idle /\ Flushed(db) # db
    /\ Start("publish", None, 0, Flushed(db))
    /\ UNCHANGED <<maints, roots>>

\* Maintenance generations are not started over pending envelopes: Publication
\* is about that.
Maintain(op, s) ==
    /\ maints < MaxMaint /\ maints' = maints + 1
    /\ mode = "wal_first" => ~db.staged
    /\ Start(op, None, 0, s)
    /\ UNCHANGED roots

\* gc does nothing while anything is retained.
Gc == Idle /\ ~Locked(h) /\ AllRoots = <<>> /\ Maintain("publish", Swept(Flushed(db)))

Vacuum == layout = "whole" /\ Maintain("vacuum", Vacuumed(Flushed(db)))

\* MetaLog is about pruning a database that has published nothing.
Prune == /\ Idle /\ ~Locked(h) /\ Latest(Flushed(db)).gen > 0
         /\ Maintain("publish", Pruned(Flushed(db)))

Register(op, l, c, s) ==
    /\ roots < MaxRoot /\ roots' = roots + 1
    /\ Start(op, l, c, s)
    /\ UNCHANGED maints

Owned(i) == \E l \in Leases : lease[l].kind = "snap" /\ lease[l].id = i

\* The ids under which commit c is retained.
Holds(c) == {i \in DOMAIN rs[h].roots : rs[h].roots[i].commit = c}

\* A removal under way, or one that failed after the registry's rename, leaves
\* a root in memory that the file may not have.
HalfRemoved(i) == i \notin DOMAIN reg.roots \/ (rel # NoRel /\ rel.id = i)

\* retain_commit.  Without "shared_id", not for a commit that a
\* RetainedSnapshot holds; without "half_removed", not for one whose root is
\* half removed; without "renumbered", not for one whose pointers count the
\* blob files differently.
RetainCommit(c) ==
    /\ Idle /\ roots < MaxRoot
    /\ "shared_id" \in Known \/ ~\E i \in Holds(c) : Owned(i)
    /\ "half_removed" \in Known \/ ~\E i \in Holds(c) : HalfRemoved(i)
    /\ "renumbered" \in Known
       \/ \A m \in Flushed(db).log : m.commit = c => m.gen >= epoch
    /\ Register("retain", None, c, Flushed(db))

\* retain_current: its directory copy is only made of a fully framed store.
RetainCurrent(l) ==
    /\ Idle /\ roots < MaxRoot /\ lease[l] = NoLease
    /\ Latest(Flushed(db)).commit = Flushed(db).cid
    /\ Register("snap", l, 0, Flushed(db))

\* begin_batch_transaction
BeginTransaction(l) ==
    /\ lease[l] = NoLease
    /\ (mode = "wal_first" /\ db.staged) => "soft_base" \in Known
    /\ Register("tx", l, 0, Flushed(db))

\* begin_read_view: no flush and no sidecar.
BeginView(l) ==
    /\ Idle /\ ~Locked(h) /\ lease[l] = NoLease
    /\ roots < MaxRoot /\ roots' = roots + 1
    /\ Latest(db).commit = db.cid
    /\ rs' = [rs EXCEPT ![h].eph = Merge(@, Single(rs[h].nextEph, Latest(db))),
                        ![h].nextEph = @ - 1]
    /\ lease' = [lease EXCEPT ![l] = [kind |-> "view", h |-> h, id |-> rs[h].nextEph,
                                      base |-> db.cid, man |-> Latest(db)]]
    /\ UNCHANGED <<handleVars, job, rel, named, fileVars, maints, opens, faults>>

\* BatchTransaction::commit: the expected base is checked, then as commit_batch.
CommitTransaction(l) ==
    /\ lease[l].kind = "tx" /\ lease[l].h = h /\ lease[l].base = db.cid
    /\ db.cid < MaxCommit /\ ~db.staged
    /\ Start("commit", l, 0, Commit(Write(db, Value)))
    /\ UNCHANGED <<maints, roots>>

-----------------------------------------------------------------------------
(* The steps of a call. *)

\* atomic_write of seerdb.blob.  Without "shared_tmp", no lease is given back
\* between the two steps of this write or of a registry's.
WriteBlobTmp ==
    /\ st = "open" /\ job.step = "blob_tmp"
    /\ rel.step = "persist" => "shared_tmp" \in Known
    /\ tmp' = [kind |-> "blobs"] /\ job' = [job EXCEPT !.step = "blob_rename"]
    /\ UNCHANGED <<handleVars, rs, rel, lease, named, reg, side, blobFile, boundVars>>

\* The rename; if the file is not there the publication fails and fences the
\* handle.
RenameBlobTmp ==
    /\ st = "open" /\ job.step = "blob_rename"
    /\ tmp' = NoTmp
    /\ IF tmp = NoTmp THEN st' = "closed" /\ job' = NoJob /\ UNCHANGED blobFile
       ELSE blobFile' = tmp.kind /\ job' = [job EXCEPT !.step = "install"] /\ UNCHANGED st
    /\ UNCHANGED <<layout, mode, db, gone, epoch, rs, rel, lease, named, reg, side, boundVars>>

\* Faulty variant: the manifest is looked up before the flush.
TargetBeforeFlush(s) == {Latest(db)}

\* The manifest a registration is about: find_commit, or the latest.
Target(s) ==
    IF job.op = "retain" THEN {m \in s.log : m.commit = job.commit /\
                                 \A n \in s.log : n.commit = job.commit => n.gen <= m.gen}
    ELSE {Latest(s)}

\* The publication is complete: what follows depends on the call.
Install ==
    LET held == Holds(job.commit)
        done == job' = NoJob /\ UNCHANGED <<rs, rel, lease, named>>
    IN  /\ st = "open" /\ job.step = "install"
        /\ db' = job.to /\ Reuse(job.to, ProtectedGens)
        /\ epoch' = IF job.op = "vacuum" THEN Latest(job.to).gen ELSE epoch
        /\ CASE job.op \in {"publish", "vacuum"} -> done
             [] job.op = "commit" ->
                  /\ ~Locked(h)
                  /\ rs' = [rs EXCEPT ![h].eph = Without(@, lease[job.lease].id)]
                  /\ rel' = [by |-> "writer", h |-> h, id |-> lease[job.lease].id,
                             step |-> "unside"]
                  /\ lease' = [lease EXCEPT ![job.lease] = NoLease]
                  /\ job' = NoJob /\ UNCHANGED named
             [] job.op = "retain" /\ held # {} ->
                  /\ ~Locked(h)
                  /\ \E i \in held : /\ \A j \in held : i <= j
                                    /\ named' = Merge(Single(i, job.commit), named)
                  /\ job' = NoJob /\ UNCHANGED <<rs, rel, lease>>
             [] OTHER ->
                  /\ ~Locked(h)
                  /\ IF Target(job.to) = {} THEN job' = NoJob
                     ELSE \E m \in Target(job.to) :
                            job' = [job EXCEPT !.step = "side", !.man = m, !.id =
                                      IF job.op = "tx" THEN rs[h].nextEph ELSE rs[h].next]
                  /\ UNCHANGED <<rs, rel, lease, named>>
        /\ UNCHANGED <<layout, mode, st, fileVars, boundVars>>

\* register_manifest writes the sidecar, a clone of the blobs of today.
WriteSidecar ==
    /\ st = "open" /\ job.step = "side"
    /\ side' = Merge(Single(job.id, db.blobs), side)
    /\ job' = [job EXCEPT !.step = "check"]
    /\ UNCHANGED <<handleVars, rs, rel, lease, named, reg, tmp, blobFile, boundVars>>

Holding(kind) == [kind |-> kind, h |-> h, id |-> job.id, base |-> db.cid, man |-> job.man]

\* The checkpoint loads, no page was reused, every pointer has a record.
Intact(m, blobs) == m.gen = 0 \/ (m.gen \notin gone /\ m.ptr \in DOMAIN blobs \cup {None})

\* The checks, then insert_ephemeral or the first half of insert.
CheckRoot ==
    /\ st = "open" /\ job.step = "check" /\ ~Locked(h)
    /\ IF ~Intact(job.man, db.blobs)
       THEN /\ side' = Without(side, job.id) /\ job' = NoJob
            /\ UNCHANGED <<rs, lease, tmp>>
       ELSE IF job.op = "tx"
       THEN /\ rs' = [rs EXCEPT ![h].eph = Merge(@, Single(job.id, job.man)), ![h].nextEph = @ - 1]
            /\ lease' = [lease EXCEPT ![job.lease] = Holding("tx")]
            /\ job' = NoJob /\ UNCHANGED <<side, tmp>>
       ELSE /\ tmp' = [kind |-> "registry", reg |-> WithRoot(Registry(h), job.man)]
            /\ job' = [job EXCEPT !.step = "rename"]
            /\ UNCHANGED <<rs, lease, side>>
    /\ UNCHANGED <<handleVars, rel, named, reg, blobFile, boundVars>>

Renamed == reg' = (IF tmp.kind = "registry" THEN tmp.reg ELSE Garbage) /\ tmp' = NoTmp

\* The second half of insert: the registry is renamed into place and becomes
\* the one in memory.
InsertRoot ==
    /\ st = "open" /\ job.step = "rename" /\ job' = NoJob
    /\ IF tmp = NoTmp
       THEN side' = Without(side, job.id) /\ UNCHANGED <<rs, lease, named, reg, tmp>>
       ELSE /\ Renamed
            /\ \E r \in {WithRoot(Registry(h), job.man)} :
                  rs' = [rs EXCEPT ![h].next = r.next, ![h].roots = r.roots]
            /\ IF job.op = "snap"
               THEN lease' = [lease EXCEPT ![job.lease] = Holding("snap")] /\ UNCHANGED named
               ELSE named' = Merge(Single(job.id, job.commit), named) /\ UNCHANGED lease
            /\ UNCHANGED side
    /\ UNCHANGED <<handleVars, rel, blobFile, boundVars>>

-----------------------------------------------------------------------------
(* RetentionState::remove, by release_snapshot or from a lease. *)

\* The first half: a root in memory is forgotten at once, the registry without
\* a named one is written out, or unlinked when it is empty.
StartRemove(k, i, by) ==
    LET rest == WithoutRoot(Registry(k), i)
        at(step) == rel' = [by |-> by, h |-> k, id |-> i, step |-> step]
        known == i \in DOMAIN rs[k].roots
    IN  /\ rel = NoRel /\ ~Locked(k)
        /\ CASE i \in DOMAIN rs[k].eph ->
                  rs' = [rs EXCEPT ![k].eph = Without(@, i)] /\ at("unside") /\ UNCHANGED tmp
             [] known /\ rest.roots = <<>> -> at("unlink") /\ UNCHANGED <<rs, tmp>>
             [] known /\ rest.roots # <<>> ->
                  /\ job.step = "blob_rename" => "shared_tmp" \in Known
                  /\ tmp' = [kind |-> "registry", reg |-> rest]
                  /\ at("persist") /\ UNCHANGED rs
             [] OTHER -> UNCHANGED <<rs, rel, tmp>>
        /\ UNCHANGED <<handleVars, job, reg, side, blobFile, boundVars>>

ReleaseSnapshot(i) ==
    /\ Idle /\ StartRemove(h, i, "writer")
    /\ named' = Without(named, i) /\ UNCHANGED lease

\* A handle is released or dropped, on any thread.  Without "stale_lease", not
\* after the database was opened again.
DropLease(l) ==
    /\ lease[l] # NoLease /\ lease' = [lease EXCEPT ![l] = NoLease]
    /\ lease[l].h # h => "stale_lease" \in Known
    /\ job.op = "commit" => job.lease # l
    /\ StartRemove(lease[l].h, lease[l].id, "lease")
    /\ UNCHANGED named

\* The second half: the registry file is replaced, or goes.
RemoveRoot ==
    LET forget == /\ rs' = [rs EXCEPT ![rel.h].roots = Without(@, rel.id)]
                  /\ rel' = [rel EXCEPT !.step = "unside"]
    IN  /\ CASE rel.step = "unlink" -> reg' = Empty /\ forget /\ UNCHANGED tmp
             [] rel.step = "persist" /\ tmp # NoTmp -> Renamed /\ forget
             [] rel.step = "persist" /\ tmp = NoTmp -> rel' = NoRel /\ UNCHANGED <<rs, reg, tmp>>
             [] OTHER -> FALSE
        /\ UNCHANGED <<handleVars, job, lease, named, side, blobFile, boundVars>>

RemoveSidecar ==
    /\ rel.step = "unside"
    /\ side' = Without(side, rel.id) /\ rel' = NoRel
    /\ UNCHANGED <<handleVars, rs, job, lease, named, reg, tmp, blobFile, boundVars>>

\* persist fails: atomic_write before its rename, or after it when the
\* directory is forced, and so the unlink of an empty registry.  Without
\* "unsynced_registry" an insert fails only before.
PersistFails(after) ==
    /\ faults < MaxFault /\ faults' = faults + 1
    /\ \/ /\ rel.step = "unlink" /\ reg' = IF after THEN Empty ELSE reg
          /\ rel' = NoRel /\ UNCHANGED <<tmp, side, job>>
       \/ /\ tmp # NoTmp
          /\ IF after THEN Renamed ELSE tmp' = NoTmp /\ UNCHANGED reg
          /\ \/ /\ job.step = "rename" /\ (after => "unsynced_registry" \in Known)
                /\ side' = Without(side, job.id) /\ job' = NoJob /\ UNCHANGED rel
             \/ rel.step = "persist" /\ rel' = NoRel /\ UNCHANGED <<side, job>>
    /\ UNCHANGED <<handleVars, rs, lease, named, blobFile, maints, roots, opens>>

\* The sidecar cannot be written; what there is of it goes.
SidecarFails ==
    /\ st = "open" /\ job.step = "side"
    /\ faults < MaxFault /\ faults' = faults + 1
    /\ side' = Without(side, job.id) /\ job' = NoJob
    /\ UNCHANGED <<handleVars, rs, rel, lease, named, reg, tmp, blobFile, maints, roots, opens>>

-----------------------------------------------------------------------------
(* The life of the handle and of the process. *)

\* close, or a drop of the handle without it: the leases outlive both.
Close(flush) ==
    /\ Idle /\ (flush => ~db.staged)
    /\ st' = "closed"
    /\ IF flush THEN db' = Flushed(db) /\ Reuse(Flushed(db), ProtectedGens)
       ELSE UNCHANGED <<db, gone>>
    /\ UNCHANGED <<layout, mode, epoch, rs, job, rel, lease, named, fileVars, boundVars>>

Crash ==
    /\ st = "open"
    /\ st' = "closed" /\ rs' = <<>> /\ job' = NoJob /\ rel' = NoRel
    /\ lease' = [l \in Leases |-> NoLease]
    /\ UNCHANGED <<layout, mode, db, gone, epoch, named, fileVars, boundVars>>

\* The states of earlier opens live on in the leases that share them.
Referenced == IF rel = NoRel /\ (\A l \in Leases : lease[l] = NoLease) THEN <<>> ELSE rs

\* Pointers into removed files may be given out again.
Open ==
    /\ st = "closed" /\ st' = "open" /\ opens < MaxOpen /\ opens' = opens + 1
    /\ rel # NoRel => "stale_lease" \in Known
    /\ Loadable
    /\ rs' = Append(Referenced, Loaded)
    /\ side' = OwnedSidecars /\ tmp' = NoTmp
    /\ db' = Recovered /\ Reuse(Recovered, {reg.roots[i].gen : i \in DOMAIN reg.roots})
    /\ epoch' = IF \E m \in db.log : m.ptr > LastFile(db.image)
                THEN Latest(db).gen ELSE epoch
    /\ UNCHANGED <<layout, mode, job, rel, lease, named, reg, blobFile, maints, roots, faults>>

\* get_at and range_at under root i: the value, or Failed for an error and for
\* whatever overwritten pages would yield.
Failed == -1

GetAt(i) ==
    LET m == AllRoots[i]
        paged == m.gen = 0 \/ (m \in db.log /\ m.gen \notin gone)
        found == i \in DOMAIN side /\ m.ptr \in DOMAIN side[i]
    IN  IF i \notin DOMAIN AllRoots \/ ~paged THEN Failed
        ELSE IF m.ptr = None THEN m.val
        ELSE IF found THEN side[i][m.ptr] ELSE Failed

Init ==
    /\ layout \in Layouts /\ mode \in Modes /\ st = "open"
    /\ db = [cid |-> 0, val |-> 0, ptr |-> None, blobs |-> <<>>, next |-> 1, staged |-> FALSE,
             soft |-> <<>>, image |-> <<>>, boot |-> TRUE,
             log |-> {[gen |-> 0, commit |-> 0, val |-> 0, ptr |-> None]}]
    /\ gone = {} /\ epoch = 0
    /\ reg = Empty /\ side = <<>> /\ tmp = NoTmp /\ blobFile = "blobs"
    /\ rs = <<Loaded>> /\ job = NoJob /\ rel = NoRel
    /\ lease = [l \in Leases |-> NoLease] /\ named = <<>>
    /\ maints = 0 /\ roots = 0 /\ opens = 0 /\ faults = 0

Next ==
    \/ CommitBatch \/ Stage \/ Flush \/ Gc \/ Vacuum \/ Prune
    \/ \E c \in 0 .. MaxCommit : RetainCommit(c)
    \/ \E l \in Leases : \/ RetainCurrent(l) \/ BeginTransaction(l) \/ BeginView(l)
                         \/ CommitTransaction(l) \/ DropLease(l)
    \/ \E i \in DOMAIN named : ReleaseSnapshot(i)
    \/ WriteBlobTmp \/ RenameBlobTmp \/ Install \/ WriteSidecar \/ CheckRoot \/ InsertRoot
    \/ RemoveRoot \/ RemoveSidecar
    \/ \E after \in BOOLEAN : PersistFails(after)
    \/ SidecarFails
    \/ \E flush \in BOOLEAN : Close(flush)
    \/ Crash \/ Open

Spec == Init /\ [][Next]_vars

-----------------------------------------------------------------------------
(* Properties. *)

Live(l) == lease[l] # NoLease

\* open() accepts what is on disk at every moment: every root the registry
\* file names has its sidecar and its checkpoint, and the shared temporary
\* name never puts one artifact in the place of another.
OpenAccepts == Loadable

\* An id retain_commit returned names its commit, in the file that survives a
\* crash, until release_snapshot; the root of a RetainedSnapshot stays there
\* until the handle is dropped; transactions and views keep theirs in memory.
\* The counters of every state are ahead of the ids in use.
RootsStay ==
    /\ \A k \in 1 .. h : DOMAIN rs[k].roots \subseteq 1 .. rs[k].next - 1
                         /\ DOMAIN rs[k].eph \subseteq rs[k].nextEph + 1 .. -1
    /\ \A i \in DOMAIN named : i \in DOMAIN reg.roots /\ reg.roots[i].commit = named[i]
    /\ \A l \in Leases : Live(l) =>
         LET held == IF lease[l].kind = "snap" THEN reg.roots ELSE rs[lease[l].h].eph
         IN  lease[l].id \in DOMAIN held /\ held[lease[l].id] = lease[l].man

\* get_at and range_at under any root return the value of its commit, whatever
\* gc, vacuum, prune_history, later commits and other releases did; the pages
\* under a view, which has no sidecar, stay too.  (Commit c puts the value c.)
RootsReadable ==
    st = "open" => \A i \in DOMAIN AllRoots :
        IF \E l \in Leases : lease[l].kind = "view" /\ lease[l].h = h /\ lease[l].id = i
        THEN AllRoots[i].gen \notin gone \ {0}
        ELSE GetAt(i) = AllRoots[i].commit

\* A transaction reads the commit it will be checked against: its reads return
\* the value its base commit left, as long as it is open.
TxReadsBase ==
    \A l \in Leases : (st = "open" /\ lease[l].kind = "tx" /\ lease[l].h = h) =>
        GetAt(lease[l].id) = lease[l].base

\* With no call in progress every sidecar belongs to a root, so none keeps its
\* disk space beyond a release, a failed registration or a crash; and every
\* named root has one.
SidecarsOwned ==
    (st = "open" /\ job = NoJob /\ rel = NoRel) =>
        /\ DOMAIN side \subseteq DOMAIN AllRoots
        /\ DOMAIN rs[h].roots \subseteq DOMAIN side
=============================================================================
