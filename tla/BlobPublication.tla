-------------------------- MODULE BlobPublication --------------------------
(***************************************************************************)
(* Values kept outside the tree and the artifacts that hold them           *)
(* (src/blob/*.rs, db/blob_publication.rs, db/blob_gc.rs, db/blob_layout.rs*)
(* db/segmented_blob_publication.rs, db/vacuum.rs, db/compaction.rs).      *)
(*                                                                         *)
(* A large value is a record of a blob file and the tree holds a pointer   *)
(* to it.  In the "whole" layout all blob files are one image, replaced by *)
(* a rename.  In the "segmented" layout each is an append-only segment and *)
(* a catalog, a full one or a chain of deltas, says how much of it counts. *)
(* Either artifact is written before the authority frame of its            *)
(* generation, so every crash must find one that fits the frame.           *)
(*                                                                         *)
(* A value is a number, a record is its value and an offset is the index   *)
(* of a record.  Pages are as good as their frame; Publication and         *)
(* Reclamation are about them.                                             *)
(***************************************************************************)
EXTENDS Integers, Sequences, FiniteSets, FiniteSetsExt, SequencesExt, TLC

CONSTANTS
    NKeys,       \* keys are 1..NKeys, in key order
    Layouts,     \* layouts checked: "whole", "segmented"
    SegLen,      \* records that fit DEFAULT_SEGMENT_TARGET_SIZE
    MaxDeltas,   \* MAX_SEGMENT_CATALOG_DELTAS
    Known,       \* situations the callers and the file system do not avoid:
                 \* see the guards that name them
    MaxVal,      \* bound: mutations
    MaxMaint,    \* bound: gc, vacuum and compact calls
    MaxCrash     \* bound: crashes

Situations == {"lagging_image", "abandoned_image", "segmented_vacuum",
               "wide_key", "unforced_entry", "delta_leftover"}

ASSUME BlobAssumption ==
    /\ {NKeys, SegLen, MaxDeltas} \subseteq Nat \ {0}
    /\ Layouts \subseteq {"whole", "segmented"} /\ Known \subseteq Situations
    /\ {MaxVal, MaxMaint, MaxCrash} \subseteq Nat

VARIABLES
    layout,           \* BlobStorageMode of the database
    \* ---- the handle
    st,               \* "open" or "closed"
    tree,             \* per key the value and its blob pointer, if separated
    mgr,              \* self.blobs
    muts, blobDirty,  \* pending mutations, pending_blob_changes
    gen,              \* generation_id; next_generation_id is one more
    job,              \* the steps left of the publication in progress
    call,             \* the stage of a gc() in progress
    view,             \* a ReadView
    \* ---- the files
    dir, dirOld,      \* directory entries, and what a power loss may undo
    seg, segOld,      \* segment bytes as read, and as forced
    delta, deltaOld,  \* seerdb.blob.delta as read, and as forced
    auth, soft,       \* the forced authority frame, and one in the cache
    wal,              \* the newest commit of the WAL, its mutations
    \* ---- bounds
    nextVal, maints, crashes

handleVars == <<layout, tree, mgr, muts, blobDirty, gen>>
fileVars == <<dir, dirOld, seg, segOld, delta, deltaOld, auth, soft, wal>>
boundVars == <<nextVal, maints, crashes>>
vars == <<handleVars, st, job, call, view, fileVars, boundVars>>

Keys == 1 .. NKeys

NoFile == [kind |-> "none", gen |-> -1]
NoJob == [todo |-> <<>>, maint |-> FALSE]
NoWal == [gen |-> 0, muts |-> <<>>]
NoView == [tree |-> <<>>, files |-> <<>>, live |-> {}]
EmptyTree == [k \in Keys |-> [val |-> 0, ptr |-> <<>>]]
Segmented == layout = "segmented"

-----------------------------------------------------------------------------
(* BlobManager. *)

\* files: file id -> records; dead: deletion marks; plen, pdead, pgen, deltas
\* and saved: SegmentCatalogState.
EmptyMgr == [files |-> <<>>, dead |-> {}, next |-> 1, gen |-> 0, plen |-> <<>>,
             pdead |-> <<>>, pgen |-> 0, deltas |-> 0, saved |-> FALSE]

\* What a parser returns for None.
Broken == [EmptyMgr EXCEPT !.next = 0]

LastFile(m) == Max(DOMAIN m.files)

\* begin_compaction_file
BeginFile(m) == [m EXCEPT !.files = @ @@ (m.next :> <<>>), !.next = @ + 1,
                          !.plen = @ @@ (m.next :> 0)]

\* append: into the last file, or a fresh one if there is none or it is full.
AppendRec(m, v) ==
    LET full == /\ Segmented /\ m.files[LastFile(m)] # <<>>
                /\ Len(m.files[LastFile(m)]) >= SegLen
        n == IF m.files = <<>> \/ full THEN BeginFile(m) ELSE m
    IN  [n EXCEPT !.files[LastFile(n)] = Append(@, v)]

LastPtr(m) == <<LastFile(m), Len(m.files[LastFile(m)])>>

WithoutFiles(m, fs) ==
    [m EXCEPT !.files = [f \in DOMAIN m.files \ fs |-> m.files[f]],
              !.dead = {p \in @ : p[1] \notin fs}]

\* rollback_append: the file of a first record goes too, its catalog
\* frontier stays.
RollbackAppend(m) ==
    LET f == LastFile(m)
        n == [m EXCEPT !.files[f] = Front(@)]
    IN  IF n.files[f] = <<>> THEN WithoutFiles(n, {f}) ELSE n

Has(files, p) == p[1] \in DOMAIN files /\ p[2] \in DOMAIN files[p[1]]

\* read: 0 if there is no such record.
ReadRec(files, p) == IF Has(files, p) THEN files[p[1]][p[2]] ELSE 0

AllRecs(m) == UNION {{f} \X DOMAIN m.files[f] : f \in DOMAIN m.files}

DeadIn(m, f) == {p \in m.dead : p[1] = f}

\* needs_gc: more than half of the records, rounded down, are dead.
NeedsGc(m, f) == Cardinality(DeadIn(m, f)) > Len(m.files[f]) \div 2

FullyDead(m) == {f \in DOMAIN m.files :
                   NeedsGc(m, f) /\ Cardinality(DeadIn(m, f)) = Len(m.files[f])}

\* mark_deleted and require_blob_deletion
Retire(m, p) ==
    IF p = <<>> THEN [ok |-> TRUE, mgr |-> m]
    ELSE [ok |-> Has(m.files, p) /\ p \notin m.dead,
          mgr |-> IF Has(m.files, p) THEN [m EXCEPT !.dead = @ \cup {p}] ELSE m]

\* mutation::apply, for a put (separated or not) and for a delete (value 0).
Apply(s, mu) ==
    LET old == s.tree[mu.key].ptr
        m == IF mu.big THEN AppendRec(s.mgr, mu.val) ELSE s.mgr
        r == Retire(m, old)
    IN  [tree |-> [s.tree EXCEPT ![mu.key] =
                     [val |-> mu.val, ptr |-> IF mu.big THEN LastPtr(m) ELSE <<>>]],
         mgr |-> r.mgr, ok |-> s.ok /\ r.ok,
         changed |-> s.changed \/ mu.big \/ old # <<>>]

-----------------------------------------------------------------------------
(* The artifacts: what is written, and what a reader makes of it. *)

\* to_bytes and from_bytes of the whole image
Image(m) == [kind |-> "image", gen |-> m.gen, files |-> m.files, dead |-> m.dead]

FromImage(a) ==
    [EmptyMgr EXCEPT !.files = a.files, !.dead = a.dead, !.gen = a.gen,
                     !.next = Max(DOMAIN a.files \cup {0}) + 1]

Lengths(m) == [f \in DOMAIN m.files |-> Len(m.files[f])]

\* to_segment_catalog_bytes
Catalog(m) == [kind |-> "catalog", gen |-> m.gen, lens |-> Lengths(m), dead |-> m.dead]

\* segment_catalog_delta_entries
Delta(m) ==
    LET new(f) == DeadIn(m, f) \ (IF f \in DOMAIN m.pdead THEN m.pdead[f] ELSE {})
    IN  [gen |-> m.gen, parent |-> m.pgen,
         ups |-> {[file |-> f, len |-> Len(m.files[f]), dead |-> new(f)] :
                    f \in {g \in DOMAIN m.files :
                             \/ g \notin DOMAIN m.plen \/ g \notin DOMAIN m.pdead
                             \/ m.plen[g] # Len(m.files[g]) \/ new(g) # {}}},
         rems |-> DOMAIN m.plen \ DOMAIN m.files]

\* capture_persisted_state, with the delta count its two callers set
Captured(m, n) ==
    [m EXCEPT !.plen = Lengths(m), !.pdead = [f \in DOMAIN m.files |-> DeadIn(m, f)],
              !.pgen = m.gen, !.deltas = n, !.saved = TRUE]

\* from_segment_catalog_base over the segments sg
FromCatalog(c, sg) ==
    IF \E f \in DOMAIN c.lens : f \notin DOMAIN sg \/ c.lens[f] > Len(sg[f]) THEN Broken
    ELSE LET files == [f \in DOMAIN c.lens |-> SubSeq(sg[f], 1, c.lens[f])]
         IN  Captured(FromImage([files |-> files, dead |-> c.dead, gen |-> c.gen]), 0)

\* apply_segment_catalog_delta
ApplyDelta(m, d, sg) ==
    LET was(f) == IF f \in DOMAIN m.pdead THEN m.pdead[f] ELSE {}
        bad == \/ m = Broken \/ d.parent # m.gen \/ ~(d.rems \subseteq DOMAIN m.files)
               \/ \E u \in d.ups : \/ u.file \notin DOMAIN sg
                                   \/ u.len > Len(sg[u.file])
                                   \/ u.file \in DOMAIN m.plen /\ u.len < m.plen[u.file]
                                   \/ u.dead \cap was(u.file) # {}
        up(f) == CHOOSE u \in d.ups : u.file = f
        upd == {u.file : u \in d.ups}
        n == [m EXCEPT !.files = [f \in upd |-> SubSeq(sg[f], 1, up(f).len)] @@ @,
                       !.dead = @ \cup UNION {u.dead : u \in d.ups},
                       !.next = Max({@} \cup {f + 1 : f \in upd}), !.gen = d.gen]
    IN  IF bad THEN Broken ELSE Captured(WithoutFiles(n, d.rems), m.deltas + 1)

\* parse_segment_catalog_delta_log_through_generation: frames up to the first
\* of a later generation.
Through(log, g) ==
    LET later == {i \in DOMAIN log : log[i].gen > g}
    IN  IF later = {} THEN log ELSE SubSeq(log, 1, Min(later) - 1)

\* from_segment_catalog_with_delta_log: the unique chain of frames that leads
\* from the catalog to the target generation.
Chain(c, log, target) ==
    LET no == [ok |-> FALSE, ds |-> <<>>]
        path[g \in 0 .. target] ==
            LET is == {i \in DOMAIN log : log[i].gen = g}
                d == log[CHOOSE i \in is : TRUE]
            IN  CASE g = c.gen -> [ok |-> TRUE, ds |-> <<>>]
                  [] g # c.gen /\ Cardinality(is) = 1 ->
                        IF d.parent >= g \/ d.parent < c.gen THEN no
                        ELSE [path[d.parent] EXCEPT !.ds = Append(@, d)]
                  [] OTHER -> no
    IN  path[target]

WithDeltas(c, log, sg, target) ==
    LET seen == Through(log, target)
        chain == Chain(c, seen, target)
    IN  IF target < c.gen \/ Len(seen) > MaxDeltas \/ ~chain.ok THEN Broken
        ELSE FoldLeft(LAMBDA m, d : ApplyDelta(m, d, sg), FromCatalog(c, sg), chain.ds)

\* A crash's view of the blob files: directory d, its segments and delta log.
Disk(d, s, l) == [dir |-> d, seg |-> [f \in d.segs |-> s[f]],
                  delta |-> IF d.delta THEN l ELSE <<>>]

\* parse_blob_catalog
Parse(a, k, target) ==
    CASE a.kind = "none" -> Broken
      [] a.kind = "image" -> FromImage(a)
      [] OTHER -> WithDeltas(a, k.delta, k.seg, target)

\* recover_blob_rewrite_backup: what it leaves of directory d for an authority
\* of generation g.  current and backup: the two artifacts as parsed for g;
\* own: the current one for its own generation.
Restored(d, g, current, backup, own) ==
    LET drop == [d EXCEPT !.backup = NoFile]
        yes(e) == [ok |-> TRUE, dir |-> e]
    IN  CASE d.backup = NoFile -> yes(d)
          [] d.backup # NoFile /\ current # Broken /\ current.gen = g ->
                yes(IF Segmented THEN [drop EXCEPT !.delta = FALSE] ELSE drop)
          [] d.backup # NoFile /\ (current = Broken \/ current.gen # g) ->
                CASE backup = Broken \/ backup.gen > g -> [ok |-> FALSE, dir |-> d]
                  [] backup # Broken /\ backup.gen < g -> yes(drop)
                  [] backup # Broken /\ backup.gen = g ->
                        IF own = Broken \/ own.gen # g
                        THEN yes([drop EXCEPT !.image = d.backup]) ELSE yes(drop)

RecoverBackup(k, g) ==
    Restored(k.dir, g, Parse(k.dir.image, k, g), Parse(k.dir.backup, k, g),
             Parse(k.dir.image, k, k.dir.image.gen))

\* The artifact recovery r left, as parsed for generation g.
Recovered(k, r, g) ==
    IF r.dir.image = NoFile THEN EmptyMgr
    ELSE Parse(r.dir.image, [k EXCEPT !.dir = r.dir], g)

\* Faulty variant: keeps the deletion marks of another generation's image.
TrustedKeepingMarks(r, m, g) == [ok |-> r.ok /\ m # Broken, dir |-> r.dir, mgr |-> m]

\* load_blobs does not trust the deletion marks of another generation's image.
Trusted(r, m, g) ==
    [ok |-> r.ok /\ m # Broken, dir |-> r.dir,
     mgr |-> IF m.gen = g THEN m ELSE [m EXCEPT !.dead = {}]]

LoadAfter(k, r, g) == Trusted(r, Recovered(k, r, g), g)

\* load_blobs
Load(k, g) == LoadAfter(k, RecoverBackup(k, g), g)

\* recover_from_wal: commits ahead of the frame are applied to tree and blobs.
Replay(m, a, w) ==
    FoldLeft(Apply, [tree |-> a.tree, mgr |-> m, ok |-> TRUE, changed |-> FALSE],
             IF w.gen > a.gen THEN w.muts ELSE <<>>)

-----------------------------------------------------------------------------
(* Mutations and read views. *)

Idle == st = "open" /\ job = NoJob /\ call = "none"

\* put, and delete as the put of value 0 on a key that has a value.  A record
\* that cannot be retired fails the call after it changed tree and blobs.
Mutate(k, big, val) ==
    LET mu == [key |-> k, big |-> big, val |-> val]
        s == Apply([tree |-> tree, mgr |-> mgr, ok |-> TRUE, changed |-> FALSE], mu)
    IN  /\ Idle /\ nextVal <= MaxVal
        /\ val = 0 => ~big /\ tree[k].val # 0
        /\ tree' = s.tree /\ mgr' = s.mgr
        /\ muts' = IF s.ok THEN Append(muts, mu) ELSE muts
        /\ blobDirty' = (blobDirty \/ (s.ok /\ s.changed))
        /\ nextVal' = nextVal + 1
        /\ UNCHANGED <<layout, st, gen, job, call, view, fileVars, maints, crashes>>

\* put of a separated value under a key so long that the pointer does not fit
\* a page: upsert_blob fails and the record is rolled back.  Without
\* "wide_key", no such record is the first of a new segment.
PutTooWide ==
    /\ Idle /\ nextVal <= MaxVal
    /\ mgr' = RollbackAppend(AppendRec(mgr, nextVal))
    /\ (Segmented /\ mgr'.plen # mgr.plen) => "wide_key" \in Known
    /\ nextVal' = nextVal + 1
    /\ UNCHANGED <<layout, tree, muts, blobDirty, gen, st, job, call, view, fileVars,
                   maints, crashes>>

\* Faulty variant: pairs the live tree with the published blobs.
BeginViewOfLiveTree ==
    /\ Idle /\ view = NoView
    /\ IF Segmented
       THEN /\ DOMAIN mgr.files \subseteq dir.segs
            /\ view' = [tree |-> tree, files |-> <<>>, live |-> DOMAIN mgr.files]
       ELSE /\ mgr.files = <<>> \/ (dir.image # NoFile
                                     /\ DOMAIN mgr.files \subseteq DOMAIN dir.image.files)
            /\ view' = [tree |-> tree, live |-> {},
                        files |-> IF mgr.files = <<>> THEN <<>> ELSE dir.image.files]
    /\ UNCHANGED <<handleVars, st, job, call, fileVars, boundVars>>

\* begin_read_view: BlobReadView::open finds every blob file the manager names.
BeginView ==
    /\ Idle /\ view = NoView
    /\ IF Segmented
       THEN /\ DOMAIN mgr.files \subseteq dir.segs
            /\ view' = [tree |-> auth.tree, files |-> <<>>, live |-> DOMAIN mgr.files]
       ELSE /\ mgr.files = <<>> \/ (dir.image # NoFile
                                     /\ DOMAIN mgr.files \subseteq DOMAIN dir.image.files)
            /\ view' = [tree |-> auth.tree, live |-> {},
                        files |-> IF mgr.files = <<>> THEN <<>> ELSE dir.image.files]
    /\ UNCHANGED <<handleVars, st, job, call, fileVars, boundVars>>

EndView ==
    /\ view # NoView /\ view' = NoView
    /\ UNCHANGED <<handleVars, st, job, call, fileVars, boundVars>>

-----------------------------------------------------------------------------
(* Publications. *)

SegmentSteps == <<"backup", "segs", "segsync", "catalog", "catsync">>
FrameSteps == <<"frame", "force">>
SegmentCleanup == <<"prune", "unbackup", "undelta">>

\* write_generation_artifacts and finish_generation_publication
CommitSteps(dirty) ==
    IF Segmented THEN SegmentSteps \o <<"dirsync", "commit">> \o FrameSteps
                      \o SegmentCleanup \o <<"finish">>
    ELSE (IF dirty THEN <<"image">> ELSE <<>>) \o <<"commit">> \o FrameSteps \o <<"finish">>

\* publish_recovered: the commit record is already in the WAL.
RecoverySteps(dirty) == SelectSeq(CommitSteps(dirty), LAMBDA s : s # "commit")

\* Faulty variant: overwrites the image without setting the old one aside.
RewriteStepsInPlace ==
    IF Segmented THEN SegmentSteps \o FrameSteps \o SegmentCleanup \o <<"finish">>
    ELSE <<"image">> \o FrameSteps \o <<"finish">>

\* publish_blob_rewrite_generation
RewriteSteps ==
    <<"setaside">> \o
    (IF Segmented THEN SegmentSteps \o FrameSteps \o SegmentCleanup \o <<"finish">>
     ELSE <<"image">> \o FrameSteps \o <<"finish", "unbackup">>)

\* publish_compaction_generation
CompactSteps ==
    IF Segmented THEN SegmentSteps \o FrameSteps \o SegmentCleanup \o <<"finish">>
    ELSE FrameSteps \o <<"finish">>

NextGen(m) == [m EXCEPT !.gen = gen + 1]

\* Without "abandoned_image", callers do not publish a generation without blob
\* changes while the image on disk is from a generation that was abandoned.
ImageMayStay == "abandoned_image" \in Known \/ dir.image = NoFile \/ dir.image.gen <= gen

\* Without "lagging_image", callers rewrite blobs only when the image on disk
\* is of the current generation.
ImageMayMove ==
    \/ Segmented \/ dir.image = NoFile \/ dir.image.gen = gen
    \/ dir.image.gen < gen /\ "lagging_image" \in Known
    \/ dir.image.gen > gen /\ "abandoned_image" \in Known

\* flush with pending mutations: publish_generation
StartFlush ==
    /\ Idle /\ muts # <<>>
    /\ Segmented \/ blobDirty \/ ImageMayStay
    /\ job' = [todo |-> CommitSteps(blobDirty), maint |-> FALSE]
    /\ mgr' = IF Segmented \/ blobDirty THEN NextGen(mgr) ELSE mgr
    /\ UNCHANGED <<layout, tree, muts, blobDirty, gen, st, call, view, fileVars, boundVars>>

Maintain == Idle /\ muts = <<>> /\ maints < MaxMaint /\ maints' = maints + 1

\* compact, when it relocated a page.
StartCompact ==
    /\ Maintain
    /\ Segmented \/ ImageMayStay
    /\ job' = [todo |-> CompactSteps, maint |-> TRUE]
    /\ mgr' = IF Segmented THEN NextGen(mgr) ELSE mgr
    /\ UNCHANGED <<layout, tree, muts, blobDirty, gen, st, call, view, fileVars,
                   nextVal, crashes>>

\* The values of the tree copied record by record behind those of base.
CopyValues(base) ==
    FoldLeft(LAMBDA s, k :
               IF tree[k].ptr = <<>> THEN s
               ELSE LET m == AppendRec(s.mgr, ReadRec(mgr.files, tree[k].ptr))
                    IN  [tree |-> [s.tree EXCEPT ![k].ptr = LastPtr(m)], mgr |-> m],
             [tree |-> tree, mgr |-> base], [k \in Keys |-> k])

StartRewrite(s) ==
    /\ tree' = s.tree /\ mgr' = NextGen(s.mgr)
    /\ job' = [todo |-> RewriteSteps, maint |-> TRUE]

\* vacuum: a fresh tree and fresh blobs.
StartVacuum ==
    /\ Maintain /\ ImageMayMove
    /\ (Segmented /\ mgr.files # <<>>) => "segmented_vacuum" \in Known
    /\ StartRewrite(CopyValues(EmptyMgr))
    /\ UNCHANGED <<layout, muts, blobDirty, gen, st, call, view, fileVars, nextVal, crashes>>

\* gc returns at once while anything is retained.
StartGc ==
    /\ Maintain /\ view = NoView /\ ImageMayMove
    /\ call' = "sweep"
    /\ UNCHANGED <<handleVars, st, job, view, fileVars, nextVal, crashes>>

\* blobs.gc(), and its publication: the image in place, or a generation.
Sweep(stage, then) ==
    /\ st = "open" /\ job = NoJob /\ call = stage /\ call' = then
    /\ LET m == WithoutFiles(mgr, FullyDead(mgr))
       IN  IF FullyDead(mgr) = {} THEN UNCHANGED <<mgr, tree, job>>
           ELSE IF Segmented THEN StartRewrite([tree |-> tree, mgr |-> m])
           ELSE /\ mgr' = m /\ UNCHANGED tree
                /\ job' = [todo |-> <<"image">>, maint |-> TRUE]
    /\ UNCHANGED <<layout, muts, blobDirty, gen, st, view, fileVars, boundVars>>

\* rewrite_mixed_blob_files: live values move to a new file and every record
\* before it is marked dead; the final sweep follows.
RewriteMixed ==
    /\ st = "open" /\ job = NoJob /\ call = "rewrite"
    /\ LET m == [BeginFile(mgr) EXCEPT !.dead = AllRecs(mgr)]
           wanted == \/ \E f \in DOMAIN mgr.files : NeedsGc(mgr, f)
                     \/ Segmented /\ mgr.saved /\ mgr.deltas >= MaxDeltas
       IN  IF wanted /\ (\E k \in Keys : tree[k].ptr # <<>>)
           THEN StartRewrite(CopyValues(m)) /\ call' = "final"
           ELSE UNCHANGED <<mgr, tree, job>> /\ call' = "none"
    /\ UNCHANGED <<layout, muts, blobDirty, gen, st, view, fileVars, boundVars>>

-----------------------------------------------------------------------------
(* The steps of a publication. *)

At(step) == st = "open" /\ job # NoJob /\ Head(job.todo) = step

Rest(todo) == IF todo = <<>> THEN NoJob ELSE [job EXCEPT !.todo = todo]

Advance == job' = Rest(Tail(job.todo))

EnterForced(d) == dir' = d /\ dirOld' = {}

\* An entry changes; until the directory is forced a power loss may undo it.
\* No directory sync orders the entries of a maintenance generation before
\* its frame; without "unforced_entry" the file system does.
Enter(d) ==
    IF job.maint /\ "unforced_entry" \notin Known THEN EnterForced(d)
    ELSE dir' = d /\ dirOld' = dirOld \cup ({dir} \ {d})

\* write_blob_image: the new image replaces the old one, and the directory is
\* forced before anything else happens.
WriteImage ==
    /\ At("image") /\ Advance
    /\ EnterForced([dir EXCEPT !.image = Image(mgr)])
    /\ UNCHANGED <<handleVars, st, call, view, seg, segOld, delta, deltaOld, auth, soft, wal,
                   boundVars>>

\* publish_blob_rewrite_generation keeps the old artifact as the backup.
SetAside ==
    /\ At("setaside") /\ Advance
    /\ IF dir.image = NoFile THEN Enter([dir EXCEPT !.backup = NoFile])
       ELSE EnterForced([dir EXCEPT !.backup = dir.image, !.image = NoFile])
    /\ UNCHANGED <<handleVars, st, call, view, seg, segOld, delta, deltaOld, auth, soft, wal,
                   boundVars>>

\* segmented_catalog_consolidation_needed, asked before the backup is made:
\* the later steps find the catalog moved away.
Consolidate == dir.image = NoFile \/ (mgr.saved /\ mgr.deltas >= MaxDeltas)

\* prepare_segment_catalog_backup
PrepareBackup ==
    /\ At("backup") /\ Advance
    /\ IF ~Consolidate \/ dir.backup # NoFile THEN UNCHANGED <<dir, dirOld>>
       ELSE IF dir.image # NoFile
       THEN EnterForced([dir EXCEPT !.backup = dir.image, !.image = NoFile])
       ELSE EnterForced([dir EXCEPT !.backup = Catalog([EmptyMgr EXCEPT !.gen = auth.gen])])
    /\ UNCHANGED <<handleVars, st, call, view, seg, segOld, delta, deltaOld, auth, soft, wal,
                   boundVars>>

Frontier(f) == IF f \in DOMAIN mgr.plen THEN mgr.plen[f] ELSE 0

Grown == {f \in DOMAIN mgr.files : Len(mgr.files[f]) > Frontier(f)}

OnDisk(f) == IF f \in dir.segs THEN seg[f] ELSE <<>>

\* Faulty variant: appends behind whatever the segment already holds.
SuffixedAtEnd(f) == OnDisk(f) \o SubSeq(mgr.files[f], Frontier(f) + 1, Len(mgr.files[f]))

\* write_segment_suffixes, one segment: what lies behind the catalog frontier
\* is cut off and replaced.
Suffixed(f) ==
    SubSeq(OnDisk(f), 1, Frontier(f))
    \o SubSeq(mgr.files[f], Frontier(f) + 1, Len(mgr.files[f]))

WriteSegments ==
    /\ At("segs") /\ Advance
    /\ seg' = [f \in Grown |-> Suffixed(f)] @@ seg
    /\ segOld' = [f \in Grown |-> IF f \in dir.segs THEN segOld[f] ELSE <<>>] @@ segOld
    /\ Enter([dir EXCEPT !.segs = @ \cup Grown])
    /\ UNCHANGED <<handleVars, st, call, view, delta, deltaOld, auth, soft, wal, boundVars>>

SyncSegments ==
    /\ At("segsync") /\ Advance
    /\ segOld' = seg
    /\ UNCHANGED <<handleVars, st, call, view, dir, dirOld, seg, delta, deltaOld, auth, soft,
                   wal, boundVars>>

\* publish_segment_catalog: a full catalog renamed into place, or a frame
\* behind the log's frames up to the persisted generation.
WriteCatalog ==
    /\ At("catalog") /\ Advance
    /\ IF Consolidate
       THEN /\ Enter([dir EXCEPT !.image = Catalog(mgr)])
            /\ mgr' = Captured(mgr, 0) /\ UNCHANGED delta
       ELSE /\ delta' = Append(Through(IF dir.delta THEN delta ELSE <<>>, mgr.pgen), Delta(mgr))
            /\ Enter([dir EXCEPT !.delta = TRUE])
            /\ mgr' = Captured(mgr, mgr.deltas + 1)
    /\ UNCHANGED <<layout, tree, muts, blobDirty, gen, st, call, view, seg, segOld, deltaOld,
                   auth, soft, wal, boundVars>>

SyncCatalog ==
    /\ At("catsync") /\ Advance
    /\ deltaOld' = delta
    /\ UNCHANGED <<handleVars, st, call, view, dir, dirOld, seg, segOld, delta, auth, soft, wal,
                   boundVars>>

\* sync_publication_directory
SyncDirectory ==
    /\ At("dirsync") /\ Advance
    /\ dirOld' = {}
    /\ UNCHANGED <<handleVars, st, call, view, dir, seg, segOld, delta, deltaOld, auth, soft,
                   wal, boundVars>>

\* The commit record, unforced under the default policy.
AppendCommit ==
    /\ At("commit") /\ Advance
    /\ wal' = [gen |-> gen + 1, muts |-> muts]
    /\ UNCHANGED <<handleVars, st, call, view, dir, dirOld, seg, segOld, delta, deltaOld, auth,
                   soft, boundVars>>

\* append_generation_meta: the authority frame is written, then forced.
AppendFrame ==
    /\ At("frame") /\ Advance
    /\ soft' = [gen |-> gen + 1, tree |-> tree]
    /\ UNCHANGED <<handleVars, st, call, view, dir, dirOld, seg, segOld, delta, deltaOld, auth,
                   wal, boundVars>>

ForceFrame ==
    /\ At("force") /\ Advance
    /\ auth' = soft /\ wal' = NoWal
    /\ UNCHANGED <<handleVars, st, call, view, dir, dirOld, seg, segOld, delta, deltaOld, soft,
                   boundVars>>

\* prune_unreferenced_blob_segments; a view keeps its open descriptors.
Prune ==
    /\ At("prune") /\ Advance
    /\ LET gone == dir.segs \ DOMAIN mgr.files
       IN  /\ IF gone = {} THEN UNCHANGED <<dir, dirOld>>
              ELSE EnterForced([dir EXCEPT !.segs = @ \ gone])
           /\ view' = [view EXCEPT !.live = @ \ gone,
                                   !.files = @ @@ [f \in view.live \cap gone |-> seg[f]]]
    /\ UNCHANGED <<handleVars, st, call, seg, segOld, delta, deltaOld, auth, soft, wal,
                   boundVars>>

\* finish_segment_catalog_backup removes the backup, then the delta log; in
\* the whole layout only the backup of a rewrite is removed.
RemoveBackup ==
    /\ At("unbackup")
    /\ LET kept == [dir EXCEPT !.backup = NoFile]
       IN  IF ~Segmented THEN EnterForced(kept) /\ Advance
           ELSE IF dir.backup = NoFile
           THEN UNCHANGED <<dir, dirOld>> /\ job' = Rest(Tail(Tail(job.todo)))
           ELSE Enter(kept) /\ Advance
    /\ UNCHANGED <<handleVars, st, call, view, seg, segOld, delta, deltaOld, auth, soft, wal,
                   boundVars>>

RemoveDelta ==
    /\ At("undelta") /\ Advance
    /\ EnterForced([dir EXCEPT !.delta = FALSE])
    /\ UNCHANGED <<handleVars, st, call, view, seg, segOld, delta, deltaOld, auth, soft, wal,
                   boundVars>>

\* The generation becomes current in the handle.
Finish ==
    /\ At("finish") /\ Advance
    /\ gen' = gen + 1 /\ muts' = <<>> /\ blobDirty' = FALSE
    /\ UNCHANGED <<layout, tree, mgr, st, call, view, fileVars, boundVars>>

JobStep ==
    \/ WriteImage \/ SetAside \/ PrepareBackup \/ WriteSegments \/ SyncSegments
    \/ WriteCatalog \/ SyncCatalog \/ SyncDirectory \/ AppendCommit \/ AppendFrame
    \/ ForceFrame \/ Prune \/ RemoveBackup \/ RemoveDelta \/ Finish

-----------------------------------------------------------------------------
(* Crashes and reopen. *)

\* The directories and segments a power loss may leave.
DirSurvivors == {dir} \cup dirOld

SegSurvivors ==
    {[f \in DOMAIN seg |-> IF f \in lost THEN segOld[f] ELSE seg[f]] :
        lost \in SUBSET {f \in DOMAIN seg : seg[f] # segOld[f]}}

Survivors == {Disk(d, s, l) : d \in DirSurvivors, s \in SegSurvivors, l \in {delta, deltaOld}}

\* Without "delta_leftover", no crash falls between the removal of the backup
\* and that of a delta log there is.
MayStop == (At("undelta") /\ dir.delta) => "delta_leftover" \in Known

Stop ==
    /\ MayStop /\ crashes < MaxCrash /\ crashes' = crashes + 1
    /\ st' = "closed" /\ job' = NoJob /\ call' = "none" /\ view' = NoView
    /\ tree' = EmptyTree /\ mgr' = EmptyMgr /\ muts' = <<>> /\ blobDirty' = FALSE
    /\ gen' = 0
    /\ UNCHANGED <<layout, nextVal, maints>>

\* The process ends (or an error fenced the handle and it was dropped).
ProcessCrash ==
    /\ Stop /\ st = "open"
    /\ auth' = soft
    /\ UNCHANGED <<dir, dirOld, seg, segOld, delta, deltaOld, soft, wal>>

PowerLoss ==
    /\ Stop
    /\ dir' \in DirSurvivors /\ seg' \in SegSurvivors /\ delta' \in {delta, deltaOld}
    /\ auth' \in {auth, soft} /\ wal' \in {wal, NoWal}
    /\ dirOld' = {} /\ segOld' = seg' /\ deltaOld' = delta' /\ soft' = auth'

\* open: blobs loaded as r, then the WAL replayed as s.
OpenAs(r, s) ==
    LET ahead == wal.gen > auth.gen
    IN  /\ r.ok
        /\ st' = "open" /\ gen' = auth.gen
        /\ tree' = s.tree /\ blobDirty' = s.changed
        /\ muts' = IF ahead THEN wal.muts ELSE <<>>
        /\ mgr' = IF ahead /\ (Segmented \/ s.changed)
                  THEN [s.mgr EXCEPT !.gen = wal.gen] ELSE s.mgr
        /\ job' = IF ahead THEN [todo |-> RecoverySteps(s.changed), maint |-> FALSE]
                  ELSE NoJob
        /\ IF r.dir = dir THEN UNCHANGED <<dir, dirOld>> ELSE EnterForced(r.dir)

Open ==
    /\ st = "closed"
    /\ \E r \in {Load(Disk(dir, seg, delta), auth.gen)} : OpenAs(r, Replay(r.mgr, auth, wal))
    /\ UNCHANGED <<layout, call, view, seg, segOld, delta, deltaOld, auth, soft, wal, boundVars>>

Init ==
    /\ layout \in Layouts
    /\ st = "open" /\ tree = EmptyTree /\ mgr = EmptyMgr /\ muts = <<>>
    /\ blobDirty = FALSE /\ gen = 0 /\ job = NoJob /\ call = "none" /\ view = NoView
    /\ dir = [image |-> NoFile, backup |-> NoFile, delta |-> FALSE, segs |-> {}]
    /\ dirOld = {} /\ seg = <<>> /\ segOld = <<>> /\ delta = <<>> /\ deltaOld = <<>>
    /\ auth = [gen |-> 0, tree |-> EmptyTree] /\ soft = auth /\ wal = NoWal
    /\ nextVal = 1 /\ maints = 0 /\ crashes = 0

Next ==
    \/ \E k \in Keys, big \in BOOLEAN, val \in {0, nextVal} : Mutate(k, big, val)
    \/ PutTooWide \/ BeginView \/ EndView
    \/ StartFlush \/ StartCompact \/ StartVacuum \/ StartGc
    \/ Sweep("sweep", "rewrite") \/ RewriteMixed \/ Sweep("final", "none")
    \/ JobStep
    \/ ProcessCrash \/ PowerLoss \/ Open

Spec == Init /\ [][Next]_vars

-----------------------------------------------------------------------------
(* Properties. *)

Reads(t, files) ==
    \A k \in Keys : t[k].ptr # <<>> => ReadRec(files, t[k].ptr) = t[k].val

\* Whatever a crash leaves, open() accepts it, and every pointer of the tree
\* it arrives at, with the WAL replayed or not, reads the value that was put.
BlobsSurvive ==
    \A k \in Survivors \cup {Disk(dir, seg, delta)}, a \in {auth, soft}, w \in {wal, NoWal} :
        \E r \in {Load(k, a.gen)} :
            r.ok /\ \E s \in {Replay(r.mgr, a, w)} : Reads(s.tree, s.mgr.files)

\* gc may drop a file whose records are all dead without looking at the tree:
\* no record that the tree points to carries a deletion mark, in memory or in
\* the artifact the next open() would trust, and no mark is left for a record
\* that is gone.
LiveNotDead ==
    st = "open" =>
        /\ mgr.dead \subseteq AllRecs(mgr)
        /\ \A k \in Keys : tree[k].ptr \notin mgr.dead
        /\ job = NoJob => \A k \in Keys :
              auth.tree[k].ptr \notin Load(Disk(dir, seg, delta), auth.gen).mgr.dead

\* A ReadView reads the values of its generation until it is dropped, through
\* the descriptors it opened, whatever is published meanwhile.
ViewReads ==
    view # NoView =>
        Reads(view.tree, [f \in view.live |-> seg[f]] @@ view.files)

\* The catalog frontier is what the segments hold: the next suffix goes
\* exactly behind it, and a reopen finds the same files, marks and chain.
FrontierAgrees ==
    (st = "open" /\ Segmented) =>
        /\ \A f \in DOMAIN mgr.files :
              /\ Frontier(f) <= Len(mgr.files[f])
              /\ Frontier(f) > 0 => f \in dir.segs
              /\ IsPrefix(SubSeq(mgr.files[f], 1, Frontier(f)), OnDisk(f))
        /\ (Idle /\ muts = <<>> /\ mgr.saved) =>
              \E m \in {Load(Disk(dir, seg, delta), auth.gen).mgr} :
                  /\ m.files = mgr.files /\ m.dead = mgr.dead
                  /\ m.plen = mgr.plen /\ m.pgen = mgr.pgen
                  /\ dir.backup = NoFile => m.deltas = mgr.deltas
=============================================================================
