# SeerDB in TLA+

SeerDB is an embedded, durable, ordered key-value engine with one writer per
database. This directory holds a TLA+ development of the parts of it whose
correctness depends on order: what is written, what is forced, what a crash
leaves behind, and what other threads may do in the middle. Paths below are
relative to the crate's `src/`.

## The system and its parts

| Part | Code | Modelled in |
| --- | --- | --- |
| Commit path, envelopes, WAL admission, close | `db.rs`, `db/{publication,envelope,batch,single_write,durability,wal_admission,lifecycle,invariants}.rs` | `Publication`, `WalRecovery`; promise in `PublicationProperties` and `DurableStore`, with proofs |
| Open and WAL recovery | `db/{open,open_catalog,open_components,wal_recovery}.rs` | `WalRecovery`, `Publication`, `Reclamation` |
| Out-of-place pages, free list, relocation, truncation | `storage/{flush,reclamation,materialization,mod}.rs`, `mvcc/pmt.rs` | `Reclamation` and its proofs |
| Compaction, vacuum, history pruning | `db/{compaction,vacuum,history_prune}.rs` | `Publication` (generations), `Reclamation` (slots), `BlobPublication` (blob files), `MetaLog` and `Retention` (pruning), `TreeStore` (the row copy of a vacuum) |
| Read views, retained roots, snapshots, transactions | `db/{read_view,retention*,snapshot,transaction}.rs`, `storage/retention_format.rs` | `Retention` (registry, sidecars, leases), `Reclamation` (the slots they protect) |
| Separated blob values, both layouts | `blob/*`, `db/{blob_*,segmented_blob_publication}.rs` | `BlobPublication` |
| Metadata log: full/delta chain, torn tail, pruning | `db/{metadata,metadata_codec}.rs`, `storage/{format,manifest_history}.rs`, `allocator.rs` | `MetaLog` |
| B-tree and the logical store around it | `btree/*`, `storage/{materialization,lazy_read}.rs`, `db/{mutation,batch,vacuum}.rs` | `BTree` (operators), `TreeStore` |
| Buffer manager | `buffer/*` | `BufferPool` and its proofs |
| Page reads and page flush | `storage/{read_path,page_cache,flush}.rs` | `ReadPath` and its proofs |
| Verification | `storage/verification.rs`, `btree/node/page_format.rs` | `BTree` (`VerifyTree`, `ValidLayout`), applied to every published tree of `TreeStore` |
| Diagnostics, archive, version latch | `db/{diagnostics,reports,archive}.rs`, `concurrency/latch.rs` | no: read-only, a one-shot copy, unused |
| Options, errors, fault hooks, examples, benches, fuzz targets, tools | | no: data, instrumentation, drivers |

A mutation goes into the live tree and into the WAL buffer. `flush` (or a
batch, or `publication_barrier` for a group of envelopes) writes the WAL
buffer, writes dirty pages into free slots of the data file, forces them,
writes the commit record, appends an authority frame to the metadata log and
forces it. The newest complete frame is what `open` selects; commits in the
WAL that are ahead of it are replayed and published. With `wal_first_commits`
a forced commit record already acknowledges, and pages and frame follow at the
next materialisation. Slots superseded by a frame become free only after it is
forced, unless a view or a retained root still names them.

## Modules

### WalRecovery and Publication

`WalRecovery` holds what `open` reads off the files, as operators: the
validation of the commit envelopes against the authority frame (`AnalysisOK`),
the cut behind the last envelope (`Reconciled`) and the replay (`Replayed`).

One handle (`struct DB`) and its files. Variables follow the fields: `tree`,
`pend` (`pending_mutations`), `envs` (`pending_envelopes`), `buf` (the WAL
manager's buffer), `gen`, `cid`, `nextGen`, `nextCid`, `unframed`
(`unframed_wal_bytes`), `reserved` (`wal_reserved_extent`), `fd`
(`wal_handle`), `latest` (`manifest_history.latest()`). The files are `wal`
and `log` with their forced prefixes, and the contents whose pages are durable
(`data`) or only cached (`cached`). A public call starts a job: the list of
steps `Steps(kind, sync)` its publication path makes (`db/publication.rs`,
`db/envelope.rs`), one action per step, so that a crash, an I/O error
(`Fail`) or a refusal (`Refuse`) can fall between any two. `Open` models
selection, reconciliation and replay; the recovery publication is again a job.

Data: a mutation is a number, a content is the sequence of mutations applied.
The mutation count and digest in a commit envelope are the sequence they cover.
`PublicationProperties` states the properties and the refinement mapping; its
runs are of that module.

### DurableStore

The promise, without files: `may` is the set of contents a crash and reopen
could reveal, `acked` what was reported durable. Attempts add one longer
content, forcing and crashes rule contents out, and a content is acknowledged
only when it is the only one left. `Publication` implements it with `may`
mapped to `Outcomes`, the contents `open` arrives at over all survivors of a
power loss.

### Reclamation

The storage engine's slots: `pmt` (active mapping), `free`, `pending`, `rsv`
(`rebuild_reserved_offsets`), `prot` (`protected_offsets`), `dirty`
(`reclamation_dirty`), the data file as cached (`dev`) and as forced (`disk`),
and the authority log. The writer's operations are phases: protected-set
snapshot, free-list store, page writes one by one, data sync, frame, frame
sync, completion; compaction plans, copies, forces, publishes and truncates.
A flush or vacuum is admitted first (`Admit`, `Room`: `preflight_flush_capacity`);
the write loop takes slots without asking the capacity again, so that admission
counts what the loop will use is a property (`GenerationFits`).
Pins (views, leases, durable roots) are dropped by other threads between any
two phases. A page image is who wrote it: page, stamped generation, attempt.

`ReclamationProofs` holds the inductive invariant and its proof.

### BlobPublication

Values above `blob_threshold` live outside the tree. `mgr` is `BlobManager`
with its `SegmentCatalogState` (`plen`, `pdead`, `pgen`, `deltas`), `tree` the
live tree's values and pointers. The files are the directory entries (`dir`:
image or catalog, backup, delta log, segments), the segments and the delta
log, each as read and as forced; `dirOld` holds the directories a power loss
may fall back to. A publication is again a list of steps: `CommitSteps`,
`RewriteSteps` (gc, vacuum), `CompactSteps`, `RecoverySteps`, for both
layouts. `gc()` is a sweep, a rewrite of mixed files and a final sweep.
`Load` is what `open` makes of the files: backup recovery, the catalog's delta
chain, and which deletion marks are trusted; `Replay` applies the WAL.

The constant `Known` names six situations in which the code loses data or the
store (see the table of disagreements). `blob_core` excludes them, each by a
guard marked in the module that is no wider than the fault: a too-wide key is
left out only where it would be the first record of a new segment, a stop
between the two removals only where a delta log exists. Restricted to the default commit path.

### Retention

Roots that outlive their commit. `rs` holds the `RetentionState` of the last
`open` and those of earlier ones that a lease still shares (`Referenced`), with
registry, roots in memory and id counters, because a lease gives its root back
to the state that issued it; `lease` holds the callers' handles
(`ReadView`, `BatchTransaction`, `RetainedSnapshot`), `named` the ids
`retain_commit` returned. `reg`, `side` and `tmp` are the registry file, the
sidecars and the shared temporary `seerdb.tmp`. A call of the writer (`job`)
publishes first, then writes a sidecar, checks the root, writes and renames
the registry; a removal (`rel`) runs on any thread between these steps. The
store underneath is one key with a separated value: commit *c* puts the value
*c*, so that what a root reads tells which commit it stands for.

### MetaLog

`Publication` treats an authority frame as the content it stands for. Here a
frame is a full checkpoint of page mapping table and allocator or a delta over
its parent (`Checkpoint`, `Delta`), and `Resolved` recomputes every table from
the chain as `resolve_meta_log` does. `frontier` is the cached view
`append_generation_meta` trusts for one file length, `hist` the manifest
history. `Prune` is `prune_history` with the rewritten file; until the
directory is forced a power loss may bring the old one back (`shadow`).
`published` records the table each frame was written for.

In both modules `Known` names situations in which the code breaks a property
(table below); the `_core` runs exclude them, each by a guard that says so.

### BTree and TreeStore

`BTree` is `btree/` as pure operators. A tree is `[nodes, root, dirty, next]`;
a page outside `DOMAIN nodes` is a slot that is not resident. A node is its
sequence of entries with its parent hint; `UsedBytes` accounts for header,
slots and entries to the byte, because whether a put fits, splits or is refused
depends on it. `Split` splits by entry count, `ParentOf` trusts the hint if the
parent it names references the child and otherwise walks (`FindParent`),
`CursorNext` is the forward cursor. `ValidLayout` and `VerifyTree` are the page
and tree checks of `verify()`. Keys are naturals in byte order with their
lengths in `KeyLen`, values carry a length and an identity.

`TreeStore` puts a store around it: `tree` is `StorageEngine::btree` (sparse
after a reopen), `lazy` whether `lazy_root` backs the reads, `pub` the published
pages, `vac` the candidate and cursor of a resumable vacuum, `res` the last
call's error. `map`, `saved` and `journal` are the reference: an ordered map of
the accepted mutations, the same at the last publication, and what came after.
One `&mut` handle serialises the calls, so an action is one public call: `Mutate`
(put and delete), `CommitBatch`, `Flush`, `Reopen` (clean or with a replay),
`StartVacuum`, `VacuumStep`, `CancelVacuum`. Reads are operators over the state,
one per route of the code (`LookupLazy`, `RangeLazy`, `Overlay`).

### BufferPool and ReadPath

`BufferPool` is `buffer/`: `key`, `state`, `data`, `ref` are the fields of a
frame, `map` the page map, `hand` the clock, `free` the statistic; `guard` and
`tokens` are what clients hold. Calls are atomic under the owner's mutex, except
that a guard is dropped at any time and the clock sweep inspects one frame per
step, so guards vanish under it. A cache key is `<<page, version>>`; version 0
is the staging key.

`ReadPath` uses the pool as the engine does. A reader (`rd`) goes through the
parsed cache, residency check, device read, fetch, copy and parse, releasing the
mutex where the code does. A flush (`fl`) stages, fills, hands out and writes
page by page, syncs, completes and rekeys, then retires the old versions; it
streams when the generation is larger than the pool, and fails at any device
call. It has the handle to itself (`&mut self`). A `DB` whose flush failed fences
reads and writes until it is reopened (`db/lifecycle.rs:47-69`); the public
`StorageEngine` has no such fence, and its tests retry a failed flush
(`storage/mod_tests.rs:158,197`). `ReadPath` is the engine: reads go on after a
failed flush, may meet the dirty frames it left and be refused (`RefuseRead`),
and the flush may be retried. A reader's device read may fail too. The image of a page
version is its cache key, so "the right bytes" is equality with the key; the
checksum rejects zeros and nothing else.


## Runs

| Run | What it shows |
| --- | --- |
| `publication_default` | Default path, both `sync_writes` settings, crashes, one failure or refusal, failing close: `AckedSurvives`, `RecoveryAccepts`, `CommitBoundary`, `HandleAgreesWithDisk`, `RefusedGroupRestored`, the refinement `StoreSpec`, and `ReopenConverges`. |
| `publication_wal_first` | `RecoveryAccepts`, `HandleAgreesWithDisk` and `StoreSpec` for WAL-first commits with a materialisation bound, for callers that run `publication_barrier` before `flush`, `close` and `compact`. |
| `reclamation_core` | Flush, gc, vacuum, compaction, a view or root, failures, crashes: `AuthorityIntact`, `PinsIntact`, `SlotsDisjoint`, and `GenerationFits`: no admitted generation runs out of slots. |
| `reclamation_late` | `retain_commit` of superseded commits, no rebuilds: `LateRootIntact`. |
| `blob_core` | Both blob layouts with puts, deletes, too-wide keys (not as the first record of a segment), gc, vacuum, compaction, a view, two crashes: `BlobsSurvive`, `LiveNotDead`, `ViewReads`, `FrontierAgrees`. |
| `blob_lagging_image` | Violation of `BlobsSurvive`: a rewrite sets aside an image older than the manifest and the reopen removes it. |
| `retention_core` | Named roots, snapshots, transactions, views against commits, gc, vacuum, pruning, failing registry and sidecar writes, crash, close and reopen: `OpenAccepts`, `RootsStay`, `RootsReadable`, `TxReadsBase`, `SidecarsOwned`. |
| `metalog_core` | Full and delta frames, vacuum, refusals, torn appends, pruning, crashes: `AckedKept`, `GenerationsResolve`, `FrontierAgrees`, `FallbackOpens`, `VersionsUnique`. |
| `treestore_core` | Puts, overwrites, deletes and a batch on a tree of three levels, half unloaded after reopens, with publication, replay and a resumable vacuum: `ReadsAgree`, `PublishedComplete`, `TreeSound`, `ReplayAgrees`, `VacuumExact`, `RefusalKeepsTree`. |
| `treestore_stale_hint` | Violation of `NoMissingPage`: a put is refused because the structural walk meets a page that is not loaded. |
| `readpath_core` | Two readers and a flush over a pool of two frames, with a failing device read, write or sync, reads after a failed flush, and a retry: `NoWrongPage`, `PoolHasRoom`, `StagedCurrent`, `FramesOwned`, `DirtyKept`. |
| `readpath_shared_reads` | Violation of `ReadsSucceed`: a page seen resident is evicted by another reader before the fetch, which then loads zeros under its key. |

Deadlock is checked in `treestore_core` and `readpath_core`, where a reader or
a flush stuck in the pool would show. It is off in the others: a behaviour ends
when its bounds (mutations, crashes, maintenance calls) are used up, and a
caller may stop.

### Bounds

`Publication`: three mutations and batches of two give a batch beside a single
put, two generations beyond the bootstrap and a WAL holding envelopes of
several generations; `ReclaimLen` = 3 lets the retained WAL be reclaimed;
two crashes allow one inside the recovery of the other; one fault and one
maintenance generation meet each of these. `Reclamation`: two pages and five
slots leave one slot to spare when a vacuum keeps both mappings, so reuse,
refusal and truncation all happen; three operations are flush, rebuild and
flush again. The proofs remove these bounds for both.
`BlobPublication`: three mutations of two keys give a mixed, a fully dead and a
full file (`SegLen` = 2); `MaxDeltas` = 2 lets the delta chain reach its limit
and be consolidated; two crashes put one after the recovery of the other; one
maintenance call meets each of these. `Retention`: two commits and two
maintenance calls let pruning or a rewrite remove what an older root needs;
two registrations and one lease give a named root beside a handle, or a second
id after the first; one reopen after either. `MetaLog`: with `MaxChain` = 2
(64 in the code) four publications make a full frame, two deltas and the
consolidating full frame; two prunes can drop an ancestor's siblings and then
its fallback; two crashes put a torn append before another. `TreeStore`: keys
of 1900 bytes let two entries fill a leaf, one pair of them to its last byte, and two separators an internal page,
so a batch of five and two more puts split a leaf, an internal page and the
root; an overwrite outgrows its page; `MaxJournal` = 2 bounds what a replay
applies. A larger instance (`Deletable = {2, 5}`, `MaxJournal = 3`, 365,617
states) was also checked once. `ReadPath`: three pages over two frames make
every fetch a possible eviction; generations of one, two and three pages are
below, at and above the pool's capacity; three versions leave room for a failed
flush and its retry. The proofs remove the bounds of `Retention` and `ReadPath` too.

### Fairness

Only `ReopenConverges` uses it: weak fairness of the job steps and of `Open`.
A publication is a straight-line function of the calling thread, so its next
step runs unless the process stops or the step fails; a caller of a crashed
store opens it again. Crashes and failures are bounded, not fair.

## Proofs

### The promise

`DurableStoreProofs` proves `PromiseKept` (`Spec => []AckedKept`) and
`AcksOnlyGrow` for any number of mutations. The invariant adds only that
contents are sequences and that some outcome is left; the argument is that an
attempt extends an outcome, which extends what is acknowledged.

### The commit path

`PublicationProofs` proves, for any number of mutations, batches, generations,
maintenance calls, crashes and faults, and any batch size, WAL bound and
reclaim length:

- `AckedAlwaysSurvives` (`AckedSurvives`), `RecoveryAlwaysAccepts`
  (`RecoveryAccepts`), `CommitBoundaryHolds` (`CommitBoundary`),
  `HandleAlwaysAgrees` (`HandleAgreesWithDisk`);
- `RefusedGroupsRestored` (`RefusedGroupRestored`), for handles without
  `wal_first_commits` (with them it is false, see the disagreements);
- `ImplementsDurableStore` (`Spec => StoreSpec`): every step maps to a step of
  `DurableStore` or to a stutter, so that its promise holds of the code's
  commit path.

All six assume `Regime`: `WrittenBack` (below), and for a WAL-first handle that
the caller drains its envelopes before `flush`, `close` and `compact`
(`DrainFirst`) and that `close` does not fail at its directory sync. Each part
is needed: dropping it gives one of the disagreements listed below.

The properties quantify over everything a crash may leave, so none is inductive.
The invariant `IInv` (module `PublicationInvariant`) has four parts:

- `DiskInv`: the metadata log ascends and at most one frame is unforced; the WAL
  `Fits` both the forced frame and the newest one, that is, its envelopes cover
  their mutations, ascend in generation and commit id, agree with both frames,
  and none is past an unforced frame; both frames' pages are durable; every
  content in `Reach` extends `acked` and is a commit boundary. `Reach` is what
  the prefixes of the WAL from the forced one on replay to over the forced
  frame, and the content of an unforced frame;
- `TypeInv`: types, and that the steps left of a job are the end of its list;
- `CallInv`: which jobs run for which calls, and what each implies of pending
  mutations, envelopes, the reservation and the WAL descriptor;
- `RunInv`, for a running handle: `FrameInv` (the frames it believes in are those
  of the log), `TreeInv` (its tree is the replay of the WAL plus what only memory
  holds), `IdInv` (its next identities are above all identities in the files),
  `JobPagesInv` (how far the pages of the job are).

The induction has one lemma per action, in `PublicationSteps` (the steps of a
running publication and `open`) and `PublicationProofs` (calls, errors, crashes).
Each also shows which of three things the action does to `Reach`: settle it,
add one longer content, or acknowledge the only one left. `Reads` shows that
`Outcomes`, what `open` computes from all survivors, equals `Reach`; with it the
three effects are the three actions of `DurableStore`. `GroupInv` carries the
refused group. What `Replayed` computes from logs of any length is proved by
induction over sets of naturals (`LeastNat`, `NatInduct`, from the
well-foundedness of `<`), since `replay` is a recursive function: what an
appended envelope, a lost suffix and the cut of the tail do to it are lemmas of
`PublicationInvariant`. `IInv` was model-checked on the instances of both runs
first.

### Slots

`ReclamationProofs` proves, for every set of pages, device size, set of pins
and number of operations and crashes, and assuming `WrittenBack` (see below):
`GenerationsFit`, `AuthoritySafe`, `PinsSafe` and `ListsDisjoint`, each
`Spec => []P` for the property of the same subject that `reclamation_core`
checks. None is inductive alone: that recovery's slots are not overwritten
depends on what the free list may contain, which depends on what a refresh in
flight has seen of the protected set, which other threads shrink meanwhile;
that the write loop finds slots depends on what admission counted and on what
the loop has used since. `IInv` adds to the types:

- `AuthInv`, `PinInv`: every root recovery or a pin may read is intact in the
  cache (and on disk), inside the file and outside the free list;
- `ProtInv`: leases and durable roots are in `prot`, and in the copy a refresh
  or `set_protected_offsets` in flight carries (`stash`); views in the copy of
  a refresh;
- `PhaseInv`: in which phases the mapping is the published one, the frame is
  forced, the caches are clean; and that the pages still to be written are at
  most the free slots and the room left at the end of the file (lemma
  `WriteFits`);
- `SlotInv`: the lists are disjoint, `next` is the file size, retired slots
  are out of the free list;
- `MoveInv`: a relocation's copies are injective, free and readable;
- `GoodInv`: a mapped page's image is a real one.

There is one lemma per action; `MovesInjective` (compaction's plan never uses
a page or a target twice) rests on cardinalities of finite sets.

`LateRootsSafe` (`LateRootIntact`) is about `retain_commit` of a superseded
commit, whose slots were free to be reused before: it is accepted by the page
headers alone. The invariant `LateInv` says why that is enough. `StampInv`: a
slot of an old manifest whose header is not newer than the manifest still holds
its page, on the device and on disk. `FollowInv`: the page tables only move
forward, so a page written later carries a later generation. `ForcedInv`: outside
the write and copy phases cache and disk agree. `LatePins`: from the check on, no
one takes the slots. It assumes that there is no gc and no vacuum: these
write pages stamped with an old generation, and the property is then false
(`db/vacuum.rs:220` below).

Assumption `WrittenBack`: after a process crash without a power loss, the next
`open` reads frames from the page cache that were never forced and builds on
them. The proof assumes that they reach the disk; the model without it is in
the table below. The runs check the same assumption.

### Pool, reads and flush

`ReadPathProofs` proves of the pool alone, for any frames, pages, versions and
clients: `PoolSafe` (types, `MapAgrees`, `GuardStable`), `FreeAlwaysCounted`,
`NoDirtyLoss` (`DirtyKept`) and `GuardedBytesKept`. The invariant adds
`SweepInv`: a running sweep serves a client without a guard, for a key that is
still absent, in a pool without a free frame; otherwise the frame it evicts into
could break the map or the count.

Of the engine it proves `EngineUsesPool` (`Spec => BufSpec`): every engine step
is a pool step or leaves the pool alone, which carries the theorems above over
to the engine (`EngineFramesOwned`, `EngineKeepsDirty`). `EngineTyped` and `ReadsHonest` (`NoWrongPage`) need more:
`SweepServes` and `GuardServes` say which fetch a sweep or guard belongs to, and
`FlushInv` that a staged page keeps the bytes the device got until its frame is
rekeyed, so that the version the frame then carries is the one it holds. The
assumptions are `PoolAssumption` and `ReadPathAssumption`, about the constants.

Last come `RoomForAll` (`PoolHasRoom`: no reader is refused a frame unless the
last flush failed and was not retried since) and `SyncFindsStaged`
(`StagedCurrent`). Neither property is inductive: that a reader's sweep finds a victim in
two passes depends on there being no dirty frame between flushes, which depends
on why frames are dirty. `AdmissionInv` adds

- `ReadersTakeTurns`: the mutex admits one reader between fetch and copy, so no
  frame is pinned while the clock runs;
- `ClockInv`: every referenced frame is still ahead of the clock in its first
  pass and every clean one in its second, so a sweep that ends without a victim
  has seen only dirty frames;
- `DirtyExplained`: a dirty frame is the page in hand, has a token, or was left
  by a failed flush; `TokensCurrent`: a token's frame is as it was handed out;
- `FlushPlan`: the generation fits in the pool unless it streams. If all frames
  had tokens and one more page were to be staged, frames would inject into the
  generation without that page (`FullOfTokens`), which is too small;
- `VersionsFresh`: no frame carries a version ahead of the page table, so the
  target of a rekey is vacant.

`AdmissionInv` was model-checked on the instance of `readpath_core` first.

### Retained roots

All five properties of `retention_core` are proved, for any number of handles,
commits, roots, opens, maintenance calls, failing registry and sidecar writes and
crashes.

`RetentionProofs` has `RootsAlwaysStay` (`RootsStay`), `OpenAlwaysAccepts`
(`OpenAccepts`) and `SidecarsAlwaysOwned` (`SidecarsOwned`). They assume
`Careful`: of the situations in `Known` only `renumbered` and `soft_base` may
occur. Each of the others makes one of the three false (table below). `IInv` says
who owns an id:

- `FileInv`, `MemoryInv`: the registry file has only roots the memory has, with
  their frames and sidecars; the memory may have others, whose removal is under
  way or failed; a sidecar without a root is the one being made or removed;
- `NamedInv`, `LeaseInv`: an id given out is in the file, belongs to one holder
  and is not being removed;
- `RelInv`, `JobInv`: what a removal or registration under way is about to rename
  is what `seerdb.tmp` holds, and the id it is about is still free, or still there.

`RetentionReads` has `RootsAlwaysReadable` (`RootsReadable`) and
`TxAlwaysReadsBase` (`TxReadsBase`), assuming `Known = {}`, since `renumbered` and
`soft_base` are the situations that make these two false. `ReadInv` adds to `IInv`:

- `StoreInv`: from the last renumbering on (`epoch`), the blob file that a frame's
  pointer names holds that frame's value or nothing; the WAL has the commits the
  newest frame lacks; image and manager hold the value of the newest frame;
- `RootInv`: no page of a root is overwritten, and its sidecar has its record;
- `CallInv`: what a call is about to publish is such a store again, and the root it
  is about to register is readable; `TxInv`: base and root are the same commit.

The two parts of a removal, the file and the memory, are what makes `RootsStay`
hard: the proof attempt found the situation `half_removed` of the table. `IInv`
and `ReadInv` were model-checked before they were proved, also with two leases.

### Only model-checked

`ReopenConverges`, because liveness under fairness is out of the prover's reach;
`BTree` and `TreeStore`, whose operators are `RECURSIVE`; `BlobPublication` and
`MetaLog`, which fold over delta chains of any length: what a chain resolves to
would need lemmas like those about `Replayed`, and their inductive invariants have
not been worked out. The violation runs stay with TLC by their nature.

## Disagreements between code and documentation

Runs with `expect: violation` exhibit three; the others were reproduced with
the same modules and the constants named here.

| Where | What the code does | Reproduce |
| --- | --- | --- |
| `db/lifecycle.rs:17` | WAL-first `close()` with pending envelopes soft-commits them and removes the WAL. | `Publication_wal_first.cfg` with `Bound = 0`, `DrainFirst = FALSE`, `MaxCrash = 1`, `AckedSurvives` |
| `db/compaction.rs:14,100` | WAL-first `compact()` with pending envelopes publishes a generation above an unframed commit; reopen refuses the WAL. | the same constants, `RecoveryAccepts` |
| `db/envelope.rs:91-92` | A WAL-first group refused for capacity at materialisation was already committed and is handed back. | WAL-first constants with `RefusedGroupRestored` |
| `db.rs:354` | `open` trusts an unforced frame in the page cache; a later power loss takes it back. | `WrittenBack = FALSE`, `AckedSurvives`; in `Reclamation`, `AuthorityIntact` |
| `db/wal_admission.rs:114-116` | After a failed `close()` the handle appends to an unlinked WAL. | WAL-first with `CloseSyncFails = TRUE`, `AckedSurvives` |
| `db/vacuum.rs:220` | A vacuum after a reopen writes pages stamped 0; `retain_commit` then accepts overwritten roots. | `Reclamation_late.cfg` with `Pages = {1}`, `Capacity = 4`, `MaxTick = 3`, `MaxVacuum = 1`, `LateRootIntact` |
| `db/read_view.rs:14-15` | A view held across close and reopen is protected only by the old handle. | `Outlive = TRUE`, `HeldViewIntact` |
| `storage/reclamation.rs:47-48` | A drop between the free-list store and the clearing of `reclamation_dirty` is not seen by the next flush. | `ReleasedReusable` |
| `db/blob_publication.rs:114` | A backup older than the manifest is removed although it is the only copy. | run `blob_lagging_image` |
| `db/open_components.rs:126` | Deletion marks are trusted by generation number, which is reused after a crash. The same situation lets a vacuum set aside an image that the reopen refuses. | `blob_lagging_image`'s constants with `Known = {"abandoned_image"}`, `LiveNotDead`; `BlobsSurvive` |
| `db/segmented_blob_publication.rs:47-58` | A crash between removing the backup and the delta log leaves old frames; later the log exceeds its limit and the store does not open, against "reopening and the next publication reconcile them" (298-304). | `Known = {"delta_leftover"}`, `BlobsSurvive` |
| `db/vacuum.rs:210-228` | A segmented vacuum starts file ids over and overwrites segments of the old root, against "an interrupted rewrite leaves the old segments available" (`segmented_blob_publication.rs:257-260`). | `Known = {"segmented_vacuum"}`, `BlobsSurvive` |
| `blob/manager.rs:207-222` | A rolled-back first record leaves a catalog frontier for a file that does not exist; the next delta removes an unknown file and cannot be applied. | `Known = {"wide_key"}`, `BlobsSurvive` |
| `db/blob_gc.rs:176`, `db/compaction.rs:53` | Maintenance generations force their frame before the directory entries of the catalog. | `Known = {"unforced_entry"}`, `BlobsSurvive` |
| `db/transaction.rs:250` | A WAL-first transaction begun over admitted envelopes has the new commit as base and the old root to read. | `Retention_core.cfg` with `Known = {"soft_base"}`, `TxReadsBase` |
| `db/retention.rs:22-37` | `retain_commit` of a commit that a `RetainedSnapshot` holds returns that root's id, which goes with the handle, against "The returned ID is stable across reopen". | `Known = {"shared_id"}`, `RootsStay` |
| `db/retention_state.rs:105` | A lease dropped after close and reopen rewrites the registry from the old state, and removes the sidecar of a newer root with the same id. | `Known = {"stale_lease"}`, `RootsStay`, `OpenAccepts` |
| `db/retention.rs:146` | After a vacuum numbered the blob files anew, `retain_commit` of an earlier commit accepts pointers that now name other values. | `Known = {"renumbered"}`, `RootsReadable` |
| `db/retention.rs:208` | A directory sync that fails after the registry's rename removes the sidecar the file names; the store does not open. | `Known = {"unsynced_registry"}`, `OpenAccepts` |
| `db/artifact_io.rs:48` | Registry and blob image share the name `seerdb.tmp`; a lease dropped on another thread while an image is written swaps them. | `Known = {"shared_tmp"}`, `OpenAccepts` |
| `db/retention_state.rs:105-130` | A release whose registry write fails after the rename or the unlink keeps the root in memory and not in the file; a later `retain_commit` of that commit returns its id, against "The returned ID is stable across reopen" (`db/retention.rs:18`). | `Known = {"half_removed"}`, `RootsStay` |
| `db/history_prune.rs:63` | Pruning a database that has published nothing removes its only frame. The frame of generation 0 is dropped later too, though it may be the fallback. | `MetaLog_core.cfg` with `NPages = 1`, `Known = {"fresh_prune"}`, `MaxPub = 1`, `MaxPrune = 1`, `MaxRoot = 0`, `MaxCrash = 1`, `MaxFault = 0`, `OpenAccepts` |
| `db/metadata.rs:479` | A directory sync that fails, or a process that ends, after the rename of a prune leaves a handle or a reopen that appends to a file whose name may not survive. | `Known = {"unsynced_prune"}`, `AckedKept` |
| `db/metadata.rs:66` | A generation that `open` found unforced can be retained; a power loss takes its frame, not its registry entry. | `Known = {"unforced_frame"}`, `GenerationsResolve` |
| `db/history_prune.rs:14-16` | "The history sidecar is atomically replaced before any checkpoint is deleted": there is no such file any more; the log is its own history. | by reading |
| `btree/tree/split.rs:164` | An internal split leaves stale hints in unloaded children; the fallback `find_parent` returns `MissingPage` at the first page that is not resident, and an ordinary put fails, against "a safe fallback" (206-207). | run `treestore_stale_hint` |
| `btree/tree/mutation.rs:16-17` | "May cause node splits if the leaf is full": the split is by count, so a leaf of small entries followed by large ones is refused with `PageFull` though a split elsewhere would fit. | `TreeStore_core.cfg` with `KeyLen <- ShortLen`, `Vals <- ShortVals`, `Deletable = {}`, `Batches = {}`, `MaxJournal = 7`, `PutFindsRoom` |
| `storage/read_path.rs:153` | The mutex is released between `is_resident_key` and `fetch_key`; a page evicted in between is reported corrupt, against "concurrent reads" (`README.md:20`). | run `readpath_shared_reads` |
| `storage/flush.rs:57-63` | A capacity-sized generation that fails leaves its staged frames dirty; a retry with more dirty pages streams, finds no frame for the new ones and is refused on every further attempt. | `ReadPath_core.cfg` with `FALSE` for `faults > 0` in `PoolHasRoom` |

## Not modelled, and why

Byte formats and checksums are abstracted to "a readable prefix survives".
File locks, O_DIRECT alignment and preallocation do not affect order. Diagnostics and archives read a
fixed root. `concurrency/latch.rs` is used by nothing in the crate.
Blob changes of WAL-first commits are not modelled; `BlobPublication` takes
every commit through the default path. Blob capacity admission, record
checksums and the legacy image format are abstracted away. `Retention` leaves
out `retain_current_commit`, the directory copy of a snapshot, the row
contents of a transaction's overlay, and a sidecar whose removal fails: it
stays, named by no root, until the next `open` cleans it up. `MetaLog` starts from a forced bootstrap
frame: a crash inside the very first `open`, between creating the data file
and forcing that frame, leaves a directory `open` refuses. The allocator's
free list is left out because no code outside the tests fills it. `TreeStore` takes a
publication as one step, since `Publication` and `Reclamation` model its parts,
and leaves out prefix compression, which no writer produces. `ReadPath` leaves
out explicit pins and `begin_writeback_all`, which nothing in the crate calls,
and the historical `*_at` reads, which take the same page reads from another
page table.

## Plan

The most useful extensions, in this order:

1. `Publication` over `MetaLog`: the chain shown to implement the frame log
   that `Publication` uses.
2. Proofs: `MetaLog`'s `FrontierAgrees` and `VersionsUnique`.
3. Blob changes of WAL-first commits in `BlobPublication`.
