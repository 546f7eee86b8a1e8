------------------------------ MODULE MetaLog ------------------------------
(***************************************************************************)
(* The metadata log: what its publication frames encode and how open(),    *)
(* publication and prune_history read, extend and rewrite it               *)
(* (db/metadata.rs, db/metadata_codec.rs, db/history_prune.rs, mvcc/pmt.rs,*)
(* allocator.rs, storage/manifest_history.rs, and the parts of             *)
(* db/open_catalog.rs and db/open_components.rs that load it).             *)
(*                                                                         *)
(* Publication treats a frame as the content it stands for.  Here a frame  *)
(* is a full checkpoint of the page mapping table (PMT) and the allocator, *)
(* or a delta over the frame of its parent generation, and the content has *)
(* to be recomputed from the chain.  A mapping is the version under which  *)
(* the buffer caches the page and the slot it was written to; a slot is    *)
(* named by the publication attempt that filled it.  No page is ever given *)
(* back to the allocator (PageAllocator::free has no caller outside tests),*)
(* so an allocator is its next_id.  A checkpoint has the id of its         *)
(* generation.                                                             *)
(***************************************************************************)
EXTENDS Integers, Sequences, FiniteSets, FiniteSetsExt, SequencesExt, TLC

CONSTANTS
    MaxChain,   \* MAX_META_DELTA_CHAIN
    NPages,     \* bound: page ids
    Known,      \* situations the callers do not avoid: see the guards that name them
    MaxPub,     \* bound: publication attempts
    MaxPrune,   \* bound: prune_history calls
    MaxRoot,    \* bound: retained generations at a time
    MaxCrash,   \* bound: crashes
    MaxFault    \* bound: I/O errors and capacity refusals

Situations == {"fresh_prune", "unsynced_prune", "unforced_frame"}

ASSUME MetaLogAssumption ==
    /\ MaxChain \in Nat /\ NPages \in Nat \ {0} /\ Known \subseteq Situations
    /\ {MaxPub, MaxPrune, MaxRoot, MaxCrash, MaxFault} \subseteq Nat

VARIABLES
    st,         \* "open", "fenced" or "closed"
    pmt,        \* the engine's table: page -> [ver, slot]
    nextVer,    \* PMT::next_version
    nextId,     \* PageAllocator::next_id
    hist,       \* manifest_history: the generations it lists
    nextGen,    \* next_generation_id
    frontier,   \* meta_frontier
    job,        \* the call in progress
    log,        \* seerdb.meta.log: its frames, and how many of them were forced
    shadow,     \* the file a rename replaced, until the directory is forced
    roots,      \* generations the retention registry names
    published,  \* history: the table and allocator each frame was written for
    acked,      \* history: the newest generation a publication returned
    pubs, prunes, crashes, faults

handleVars == <<st, pmt, nextVer, nextId, hist, nextGen, frontier, job>>
histVars == <<published, acked>>
boundVars == <<pubs, prunes, crashes, faults>>
vars == <<handleVars, log, shadow, roots, histVars, boundVars>>

NoFrontier == [id |-> -1]
NoFile == [frames |-> <<>>, synced |-> -1]
NoJob == [step |-> "none"]

-----------------------------------------------------------------------------
(* Frames.  A torn append is one unreadable element. *)

Torn == [id |-> -1]
NoPages == [p \in {} |-> 0]

Checkpoint(g, t, id) ==
    [id |-> g, parent |-> 0, upd |-> t, rem |-> {}, next |-> id]

\* encode_delta: the mappings that differ from the parent's, the pages gone.
Delta(g, parent, old, t, id) ==
    [id |-> g, parent |-> parent,
     upd |-> [p \in {q \in DOMAIN t : q \notin DOMAIN old \/ old[q] # t[q]} |-> t[p]],
     rem |-> DOMAIN old \ DOMAIN t, next |-> id]

\* Length in the file, the same for no two frames that differ in size.
Size(f) == IF f = Torn THEN 1
           ELSE 2 + Cardinality(DOMAIN f.upd) + Cardinality(f.rem)
FileLen(fs) == FoldLeft(LAMBDA n, f : n + Size(f), 0, fs)

\* parse_meta_log: frames count up to the first one that does not check.
Parsed(fs) ==
    LET tears == {i \in DOMAIN fs : fs[i] = Torn}
    IN  IF tears = {} THEN fs ELSE SubSeq(fs, 1, Min(tears) - 1)

Versions(t) == {t[p].ver : p \in DOMAIN t}

\* What PMT::from_bytes and insert_persisted make of next_version.
Above(t, n) == Max(Versions(t) \cup {n - 1}) + 1

\* One frame, given what the earlier ones resolve to: nothing if its parent is
\* missing or too deep, or if it removes a page its parent does not map.
Resolution(done, f) ==
    IF f.parent = 0
    THEN f.id :> [pmt |-> f.upd, ver |-> Above(f.upd, 1), next |-> f.next, depth |-> 0]
    ELSE IF f.parent \in DOMAIN done
    THEN LET base == done[f.parent]
         IN  IF base.depth >= MaxChain \/ ~(f.rem \subseteq DOMAIN base.pmt) THEN <<>>
             ELSE f.id :> [pmt |-> f.upd @@ [p \in DOMAIN base.pmt \ f.rem |-> base.pmt[p]],
                           ver |-> Above(f.upd, base.ver), next |-> f.next,
                           depth |-> base.depth + 1]
    ELSE <<>>

\* resolve_meta_log for every checkpoint at once.  It walks from a checkpoint
\* back to a full one; parents precede their children in the log, so one pass
\* forwards meets the same frames.
Resolved(fs) == FoldLeft(LAMBDA done, f : Resolution(done, f) @@ done, <<>>, Parsed(fs))

Ids(fs) == {fs[i].id : i \in DOMAIN fs}

\* select_authority_manifest: the newest frame that resolves.  An open with a
\* data file needs one.
Accepts(fs) == DOMAIN Resolved(fs) # {}
Authority(fs) == Max(DOMAIN Resolved(fs))

\* meta_log_ancestors: the parents, step by step.
Ancestors(fs, g) ==
    LET up(s) == {fs[i].parent : i \in {j \in DOMAIN fs : fs[j].id \in s}} \ {0}
        anc[k \in 0 .. MaxChain] == IF k = 0 THEN {g} ELSE anc[k - 1] \cup up(anc[k - 1])
    IN  anc[MaxChain]

-----------------------------------------------------------------------------
(* The handle. *)

Idle == st = "open" /\ job = NoJob
Latest == Max(hist)

Frontier(id, r, len) ==
    [id |-> id, pmt |-> r.pmt, next |-> r.next, depth |-> r.depth, len |-> len]

\* The cached view answers for the parent only at the length it was made for.
Cached(parent) ==
    frontier # NoFrontier /\ frontier.id = parent /\ frontier.len = FileLen(log.frames)

\* Faulty variant: the torn tail stays.
KeptTail(l) == l

\* A torn tail is cut off and the file forced before anything is appended.
Cut(l) ==
    IF Parsed(l.frames) = l.frames THEN l
    ELSE [frames |-> Parsed(l.frames), synced |-> Len(Parsed(l.frames))]

\* ensure_meta_frontier, which sizing a generation calls unless its parent is
\* the bootstrap frame.
Ensure ==
    IF Latest = 0 \/ Cached(Latest) THEN UNCHANGED <<frontier, log>>
    ELSE /\ log' = Cut(log)
         /\ frontier' = Frontier(Latest, Resolved(log.frames)[Latest],
                                 FileLen(Parsed(log.frames)))

\* PMT::insert of every page of D, in some order: a version and a slot each.
Written(D) == [p \in D |-> [ver |-> nextVer + Cardinality({q \in D : q < p}),
                            slot |-> pubs + 1]]

Generation(D) ==
    /\ pubs < MaxPub /\ pubs' = pubs + 1
    /\ job' = [step |-> "append", gen |-> nextGen, parent |-> Latest]
    /\ nextVer' = nextVer + Cardinality(D)

\* A user commit or a relocation: dirty pages, at most one of them new, go to
\* new slots.  (A relocation sizes its generation without the cached view.)
Publish(D, sized) ==
    /\ Idle /\ D # {} /\ D \subseteq 1 .. nextId
    /\ IF sized THEN Ensure ELSE UNCHANGED <<frontier, log>>
    /\ Generation(D)
    /\ pmt' = Written(D) @@ pmt
    /\ nextId' = Max(D \cup {nextId - 1}) + 1
    /\ UNCHANGED <<st, hist, nextGen, shadow, roots, histVars, prunes, crashes, faults>>

\* Faulty variant: clear() also resets next_version.
RebuildFromVersionOne(n) ==
    /\ Idle /\ Generation(1 .. n)
    /\ pmt' = [p \in 1 .. n |-> [ver |-> p, slot |-> pubs + 1]]
    /\ nextId' = n + 1
    /\ UNCHANGED <<st, hist, nextGen, frontier, log, shadow, roots, histVars, prunes,
                   crashes, faults>>

\* prepare_logical_rebuild: vacuum clears the table and writes a tree whose
\* pages are numbered from the start; versions go on.
Rebuild(n) ==
    /\ Idle /\ Generation(1 .. n)
    /\ pmt' = Written(1 .. n)
    /\ nextId' = n + 1
    /\ UNCHANGED <<st, hist, nextGen, frontier, log, shadow, roots, histVars, prunes,
                   crashes, faults>>

\* A capacity refusal follows the sizing and leaves the handle usable.
Refuse ==
    /\ Idle /\ faults < MaxFault /\ faults' = faults + 1
    /\ Ensure
    /\ UNCHANGED <<st, pmt, nextVer, nextId, hist, nextGen, job, shadow, roots, histVars,
                   pubs, prunes, crashes>>

\* Faulty variant: a full checkpoint over a long chain counts as a delta.
NextDepthAlways(parent, depth) == IF parent = 0 THEN 0 ELSE depth + 1

IsFull(parent, depth) == parent = 0 \/ depth >= MaxChain

NextDepth(parent, depth) == IF IsFull(parent, depth) THEN 0 ELSE depth + 1

\* The parent's table and depth, cached or read back from the log.
ParentView ==
    IF job.parent = 0 THEN {[pmt |-> NoPages, depth |-> MaxChain]}
    ELSE IF Cached(job.parent) THEN {[pmt |-> frontier.pmt, depth |-> frontier.depth]}
    ELSE LET done == Resolved(log.frames)
         IN  IF job.parent \in DOMAIN done
             THEN {[pmt |-> done[job.parent].pmt, depth |-> done[job.parent].depth]} ELSE {}

NewFrame(view) ==
    IF IsFull(job.parent, view.depth) THEN Checkpoint(job.gen, pmt, nextId)
    ELSE Delta(job.gen, job.parent, view.pmt, pmt, nextId)

\* append_generation_meta up to its sync: the cached view is dropped first.
AppendFrame ==
    /\ st = "open" /\ job.step = "append"
    /\ \E view \in ParentView :
          /\ log' = [Cut(log) EXCEPT !.frames = Append(@, NewFrame(view))]
          /\ job' = [step |-> "force", gen |-> job.gen,
                     depth |-> NextDepth(job.parent, view.depth)]
    /\ frontier' = NoFrontier
    /\ published' = (job.gen :> [pmt |-> pmt, next |-> nextId]) @@ published
    /\ UNCHANGED <<st, pmt, nextVer, nextId, hist, nextGen, shadow, roots, acked, boundVars>>

\* The sync makes the generation authoritative; the view is made anew, and
\* manifest_history.push records it.
ForceFrame ==
    /\ st = "open" /\ job.step = "force"
    /\ log' = [log EXCEPT !.synced = Len(log.frames)]
    /\ frontier' = [id |-> job.gen, pmt |-> pmt, next |-> nextId, depth |-> job.depth,
                    len |-> FileLen(log.frames)]
    /\ hist' = hist \cup {job.gen} /\ nextGen' = job.gen + 1
    /\ acked' = job.gen /\ job' = NoJob
    /\ UNCHANGED <<st, pmt, nextVer, nextId, shadow, roots, published, boundVars>>

\* A write that fails, before or after part of the frame reached the file, or
\* a failing sync: the publication returns its error and the handle is fenced.
AppendFails ==
    /\ st = "open" /\ job.step \in {"append", "force"}
    /\ faults < MaxFault /\ faults' = faults + 1
    /\ st' = "fenced" /\ job' = NoJob /\ frontier' = NoFrontier
    /\ \E rest \in {<<>>} \cup (IF job.step = "append" THEN {<<Torn>>} ELSE {}) :
          log' = [log EXCEPT !.frames = @ \o rest]
    /\ UNCHANGED <<pmt, nextVer, nextId, hist, nextGen, shadow, roots, histVars, pubs,
                   prunes, crashes>>

-----------------------------------------------------------------------------
(* Retention and pruning. *)

\* A retained root: writing its registry entry forces the directory.  Without
\* "unforced_frame", not of a generation that open() found written but not
\* forced.
Retain(g) ==
    /\ Idle /\ g \in hist \ ({0} \cup roots) /\ Cardinality(roots) < MaxRoot
    /\ g \in Ids(SubSeq(log.frames, 1, log.synced)) \/ "unforced_frame" \in Known
    /\ roots' = roots \cup {g} /\ shadow' = NoFile
    /\ UNCHANGED <<handleVars, log, histVars, boundVars>>

Release(g) ==
    /\ st = "open" /\ g \in roots
    /\ roots' = roots \ {g}
    /\ UNCHANGED <<handleVars, log, shadow, histVars, boundVars>>

\* Faulty variant: no fallback generation.
RecoveryLatest == {Latest}

\* The authority and the generation recovery falls back to.
Recovery == {g \in hist : Cardinality({k \in hist : k > g}) < 2}

\* Faulty variant: keeps the checkpoints, not what they are deltas of.
KeptAlone == (Recovery \cup roots) \ {0}

\* The checkpoints prune_history keeps.  The bootstrap frame is never one.
KeptCheckpoints ==
    UNION {Ancestors(Parsed(log.frames), g) : g \in (Recovery \cup roots) \ {0}}

Kept == SelectSeq(Parsed(log.frames), LAMBDA f : f.id \in KeptCheckpoints)

\* prune_history after its flush: the history in memory first, then
\* compact_metadata_log writes the kept frames to a new file and renames it.
\* With fail, the write or the rename fails; the handle is not fenced.  Without
\* "fresh_prune", not on a database that has published nothing.
Prune(fail) ==
    /\ Idle /\ prunes < MaxPrune /\ prunes' = prunes + 1
    /\ Latest > 0 \/ "fresh_prune" \in Known
    /\ KeptCheckpoints \subseteq Ids(Parsed(log.frames))
    /\ hist' = hist \cap (Recovery \cup roots)
    /\ IF Kept = Parsed(log.frames)
       THEN ~fail /\ UNCHANGED <<frontier, log, shadow, job, faults>>
       ELSE /\ frontier' = NoFrontier
            /\ IF fail
               THEN faults < MaxFault /\ faults' = faults + 1 /\ UNCHANGED <<log, shadow, job>>
               ELSE /\ log' = [frames |-> Kept, synced |-> Len(Kept)]
                    /\ shadow' = log /\ job' = [step |-> "syncdir"] /\ UNCHANGED faults
    /\ UNCHANGED <<st, pmt, nextVer, nextId, nextGen, roots, histVars, pubs, crashes>>

\* The directory sync of atomic_write.  Without "unsynced_prune" it succeeds.
SyncDirectory(fail) ==
    /\ st = "open" /\ job.step = "syncdir" /\ job' = NoJob
    /\ IF fail
       THEN /\ "unsynced_prune" \in Known /\ faults < MaxFault /\ faults' = faults + 1
            /\ UNCHANGED shadow
       ELSE shadow' = NoFile /\ UNCHANGED faults
    /\ UNCHANGED <<st, pmt, nextVer, nextId, hist, nextGen, frontier, log, roots, histVars,
                   pubs, prunes, crashes>>

-----------------------------------------------------------------------------
(* Crashes and open. *)

Gone ==
    /\ st' = "closed" /\ job' = NoJob /\ frontier' = NoFrontier
    /\ pmt' = NoPages /\ nextVer' = 1 /\ nextId' = 1 /\ hist' = {0} /\ nextGen' = 1

\* What is left of a file: its forced part, any more of its frames, and
\* perhaps part of the next.
Images(l) ==
    {[frames |-> SubSeq(l.frames, 1, k) \o t, synced |-> k + Len(t)] :
        k \in l.synced .. Len(l.frames), t \in {<<>>, <<Torn>>}}

\* A frame may be torn only if there was one being written.
Survivors ==
    LET of(l, writing) == IF writing \/ l.synced < Len(l.frames) THEN Images(l)
                          ELSE {[l EXCEPT !.synced = Len(l.frames)]}
    IN  of(log, job.step = "append") \cup (IF shadow = NoFile THEN {} ELSE of(shadow, FALSE))

\* The process ends, or the handle is closed or dropped.  Without
\* "unsynced_prune", not between a rename and its directory sync.
Crash ==
    /\ st # "closed" /\ crashes < MaxCrash /\ crashes' = crashes + 1
    /\ job.step = "syncdir" => "unsynced_prune" \in Known
    /\ Gone
    /\ \E rest \in {<<>>} \cup (IF job.step = "append" THEN {<<Torn>>} ELSE {}) :
          log' = [log EXCEPT !.frames = @ \o rest]
    /\ UNCHANGED <<shadow, roots, histVars, pubs, prunes, faults>>

PowerLoss ==
    /\ crashes < MaxCrash /\ crashes' = crashes + 1
    /\ Gone
    /\ log' \in Survivors /\ shadow' = NoFile
    /\ UNCHANGED <<roots, histVars, pubs, prunes, faults>>

\* next_open_identities
GenAfter(g) == g + 1

\* load_open_catalog and load_metadata: the authority, the history up to it,
\* its table, and a log without its torn tail.
Open ==
    /\ st = "closed" /\ Accepts(log.frames)
    /\ \E g \in {Authority(log.frames)}, l \in {Cut(log)} : \E r \in {Resolved(l.frames)[g]} :
          /\ hist' = {k \in Ids(Parsed(l.frames)) : k <= g} /\ nextGen' = GenAfter(g)
          /\ pmt' = r.pmt /\ nextVer' = r.ver /\ nextId' = r.next
          /\ frontier' = Frontier(g, r, FileLen(l.frames))
          /\ log' = l
    /\ st' = "open"
    /\ UNCHANGED <<job, shadow, roots, histVars, boundVars>>

Init ==   \* a new database: the bootstrap frame is forced
    /\ st = "open" /\ pmt = NoPages /\ nextVer = 1 /\ nextId = 1
    /\ hist = {0} /\ nextGen = 1 /\ job = NoJob
    /\ log = [frames |-> <<Checkpoint(0, NoPages, 1)>>, synced |-> 1]
    /\ frontier = [id |-> 0, pmt |-> NoPages, next |-> 1, depth |-> 0, len |-> 2]
    /\ shadow = NoFile /\ roots = {}
    /\ published = 0 :> [pmt |-> NoPages, next |-> 1] /\ acked = 0
    /\ pubs = 0 /\ prunes = 0 /\ crashes = 0 /\ faults = 0

Next ==
    \/ \E D \in SUBSET (1 .. NPages), sized \in BOOLEAN : Publish(D, sized)
    \/ \E n \in 1 .. NPages : Rebuild(n)
    \/ Refuse \/ AppendFrame \/ ForceFrame \/ AppendFails
    \/ \E g \in hist : Retain(g)
    \/ \E g \in roots : Release(g)
    \/ \E fail \in BOOLEAN : Prune(fail) \/ SyncDirectory(fail)
    \/ Crash \/ PowerLoss \/ Open

Spec == Init /\ [][Next]_vars
-----------------------------------------------------------------------------
(* Properties. *)

\* What the log resolves to now, and after a crash now.
Outcomes == {Resolved(l.frames) : l \in Survivors \cup {log}}

As(r, g) == g \in DOMAIN r /\ [pmt |-> r[g].pmt, next |-> r[g].next] = published[g]

\* An acknowledged generation survives: whatever a crash leaves of the file,
\* and of the one a prune replaced, open() accepts it, selects a generation no
\* older than the last one acknowledged, and rebuilds from its delta chain
\* exactly the table and the allocator it was published with.
AckedKept ==
    \A r \in Outcomes : r # <<>> /\ Max(DOMAIN r) >= acked /\ As(r, Max(DOMAIN r))

\* open() accepts the log at every moment.
OpenAccepts == \A r \in Outcomes : r # <<>>

\* Every generation of the history resolves in the log to the table it was
\* published with, and every retained one in whatever a crash leaves: chains
\* stay whole through pruning, and never grow past the length readers accept.
GenerationsResolve ==
    /\ st = "open" => \A r \in {Resolved(log.frames)} : \A g \in hist \ {0} : As(r, g)
    /\ \A r \in Outcomes : \A g \in roots : As(r, g)

\* The cached view, whenever append_generation_meta would trust it, is what
\* the log resolves to, depth included.
FrontierAgrees ==
    (frontier # NoFrontier /\ frontier.len = FileLen(log.frames)) =>
        \A r \in {Resolved(log.frames)} :
            /\ frontier.id \in DOMAIN r
            /\ frontier = Frontier(frontier.id, r[frontier.id], frontier.len)

\* Should the newest frame become unreadable, the next older generation still
\* opens with its own table, also after prune_history.  (Not the bootstrap
\* generation, whose frame prune_history always drops.)
FallbackOpens ==
    (Idle /\ Cardinality(hist \ {0}) > 1) =>
        \A r \in {Resolved(SelectSeq(log.frames, LAMBDA f : f.id # Latest))} :
            r # <<>> /\ Max(DOMAIN r) = Max(hist \ {Latest}) /\ As(r, Max(DOMAIN r))

\* Identities are used once.  The buffer caches a page under its id and
\* version: among the tables the handle can read through, and the one being
\* built, that names one slot.  Generations ascend in the log, so that no
\* checkpoint id stands for two frames.
VersionsUnique ==
    /\ st = "open" =>
        LET tables == {pmt} \cup {published[g].pmt : g \in hist \cup roots}
        IN  \A t, u \in tables : \A p \in DOMAIN t \cap DOMAIN u :
               t[p].ver = u[p].ver => t[p] = u[p]
    /\ \A i, j \in DOMAIN log.frames :
          (i < j /\ Torn \notin {log.frames[i], log.frames[j]})
          => log.frames[i].id < log.frames[j].id
=============================================================================
