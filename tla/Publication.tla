---------------------------- MODULE Publication ----------------------------
(***************************************************************************)
(* The commit path of one SeerDB writer handle and the durable artifacts   *)
(* it orders: the write-ahead log, the data pages and the metadata log     *)
(* whose synced publication frames are the authority (src/db.rs,           *)
(* db/publication.rs, db/envelope.rs, db/batch.rs, db/single_write.rs,     *)
(* db/wal_admission.rs, db/wal_recovery.rs, db/open*.rs, db/compaction.rs, *)
(* db/lifecycle.rs).                                                       *)
(*                                                                         *)
(* Data abstraction.  A mutation is a number and a database state is the   *)
(* sequence of mutations applied to the empty tree.  The mutation count    *)
(* and the rolling digest of a commit envelope are the sequence of         *)
(* mutations they cover (the digest is taken to be collision free).  Page, *)
(* blob and metadata bytes are the content they encode.                    *)
(***************************************************************************)
EXTENDS WalRecovery

CONSTANTS
    WalFirst,        \* Options::wal_first_commits
    SyncModes,       \* the values of Options::sync_writes callers open with
    Bound,           \* Options::wal_materialize_bytes in WAL records, 0 = off
    ReclaimLen,      \* WAL_RETENTION_RECLAIM_BYTES in WAL records
    CrashKinds,      \* which crashes happen: "process", "power"
    CloseSyncFails,  \* may the directory sync inside close() fail?
    DrainFirst,      \* do callers run publication_barrier before flush,
                     \* close and compact whenever envelopes are pending?
    WrittenBack,     \* has the kernel written the metadata log back before a
                     \* reopen without a power loss reads it?
    MaxBatch,        \* bound: mutations per batch
    MaxMut,          \* bound: mutations issued
    MaxMaint,        \* bound: maintenance generations published
    MaxCrash,        \* bound: crashes
    MaxFault         \* bound: I/O errors and capacity refusals

ASSUME PublicationAssumption ==
    /\ WalFirst \in BOOLEAN /\ SyncModes \subseteq BOOLEAN /\ SyncModes # {}
    /\ {CloseSyncFails, DrainFirst, WrittenBack} \subseteq BOOLEAN
    /\ CrashKinds \subseteq {"process", "power"}
    /\ {Bound, MaxMaint, MaxCrash, MaxFault} \subseteq Nat
    /\ {ReclaimLen, MaxBatch, MaxMut} \subseteq Nat \ {0}

VARIABLES
    \* ---- volatile handle (struct DB)
    st,        \* "closed", "opening", "open" or "fenced" (is_open, write_fenced)
    tree,      \* content of the live tree
    pend,      \* pending_mutations and pending_digest
    buf,       \* records buffered inside WalManager
    envs,      \* pending_envelopes, in admission order
    gen, cid,  \* generation_id, commit_id
    nextGen, nextCid,
    unframed,  \* unframed_wal_bytes in records; 0 iff ~unframed_commits
    reserved,  \* wal_reserved_extent # 0
    fd,        \* wal_handle: "none", "live", or "unlinked" (see CloseSyncFail)
    latest,    \* manifest_history.latest()
    syncWrites,\* Options::sync_writes of this handle
    job,       \* the publication in progress: its remaining steps and commit
    call,      \* the public call in progress and the envelopes it took
    ret,       \* how the last public call returned
    \* ---- disk
    wal, walSynced,   \* records of seerdb.wal, and the forced prefix
    walGone,          \* unlinked, but the directory entry may come back
    log, logSynced,   \* frames of seerdb.meta.log, and the forced prefix
    data, cached,     \* contents whose pages are durable, only written
    \* ---- history
    acked,     \* content reported durable to the caller
    points,    \* contents some commit record or frame was built for
    nextMut, crashes, faults, maints

handleVars == <<st, tree, pend, buf, envs, gen, cid, nextGen, nextCid,
                unframed, reserved, fd, latest, syncWrites>>
callVars == <<job, call, ret>>
diskVars == <<wal, walSynced, walGone, log, logSynced, data, cached>>
walVars == <<wal, walSynced, walGone>>
histVars == <<acked, points, nextMut, crashes, faults, maints>>
vars == <<handleVars, callVars, diskVars, histVars>>

-----------------------------------------------------------------------------
(* Calls and publications in progress. *)

NoJob == [kind |-> "none"]
NoCall == [op |-> "none", group |-> <<>>]
Returned(op, status, group) == [op |-> op, status |-> status, group |-> group]
NotReturned == Returned("none", "none", <<>>)

-----------------------------------------------------------------------------
(* The WAL file. *)

Live == IF walGone THEN <<>> ELSE wal

\* ensure_wal_reservation: the first admission after open or reclaim recreates
\* the file if needed and forces the file and the directory, unless the file
\* already covers the reservation target.
SyncedByAdmission ==
    IF walGone THEN {0} ELSE IF reserved THEN {walSynced} ELSE {walSynced, Len(wal)}

\* write_wal_to_disk_inner: append recs through the cached descriptor, forcing
\* the file when sync holds.
WriteWal(recs, sync) ==
    IF fd = "unlinked"
    THEN /\ fd' = fd
         /\ IF reserved THEN UNCHANGED walVars
            ELSE wal' = <<>> /\ walSynced' = 0 /\ walGone' = FALSE
    ELSE /\ fd' = IF recs = <<>> THEN fd ELSE "live"
         /\ wal' = Live \o recs
         /\ \E s \in SyncedByAdmission :
                walSynced' = IF sync THEN Len(wal') ELSE s
         /\ walGone' = FALSE

SyncWal ==
    /\ fd' = IF fd = "none" THEN "live" ELSE fd
    /\ walSynced' = IF fd = "unlinked" \/ walGone THEN walSynced ELSE Len(wal)
    /\ UNCHANGED <<wal, walGone>>

-----------------------------------------------------------------------------
(* Admission of mutations. *)

Idle == st = "open" /\ call = NoCall /\ job = NoJob

NewMuts(n) == [i \in 1..n |-> nextMut + i - 1]
Recs(ms) == [i \in DOMAIN ms |-> Mut(ms[i])]

\* put and delete: apply to the tree, then journal_mutation writes the buffer
\* with the new record.  A write error after the tree changed fences.
Put(failed) ==
    /\ Idle /\ nextMut <= MaxMut
    /\ tree' = Append(tree, nextMut)
    /\ nextMut' = nextMut + 1
    /\ reserved' = TRUE
    /\ buf' = <<>>
    /\ ret' = NotReturned
    /\ IF failed
       THEN /\ faults < MaxFault /\ faults' = faults + 1
            /\ \E n \in 0..Len(buf) + 1 :
                  WriteWal(SubSeq(Append(buf, Mut(nextMut)), 1, n), FALSE)
            /\ st' = "fenced" /\ pend' = pend
       ELSE /\ WriteWal(Append(buf, Mut(nextMut)), syncWrites)
            /\ pend' = Append(pend, nextMut)
            /\ UNCHANGED <<st, faults>>
    /\ UNCHANGED <<envs, gen, cid, nextGen, nextCid, unframed, latest, syncWrites,
                   job, call, log, logSynced, data, cached, acked, points, crashes,
                   maints>>

\* admit_batch: apply and stage; the records stay in the WAL buffer.  The
\* envelope is named by its first mutation.
AdmitBatch(n) ==
    /\ Idle /\ nextMut + n - 1 <= MaxMut
    /\ tree' = tree \o NewMuts(n)
    /\ pend' = pend \o NewMuts(n)
    /\ buf' = buf \o Recs(NewMuts(n))
    /\ envs' = Append(envs, nextMut)
    /\ nextMut' = nextMut + n
    /\ reserved' = TRUE
    /\ WriteWal(<<>>, FALSE)
    /\ ret' = NotReturned
    /\ UNCHANGED <<st, gen, cid, nextGen, nextCid, unframed, latest, syncWrites,
                   job, call, log, logSynced, data, cached, acked, points, crashes,
                   faults, maints>>

-----------------------------------------------------------------------------
(* The publication jobs: the ordered steps of one generation. *)

\* Faulty variants: the frame precedes the page sync; a soft commit is
\* acknowledged before its sync.
StepsFrameFirst(kind, sync) ==
    CASE kind \in {"flush", "group", "materialize"} ->
            IF sync THEN <<"wal", "walsync", "preflight", "data", "commit", "walsync",
                           "frame", "framesync", "datasync", "finish">>
            ELSE <<"wal", "preflight", "data", "commit", "frame", "framesync",
                   "datasync", "finish">>
      [] kind = "recover" ->
            IF sync THEN <<"walsync", "preflight", "data", "datasync", "frame",
                           "framesync", "finish">>
            ELSE <<"preflight", "data", "datasync", "frame", "framesync", "finish">>
      [] kind = "maint" ->
            <<"preflight", "data", "datasync", "frame", "framesync", "mfinish">>
      [] kind = "soft" -> <<"commit", "walsync", "ack">>

StepsAckFirst(kind, sync) ==
    CASE kind \in {"flush", "group", "materialize"} ->
            IF sync THEN <<"wal", "walsync", "preflight", "data", "datasync", "commit",
                           "walsync", "frame", "framesync", "finish">>
            ELSE <<"wal", "preflight", "data", "datasync", "commit",
                   "frame", "framesync", "finish">>
      [] kind = "recover" ->
            IF sync THEN <<"walsync", "preflight", "data", "datasync", "frame",
                           "framesync", "finish">>
            ELSE <<"preflight", "data", "datasync", "frame", "framesync", "finish">>
      [] kind = "maint" ->
            <<"preflight", "data", "datasync", "frame", "framesync", "mfinish">>
      [] kind = "soft" -> <<"commit", "ack">>

\* Outside the soft commits the WAL is forced only under sync_writes
\* (write_wal_to_disk).
Steps(kind, sync) ==
    CASE kind \in {"flush", "group", "materialize"} ->
            IF sync THEN <<"wal", "walsync", "preflight", "data", "datasync", "commit",
                           "walsync", "frame", "framesync", "finish">>
            ELSE <<"wal", "preflight", "data", "datasync", "commit",
                   "frame", "framesync", "finish">>
      [] kind = "recover" ->
            IF sync THEN <<"walsync", "preflight", "data", "datasync", "frame",
                           "framesync", "finish">>
            ELSE <<"preflight", "data", "datasync", "frame", "framesync", "finish">>
      [] kind = "maint" ->
            <<"preflight", "data", "datasync", "frame", "framesync", "mfinish">>
      [] kind = "soft" -> <<"commit", "walsync", "ack">>

NewJob(kind, sync, g, c, ms, content) ==
    [kind |-> kind, todo |-> Steps(kind, sync), gen |-> g, cid |-> c, muts |-> ms,
     content |-> content]

CommitJob(kind, ms, content) == NewJob(kind, syncWrites, nextGen, nextCid, ms, content)

\* Faulty variant: looks only at admitted envelopes and unframed commits.
FlushJobEnvelopesOnly ==
    IF envs # <<>> THEN CommitJob(IF WalFirst THEN "soft" ELSE "group", pend, tree)
    ELSE IF unframed > 0 THEN CommitJob("materialize", <<>>, tree)
    ELSE NoJob

\* The job flush() starts, by what is pending.
FlushJob ==
    IF envs # <<>> THEN CommitJob(IF WalFirst THEN "soft" ELSE "group", pend, tree)
    ELSE IF pend # <<>> THEN CommitJob("flush", pend, tree)
    ELSE IF unframed > 0 THEN CommitJob("materialize", <<>>, tree)
    ELSE NoJob

At(step) == job # NoJob /\ Head(job.todo) = step
Advance == job' = [job EXCEPT !.todo = Tail(@)]

\* flush, close and compact all begin with flush().
StartFlush(op) ==
    /\ Idle
    /\ DrainFirst => envs = <<>>
    /\ op = "maint" => maints < MaxMaint
    /\ IF FlushJob = NoJob /\ op = "flush"
       THEN /\ ret' = Returned("flush", "ok", <<>>)
            /\ acked' = tree
            /\ UNCHANGED <<job, call, envs>>
       ELSE /\ job' = FlushJob
            /\ call' = [op |-> op, group |-> envs]
            /\ envs' = <<>>
            /\ ret' = NotReturned
            /\ UNCHANGED acked
    /\ UNCHANGED <<st, tree, pend, buf, gen, cid, nextGen, nextCid, unframed,
                   reserved, fd, latest, syncWrites, diskVars, points, nextMut,
                   crashes, faults, maints>>

\* publication_barrier with a non-empty group.
Barrier ==
    /\ Idle /\ envs # <<>>
    /\ job' = FlushJob
    /\ call' = [op |-> "barrier", group |-> envs]
    /\ envs' = <<>>
    /\ ret' = NotReturned
    /\ UNCHANGED <<st, tree, pend, buf, gen, cid, nextGen, nextCid, unframed,
                   reserved, fd, latest, syncWrites, diskVars, histVars>>

\* commit_batch_at and install_batch: journal the batch first; a WAL error
\* fences with the tree untouched.
CommitBatch(n, failed) ==
    /\ Idle /\ pend = <<>> /\ nextMut + n - 1 <= MaxMut
    /\ nextMut' = nextMut + n
    /\ reserved' = TRUE
    /\ ret' = NotReturned
    /\ IF failed
       THEN /\ faults < MaxFault /\ faults' = faults + 1
            /\ \E k \in 0..n : WriteWal(SubSeq(Recs(NewMuts(n)), 1, k), FALSE)
            /\ st' = "fenced"
            /\ UNCHANGED <<tree, pend, job, call>>
       ELSE /\ WriteWal(Recs(NewMuts(n)), syncWrites)
            /\ tree' = tree \o NewMuts(n)
            /\ pend' = NewMuts(n)
            /\ job' = CommitJob(IF WalFirst THEN "soft" ELSE "flush", pend', tree')
            /\ call' = [op |-> "batch", group |-> <<>>]
            /\ UNCHANGED <<st, faults>>
    /\ UNCHANGED <<buf, envs, gen, cid, nextGen, nextCid, unframed, latest, syncWrites,
                   log, logSynced, data, cached, acked, points, crashes, maints>>

-----------------------------------------------------------------------------
(* The steps of a job. *)

WriteBuffer ==
    /\ At("wal") /\ Advance
    /\ WriteWal(buf, FALSE)
    /\ buf' = <<>>
    /\ UNCHANGED <<st, tree, pend, envs, gen, cid, nextGen, nextCid, unframed,
                   reserved, latest, syncWrites, call, ret, log, logSynced, data,
                   cached, histVars>>

ForceWal ==
    /\ At("walsync") /\ Advance
    /\ SyncWal
    /\ UNCHANGED <<st, tree, pend, buf, envs, gen, cid, nextGen, nextCid, unframed,
                   reserved, latest, syncWrites, call, ret, log, logSynced, data,
                   cached, histVars>>

\* preflight_publication_capacity admits the generation.
Preflight ==
    /\ At("preflight") /\ Advance
    /\ UNCHANGED <<handleVars, call, ret, diskVars, histVars>>

\* write_dirty_pages, or the page copies of a relocation.
WritePages ==
    /\ At("data") /\ Advance
    /\ cached' = cached \cup {job.content}
    /\ UNCHANGED <<handleVars, call, ret, walVars, log, logSynced, data, histVars>>

SyncPages ==
    /\ At("datasync") /\ Advance
    /\ data' = data \cup cached
    /\ cached' = {}
    /\ UNCHANGED <<handleVars, call, ret, walVars, log, logSynced, histVars>>

\* Append the commit envelope.  The envelope paths consume the identities
\* here, publish_generation only when it finishes.
AppendCommit ==
    /\ At("commit") /\ Advance
    /\ WriteWal(Append(buf, Commit(job.gen, job.cid, job.muts)), FALSE)
    /\ buf' = <<>>
    /\ points' = points \cup {job.content}
    /\ IF job.kind = "flush" THEN UNCHANGED <<nextGen, nextCid>>
       ELSE nextGen' = nextGen + 1 /\ nextCid' = nextCid + 1
    /\ UNCHANGED <<st, tree, pend, envs, gen, cid, unframed, reserved, latest,
                   syncWrites, call, ret, log, logSynced, data, cached, acked,
                   nextMut, crashes, faults, maints>>

\* append_generation_meta writes the frame ...
AppendFrame ==
    /\ At("frame") /\ Advance
    /\ log' = Append(log, Frame(job.gen, job.cid, job.muts, job.content))
    /\ UNCHANGED <<handleVars, call, ret, walVars, logSynced, data, cached, histVars>>

\* Faulty variant: returns without the sync.
ForceFrameUnsynced ==
    /\ At("framesync") /\ Advance
    /\ latest' = Frame(job.gen, job.cid, job.muts, job.content)
    /\ UNCHANGED <<st, tree, pend, buf, envs, gen, cid, nextGen, nextCid, unframed,
                   reserved, fd, syncWrites, call, ret, walVars, log, logSynced, data,
                   cached, histVars>>

\* ... forces the log, and manifest_history.push records it.
ForceFrame ==
    /\ At("framesync") /\ Advance
    /\ logSynced' = Len(log)
    /\ latest' = Frame(job.gen, job.cid, job.muts, job.content)
    /\ UNCHANGED <<st, tree, pend, buf, envs, gen, cid, nextGen, nextCid, unframed,
                   reserved, fd, syncWrites, call, ret, walVars, log, data, cached,
                   histVars>>

\* Faulty variant: leaves the digest running.
ClearPendingBytesOnly == pend' = pend /\ unframed' = 0

Larger(a, b) == IF a > b THEN a ELSE b

ClearPending == pend' = <<>> /\ unframed' = 0

\* Where a call stands once its job is done: close and compact go on, every
\* other call returns.
CallDone ==
    /\ job' = NoJob
    /\ IF call.op \in {"close", "maint"} THEN UNCHANGED <<call, ret>>
       ELSE call' = NoCall /\ ret' = Returned(call.op, "ok", call.group)

\* finish_generation_publication: reclaim a long WAL without forcing the
\* directory, adopt the identities, clear everything pending.
Finish ==
    /\ At("finish")
    /\ LET reclaim == ~walGone /\ Len(wal) >= ReclaimLen
       IN  /\ walGone' = (walGone \/ reclaim)
           /\ reserved' = (reserved /\ ~reclaim)
           /\ fd' = IF reclaim THEN "none" ELSE fd
    /\ gen' = job.gen /\ cid' = job.cid
    /\ nextGen' = Larger(nextGen, job.gen + 1)
    /\ nextCid' = Larger(nextCid, job.cid + 1)
    /\ ClearPending
    /\ IF job.kind = "recover"
       THEN st' = "open" /\ job' = NoJob /\ UNCHANGED <<acked, call, ret>>
       ELSE st' = st /\ acked' = job.content /\ CallDone
    /\ UNCHANGED <<tree, buf, envs, latest, syncWrites, wal, walSynced, log, logSynced,
                   data, cached, points, nextMut, crashes, faults, maints>>

\* The end of publish_envelope_group_wal_first: the forced WAL prefix is the
\* acknowledgement; at the bound the same call goes on to flush().
SoftAck ==
    /\ At("ack")
    /\ gen' = job.gen /\ cid' = job.cid
    /\ unframed' = unframed + Len(pend) + 1
    /\ pend' = <<>>
    /\ acked' = job.content
    /\ IF Bound # 0 /\ unframed' >= Bound
       THEN /\ job' = CommitJob("materialize", <<>>, tree)
            /\ UNCHANGED <<call, ret>>
       ELSE CallDone
    /\ UNCHANGED <<st, tree, buf, envs, nextGen, nextCid, reserved, fd, latest,
                   syncWrites, diskVars, points, nextMut, crashes, faults, maints>>

\* compact_inner after its flush: with nothing to relocate it returns, else it
\* publishes the current manifest under a new generation.
Relocate ==
    /\ st = "open" /\ job = NoJob /\ call.op = "maint"
    /\ \/ /\ call' = NoCall /\ ret' = Returned("maint", "ok", call.group)
          /\ UNCHANGED <<job, maints>>
       \/ /\ job' = NewJob("maint", syncWrites, nextGen, latest.cid, latest.muts, latest.content)
          /\ maints' = maints + 1
          /\ UNCHANGED <<call, ret>>
    /\ UNCHANGED <<handleVars, diskVars, acked, points, nextMut, crashes, faults>>

\* publish_compaction_generation after the frame.
FinishRelocation ==
    /\ At("mfinish")
    /\ gen' = job.gen /\ nextGen' = job.gen + 1
    /\ job' = NoJob /\ call' = NoCall
    /\ ret' = Returned("maint", "ok", call.group)
    /\ UNCHANGED <<st, tree, pend, buf, envs, cid, nextCid, unframed, reserved, fd,
                   latest, syncWrites, diskVars, histVars>>

\* A dropped handle leaves nothing in memory.
HandleGone(s) ==
    /\ st' = s
    /\ tree' = <<>> /\ pend' = <<>> /\ buf' = <<>> /\ envs' = <<>>
    /\ gen' = 0 /\ cid' = 0 /\ nextGen' = 1 /\ nextCid' = 1
    /\ unframed' = 0 /\ reserved' = FALSE /\ fd' = "none"
    /\ latest' = Bootstrap /\ syncWrites' = FALSE
    /\ job' = NoJob /\ call' = NoCall

\* close() after its flush: remove the WAL and force the directory.
CloseRemove ==
    /\ st = "open" /\ job = NoJob /\ call.op = "close"
    /\ wal' = <<>> /\ walSynced' = 0 /\ walGone' = FALSE
    /\ HandleGone("closed")
    /\ ret' = Returned("close", "ok", call.group)
    /\ UNCHANGED <<log, logSynced, data, cached, histVars>>

\* close() whose directory sync fails: it returns before it drops the cached
\* WAL descriptor, and the handle stays open and unfenced.
CloseSyncFail ==
    /\ CloseSyncFails /\ faults < MaxFault /\ faults' = faults + 1
    /\ st = "open" /\ job = NoJob /\ call.op = "close"
    /\ walGone' = TRUE
    /\ fd' = IF fd = "live" THEN "unlinked" ELSE fd
    /\ call' = NoCall /\ ret' = Returned("close", "error", call.group)
    /\ UNCHANGED <<st, tree, pend, buf, envs, gen, cid, nextGen, nextCid, unframed,
                   reserved, latest, syncWrites, job, wal, walSynced, log,
                   logSynced, data, cached, acked, points, nextMut, crashes,
                   maints>>

-----------------------------------------------------------------------------
(* Errors, crashes and open. *)

\* Faulty variant: nobody does.
RestoredNone == envs

\* Who gets the envelopes back when a call fails: only the barrier that took
\* them, and only if its own publication failed.
RestoredEnvs == IF job.kind \in {"soft", "group"} THEN call.group ELSE envs

\* A capacity refusal happens before any page write: no fence.
Refuse ==
    /\ At("preflight") /\ job.kind # "recover"
    /\ faults < MaxFault /\ faults' = faults + 1
    /\ envs' = RestoredEnvs
    /\ job' = NoJob /\ call' = NoCall
    /\ ret' = Returned(call.op, "capacity", call.group)
    /\ UNCHANGED <<st, tree, pend, buf, gen, cid, nextGen, nextCid, unframed,
                   reserved, fd, latest, syncWrites, diskVars, acked, points,
                   nextMut, crashes, maints>>

\* Any other error of a step fences the handle.  A failed WAL append may leave
\* a prefix of what it was writing.
Fail ==
    /\ st = "open" /\ job # NoJob
    /\ faults < MaxFault /\ faults' = faults + 1
    /\ IF At("wal") \/ At("commit")
       THEN /\ \E n \in 0..Len(buf) : WriteWal(SubSeq(buf, 1, n), FALSE)
            /\ buf' = <<>>
       ELSE UNCHANGED <<walVars, fd, buf>>
    /\ st' = "fenced"
    /\ envs' = RestoredEnvs
    /\ job' = NoJob /\ call' = NoCall
    /\ ret' = Returned(call.op, "error", call.group)
    /\ UNCHANGED <<tree, pend, gen, cid, nextGen, nextCid, unframed, reserved,
                   latest, syncWrites, log, logSynced, data, cached, acked, points,
                   nextMut, crashes, maints>>

\* An error while open() publishes the recovered prefix makes open() fail.
OpenFail ==
    /\ st = "opening"
    /\ faults < MaxFault /\ faults' = faults + 1
    /\ HandleGone("closed")
    /\ ret' = Returned("open", "error", <<>>)
    /\ UNCHANGED <<diskVars, acked, points, nextMut, crashes, maints>>

\* The process ends, or the handle is dropped without close(): everything
\* written stays readable, forced or not.
ProcessCrash ==
    /\ "process" \in CrashKinds /\ crashes < MaxCrash /\ st # "closed"
    /\ crashes' = crashes + 1
    /\ HandleGone("closed")
    /\ ret' = NotReturned
    /\ UNCHANGED <<diskVars, acked, points, nextMut, faults, maints>>

\* What may be left of each file after a power loss: any extension of the
\* forced prefix; an unlinked WAL whose directory entry was not forced may be
\* back.  A torn record or frame is cut by the parsers, which stop at it.
WalSurvivors ==
    {SubSeq(wal, 1, k) : k \in walSynced..Len(wal)} \cup (IF walGone THEN {<<>>} ELSE {})
LogSurvivors == {SubSeq(log, 1, k) : k \in logSynced..Len(log)}

PowerLoss ==
    /\ "power" \in CrashKinds /\ crashes < MaxCrash
    /\ crashes' = crashes + 1
    /\ HandleGone("closed")
    /\ ret' = NotReturned
    /\ wal' \in WalSurvivors /\ walSynced' = Len(wal') /\ walGone' = FALSE
    /\ log' \in LogSurvivors /\ logSynced' = Len(log')
    /\ cached' = {}
    /\ UNCHANGED <<data, acked, points, nextMut, faults, maints>>

\* Does open() accept these files, given the pages it can read?
Openable(w, l, pages) ==
    /\ AnalysisOK(w, Authority(l))
    /\ Authority(l).content \in pages

\* The content open() arrives at.
Recovered(w, l) == Replayed(Reconciled(w), Authority(l))

\* open_with_mode: select the authority, reconcile and replay the WAL, and if
\* commits were ahead of the authority publish the last one as a frame.
Open ==
    /\ st = "closed"
    /\ Openable(Live, log, data \cup cached)
    /\ LET a == Authority(log)
           w == Reconciled(Live)
           ahead == {i \in DOMAIN w : Ahead(w[i], a)}
       IN  /\ gen' = a.gen /\ cid' = a.cid
           /\ nextGen' = a.gen + 1 /\ nextCid' = a.cid + 1
           /\ latest' = a /\ syncWrites' \in SyncModes
           /\ tree' = Replayed(w, a)
           /\ IF walGone THEN UNCHANGED walVars
              ELSE /\ wal' = w /\ walGone' = FALSE
                   /\ walSynced' = IF w = wal THEN walSynced ELSE Len(w)
           /\ IF ahead = {} THEN st' = "open" /\ job' = NoJob
              ELSE /\ st' = "opening"
                   /\ job' = LET c == w[Largest(ahead)]
                             IN  NewJob("recover", syncWrites', c.gen, c.cid, c.muts, tree')
    /\ logSynced' = IF WrittenBack THEN Len(log) ELSE logSynced
    /\ ret' = NotReturned
    /\ UNCHANGED <<pend, buf, envs, unframed, reserved, fd, call,
                   log, data, cached, histVars>>

-----------------------------------------------------------------------------

Init ==   \* a freshly created database: open() wrote the bootstrap frame
    /\ st = "open" /\ tree = <<>> /\ pend = <<>> /\ buf = <<>> /\ envs = <<>>
    /\ gen = 0 /\ cid = 0 /\ nextGen = 1 /\ nextCid = 1
    /\ unframed = 0 /\ reserved = FALSE /\ fd = "none" /\ latest = Bootstrap
    /\ syncWrites \in SyncModes
    /\ job = NoJob /\ call = NoCall /\ ret = NotReturned
    /\ wal = <<>> /\ walSynced = 0 /\ walGone = FALSE
    /\ log = <<Bootstrap>> /\ logSynced = 1
    /\ data = {<<>>} /\ cached = {}
    /\ acked = <<>> /\ points = {<<>>}
    /\ nextMut = 1 /\ crashes = 0 /\ faults = 0 /\ maints = 0

JobStep ==
    \/ WriteBuffer \/ ForceWal \/ Preflight \/ WritePages \/ SyncPages
    \/ AppendCommit \/ AppendFrame \/ ForceFrame \/ Finish \/ SoftAck
    \/ Relocate \/ FinishRelocation \/ CloseRemove

Call ==
    \/ \E failed \in BOOLEAN : Put(failed)
    \/ \E n \in 1..MaxBatch : AdmitBatch(n)
    \/ \E n \in 1..MaxBatch, failed \in BOOLEAN : CommitBatch(n, failed)
    \/ Barrier
    \/ \E op \in {"flush", "close", "maint"} : StartFlush(op)

Next ==
    \/ Call \/ JobStep \/ Refuse \/ Fail \/ OpenFail \/ CloseSyncFail
    \/ ProcessCrash \/ PowerLoss \/ Open

\* A call runs to its return on the caller's thread, and a closed database is
\* eventually opened again; calls, errors and crashes are never owed.
Spec == Init /\ [][Next]_vars /\ WF_vars(JobStep) /\ WF_vars(Open)
=============================================================================
