----------------------- MODULE PublicationProperties -----------------------
(***************************************************************************)
(* What the commit path of Publication promises: what survives a crash,    *)
(* what recovery accepts, what an idle handle may rely on.                 *)
(***************************************************************************)
EXTENDS Publication

\* The contents open() would arrive at after a power loss or a process crash
\* in the current state.
Outcomes == {Replayed(w, a) : w \in {Reconciled(v) : v \in WalSurvivors},
                              a \in {Authority(l) : l \in LogSurvivors}}
            \cup {Recovered(Live, log)}

\* The abstract store whose possible contents these are.
Store == INSTANCE DurableStore WITH acked <- acked, may <- Outcomes

\* An acknowledged commit survives: wherever the process dies, and whatever
\* suffix of the unforced WAL and metadata log is lost, open() arrives at a
\* content that extends the last one reported durable.
AckedSurvives == \A c \in Outcomes : Store!Contains(c, acked)

\* Recovery never refuses its own files: in every crash outcome the WAL
\* envelopes match their mutation prefixes, agree with the selected frame,
\* and the frame names pages that were forced before it.
RecoveryAccepts ==
    /\ \A w \in WalSurvivors, l \in LogSurvivors : Openable(w, l, data)
    /\ Openable(Live, log, data \cup cached)

\* Old or complete new: a crash reveals only contents a commit was built for,
\* never part of a batch, of an envelope group or of a pending generation.
CommitBoundary == Outcomes \subseteq points

\* An idle handle that is not fenced agrees with its files: its tree is what
\* recovery would rebuild plus the pending mutations, and the frontier checks
\* that validate_runtime_state makes on entry of every public call never fail.
HandleAgreesWithDisk ==
    Idle => /\ tree = Recovered(Live, log) \o pend
            /\ nextGen > gen /\ nextCid > cid
            /\ IF unframed > 0 THEN latest.gen <= gen /\ latest.cid <= cid
               ELSE latest.gen = gen /\ latest.cid = cid
            /\ latest = Authority(log)

\* publication_barrier: a capacity refusal hands the envelopes back, so that
\* a later barrier can publish and acknowledge them.
RefusedGroupRestored ==
    ret.op = "barrier" /\ ret.status = "capacity" => envs = ret.group

\* A closed database always becomes open again: recovery is never refused
\* and its publication terminates, unless interrupted for ever.
ReopenConverges == st = "closed" ~> st = "open"

\* The commit path implements the abstract durable store.
StoreSpec == Store!Spec
=============================================================================
