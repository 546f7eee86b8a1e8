---------------------------- MODULE WalRecovery ----------------------------
(***************************************************************************)
(* What open() reads off the durable files (db/wal_recovery.rs,            *)
(* db/envelope.rs, db/open.rs): the records of the write-ahead log, the    *)
(* frames of the metadata log, the validation of the commit envelopes      *)
(* against the authority frame, and their replay over its content.         *)
(***************************************************************************)
EXTENDS Integers, Sequences

Mut(m) == [type |-> "mut", m |-> m]
Commit(g, c, ms) == [type |-> "commit", gen |-> g, cid |-> c, muts |-> ms]
Frame(g, c, ms, content) == [gen |-> g, cid |-> c, muts |-> ms, content |-> content]
Bootstrap == Frame(0, 0, <<>>, <<>>)   \* bootstrap_manifest

MutsOf(recs) == [i \in DOMAIN recs |-> recs[i].m]

\* Indices of the commit envelopes of a WAL prefix.
CommitsIn(w) == {i \in DOMAIN w : w[i].type = "commit"}

Largest(S) == CHOOSE j \in S : \A k \in S : k <= j

\* End of the previous commit envelope before record i, 0 if none.
PrevCommit(w, i) ==
    LET earlier == {j \in CommitsIn(w) : j < i}
    IN  IF earlier = {} THEN 0 ELSE Largest(earlier)

\* analyze_wal_bytes: every commit envelope covers exactly the mutations
\* since the previous one, and agrees with the authority frame a.
AnalysisOK(w, a) ==
    \A i \in CommitsIn(w) :
        /\ w[i].muts = MutsOf(SubSeq(w, PrevCommit(w, i) + 1, i - 1))
        /\ w[i].gen < a.gen => w[i].cid <= a.cid
        /\ w[i].gen = a.gen => w[i].cid = a.cid /\ w[i].muts = a.muts
        /\ w[i].gen > a.gen => w[i].cid > a.cid

\* reconcile_wal: drop everything behind the last commit envelope.
Reconciled(w) == SubSeq(w, 1, PrevCommit(w, Len(w) + 1))

\* Faulty variant: replays the published commit once more.
AheadOrEqual(r, a) == r.type = "commit" /\ r.gen >= a.gen

\* A commit envelope ahead of the authority frame a.
Ahead(r, a) == r.type = "commit" /\ r.gen > a.gen

\* recover_from_wal: the tree after replaying those commits, in WAL order,
\* over a's content.
Replayed(w, a) ==
    LET replay[i \in 0..Len(w)] ==
            IF i = 0 THEN a.content
            ELSE IF Ahead(w[i], a) THEN replay[i - 1] \o w[i].muts ELSE replay[i - 1]
    IN  replay[Len(w)]

\* select_authority_manifest: the frame of the newest generation.
Authority(l) == l[CHOOSE i \in DOMAIN l : \A j \in DOMAIN l : l[j].gen <= l[i].gen]

=============================================================================
