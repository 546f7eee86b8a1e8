------------------------- MODULE PublicationProofs -------------------------
(***************************************************************************)
(* The theorems of the commit path, for any number of mutations, batches,  *)
(* generations, crashes and I/O errors.  They rest on the inductive        *)
(* invariant IInv (module PublicationInvariant), which every action keeps  *)
(* (module PublicationSteps for the steps of a publication, the first part *)
(* of this one for calls between publications, errors and crashes), and on *)
(* one identity: the contents open() would arrive at are exactly Reach.    *)
(*                                                                         *)
(* Regime is what is assumed of the environment: the kernel has written    *)
(* the metadata log back before a reopen without a power loss reads it,    *)
(* and a WAL-first handle drains its envelopes before flush, close and     *)
(* compact, and never sees close() fail at its directory sync.             *)
(***************************************************************************)
EXTENDS PublicationProperties, PublicationSteps

\* The leaves are Zenon's, unless they cite the SMT solver.
USE ZenonT(40)

(***************************************************************************)
(* Sequences of mutations and their records.                               *)
(***************************************************************************)
\* One more mutation.
LEMMA JoinOne ==
    ASSUME NEW a \in Content, NEW m \in Nat
    PROVE  Append(a, m) = a \o <<m>> /\ <<m>> \in Content /\ Append(a, m) \in Content
BY SMTT(20), AppendIsConcat, AppendProperties DEF Content

\* The mutations of two runs of records.
LEMMA MutsJoin ==
    ASSUME NEW s \in Seq(MutRec), NEW t \in Seq(MutRec)
    PROVE  s \o t \in Seq(MutRec) /\ MutsOf(s \o t) = MutsOf(s) \o MutsOf(t)
<1>1. /\ s \o t \in Seq(MutRec) /\ Len(s \o t) = Len(s) + Len(t)
      /\ \A i \in 1..(Len(s) + Len(t)) : (s \o t)[i] = IF i <= Len(s) THEN s[i] ELSE t[i - Len(s)]
  BY ConcatProperties
<1>2. /\ MutsOf(s) \in Seq(Nat) /\ Len(MutsOf(s)) = Len(s)
      /\ \A i \in 1..Len(s) : MutsOf(s)[i] = s[i].m
  BY MutsOfSeq DEF Content
<1>3. /\ MutsOf(t) \in Seq(Nat) /\ Len(MutsOf(t)) = Len(t)
      /\ \A i \in 1..Len(t) : MutsOf(t)[i] = t[i].m
  BY MutsOfSeq DEF Content
<1>4. /\ MutsOf(s \o t) \in Seq(Nat) /\ Len(MutsOf(s \o t)) = Len(s \o t)
      /\ \A i \in 1..Len(s \o t) : MutsOf(s \o t)[i] = (s \o t)[i].m
  BY <1>1, MutsOfSeq DEF Content
<1>5. /\ MutsOf(s) \o MutsOf(t) \in Seq(Nat)
      /\ Len(MutsOf(s) \o MutsOf(t)) = Len(s) + Len(t)
      /\ \A i \in 1..(Len(s) + Len(t)) : (MutsOf(s) \o MutsOf(t))[i] =
             IF i <= Len(s) THEN MutsOf(s)[i] ELSE MutsOf(t)[i - Len(s)]
  BY SMTT(20), <1>2, <1>3, ConcatProperties
<1> HIDE DEF MutsOf
<1>6. Len(s) \in Nat /\ Len(t) \in Nat
  BY SMTT(20)
<1>7. ASSUME NEW i \in 1..(Len(s) + Len(t)) PROVE MutsOf(s \o t)[i] = (MutsOf(s) \o MutsOf(t))[i]
  <2>1. CASE i <= Len(s)
    <3>1. i \in 1..Len(s) /\ i \in 1..Len(s \o t)
      BY SMTT(20), <1>1, <1>6, <2>1
    <3>2. MutsOf(s \o t)[i] = s[i].m
      BY <1>1, <1>4, <2>1, <3>1
    <3> QED
      BY <1>2, <1>5, <2>1, <3>1, <3>2
  <2>2. CASE ~ (i <= Len(s))
    <3>1. i - Len(s) \in 1..Len(t)
      BY SMTT(20), <1>6, <2>2
    <3> QED
      BY <1>1, <1>3, <1>4, <1>5, <1>6, <2>2, <3>1
  <2> QED
    BY <2>1, <2>2
<1>8. /\ Len(MutsOf(s \o t)) = Len(MutsOf(s) \o MutsOf(t))
      /\ \A i \in 1..Len(MutsOf(s \o t)) : MutsOf(s \o t)[i] = (MutsOf(s) \o MutsOf(t))[i]
  BY <1>1, <1>4, <1>5, <1>7
<1> QED
  BY <1>1, <1>4, <1>5, <1>8, SeqEqual

\* The mutations of a run with one more record.
LEMMA MutsAppend ==
    ASSUME NEW s \in Seq(MutRec), NEW m \in Nat
    PROVE  Append(s, Mut(m)) \in Seq(MutRec) /\ MutsOf(Append(s, Mut(m))) = Append(MutsOf(s), m)
<1>1. Mut(m) \in MutRec /\ Mut(m).m = m
  BY DEF Mut, MutRec
<1>2. /\ Append(s, Mut(m)) \in Seq(MutRec) /\ Append(s, Mut(m)) = s \o <<Mut(m)>>
      /\ <<Mut(m)>> \in Seq(MutRec)
  BY SMTT(20), <1>1, AppendIsConcat, AppendProperties
<1>3. MutsOf(s \o <<Mut(m)>>) = MutsOf(s) \o MutsOf(<<Mut(m)>>)
  BY <1>2, MutsJoin
<1>4. MutsOf(<<Mut(m)>>) = <<m>>
  BY SMTT(20), <1>1 DEF MutsOf
<1>5. Append(MutsOf(s), m) = MutsOf(s) \o <<m>>
  BY MutsOfSeq, JoinOne
<1> QED
  BY <1>2, <1>3, <1>4, <1>5

\* The mutations a batch issues, and their records.
LEMMA NewMutsIs ==
    ASSUME nextMut \in Nat, NEW n \in Nat
    PROVE  /\ NewMuts(n) \in Content /\ Len(NewMuts(n)) = n
           /\ Recs(NewMuts(n)) \in Seq(MutRec) /\ MutsOf(Recs(NewMuts(n))) = NewMuts(n)
           /\ Len(Recs(NewMuts(n))) = n
<1>1. NewMuts(n) \in Seq(Nat) /\ Len(NewMuts(n)) = n /\ DOMAIN NewMuts(n) = 1..n
  <2>1. \A i \in 1..n : nextMut + i - 1 \in Nat
    BY SMTT(20)
  <2> QED
    BY SMTT(20), <2>1 DEF NewMuts
<1> HIDE DEF NewMuts
<1>2. ASSUME NEW ms \in Seq(Nat), DOMAIN ms = 1..n, Len(ms) = n
      PROVE  /\ Recs(ms) \in Seq(MutRec) /\ Len(Recs(ms)) = n
             /\ \A i \in 1..n : Recs(ms)[i].m = ms[i]
  <2>1. \A i \in 1..n : Mut(ms[i]) \in MutRec /\ Mut(ms[i]).m = ms[i]
    BY SMTT(20), <1>2 DEF Mut, MutRec
  <2> QED
    BY SMTT(20), <1>2, <2>1 DEF Recs
<1>3. /\ Recs(NewMuts(n)) \in Seq(MutRec) /\ Len(Recs(NewMuts(n))) = n
      /\ \A i \in 1..n : Recs(NewMuts(n))[i].m = NewMuts(n)[i]
  BY <1>1, <1>2
<1> HIDE DEF Recs
<1>4. /\ MutsOf(Recs(NewMuts(n))) \in Seq(Nat) /\ Len(MutsOf(Recs(NewMuts(n)))) = n
      /\ \A i \in 1..n : MutsOf(Recs(NewMuts(n)))[i] = NewMuts(n)[i]
  BY <1>3, MutsOfSeq DEF Content
<1>5. MutsOf(Recs(NewMuts(n))) = NewMuts(n)
  BY <1>1, <1>4, SeqEqual
<1> QED
  BY <1>1, <1>3, <1>5 DEF Content

(***************************************************************************)
(* Calls between two publications.                                         *)
(***************************************************************************)
\* The identities and frames a call leaves alone, in an open database whose
\* publication, if any, has changed no file yet.
Unmoved ==
    /\ st = "open" /\ ~ Committed /\ ~ Framed /\ ~ Finishing
    /\ UNCHANGED <<st, gen, cid, nextGen, nextCid, unframed, latest, syncWrites>>
    /\ Forced' = Forced /\ Newest' = Newest /\ CommitsFrom(wal', wal)

\* The tree and the files after it.
TreeNow ==
    /\ tree' = Replayed(Live', Forced) \o pend'
    /\ fd' # "unlinked" => TailMuts(Live') \o MutsOf(buf') = pend'
    /\ fd' = "unlinked" => Live' = << >>

\* What the handle knows of its files, after a step that leaves no
\* publication in progress.
LEMMA IdleRun ==
    ASSUME FrameInv, IdInv, Unmoved, TreeNow, job' = NoJob
    PROVE  FrameInv' /\ TreeInv' /\ IdInv' /\ JobPagesInv'
<1>1. ~ Framed' /\ ~ Finishing' /\ ~ Committed' /\ JobPagesInv'
  BY DEF Framed, Finishing, Committed, JobPagesInv
<1>2. Unjournaled' = pend'
  BY <1>1 DEF Unjournaled, Journaled
<1>3. FrameInv'
  BY <1>1 DEF FrameInv, Unmoved
<1>4. TreeInv'
  BY <1>1, <1>2 DEF TreeInv, Unmoved, TreeNow
<1>5. IdInv'
  <2>1. \A i \in CommitsIn(wal') : wal'[i].gen <= gen' /\ wal'[i].cid <= cid'
    BY DEF IdInv, Unmoved, CommitsFrom
  <2>2. /\ gen' < nextGen' /\ cid' < nextCid' /\ st' # "opening"
        /\ Forced'.gen <= gen' /\ Forced'.cid <= cid'
        /\ unframed' = 0 => Forced'.gen = gen' /\ Forced'.cid = cid'
    BY DEF IdInv, Unmoved
  <2> QED
    BY <1>1, <2>1, <2>2 DEF IdInv
<1> QED
  BY <1>1, <1>3, <1>4, <1>5

\* The same after a step that starts one.
LEMMA BegunRun ==
    ASSUME TypeInv, FrameInv, IdInv, Unmoved, TreeNow, tree' \in Content,
           NEW kind \in Kinds, NEW c \in Nat, NEW ms \in Content,
           IF kind = "maint" THEN c = cid ELSE c = nextCid,
           job' = NewJob(kind, syncWrites, nextGen, c, ms, tree')
    PROVE  /\ FrameInv' /\ TreeInv' /\ IdInv' /\ JobPagesInv'
           /\ job' \in JobRec /\ job' # NoJob /\ Rest(job'.kind, syncWrites', job'.todo)
           /\ job'.kind = kind /\ job'.muts = ms
<1>1. syncWrites \in BOOLEAN /\ nextGen \in Nat /\ syncWrites' = syncWrites
  BY DEF TypeInv, Unmoved
<1>2. /\ job' \in JobRec /\ job' # NoJob /\ Rest(job'.kind, syncWrites', job'.todo)
      /\ job'.kind = kind /\ job'.gen = nextGen /\ job'.cid = c /\ job'.muts = ms
      /\ job'.content = tree'
      /\ ~ Committed' /\ ~ Framed' /\ ~ Finishing' /\ JobPagesInv'
      /\ kind = "soft" => Len(job'.todo) # 1
  BY <1>1, Started
<1>3. Unjournaled' = pend'
  BY <1>2 DEF Unjournaled, Journaled
<1>4. FrameInv'
  BY <1>2 DEF FrameInv, Unmoved
<1>5. TreeInv'
  BY <1>2, <1>3 DEF TreeInv, Unmoved, TreeNow
<1>6. IdInv'
  <2>1. \A i \in CommitsIn(wal') : wal'[i].gen <= gen' /\ wal'[i].cid <= cid'
    BY DEF IdInv, Unmoved, CommitsFrom
  <2>2. /\ gen' < nextGen' /\ cid' < nextCid' /\ st' # "opening"
        /\ Forced'.gen <= gen' /\ Forced'.cid <= cid'
        /\ unframed' = 0 => Forced'.gen = gen' /\ Forced'.cid = cid'
    BY DEF IdInv, Unmoved
  <2>3. gen' < job'.gen /\ IF job'.kind = "maint" THEN job'.cid = cid' ELSE cid' < job'.cid
    BY <1>2, <2>2 DEF Unmoved
  <2>4. job'.kind = "soft" => job'.gen = nextGen' /\ job'.cid = nextCid'
    BY <1>2 DEF Unmoved
  <2> QED
    BY <1>2, <2>1, <2>2, <2>3, <2>4 DEF IdInv
<1> QED
  BY <1>2, <1>4, <1>5, <1>6

\* The job flush() picks.
LEMMA FlushJobIs ==
    ASSUME TypeInv, CallInv, st = "open"
    PROVE  \/ FlushJob = NoJob /\ envs = << >> /\ pend = << >> /\ unframed = 0
           \/ \E kind \in WriteKinds :
                 /\ FlushJob = NewJob(kind, syncWrites, nextGen, nextCid, pend, tree)
                 /\ reserved /\ (envs # << >> => pend # << >>)
                 /\ kind = "soft" => WalFirst /\ envs # << >>
<1>1. unframed \in Nat
  BY DEF TypeInv
<1>2. CASE envs # << >>
  <2>1. pend # << >> /\ reserved
    BY <1>2 DEF CallInv
  <2> QED
    BY SMTT(20), <1>2, <2>1 DEF FlushJob, CommitJob, WriteKinds, CommitKinds
<1>3. CASE envs = << >> /\ pend # << >>
  <2>1. reserved
    BY <1>3 DEF CallInv
  <2> QED
    BY SMTT(20), <1>3, <2>1 DEF FlushJob, CommitJob, WriteKinds, CommitKinds
<1>4. CASE envs = << >> /\ pend = << >> /\ unframed > 0
  <2>1. reserved
    BY <1>4 DEF CallInv
  <2> QED
    BY SMTT(20), <1>4, <2>1 DEF FlushJob, CommitJob, WriteKinds, CommitKinds
<1>5. CASE envs = << >> /\ pend = << >> /\ ~ (unframed > 0)
  BY SMTT(20), <1>1, <1>5 DEF FlushJob
<1> QED
  BY <1>2, <1>3, <1>4, <1>5

\* An open database with no publication in progress.
LEMMA Between ==
    ASSUME IInv, st = "open", job = NoJob
    PROVE  /\ TypeInv /\ LogInv /\ WalInv /\ PageInv /\ TreeInv /\ CallInv /\ OutcomeInv /\ IdInv /\ FrameInv
           /\ ~ Committed /\ ~ Framed /\ ~ Finishing /\ Newest = Forced
           /\ tree = Replayed(Live, Forced) \o pend
           /\ fd # "unlinked" => TailMuts(Live) \o MutsOf(buf) = pend
           /\ fd = "unlinked" => Live = << >>
<1>1. /\ TypeInv /\ LogInv /\ WalInv /\ PageInv /\ TreeInv /\ CallInv /\ OutcomeInv /\ IdInv /\ FrameInv
  BY DEF IInv, Running, RunInv, DiskInv
<1>2. ~ Committed /\ ~ Framed /\ ~ Finishing
  BY DEF Committed, Framed, Finishing
<1>3. Newest = Forced
  BY <1>1, <1>2 DEF FrameInv
<1>4. Unjournaled = pend
  BY <1>2 DEF Unjournaled, Journaled
<1>5. /\ tree = Replayed(Live, Forced) \o pend
      /\ fd # "unlinked" => TailMuts(Live) \o MutsOf(buf) = pend
      /\ fd = "unlinked" => Live = << >>
  BY <1>1, <1>4 DEF TreeInv
<1> QED
  BY <1>1, <1>2, <1>3, <1>5

\* The files as they were.
LEMMA FilesStay ==
    ASSUME LogInv, WalInv, PageInv, UNCHANGED diskVars
    PROVE  /\ LogInv' /\ WalInv' /\ PageInv' /\ Reach' = Reach /\ Live' = Live
           /\ Forced' = Forced /\ Newest' = Newest /\ CommitsFrom(wal', wal)
<1>1. Live' = Live /\ Forced' = Forced /\ Newest' = Newest
  BY DEF Live, Forced, Newest, diskVars
<1> QED
  BY <1>1 DEF LogInv, WalInv, PageInv, Reach, CommitsFrom, diskVars

\* flush(), close() and compact() begin, or the barrier takes its group.
LEMMA FlushBegins ==
    ASSUME IInv, Regime, Idle, NEW op \in {"barrier", "flush", "close", "maint"},
           job' = FlushJob, call' = [op |-> op, group |-> envs], envs' = << >>,
           IF op = "barrier" THEN envs # << >> ELSE DrainFirst => envs = << >>,
           FlushJob = NoJob => op # "flush",
           UNCHANGED <<st, tree, pend, buf, gen, cid, nextGen, nextCid, unframed, reserved, fd, latest,
                       syncWrites, diskVars, acked, points, nextMut>>
    PROVE  IInv' /\ Effect
<1>1. /\ TypeInv /\ LogInv /\ WalInv /\ PageInv /\ TreeInv /\ CallInv /\ OutcomeInv /\ IdInv /\ FrameInv
      /\ ~ Committed /\ ~ Framed /\ ~ Finishing /\ Newest = Forced
      /\ tree = Replayed(Live, Forced) \o pend
      /\ fd # "unlinked" => TailMuts(Live) \o MutsOf(buf) = pend
      /\ fd = "unlinked" => Live = << >>
  BY Between DEF Idle
<1>2. /\ LogInv' /\ WalInv' /\ PageInv' /\ Reach' = Reach /\ Live' = Live
      /\ Forced' = Forced /\ Newest' = Newest /\ CommitsFrom(wal', wal)
  BY <1>1, FilesStay
<1>3. OutcomeInv' /\ Effect
  BY <1>1, <1>2, Settled DEF OutcomeInv
<1>4. Unmoved /\ TreeNow
  BY <1>1, <1>2 DEF Unmoved, TreeNow, Idle
<1>5. call' \in CallRec /\ call'.op = op /\ call'.group = envs /\ envs' \in Seq(Nat)
  BY SMTT(20), <1>1 DEF TypeInv, CallRec
<1>6. CASE FlushJob = NoJob /\ envs = << >> /\ pend = << >> /\ unframed = 0
  <2>1. FrameInv' /\ TreeInv' /\ IdInv' /\ JobPagesInv'
    BY <1>1, <1>4, <1>6, IdleRun
  <2>2. TypeInv'
    BY <1>1, <1>5, <1>6 DEF TypeInv
  <2>3. CallInv'
    BY <1>1, <1>5, <1>6 DEF CallInv, Idle
  <2> QED
    BY <1>2, <1>3, <2>1, <2>2, <2>3 DEF IInv, DiskInv, RunInv
<1>7. ASSUME NEW kind \in WriteKinds,
             FlushJob = NewJob(kind, syncWrites, nextGen, nextCid, pend, tree),
             reserved, envs # << >> => pend # << >>,
             kind = "soft" => WalFirst /\ envs # << >>
      PROVE  IInv' /\ Effect
  <2>1. kind \in Kinds /\ kind \notin {"recover", "maint"}
    BY DEF Kinds, WriteKinds, CommitKinds
  <2>2. nextCid \in Nat /\ pend \in Content /\ tree' \in Content
    BY <1>1 DEF TypeInv
  <2>3. /\ FrameInv' /\ TreeInv' /\ IdInv' /\ JobPagesInv'
        /\ job' \in JobRec /\ job' # NoJob /\ Rest(job'.kind, syncWrites', job'.todo)
        /\ job'.kind = kind /\ job'.muts = pend
    BY <1>1, <1>4, <1>7, <2>1, <2>2, BegunRun
  <2>4. TypeInv'
    BY <1>1, <1>5, <2>3 DEF TypeInv
  <2>5. kind = "soft" => op = "barrier"
    BY <1>7 DEF Regime
  <2>6. CallInv'
    BY <1>1, <1>5, <1>7, <2>1, <2>3, <2>5 DEF CallInv, Idle
  <2> QED
    BY <1>2, <1>3, <2>3, <2>4, <2>6 DEF IInv, DiskInv, RunInv
<1> QED
  BY <1>1, <1>6, <1>7, FlushJobIs DEF Idle

\* Starting the publication of a group keeps the invariant.
LEMMA BarrierInv ==
    ASSUME IInv, Regime, Barrier
    PROVE  IInv' /\ Effect
<1>1. /\ Idle /\ envs # << >> /\ job' = FlushJob /\ call' = [op |-> "barrier", group |-> envs]
      /\ envs' = << >>
      /\ UNCHANGED <<st, tree, pend, buf, gen, cid, nextGen, nextCid, unframed, reserved, fd, latest,
                     syncWrites, diskVars, acked, points, nextMut>>
  BY DEF Barrier, histVars
<1> QED
  BY <1>1, FlushBegins

\* With nothing pending and nothing unframed, all the WAL says is published.
LEMMA Drained ==
    ASSUME IInv, st = "open", job = NoJob, pend = << >>, unframed = 0
    PROVE  /\ Forced \in FrameRec /\ Forced.gen = gen /\ Forced.cid = cid /\ latest = Forced
           /\ UpTo(wal, Forced.gen) /\ Reach = {Forced.content} /\ tree = Forced.content
           /\ \A h \in BOOLEAN : Fits(wal, walSynced, h, Forced, Forced)
<1>1. /\ TypeInv /\ LogInv /\ WalInv /\ PageInv /\ TreeInv /\ CallInv /\ OutcomeInv /\ IdInv /\ FrameInv
      /\ ~ Committed /\ ~ Framed /\ ~ Finishing /\ Newest = Forced
      /\ tree = Replayed(Live, Forced) \o pend
  BY Between
<1>2. Forced.gen = gen /\ Forced.cid = cid /\ latest = Forced /\ Forced \in FrameRec
  BY <1>1 DEF IdInv, FrameInv, WalInv, Fits, Newer
<1>3. UpTo(wal, Forced.gen)
  BY <1>1, <1>2 DEF IdInv, UpTo
<1>4. /\ Reach = {Forced.content} /\ Replayed(wal, Forced) = Forced.content
      /\ \A h \in BOOLEAN : Fits(wal, walSynced, h, Forced, Forced)
  BY <1>1, <1>3, FitsPublished DEF WalInv, Reach
<1>5. Replayed(Live, Forced) = Replayed(wal, Forced) /\ Forced.content \in Content
  BY <1>1, <1>2, LiveReplay, FrameFields
<1>6. tree = Forced.content
  BY <1>1, <1>4, <1>5, JoinNone
<1> QED
  BY <1>2, <1>3, <1>4, <1>6

\* flush() with nothing to publish acknowledges what is published.
LEMMA StartFlushInv ==
    ASSUME IInv, Regime, NEW op \in {"flush", "close", "maint"}, StartFlush(op)
    PROVE  IInv' /\ Effect
<1>1. /\ Idle /\ (DrainFirst => envs = << >>)
      /\ UNCHANGED <<st, tree, pend, buf, gen, cid, nextGen, nextCid, unframed, reserved, fd, latest,
                     syncWrites, diskVars, points, nextMut>>
  BY DEF StartFlush
<1>2. CASE FlushJob = NoJob /\ op = "flush"
  <2>1. acked' = tree /\ UNCHANGED <<job, call, envs>>
    BY <1>2 DEF StartFlush
  <2>2. /\ TypeInv /\ LogInv /\ WalInv /\ PageInv /\ TreeInv /\ CallInv /\ OutcomeInv /\ IdInv /\ FrameInv
        /\ ~ Committed /\ ~ Framed /\ ~ Finishing /\ Newest = Forced
        /\ tree = Replayed(Live, Forced) \o pend
        /\ fd # "unlinked" => TailMuts(Live) \o MutsOf(buf) = pend
        /\ fd = "unlinked" => Live = << >>
    BY <1>1, Between DEF Idle
  <2>3. /\ LogInv' /\ WalInv' /\ PageInv' /\ Reach' = Reach /\ Live' = Live
        /\ Forced' = Forced /\ Newest' = Newest /\ CommitsFrom(wal', wal)
    BY <1>1, <2>2, FilesStay
  <2>4. Unmoved /\ TreeNow /\ job' = NoJob
    BY <1>1, <2>1, <2>2, <2>3 DEF Unmoved, TreeNow, Idle
  <2>5. FrameInv' /\ TreeInv' /\ IdInv' /\ JobPagesInv'
    BY <2>2, <2>4, IdleRun
  <2>6. TypeInv' /\ CallInv'
    <3>1. TypeInv'
      BY <1>1, <2>1, <2>2, <2>4 DEF TypeInv
    <3>2. CallInv'
      BY <1>1, <2>1, <2>2, <2>4 DEF CallInv
    <3> QED
      BY <3>1, <3>2
  <2>7. pend = << >> /\ unframed = 0
    <3>1. ASSUME NEW kind \in WriteKinds,
                 FlushJob = NewJob(kind, syncWrites, nextGen, nextCid, pend, tree)
          PROVE  FALSE
      <4>1. NewJob(kind, syncWrites, nextGen, nextCid, pend, tree).todo = Steps(kind, syncWrites)
        BY DEF NewJob
      <4>2. kind # "none" /\ NewJob(kind, syncWrites, nextGen, nextCid, pend, tree).kind = kind
        BY DEF NewJob, WriteKinds, CommitKinds
      <4> QED
        BY SMTT(20), <1>2, <3>1, <4>2 DEF NoJob
    <3> QED
      BY <1>1, <2>2, <3>1, FlushJobIs DEF Idle
  <2>8. Reach = {tree}
    BY <1>1, <2>7, Drained DEF Idle
  <2>10. OutcomeInv' /\ Effect
    BY <1>1, <2>1, <2>2, <2>3, <2>8, Acked
  <2> QED
    BY <2>3, <2>5, <2>6, <2>10 DEF IInv, DiskInv, RunInv
<1>3. CASE ~ (FlushJob = NoJob /\ op = "flush")
  <2>1. job' = FlushJob /\ call' = [op |-> op, group |-> envs] /\ envs' = << >> /\ acked' = acked
    BY <1>3 DEF StartFlush
  <2>2. op # "barrier" /\ op \in {"barrier", "flush", "close", "maint"}
    OBVIOUS
  <2> QED
    BY <1>1, <1>3, <2>1, <2>2, FlushBegins
<1> QED
  BY <1>2, <1>3

\* What is left of a handle that is dropped.
LEMMA Dropped ==
    ASSUME HandleGone("closed")
    PROVE  TypeInv' /\ CallInv' /\ ~ Running'
<1>1. TypeInv'
  BY MutsNone, NoCallIs DEF TypeInv, HandleGone, Content
<1>2. CallInv'
  BY DEF CallInv, HandleGone
<1>3. ~ Running'
  BY DEF Running, HandleGone
<1> QED
  BY <1>1, <1>2, <1>3

\* Starting a relocation, or returning without one, keeps the invariant.
LEMMA RelocateInv ==
    ASSUME IInv, Relocate
    PROVE  IInv' /\ Effect
<1>1. /\ st = "open" /\ job = NoJob /\ call.op = "maint"
      /\ UNCHANGED <<handleVars, diskVars, acked, points, nextMut>>
  BY DEF Relocate
<1>2. /\ TypeInv /\ LogInv /\ WalInv /\ PageInv /\ TreeInv /\ CallInv /\ OutcomeInv /\ IdInv /\ FrameInv
      /\ ~ Committed /\ ~ Framed /\ ~ Finishing /\ Newest = Forced
      /\ tree = Replayed(Live, Forced) \o pend
      /\ fd # "unlinked" => TailMuts(Live) \o MutsOf(buf) = pend
      /\ fd = "unlinked" => Live = << >>
  BY <1>1, Between
<1>3. pend = << >> /\ unframed = 0 /\ envs = << >>
  BY <1>1, <1>2, NoCallIs DEF CallInv
<1>4. /\ Forced \in FrameRec /\ Forced.gen = gen /\ Forced.cid = cid /\ latest = Forced
      /\ tree = Forced.content
  BY <1>1, <1>3, Drained
<1>5. /\ LogInv' /\ WalInv' /\ PageInv' /\ Reach' = Reach /\ Live' = Live
      /\ Forced' = Forced /\ Newest' = Newest /\ CommitsFrom(wal', wal)
  BY <1>1, <1>2, FilesStay
<1>6. OutcomeInv' /\ Effect
  BY <1>1, <1>2, <1>5, Settled DEF OutcomeInv
<1>7. Unmoved /\ TreeNow
  BY <1>1, <1>2, <1>5 DEF Unmoved, TreeNow, handleVars
<1>8. CASE call' = NoCall /\ job' = job
  <2>1. FrameInv' /\ TreeInv' /\ IdInv' /\ JobPagesInv'
    BY <1>1, <1>2, <1>7, <1>8, IdleRun
  <2>2. TypeInv'
    BY <1>1, <1>2, <1>8, NoCallIs DEF TypeInv, handleVars
  <2>3. CallInv'
    BY <1>1, <1>2, <1>8 DEF CallInv, handleVars
  <2> QED
    BY <1>5, <1>6, <2>1, <2>2, <2>3 DEF IInv, DiskInv, RunInv
<1>9. CASE call' = call /\ job' = NewJob("maint", syncWrites, nextGen, latest.cid, latest.muts, latest.content)
  <2>1. /\ "maint" \in Kinds /\ latest.cid \in Nat /\ latest.muts \in Content
        /\ latest.cid = cid /\ latest.content = tree' /\ tree' \in Content
    BY <1>1, <1>2, <1>4, FrameFields DEF Kinds, handleVars, TypeInv
  <2>2. /\ FrameInv' /\ TreeInv' /\ IdInv' /\ JobPagesInv'
        /\ job' \in JobRec /\ job' # NoJob /\ Rest(job'.kind, syncWrites', job'.todo)
        /\ job'.kind = "maint" /\ job'.muts = latest.muts
    BY <1>2, <1>7, <1>9, <2>1, BegunRun
  <2>3. TypeInv'
    BY <1>1, <1>2, <1>9, <2>2 DEF TypeInv, handleVars
  <2>4. CallInv'
    BY <1>1, <1>2, <1>3, <1>9, <2>2 DEF CallInv, handleVars, WriteKinds, CommitKinds
  <2> QED
    BY <1>5, <1>6, <2>2, <2>3, <2>4 DEF IInv, DiskInv, RunInv
<1> QED
  BY <1>8, <1>9 DEF Relocate

\* Removing the WAL and dropping the handle keep the invariant.
LEMMA CloseRemoveInv ==
    ASSUME IInv, CloseRemove
    PROVE  IInv' /\ Effect
<1>1. /\ st = "open" /\ job = NoJob /\ call.op = "close"
      /\ wal' = << >> /\ walSynced' = 0 /\ walGone' = FALSE /\ HandleGone("closed")
      /\ UNCHANGED <<log, logSynced, data, cached, acked, points, nextMut>>
  BY DEF CloseRemove, histVars
<1>2. LogInv /\ WalInv /\ PageInv /\ CallInv /\ OutcomeInv /\ Newest = Forced
  BY <1>1, Between
<1>3. pend = << >> /\ unframed = 0
  BY <1>1, <1>2, NoCallIs DEF CallInv
<1>4. Forced \in FrameRec /\ Reach = {Forced.content}
  BY <1>1, <1>3, Drained
<1>5. Forced' = Forced /\ Newest' = Forced
  BY <1>1, <1>2 DEF Forced, Newest
<1>6. WalInv' /\ Reach' = Reach
  BY <1>1, <1>4, <1>5, FitsEmpty DEF WalInv, Reach
<1>7. LogInv' /\ PageInv'
  BY <1>1, <1>2, <1>5 DEF LogInv, PageInv
<1>8. OutcomeInv' /\ Effect
  BY <1>1, <1>2, <1>6, Settled DEF OutcomeInv
<1>9. TypeInv' /\ CallInv' /\ ~ Running'
  BY <1>1, Dropped
<1> QED
  BY <1>6, <1>7, <1>8, <1>9 DEF IInv, DiskInv

\* A close() that fails at its directory sync keeps the invariant.
LEMMA CloseSyncFailInv ==
    ASSUME IInv, CloseSyncFail
    PROVE  IInv' /\ Effect
<1>1. /\ st = "open" /\ job = NoJob /\ call.op = "close" /\ CloseSyncFails
      /\ walGone' = TRUE /\ fd' = (IF fd = "live" THEN "unlinked" ELSE fd) /\ call' = NoCall
      /\ UNCHANGED <<st, tree, pend, buf, envs, gen, cid, nextGen, nextCid, unframed, reserved, latest,
                     syncWrites, job, wal, walSynced, log, logSynced, data, cached, acked, points, nextMut>>
  BY DEF CloseSyncFail
<1>2. /\ TypeInv /\ LogInv /\ WalInv /\ PageInv /\ CallInv /\ OutcomeInv /\ IdInv /\ FrameInv
      /\ ~ Committed /\ ~ Framed /\ ~ Finishing /\ Newest = Forced
      /\ fd # "unlinked" => TailMuts(Live) \o MutsOf(buf) = pend
  BY <1>1, Between
<1>3. pend = << >> /\ unframed = 0
  BY <1>1, <1>2, NoCallIs DEF CallInv
<1>4. /\ Forced \in FrameRec /\ Reach = {Forced.content} /\ tree = Forced.content
      /\ \A h \in BOOLEAN : Fits(wal, walSynced, h, Forced, Forced)
  BY <1>1, <1>3, Drained
<1>5. Forced' = Forced /\ Newest' = Forced /\ Live' = << >>
  BY <1>1, <1>2 DEF Forced, Newest, Live
<1>6. WalInv' /\ Reach' = Reach
  BY <1>1, <1>2, <1>4, <1>5 DEF WalInv, Reach
<1>7. LogInv' /\ PageInv'
  BY <1>1, <1>2, <1>5 DEF LogInv, PageInv
<1>8. OutcomeInv' /\ Effect
  BY <1>1, <1>2, <1>6, Settled DEF OutcomeInv
<1>9. TypeInv'
  BY <1>1, <1>2, NoCallIs DEF TypeInv
<1>10. CallInv'
  BY <1>1, <1>2 DEF CallInv
<1>11. fd # "unlinked" => MutsOf(buf) = << >>
  <2>1. Live \in Seq(Rec) /\ buf \in Seq(MutRec)
    BY <1>2, EmptyLog DEF WalInv, Fits, Live, TypeInv
  <2>2. TailMuts(Live) \in Seq(Nat) /\ MutsOf(buf) \in Seq(Nat)
    BY <2>1, TailIs, MutsOfSeq DEF Content
  <2> QED
    BY SMTT(20), <1>2, <1>3, <2>2, ConcatEqualIffEmpty
<1>12. Unmoved /\ TreeNow
  <2>1. Replayed(<< >>, Forced) = Forced.content /\ TailMuts(<< >>) = << >> /\ Forced.content \in Content
    BY <1>4, EmptyLog, FrameFields
  <2>2. tree' = Replayed(Live', Forced) \o pend'
    BY <1>1, <1>3, <1>4, <1>5, <2>1, JoinNone
  <2>3. fd' # "unlinked" => TailMuts(Live') \o MutsOf(buf') = pend'
    BY <1>1, <1>3, <1>5, <1>11, <2>1, JoinNone, MutsNone
  <2>4. CommitsFrom(wal', wal)
    BY <1>1 DEF CommitsFrom
  <2> QED
    BY <1>1, <1>2, <1>5, <2>2, <2>3, <2>4 DEF Unmoved, TreeNow
<1>13. FrameInv' /\ TreeInv' /\ IdInv' /\ JobPagesInv'
  BY <1>1, <1>2, <1>12, IdleRun
<1> QED
  BY <1>6, <1>7, <1>8, <1>9, <1>10, <1>13 DEF IInv, DiskInv, RunInv

(***************************************************************************)
(* Errors and crashes.                                                     *)
(***************************************************************************)
\* Before its envelope a job has published nothing.
LEMMA NothingYet ==
    ASSUME TypeInv, job # NoJob, Head(job.todo) \in {"wal", "preflight", "commit"}
    PROVE  /\ ~ Committed /\ ~ Framed /\ ~ Finishing
           /\ Head(job.todo) = "preflight" => job.kind # "soft"
<1> DEFINE n == Len(job.todo)
           p == PagesLeft
           h == Head(job.todo)
<1>1. /\ Stage(job.kind, syncWrites, h, n) /\ n \in Nat /\ p \in {3, 4, 5}
      /\ p = AfterPages(job.kind, syncWrites)
  BY JobNow
<1>2. "soft" \notin CommitKinds
  BY DEF CommitKinds
<1>3. /\ Committed <=> (job.kind \in CommitKinds /\ n < p) \/ (job.kind = "soft" /\ n < 3)
      /\ Framed <=> job.kind # "soft" /\ n = 2
      /\ Finishing <=> job.kind # "soft" /\ n = 1
  BY DEF Committed, Framed, Finishing
<1> HIDE DEF n, p
<1>4. \/ h = "wal" /\ job.kind \in CommitKinds /\ n > p + 3
      \/ h = "preflight" /\ job.kind # "soft" /\ n = p + 3
      \/ h = "commit" /\ job.kind \in CommitKinds /\ n = p
      \/ h = "commit" /\ job.kind = "soft" /\ n = 3
  BY <1>1 DEF Stage
<1> HIDE DEF h
<1>5. ~ Committed /\ ~ Framed /\ ~ Finishing /\ (h = "preflight" => job.kind # "soft")
  BY SMTT(20), <1>1, <1>2, <1>3, <1>4
<1> QED
  BY <1>5 DEF h

\* The envelopes given back.
LEMMA Restored ==
    ASSUME TypeInv, CallInv, job # NoJob
    PROVE  RestoredEnvs \in Seq(Nat) /\ (RestoredEnvs # << >> => pend # << >>)
<1>1. call.group \in Seq(Nat) /\ envs \in Seq(Nat)
  BY DEF TypeInv, CallRec
<1>2. envs = << >> /\ (job.kind \in {"soft", "group"} /\ call.group # << >> => pend # << >>)
  BY DEF CallInv
<1> QED
  BY <1>1, <1>2 DEF RestoredEnvs

\* A capacity refusal keeps the invariant.
LEMMA RefuseInv ==
    ASSUME IInv, Refuse
    PROVE  IInv' /\ Effect
<1>1. /\ job # NoJob /\ Head(job.todo) = "preflight" /\ job.kind # "recover"
      /\ envs' = RestoredEnvs /\ job' = NoJob /\ call' = NoCall
      /\ UNCHANGED <<st, tree, pend, buf, gen, cid, nextGen, nextCid, unframed, reserved, fd, latest,
                     syncWrites, diskVars, acked, points, nextMut>>
  BY DEF Refuse, At
<1>2. TypeInv /\ RunInv /\ LogInv /\ WalInv /\ PageInv /\ TreeInv /\ CallInv /\ OutcomeInv /\ IdInv
      /\ Running /\ FrameInv
  BY <1>1, RunningJob DEF IInv, DiskInv, RunInv
<1>3. ~ Committed /\ ~ Framed /\ ~ Finishing /\ st = "open"
  BY <1>1, <1>2, NothingYet DEF CallInv, Running
<1>4. /\ LogInv' /\ WalInv' /\ PageInv' /\ Reach' = Reach /\ Live' = Live
      /\ Forced' = Forced /\ Newest' = Newest /\ CommitsFrom(wal', wal)
  BY <1>1, <1>2, FilesStay
<1>5. OutcomeInv' /\ Effect
  BY <1>1, <1>2, <1>4, Settled DEF OutcomeInv
<1>6. Unmoved /\ TreeNow
  <2>1. Unjournaled = pend
    BY <1>3 DEF Unjournaled, Journaled
  <2> QED
    BY <1>1, <1>2, <1>3, <1>4, <2>1 DEF Unmoved, TreeNow, TreeInv
<1>7. FrameInv' /\ TreeInv' /\ IdInv' /\ JobPagesInv'
  BY <1>1, <1>2, <1>6, IdleRun
<1>8. envs' \in Seq(Nat) /\ (envs' # << >> => pend # << >>)
  BY <1>1, <1>2, Restored
<1>9. TypeInv'
  BY <1>1, <1>2, <1>8, NoCallIs DEF TypeInv
<1>10. CallInv'
  BY <1>1, <1>2, <1>3, <1>8 DEF CallInv
<1> QED
  BY <1>4, <1>5, <1>7, <1>9, <1>10 DEF IInv, DiskInv, RunInv

\* A fence keeps the invariant.
LEMMA FailInv ==
    ASSUME IInv, Fail
    PROVE  IInv' /\ Effect
<1>1. /\ job # NoJob /\ st' = "fenced" /\ envs' = RestoredEnvs /\ job' = NoJob /\ call' = NoCall
      /\ UNCHANGED <<tree, pend, gen, cid, nextGen, nextCid, unframed, reserved, latest, syncWrites,
                     log, logSynced, data, cached, acked, points, nextMut>>
  BY DEF Fail
<1>2. TypeInv /\ RunInv /\ LogInv /\ WalInv /\ PageInv /\ TreeInv /\ CallInv /\ OutcomeInv /\ FrameInv
  BY <1>1, RunningJob DEF IInv, DiskInv, RunInv
<1>3. Forced' = Forced /\ Newest' = Newest
  BY <1>1 DEF Forced, Newest
<1>4. /\ WalInv' /\ Reach' \subseteq Reach /\ fd' \in {"none", "live", "unlinked"}
      /\ (fd' = "unlinked" <=> fd = "unlinked") /\ buf' \in Seq(MutRec)
  <2>1. CASE At("wal") \/ At("commit")
    <3>1. PICK n \in 0..Len(buf) : WriteWal(SubSeq(buf, 1, n), FALSE)
      BY <2>1 DEF Fail
    <3>2. buf' = << >>
      BY <2>1 DEF Fail
    <3>3. SubSeq(buf, 1, n) \in Seq(MutRec)
      <4>1. buf \in Seq(MutRec) /\ n \in Int
        BY SMTT(20), <1>2 DEF TypeInv
      <4>2. \A i \in 1..n : buf[i] \in MutRec
        BY SMTT(20), <4>1
      <4> QED
        BY SMTT(20), <4>1, <4>2, SubSeqProperties
    <3>4. Newest = Forced
      <4>1. Head(job.todo) \in {"wal", "preflight", "commit"}
        BY <2>1 DEF At
      <4>2. ~ Framed
        BY <1>1, <1>2, <4>1, NothingYet
      <4> QED
        BY <1>2, <4>2 DEF FrameInv
    <3>5. Written(SubSeq(buf, 1, n))
      <4>1. /\ fd \in {"none", "live", "unlinked"} /\ reserved \in BOOLEAN
            /\ fd = "unlinked" => Live = << >>
        BY <1>2 DEF TypeInv, TreeInv
      <4>2. UNCHANGED <<log, logSynced>> /\ FALSE \in BOOLEAN
        BY <1>1
      <4> QED
        BY <1>2, <3>1, <3>3, <3>4, <4>1, <4>2, WriteMuts
    <3> QED
      BY <3>2, <3>5, MutsNone DEF Written
  <2>2. CASE ~ (At("wal") \/ At("commit"))
    <3>1. UNCHANGED <<wal, walSynced, walGone, fd, buf>>
      BY <2>2 DEF Fail, walVars
    <3>2. fd \in {"none", "live", "unlinked"} /\ buf \in Seq(MutRec)
      BY <1>2 DEF TypeInv
    <3> QED
      BY <1>2, <1>3, <3>1, <3>2 DEF WalInv, Reach
  <2> QED
    BY <2>1, <2>2
<1>5. LogInv' /\ PageInv'
  BY <1>1, <1>2, <1>3 DEF LogInv, PageInv
<1>6. OutcomeInv' /\ Effect
  BY <1>1, <1>2, <1>4, Settled DEF OutcomeInv
<1>7. envs' \in Seq(Nat)
  BY <1>1, <1>2, Restored
<1>8. TypeInv'
  BY <1>1, <1>2, <1>4, <1>7, NoCallIs DEF TypeInv
<1>9. CallInv'
  BY <1>1, <1>2, <1>4 DEF CallInv
<1>10. ~ Running'
  BY <1>1 DEF Running
<1> QED
  BY <1>4, <1>5, <1>6, <1>8, <1>9, <1>10 DEF IInv, DiskInv

\* The handle goes, the files stay.
LEMMA DroppedInv ==
    ASSUME IInv, HandleGone("closed"), UNCHANGED <<diskVars, acked, points, nextMut>>
    PROVE  IInv' /\ Effect
<1>1. LogInv /\ WalInv /\ PageInv /\ OutcomeInv
  BY DEF IInv, DiskInv
<1>2. LogInv' /\ WalInv' /\ PageInv' /\ Reach' = Reach
  BY <1>1, FilesStay
<1>3. OutcomeInv' /\ Effect
  BY <1>1, <1>2, Settled DEF OutcomeInv
<1>4. TypeInv' /\ CallInv' /\ ~ Running'
  BY Dropped
<1> QED
  BY <1>2, <1>3, <1>4 DEF IInv, DiskInv

\* A power loss leaves one of the outcomes.
LEMMA PowerLossInv ==
    ASSUME IInv, PowerLoss
    PROVE  IInv' /\ Effect
<1>1. /\ HandleGone("closed") /\ wal' \in WalSurvivors /\ walSynced' = Len(wal') /\ walGone' = FALSE
      /\ log' \in LogSurvivors /\ logSynced' = Len(log') /\ cached' = {}
      /\ UNCHANGED <<data, acked, points, nextMut>>
  BY DEF PowerLoss
<1>2. LogInv /\ WalInv /\ PageInv /\ OutcomeInv
  BY DEF IInv, DiskInv
<1>3. PICK k \in logSynced..Len(log) : log' = SubSeq(log, 1, k)
  BY <1>1 DEF LogSurvivors
<1>4. /\ LogOK(log', k) /\ Len(log') = k /\ log'[k] \in {Forced, Newest}
  BY <1>2, <1>3, LogSurvivor DEF LogInv, Forced, Newest
<1>5. Forced' = log'[k] /\ Newest' = log'[k] /\ LogInv' /\ Forced' \in {Forced, Newest}
  BY <1>1, <1>4 DEF Forced, Newest, LogInv
<1>6. \/ \E j \in walSynced..Len(wal) : wal' = SubSeq(wal, 1, j)
      \/ walGone /\ wal' = << >>
  BY <1>1 DEF WalSurvivors
<1>7. ASSUME NEW b \in {Forced, Newest}
      PROVE  /\ Fits(wal', Len(wal'), FALSE, b, b)
             /\ Reveals(wal', Len(wal'), b, b) \subseteq Reveals(wal, walSynced, Forced, Newest)
  <2> HIDE DEF Forced, Newest
  <2> QED
    BY <1>2, <1>6, FitsSurvivor DEF WalInv
<1>8. WalInv' /\ Reach' \subseteq Reach
  BY <1>1, <1>5, <1>7 DEF WalInv, Reach
<1>9. PageInv'
  BY <1>1, <1>2, <1>5 DEF PageInv
<1>10. OutcomeInv' /\ Effect
  BY <1>1, <1>2, <1>8, Settled DEF OutcomeInv
<1>11. TypeInv' /\ CallInv' /\ ~ Running'
  BY <1>1, Dropped
<1> QED
  BY <1>5, <1>8, <1>9, <1>10, <1>11 DEF IInv, DiskInv

(***************************************************************************)
(* Admission of mutations.                                                 *)
(***************************************************************************)
\* Records written through the descriptor between two publications.
LEMMA IdleWrite ==
    ASSUME IInv, st = "open", job = NoJob, NEW recs \in Seq(MutRec), NEW sync \in BOOLEAN,
           WriteWal(recs, sync), UNCHANGED <<log, logSynced>>
    PROVE  Written(recs)
<1>1. /\ WalInv /\ TypeInv /\ Newest = Forced
      /\ fd = "unlinked" => Live = << >>
  BY Between
<1>2. fd \in {"none", "live", "unlinked"} /\ reserved \in BOOLEAN
  BY <1>1 DEF TypeInv
<1> QED
  BY <1>1, <1>2, WriteMuts

\* The tree grows by x, which is written or buffered.
LEMMA Grown ==
    ASSUME IInv, st = "open", job = NoJob, NEW recs \in Seq(MutRec), Written(recs),
           NEW x \in Content, tree' = tree \o x, pend' = pend \o x, buf' \in Seq(MutRec),
           fd # "unlinked" => MutsOf(recs) \o MutsOf(buf') = MutsOf(buf) \o x
    PROVE  TreeNow /\ tree' \in Content /\ pend' \in Content
<1>1. /\ TypeInv /\ WalInv /\ Newest = Forced
      /\ tree = Replayed(Live, Forced) \o pend
      /\ fd # "unlinked" => TailMuts(Live) \o MutsOf(buf) = pend
  BY Between
<1>2. /\ tree \in Content /\ pend \in Content /\ buf \in Seq(MutRec)
  BY <1>1 DEF TypeInv
<1>3. tree' \in Content /\ pend' \in Content
  BY <1>2, Join
<1>4. tree' = Replayed(Live', Forced) \o pend'
  <2>1. Replayed(Live, Forced) \in Content
    BY <1>1, LiveReplay, ReachIs
  <2>2. (Replayed(Live, Forced) \o pend) \o x = Replayed(Live, Forced) \o (pend \o x)
    BY <1>2, <2>1, JoinThree
  <2>3. Replayed(Live', Forced) = Replayed(Live, Forced)
    BY DEF Written
  <2> QED
    BY <1>1, <2>2, <2>3
<1>5. ASSUME fd # "unlinked" PROVE TailMuts(Live') \o MutsOf(buf') = pend'
  <2> DEFINE t == TailMuts(Live)
             b == MutsOf(buf)
             r == MutsOf(recs)
             c == MutsOf(buf')
  <2>1. t \in Content /\ b \in Content /\ r \in Content /\ c \in Content
    <3>1. Live \in Seq(Rec)
      BY <1>1, EmptyLog DEF WalInv, Fits, Live
    <3> QED
      BY <1>2, <3>1, TailIs, MutsOfSeq
  <2>2. TailMuts(Live') = t \o r
    BY <1>5 DEF Written
  <2>3. t \o b = pend /\ r \o c = b \o x
    BY <1>1, <1>5
  <2> HIDE DEF t, b, r, c
  <2>4. (t \o r) \o c = t \o (r \o c) /\ (t \o b) \o x = t \o (b \o x)
    BY <2>1, JoinThree
  <2>5. (t \o r) \o c = pend \o x
    BY <2>3, <2>4
  <2> QED
    BY <2>2, <2>5 DEF c
<1>6. /\ fd' = "unlinked" <=> fd = "unlinked"
      /\ fd = "unlinked" => Live' = << >>
  BY DEF Written
<1> QED
  BY <1>3, <1>4, <1>5, <1>6 DEF TreeNow

\* What such a write leaves of the rest.
LEMMA IdleWritten ==
    ASSUME IInv, st = "open", job = NoJob, NEW recs, Written(recs),
           UNCHANGED <<log, logSynced, data, cached, acked, points>>, nextMut' \in Nat
    PROVE  /\ LogInv' /\ WalInv' /\ PageInv' /\ OutcomeInv' /\ Effect
           /\ Forced' = Forced /\ Newest' = Newest /\ CommitsFrom(wal', wal)
           /\ fd' \in {"none", "live", "unlinked"} /\ (fd' = "unlinked" <=> fd = "unlinked")
           /\ ~ Committed /\ ~ Framed /\ ~ Finishing
<1>1. /\ TypeInv /\ LogInv /\ WalInv /\ PageInv /\ OutcomeInv /\ ~ Committed /\ ~ Framed /\ ~ Finishing
  BY Between
<1>2. /\ Forced' = Forced /\ Newest' = Newest /\ CommitsFrom(wal', wal) /\ WalInv'
      /\ fd' \in {"none", "live", "unlinked"} /\ (fd' = "unlinked" <=> fd = "unlinked")
      /\ Reach' \subseteq Reach
  BY DEF Written
<1>3. LogInv' /\ PageInv'
  BY <1>1, <1>2 DEF LogInv, PageInv
<1>4. OutcomeInv' /\ Effect
  BY <1>1, <1>2, Settled DEF OutcomeInv
<1> QED
  BY <1>1, <1>2, <1>3, <1>4

\* A prefix of some records.
LEMMA SomeRecords ==
    ASSUME NEW s \in Seq(MutRec), NEW n \in 0..Len(s)
    PROVE  SubSeq(s, 1, n) \in Seq(MutRec)
<1>1. \A i \in 1..n : s[i] \in MutRec
  BY SMTT(20)
<1> QED
  BY SMTT(20), <1>1, SubSeqProperties

\* put and delete keep the invariant.
LEMMA PutInv ==
    ASSUME IInv, NEW failed \in BOOLEAN, Put(failed)
    PROVE  IInv' /\ Effect
<1>1. /\ st = "open" /\ job = NoJob /\ call = NoCall /\ reserved' = TRUE /\ buf' = << >>
      /\ tree' = Append(tree, nextMut) /\ nextMut' = nextMut + 1
      /\ UNCHANGED <<envs, gen, cid, nextGen, nextCid, unframed, latest, syncWrites,
                     job, call, log, logSynced, data, cached, acked, points>>
  BY DEF Put, Idle
<1>2. TypeInv /\ CallInv /\ IdInv /\ FrameInv /\ OutcomeInv
  BY <1>1, Between
<1>3. /\ nextMut \in Nat /\ nextMut' \in Nat /\ syncWrites \in BOOLEAN /\ buf \in Seq(MutRec)
      /\ tree \in Content /\ pend \in Content
  BY SMTT(20), <1>1, <1>2 DEF OutcomeInv, TypeInv
<1> DEFINE recs == Append(buf, Mut(nextMut))
<1>4. recs \in Seq(MutRec) /\ MutsOf(recs) = Append(MutsOf(buf), nextMut) /\ Len(recs) = Len(buf) + 1
  BY SMTT(20), <1>3, MutsAppend
<1>5. tree' = tree \o <<nextMut>> /\ <<nextMut>> \in Content /\ tree' \in Content
  BY <1>1, <1>3, JoinOne
<1> HIDE DEF recs
<1>6. CASE failed
  <2>1. PICK n \in 0..(Len(buf) + 1) : WriteWal(SubSeq(recs, 1, n), FALSE)
    BY <1>6 DEF Put, recs
  <2>2. st' = "fenced" /\ pend' = pend
    BY <1>6 DEF Put
  <2>3. SubSeq(recs, 1, n) \in Seq(MutRec)
    BY <1>4, SomeRecords
  <2>4. Written(SubSeq(recs, 1, n))
    BY <1>1, <2>1, <2>3, IdleWrite
  <2>5. /\ LogInv' /\ WalInv' /\ PageInv' /\ OutcomeInv' /\ Effect
        /\ fd' \in {"none", "live", "unlinked"} /\ (fd' = "unlinked" <=> fd = "unlinked")
    BY <1>1, <1>3, <2>4, IdleWritten
  <2>6. TypeInv'
    BY <1>1, <1>2, <1>5, <2>2, <2>5, MutsNone DEF TypeInv
  <2>7. CallInv'
    BY <1>1, <1>2, <2>2, <2>5 DEF CallInv
  <2>8. ~ Running'
    BY <2>2 DEF Running
  <2> QED
    BY <2>5, <2>6, <2>7, <2>8 DEF IInv, DiskInv
<1>7. CASE ~ failed
  <2>1. WriteWal(recs, syncWrites) /\ pend' = Append(pend, nextMut) /\ st' = st
    BY <1>7 DEF Put, recs
  <2>2. Written(recs)
    BY <1>1, <1>3, <1>4, <2>1, IdleWrite
  <2>3. /\ LogInv' /\ WalInv' /\ PageInv' /\ OutcomeInv' /\ Effect
        /\ Forced' = Forced /\ Newest' = Newest /\ CommitsFrom(wal', wal)
        /\ fd' \in {"none", "live", "unlinked"} /\ (fd' = "unlinked" <=> fd = "unlinked")
        /\ ~ Committed /\ ~ Framed /\ ~ Finishing
    BY <1>1, <1>3, <2>2, IdleWritten
  <2>4. pend' = pend \o <<nextMut>> /\ pend' # << >>
    BY <1>3, <2>1, JoinOne, AppendProperties DEF Content
  <2>5. MutsOf(recs) \o MutsOf(buf') = MutsOf(buf) \o <<nextMut>> /\ buf' \in Seq(MutRec)
    <3>1. MutsOf(buf) \in Content
      BY <1>3, MutsOfSeq
    <3>2. MutsOf(recs) = MutsOf(buf) \o <<nextMut>> /\ MutsOf(recs) \in Content
      BY <1>3, <1>4, <3>1, JoinOne
    <3> QED
      BY <1>1, <3>2, JoinNone, MutsNone
  <2>6. TreeNow /\ tree' \in Content /\ pend' \in Content
    BY <1>1, <1>4, <1>5, <2>2, <2>4, <2>5, Grown
  <2>7. Unmoved
    BY <1>1, <2>1, <2>3 DEF Unmoved
  <2>8. FrameInv' /\ TreeInv' /\ IdInv' /\ JobPagesInv'
    BY <1>1, <1>2, <2>6, <2>7, IdleRun
  <2>9. TypeInv'
    BY <1>1, <1>2, <2>1, <2>3, <2>5, <2>6 DEF TypeInv
  <2>10. CallInv'
    BY <1>1, <1>2, <2>1, <2>3, <2>4 DEF CallInv
  <2> QED
    BY <2>3, <2>8, <2>9, <2>10 DEF IInv, DiskInv, RunInv
<1> QED
  BY <1>6, <1>7

\* Admitting a batch keeps the invariant.
LEMMA AdmitBatchInv ==
    ASSUME IInv, NEW n \in 1..MaxBatch, AdmitBatch(n)
    PROVE  IInv' /\ Effect
<1>1. /\ st = "open" /\ job = NoJob /\ call = NoCall /\ reserved' = TRUE
      /\ tree' = tree \o NewMuts(n) /\ pend' = pend \o NewMuts(n)
      /\ buf' = buf \o Recs(NewMuts(n)) /\ envs' = Append(envs, nextMut) /\ nextMut' = nextMut + n
      /\ WriteWal(<< >>, FALSE)
      /\ UNCHANGED <<st, gen, cid, nextGen, nextCid, unframed, latest, syncWrites,
                     job, call, log, logSynced, data, cached, acked, points>>
  BY DEF AdmitBatch, Idle
<1>2. TypeInv /\ CallInv /\ IdInv /\ FrameInv /\ OutcomeInv
  BY <1>1, Between
<1>3. /\ nextMut \in Nat /\ n \in Nat /\ n # 0 /\ nextMut' \in Nat /\ buf \in Seq(MutRec)
      /\ pend \in Content /\ envs' \in Seq(Nat)
  BY SMTT(20), <1>1, <1>2, PublicationAssumption DEF OutcomeInv, TypeInv
<1> DEFINE x == NewMuts(n)
<1>4. /\ x \in Content /\ Len(x) = n
      /\ Recs(x) \in Seq(MutRec) /\ MutsOf(Recs(x)) = x
  BY <1>3, NewMutsIs
<1> HIDE DEF x
<1>5. Written(<< >>)
  BY <1>1, MutsNone, IdleWrite
<1>6. /\ LogInv' /\ WalInv' /\ PageInv' /\ OutcomeInv' /\ Effect
      /\ Forced' = Forced /\ Newest' = Newest /\ CommitsFrom(wal', wal)
      /\ fd' \in {"none", "live", "unlinked"} /\ (fd' = "unlinked" <=> fd = "unlinked")
      /\ ~ Committed /\ ~ Framed /\ ~ Finishing
  BY <1>1, <1>3, <1>5, IdleWritten
<1>7. buf' \in Seq(MutRec) /\ MutsOf(<< >>) \o MutsOf(buf') = MutsOf(buf) \o x
  <2>1. buf' \in Seq(MutRec) /\ MutsOf(buf') = MutsOf(buf) \o x
    BY <1>1, <1>3, <1>4, MutsJoin DEF x
  <2>2. MutsOf(buf') \in Content
    BY <2>1, MutsOfSeq
  <2> QED
    BY <2>1, <2>2, JoinNone, MutsNone
<1>8. TreeNow /\ tree' \in Content /\ pend' \in Content
  <2>1. tree' = tree \o x /\ pend' = pend \o x
    BY <1>1 DEF x
  <2> QED
    BY <1>1, <1>4, <1>5, <1>7, <2>1, MutsNone, Grown
<1>9. Unmoved
  BY <1>1, <1>6 DEF Unmoved
<1>10. FrameInv' /\ TreeInv' /\ IdInv' /\ JobPagesInv'
  BY <1>1, <1>2, <1>8, <1>9, IdleRun
<1>11. pend' # << >>
  <2>1. x # << >>
    BY SMTT(20), <1>3, <1>4
  <2> QED
    BY SMTT(20), <1>1, <1>3, <1>4, <2>1, ConcatEqualIffEmpty DEF x, Content
<1>12. TypeInv'
  BY <1>1, <1>2, <1>3, <1>6, <1>7, <1>8 DEF TypeInv
<1>13. CallInv'
  BY <1>1, <1>2, <1>6, <1>11 DEF CallInv
<1> QED
  BY <1>6, <1>10, <1>12, <1>13 DEF IInv, DiskInv, RunInv

\* Journaling a batch keeps the invariant.
LEMMA CommitBatchInv ==
    ASSUME IInv, NEW n \in 1..MaxBatch, NEW failed \in BOOLEAN, CommitBatch(n, failed)
    PROVE  IInv' /\ Effect
<1>1. /\ st = "open" /\ job = NoJob /\ call = NoCall /\ pend = << >> /\ reserved' = TRUE
      /\ nextMut' = nextMut + n
      /\ UNCHANGED <<buf, envs, gen, cid, nextGen, nextCid, unframed, latest, syncWrites,
                     log, logSynced, data, cached, acked, points>>
  BY DEF CommitBatch, Idle
<1>2. TypeInv /\ CallInv /\ IdInv /\ FrameInv /\ OutcomeInv /\ WalInv
      /\ (fd # "unlinked" => TailMuts(Live) \o MutsOf(buf) = pend)
  BY <1>1, Between
<1>3. /\ nextMut \in Nat /\ n \in Nat /\ n # 0 /\ nextMut' \in Nat /\ buf \in Seq(MutRec)
      /\ tree \in Content /\ envs = << >> /\ syncWrites \in BOOLEAN /\ nextCid \in Nat
  <2>1. nextMut \in Nat
    BY <1>2 DEF OutcomeInv
  <2>2. buf \in Seq(MutRec) /\ tree \in Content /\ syncWrites \in BOOLEAN /\ nextCid \in Nat
    BY <1>2 DEF TypeInv
  <2>3. envs = << >>
    BY <1>1, <1>2 DEF CallInv
  <2>4. n \in Nat /\ n # 0 /\ nextMut' \in Nat
    BY SMTT(20), <1>1, <2>1, PublicationAssumption
  <2> QED
    BY <2>1, <2>2, <2>3, <2>4
<1> DEFINE x == NewMuts(n)
           recs == Recs(x)
<1>4. x \in Content /\ recs \in Seq(MutRec) /\ MutsOf(recs) = x /\ Len(recs) = n
  BY <1>3, NewMutsIs
<1> HIDE DEF x, recs
<1>5. CASE failed
  <2>1. PICK k \in 0..n : WriteWal(SubSeq(recs, 1, k), FALSE)
    BY <1>5 DEF CommitBatch, recs, x
  <2>2. st' = "fenced" /\ UNCHANGED <<tree, pend, job, call>>
    BY <1>5 DEF CommitBatch
  <2>3. SubSeq(recs, 1, k) \in Seq(MutRec)
    BY <1>4, SomeRecords
  <2>4. Written(SubSeq(recs, 1, k))
    BY <1>1, <2>1, <2>3, IdleWrite
  <2>5. /\ LogInv' /\ WalInv' /\ PageInv' /\ OutcomeInv' /\ Effect
        /\ fd' \in {"none", "live", "unlinked"} /\ (fd' = "unlinked" <=> fd = "unlinked")
    BY <1>1, <1>3, <2>4, IdleWritten
  <2>6. TypeInv'
    BY <1>1, <1>2, <2>2, <2>5 DEF TypeInv
  <2>7. CallInv'
    BY <1>1, <1>2, <2>2, <2>5 DEF CallInv
  <2>8. ~ Running'
    BY <2>2 DEF Running
  <2> QED
    BY <2>5, <2>6, <2>7, <2>8 DEF IInv, DiskInv
<1>6. CASE ~ failed
  <2> DEFINE kind == IF WalFirst THEN "soft" ELSE "flush"
  <2>1. /\ WriteWal(recs, syncWrites) /\ tree' = tree \o x /\ pend' = x /\ st' = st
        /\ job' = NewJob(kind, syncWrites, nextGen, nextCid, pend', tree')
        /\ call' = [op |-> "batch", group |-> << >>]
    BY <1>6 DEF CommitBatch, CommitJob, recs, x
  <2>2. Written(recs)
    BY <1>1, <1>3, <1>4, <2>1, IdleWrite
  <2>3. /\ LogInv' /\ WalInv' /\ PageInv' /\ OutcomeInv' /\ Effect
        /\ Forced' = Forced /\ Newest' = Newest /\ CommitsFrom(wal', wal)
        /\ fd' \in {"none", "live", "unlinked"} /\ (fd' = "unlinked" <=> fd = "unlinked")
        /\ ~ Committed /\ ~ Framed /\ ~ Finishing
    BY <1>1, <1>3, <2>2, IdleWritten
  <2>4. pend' = pend \o x
    BY <1>1, <1>4, <2>1, JoinNone
  <2>5. fd # "unlinked" => MutsOf(recs) \o MutsOf(buf') = MutsOf(buf) \o x
    <3>1. Live \in Seq(Rec)
      BY <1>2, EmptyLog DEF WalInv, Fits, Live
    <3>2. TailMuts(Live) \in Seq(Nat) /\ MutsOf(buf) \in Seq(Nat)
      BY <1>3, <3>1, TailIs, MutsOfSeq DEF Content
    <3>3. fd # "unlinked" => MutsOf(buf) = << >>
      BY SMTT(20), <1>1, <1>2, <3>2, ConcatEqualIffEmpty
    <3> QED
      BY <1>1, <1>4, <3>3, JoinNone
  <2>6. TreeNow /\ tree' \in Content /\ pend' \in Content
    BY <1>1, <1>3, <1>4, <2>1, <2>2, <2>4, <2>5, Grown
  <2>7. Unmoved
    BY <1>1, <2>1, <2>3 DEF Unmoved
  <2>8. kind \in Kinds /\ kind \in {"soft", "flush"} /\ (kind = "soft" => WalFirst)
    BY DEF Kinds, WriteKinds, CommitKinds
  <2> HIDE DEF kind
  <2>9. /\ FrameInv' /\ TreeInv' /\ IdInv' /\ JobPagesInv'
        /\ job' \in JobRec /\ job' # NoJob /\ Rest(job'.kind, syncWrites', job'.todo)
        /\ job'.kind = kind /\ job'.muts = pend'
    BY <1>2, <1>3, <2>1, <2>6, <2>7, <2>8, BegunRun
  <2>10. call' \in CallRec /\ call'.op = "batch" /\ call'.group = << >>
    <3>1. [op |-> "batch", group |-> << >>] \in CallRec
      BY SMTT(20) DEF CallRec
    <3> QED
      BY <2>1, <3>1
  <2>11. TypeInv'
    BY <1>1, <1>2, <2>1, <2>3, <2>6, <2>9, <2>10 DEF TypeInv
  <2>12. CallInv'
    BY <1>1, <1>2, <1>3, <2>1, <2>3, <2>8, <2>9, <2>10 DEF CallInv
  <2> QED
    BY <2>3, <2>9, <2>11, <2>12 DEF IInv, DiskInv, RunInv
<1> QED
  BY <1>5, <1>6

(***************************************************************************)
(* What a crash leaves, and what open() makes of it.                       *)
(***************************************************************************)
\* The metadata log selects the forced frame or the newest one, and may
\* select either; without a crash it selects the newest.
LEMMA LogReads ==
    ASSUME LogInv
    PROVE  /\ \A l \in LogSurvivors : Authority(l) \in {Forced, Newest}
           /\ \E l \in LogSurvivors : Authority(l) = Forced
           /\ \E l \in LogSurvivors : Authority(l) = Newest
           /\ log \in LogSurvivors /\ Authority(log) = Newest
<1>1. LogOK(log, logSynced)
  BY DEF LogInv
<1>2. /\ log \in Seq(FrameRec) /\ logSynced \in 1..Len(log) /\ Len(log) \in Nat /\ logSynced \in Nat
      /\ Authority(log) = Newest
  BY <1>1, LogFrames DEF LogOK, Newest
<1>3. logSynced \in logSynced..Len(log) /\ Len(log) \in logSynced..Len(log)
  BY SMTT(20), <1>2
<1>4. \A k \in logSynced..Len(log) : Authority(SubSeq(log, 1, k)) = log[k] /\ log[k] \in {Forced, Newest}
  BY <1>1, LogSurvivor DEF Forced, Newest
<1>5. SubSeq(log, 1, Len(log)) = log
  BY <1>2, SubSeqFull
<1>6. log \in LogSurvivors /\ SubSeq(log, 1, logSynced) \in LogSurvivors
  BY <1>3, <1>5 DEF LogSurvivors
<1>7. \A l \in LogSurvivors : Authority(l) \in {Forced, Newest}
  BY <1>4 DEF LogSurvivors
<1>8. Authority(SubSeq(log, 1, logSynced)) = Forced
  BY <1>3, <1>4 DEF Forced
<1> QED
  BY <1>2, <1>6, <1>7, <1>8

\* The WAL survives as a prefix that holds what was forced, or is gone; a
\* process crash leaves one of those too.
LEMMA WalReads ==
    ASSUME WalInv
    PROVE  /\ \A v \in WalSurvivors : Left(v, wal, walSynced, walGone)
           /\ \A k \in walSynced..Len(wal) : SubSeq(wal, 1, k) \in WalSurvivors
           /\ Live \in WalSurvivors
<1>1. wal \in Seq(Rec) /\ Len(wal) \in Nat /\ walSynced \in 0..Len(wal)
  BY SMTT(20) DEF WalInv, Fits
<1>2. Len(wal) \in walSynced..Len(wal) /\ SubSeq(wal, 1, Len(wal)) = wal
  BY SMTT(20), <1>1, SubSeqFull
<1>3. wal \in WalSurvivors /\ (walGone => << >> \in WalSurvivors)
  BY <1>2 DEF WalSurvivors
<1>4. \A v \in WalSurvivors : Left(v, wal, walSynced, walGone)
  BY DEF WalSurvivors, Left
<1>5. \A k \in walSynced..Len(wal) : SubSeq(wal, 1, k) \in WalSurvivors
  BY DEF WalSurvivors
<1> QED
  BY <1>3, <1>4, <1>5 DEF Live

\* open() validates whatever a crash leaves, arrives at a content of Reach,
\* and at every content of Reach from something a crash may leave.
LEMMA Reads ==
    ASSUME LogInv, WalInv
    PROVE  /\ \A v \in WalSurvivors, l \in LogSurvivors :
                 AnalysisOK(v, Authority(l)) /\ Recovered(v, l) \in Reach
           /\ \A c \in Reach : \E v \in WalSurvivors, l \in LogSurvivors : c = Recovered(v, l)
           /\ Live \in WalSurvivors /\ log \in LogSurvivors
<1>0. Fits(wal, walSynced, walGone, Forced, Newest)
  BY DEF WalInv
<1>1. ASSUME NEW v \in WalSurvivors, NEW l \in LogSurvivors
      PROVE  AnalysisOK(v, Authority(l)) /\ Recovered(v, l) \in Reach
  <2>1. Left(v, wal, walSynced, walGone) /\ Authority(l) \in {Forced, Newest}
    BY WalReads, LogReads
  <2>2. /\ AnalysisOK(v, Authority(l))
        /\ Replayed(Reconciled(v), Authority(l)) \in Reveals(wal, walSynced, Forced, Newest)
    BY <1>0, <2>1, Arrives
  <2> QED
    BY <2>2 DEF Recovered, Reach
<1>2. ASSUME NEW c \in Reach
      PROVE  \E v \in WalSurvivors, l \in LogSurvivors : c = Recovered(v, l)
  <2>1. PICK k \in walSynced..Len(wal) : \E b \in {Forced, Newest} :
                c = Replayed(Reconciled(SubSeq(wal, 1, k)), b)
    <3>1. c \in Reveals(wal, walSynced, Forced, Newest)
      BY DEF Reach
    <3> QED
      BY SMTT(20), <1>0, <3>1, Arrived
  <2>2. PICK b \in {Forced, Newest} : c = Replayed(Reconciled(SubSeq(wal, 1, k)), b)
    BY <2>1
  <2>3. PICK l \in LogSurvivors : Authority(l) = b
    BY <2>2, LogReads
  <2>4. SubSeq(wal, 1, k) \in WalSurvivors
    BY WalReads
  <2>5. c = Recovered(SubSeq(wal, 1, k), l)
    BY <2>2, <2>3 DEF Recovered
  <2> QED
    BY <2>3, <2>4, <2>5
<1> QED
  BY <1>1, <1>2, WalReads, LogReads

\* The frame in the log names forced pages.
LEMMA PagesThere ==
    ASSUME DiskInv
    PROVE  \A l \in LogSurvivors : Authority(l).content \in data
BY LogReads DEF DiskInv, PageInv

\* An idle handle and its files.
LEMMA IdleAgrees ==
    ASSUME IInv, Idle
    PROVE  /\ tree = Recovered(Live, log) \o pend
           /\ nextGen > gen /\ nextCid > cid
           /\ latest = Authority(log)
           /\ latest.gen <= gen /\ latest.cid <= cid
           /\ unframed \in Nat /\ (unframed = 0 => latest.gen = gen /\ latest.cid = cid)
<1>1. /\ LogInv /\ WalInv /\ IdInv /\ FrameInv /\ TypeInv
      /\ ~ Finishing /\ Newest = Forced
      /\ tree = Replayed(Live, Forced) \o pend
  BY Between DEF Idle
<1>2. latest = Forced /\ Authority(log) = Forced
  BY <1>1, LogReads DEF FrameInv
<1>3. Live \in Seq(Rec) /\ Forced \in FrameRec
  BY <1>1, EmptyLog DEF WalInv, Fits, Newer, Live
<1>4. Recovered(Live, log) = Replayed(Live, Forced)
  BY <1>2, <1>3, ReconciledLog DEF Recovered
<1>5. /\ gen < nextGen /\ cid < nextCid /\ Forced.gen <= gen /\ Forced.cid <= cid
      /\ unframed = 0 => Forced.gen = gen /\ Forced.cid = cid
      /\ gen \in Nat /\ nextGen \in Nat /\ cid \in Nat /\ nextCid \in Nat /\ unframed \in Nat
  BY <1>1 DEF IdInv, TypeInv
<1> QED
  BY <1>1, <1>2, <1>4, <1>5
(***************************************************************************)
(* The theorems.                                                           *)
(***************************************************************************)
\* Every step keeps the invariant, and does to the set of outcomes one of the
\* three things the durable store does.
THEOREM InductiveStep ==
    ASSUME IInv, Regime, Next
    PROVE  IInv' /\ Effect
<1>1. CASE Call
  <2>1. ASSUME NEW failed \in BOOLEAN, Put(failed) PROVE IInv' /\ Effect
    BY <2>1, PutInv
  <2>2. ASSUME NEW n \in 1..MaxBatch, AdmitBatch(n) PROVE IInv' /\ Effect
    BY <2>2, AdmitBatchInv
  <2>3. ASSUME NEW n \in 1..MaxBatch, NEW failed \in BOOLEAN, CommitBatch(n, failed)
        PROVE  IInv' /\ Effect
    BY <2>3, CommitBatchInv
  <2>4. ASSUME NEW op \in {"flush", "close", "maint"}, StartFlush(op) PROVE IInv' /\ Effect
    BY <2>4, StartFlushInv
  <2> QED
    BY <1>1, <2>1, <2>2, <2>3, <2>4, BarrierInv DEF Call
<1>2. CASE JobStep
  BY <1>2, WriteBufferInv, ForceWalInv, PreflightInv, WritePagesInv, SyncPagesInv, AppendCommitInv,
     AppendFrameInv, ForceFrameInv, FinishInv, SoftAckInv, RelocateInv, FinishRelocationInv,
     CloseRemoveInv DEF JobStep
<1>3. CASE OpenFail \/ ProcessCrash
  BY <1>3, DroppedInv DEF OpenFail, ProcessCrash
<1>4. CASE Refuse \/ Fail \/ CloseSyncFail \/ PowerLoss \/ Open
  BY <1>4, RefuseInv, FailInv, CloseSyncFailInv, PowerLossInv, OpenInv
<1> QED
  BY <1>1, <1>2, <1>3, <1>4 DEF Next

\* The inductive invariant holds in every behaviour of the commit path, for any
\* number of mutations, batches, generations, crashes and I/O errors.
THEOREM Invariant ==
    ASSUME Regime
    PROVE  Init /\ [][Next]_vars => []IInv
<1>1. Init => IInv
  BY InitInv
<1>2. IInv /\ [Next]_vars => IInv'
  BY InductiveStep, Stuttering
<1> QED
  BY <1>1, <1>2, PTL

\* What open() would arrive at, from whatever a crash leaves of the files,
\* is what the forced prefixes and the unforced suffixes reveal.
LEMMA OutcomesReach == IInv => Outcomes = Reach
<1> SUFFICES ASSUME IInv PROVE Outcomes = Reach
  OBVIOUS
<1>1. /\ \A v \in WalSurvivors, l \in LogSurvivors : Recovered(v, l) \in Reach
      /\ \A c \in Reach : \E v \in WalSurvivors, l \in LogSurvivors : c = Recovered(v, l)
      /\ Recovered(Live, log) \in Reach
  BY Reads DEF IInv, DiskInv
<1>2. Outcomes = {Recovered(v, l) : v \in WalSurvivors, l \in LogSurvivors} \cup {Recovered(Live, log)}
  BY SMTT(20) DEF Outcomes, Recovered
<1> HIDE DEF Outcomes, Recovered, Reach, WalSurvivors, LogSurvivors, Live
<1> QED
  BY SMTT(20), <1>1, <1>2

\* What extends a content contains it.
LEMMA ExtensionContains ==
    ASSUME NEW a \in Content, NEW t \in Content
    PROVE  Store!Contains(a \o t, a) /\ (t # << >> => a \o t # a)
<1>1. /\ a \in Seq(Nat) /\ t \in Seq(Nat)
      /\ a \o t \in Seq(Nat) /\ Len(a \o t) = Len(a) + Len(t) /\ Len(a) \in Nat /\ Len(t) \in Nat
      /\ \A i \in 1..Len(a) : (a \o t)[i] = a[i]
  BY SMTT(20) DEF Content
<1>2. Len(a) <= Len(a \o t)
  BY SMTT(20), <1>1
<1>3. SubSeq(a \o t, 1, Len(a)) = a
  BY SMTT(20), <1>1
<1>4. t # << >> => a \o t # a
  BY SMTT(20), <1>1, ConcatEqualIffEmpty
<1> QED
  BY <1>2, <1>3, <1>4 DEF Store!Contains

\* The inductive invariant implies what is promised.
LEMMA Promises ==
    IInv => AckedSurvives /\ RecoveryAccepts /\ CommitBoundary /\ HandleAgreesWithDisk
<1> SUFFICES ASSUME IInv
             PROVE  AckedSurvives /\ RecoveryAccepts /\ CommitBoundary /\ HandleAgreesWithDisk
  OBVIOUS
<1>0. /\ Outcomes = Reach /\ LogInv /\ WalInv /\ DiskInv
      /\ acked \in Content /\ \A c \in Reach : Extends(c, acked) /\ c \in points
  BY OutcomesReach DEF IInv, DiskInv, OutcomeInv
<1>1. AckedSurvives
  BY <1>0, ExtensionContains DEF AckedSurvives, Extends
<1>2. CommitBoundary
  BY <1>0 DEF CommitBoundary
<1>3. RecoveryAccepts
  <2>1. \A w \in WalSurvivors, l \in LogSurvivors : Openable(w, l, data)
    BY <1>0, Reads, PagesThere DEF Openable
  <2>2. Openable(Live, log, data)
    BY <1>0, <2>1, Reads
  <2> QED
    BY <2>1, <2>2 DEF RecoveryAccepts, Openable
<1>4. HandleAgreesWithDisk
  BY SMTT(20), IdleAgrees DEF HandleAgreesWithDisk
<1> QED
  BY <1>1, <1>2, <1>3, <1>4

\* An acknowledged commit survives: wherever the process dies, and whatever
\* unforced suffix of the WAL and of the metadata log is lost, open() arrives
\* at a content that extends the one last reported durable.
THEOREM AckedAlwaysSurvives ==
    ASSUME Regime PROVE Spec => []AckedSurvives
<1>1. Init /\ [][Next]_vars => []IInv
  BY Invariant
<1>2. IInv => AckedSurvives
  BY Promises
<1> QED
  BY <1>1, <1>2, PTL DEF Spec

\* open() never refuses the files a crash leaves: the envelopes match their
\* mutation prefixes and agree with the selected frame, and the pages that
\* frame names were forced before it.
THEOREM RecoveryAlwaysAccepts ==
    ASSUME Regime PROVE Spec => []RecoveryAccepts
<1>1. Init /\ [][Next]_vars => []IInv
  BY Invariant
<1>2. IInv => RecoveryAccepts
  BY Promises
<1> QED
  BY <1>1, <1>2, PTL DEF Spec

\* Old or complete new: a crash reveals only contents a commit was built for.
THEOREM CommitBoundaryHolds ==
    ASSUME Regime PROVE Spec => []CommitBoundary
<1>1. Init /\ [][Next]_vars => []IInv
  BY Invariant
<1>2. IInv => CommitBoundary
  BY Promises
<1> QED
  BY <1>1, <1>2, PTL DEF Spec

\* An idle handle that is not fenced agrees with its files, so the frontier
\* checks of validate_runtime_state never fail.
THEOREM HandleAlwaysAgrees ==
    ASSUME Regime PROVE Spec => []HandleAgreesWithDisk
<1>1. Init /\ [][Next]_vars => []IInv
  BY Invariant
<1>2. IInv => HandleAgreesWithDisk
  BY Promises
<1> QED
  BY <1>1, <1>2, PTL DEF Spec

\* Without WAL-first commits, a publication_barrier refused for capacity has
\* handed its envelopes back.
THEOREM RefusedGroupsRestored ==
    ASSUME Regime, ~ WalFirst PROVE Spec => []RefusedGroupRestored
<1>1. Init /\ [][Next]_vars => []IInv
  BY Invariant
<1>2. Init => GroupInv
  BY Statuses DEF Init, GroupInv
<1>3. IInv /\ GroupInv /\ [Next]_vars => GroupInv'
  <2>1. ASSUME IInv, GroupInv, UNCHANGED vars PROVE GroupInv'
    BY <2>1 DEF vars, handleVars, callVars, GroupInv
  <2> QED
    BY <2>1, GroupStep
<1>4. GroupInv => RefusedGroupRestored
  BY DEF GroupInv, RefusedGroupRestored
<1> QED
  BY <1>1, <1>2, <1>3, <1>4, PTL DEF Spec

\* A step of the commit path is a step of the abstract store: it rules
\* contents out, adds one attempted commit, or acknowledges the only content
\* left.
LEMMA StoreStep ==
    ASSUME IInv, Effect, Outcomes = Reach, Outcomes' = Reach'
    PROVE  Store!Next
<1>0. Reach \subseteq Content
  BY ReachIs DEF IInv, DiskInv
<1>1. CASE Settles
  BY <1>1 DEF Settles, Store!Next, Store!Settle
<1>2. ASSUME NEW c \in Content, Attempts(c) PROVE Store!Attempt
  <2>1. PICK base \in Reach, t \in Content \ {<< >>} : c = base \o t
    BY <1>2 DEF Attempts
  <2>2. c # base /\ Store!Contains(c, base)
    BY <1>0, <2>1, ExtensionContains
  <2>3. acked' = acked /\ Outcomes' = Outcomes \cup {c} /\ c \in Outcomes' /\ base \in Outcomes
    BY <1>2, <2>1 DEF Attempts
  <2>4. c \in Seq(Nat)
    BY DEF Content
  <2> QED
    BY <2>2, <2>3, <2>4 DEF Store!Attempt
<1>3. CASE Acks
  BY <1>3 DEF Acks, Store!Next, Store!Ack
<1> QED
  BY <1>1, <1>2, <1>3 DEF Effect, Store!Next

\* The commit path implements the abstract durable store.
THEOREM ImplementsDurableStore ==
    ASSUME Regime PROVE Spec => StoreSpec
<1>1. Init /\ [][Next]_vars => []IInv
  BY Invariant
<1>2. Init => Store!Init
  <2> SUFFICES ASSUME Init PROVE Store!Init
    OBVIOUS
  <2>1. IInv /\ Reach = {<< >>}
    BY InitInv
  <2>2. Outcomes = {<< >>}
    BY <2>1, OutcomesReach
  <2> QED
    BY <2>2 DEF Store!Init, Init
<1>3. IInv => Outcomes = Reach
  BY OutcomesReach
<1>4. (IInv => Outcomes = Reach)'
  BY <1>3, PTL
<1>5. IInv /\ IInv' /\ [Next]_vars => [Store!Next]_(Store!vars)
  <2> SUFFICES ASSUME IInv, IInv', [Next]_vars PROVE [Store!Next]_(Store!vars)
    OBVIOUS
  <2>1. Outcomes = Reach /\ Outcomes' = Reach'
    BY <1>3, <1>4
  <2>2. CASE Next
    BY <2>1, <2>2, InductiveStep, StoreStep
  <2>3. CASE UNCHANGED vars
    BY <2>1, <2>3, Stuttering DEF Store!vars
  <2> QED
    BY <2>2, <2>3
<1> QED
  BY <1>1, <1>2, <1>5, PTL DEF Spec, StoreSpec, Store!Spec
=============================================================================
