------------------------- MODULE PublicationSteps -------------------------
(***************************************************************************)
(* The steps of a publication preserve the inductive invariant, and do to  *)
(* the set of contents a crash could reveal one of the three things        *)
(* DurableStore allows: the steps up to the commit record first, then      *)
(* those that append the frame, force it, and finish or acknowledge the    *)
(* call.  A new database satisfies the invariant, every step restores a    *)
(* refused group, and open() publishes what it replays.                    *)
(***************************************************************************)
EXTENDS PublicationInvariant

\* The leaves are Zenon's, unless they cite the SMT solver.
USE ZenonT(40)

\* The steps before a publication's commit record or frame.
EarlySteps == {"wal", "walsync", "preflight", "data", "datasync"}

\* Where those steps stand.
EarlyPlace(kind, step, n, p) ==
    \/ kind # "soft" /\ step = "datasync" /\ n = p + 1
    \/ kind # "soft" /\ step = "data" /\ n = p + 2
    \/ kind # "soft" /\ step \notin {"data", "datasync"} /\ n > p + 2
    \/ kind = "soft" /\ step = "walsync" /\ n = 2
    \/ kind \in CommitKinds /\ step = "walsync" /\ n = 4 /\ p = 5

\* Where the steps before the envelope and the frame stand.
LEMMA EarlyStage ==
    ASSUME NEW kind \in Kinds, NEW sync \in BOOLEAN, NEW step \in EarlySteps, NEW n \in Nat,
           Stage(kind, sync, step, n)
    PROVE  EarlyPlace(kind, step, n, AfterPages(kind, sync))
<1> DEFINE p == AfterPages(kind, sync)
<1>1. p \in {3, 4, 5}
  BY DEF AfterPages
<1>2. "soft" \notin CommitKinds
  BY DEF CommitKinds
<1> HIDE DEF p
<1> QED
  <2>1. CASE step = "walsync"
    BY SMTT(20), <1>1, <1>2, <2>1 DEF Stage, EarlyPlace, p
  <2>2. CASE step = "wal"
    BY SMTT(20), <1>1, <1>2, <2>2 DEF Stage, EarlyPlace, p
  <2>3. CASE step = "preflight"
    BY SMTT(20), <1>1, <1>2, <2>3 DEF Stage, EarlyPlace, p
  <2>4. CASE step = "data" \/ step = "datasync"
    BY <1>1, <1>2, <2>4 DEF Stage, EarlyPlace, p
  <2> QED
    BY <2>1, <2>2, <2>3, <2>4 DEF EarlySteps

\* The steps before the envelope, and the forcing of the envelope, pass no
\* stage of the job.
LEMMA SameStage ==
    ASSUME TypeInv, job # NoJob, Head(job.todo) \in EarlySteps, Advance, syncWrites' = syncWrites
    PROVE  /\ Len(job.todo) > 1 /\ Committed' = Committed
           /\ ~ Framed /\ ~ Finishing /\ ~ Framed' /\ ~ Finishing'
           /\ Head(job.todo) \in {"wal", "preflight", "data", "datasync"} => job.kind # "soft" /\ ~ Committed
           /\ job.kind = "soft" /\ Len(job'.todo) = 1 => Head(job.todo) = "walsync" /\ Committed
           /\ job.kind # "soft" /\ ~ Committed /\ Head(job.todo) # "datasync" =>
                  Len(job'.todo) > PagesLeft
           /\ job.kind # "soft" /\ ~ Committed /\ Head(job.todo) \notin {"data", "datasync"} =>
                  Len(job'.todo) > PagesLeft + 1
<1>1. /\ job.kind \in Kinds /\ Len(job.todo) \in Nat /\ Len(job.todo) > 0
      /\ Stage(job.kind, syncWrites, Head(job.todo), Len(job.todo))
      /\ PagesLeft \in {3, 4, 5} /\ PagesLeft = AfterPages(job.kind, syncWrites)
      /\ job.kind \notin CommitKinds => PagesLeft = 3
  BY JobNow
<1> DEFINE n == Len(job.todo)
           p == PagesLeft
           h == Head(job.todo)
<1>2. EarlyPlace(job.kind, h, n, p)
  <2>1. syncWrites \in BOOLEAN
    BY DEF TypeInv
  <2> QED
    BY <1>1, <2>1, EarlyStage
<1>5. "soft" \notin CommitKinds
  BY DEF CommitKinds
<1>8. n \in Nat /\ p \in {3, 4, 5} /\ (job.kind \notin CommitKinds => p = 3)
  BY <1>1 DEF n, p
<1> HIDE DEF n, p, h
<1>3. n > 1
  BY SMTT(20), <1>2, <1>5, <1>8 DEF EarlyPlace
<1>4. /\ job' # NoJob /\ job'.kind = job.kind
      /\ Len(job'.todo) = n - 1 /\ PagesLeft' = p
  BY <1>3, Advanced DEF n, p
<1>6. /\ Committed <=> (job.kind \in CommitKinds /\ n < p) \/ (job.kind = "soft" /\ n < 3)
      /\ Committed' <=> (job.kind \in CommitKinds /\ n - 1 < p) \/ (job.kind = "soft" /\ n - 1 < 3)
  BY <1>4 DEF Committed, n, p
<1>7. /\ Framed <=> job.kind # "soft" /\ n = 2
      /\ Finishing <=> job.kind # "soft" /\ n = 1
      /\ Framed' <=> job.kind # "soft" /\ n - 1 = 2
      /\ Finishing' <=> job.kind # "soft" /\ n - 1 = 1
  BY <1>4 DEF Framed, Finishing, n, p
<1>9. Committed' <=> Committed
  BY SMTT(20), <1>2, <1>5, <1>6, <1>8 DEF EarlyPlace
<1>10. ~ Framed /\ ~ Finishing /\ ~ Framed' /\ ~ Finishing'
  BY SMTT(20), <1>2, <1>5, <1>7, <1>8 DEF EarlyPlace
<1>11. h \in {"wal", "preflight", "data", "datasync"} => job.kind # "soft" /\ ~ Committed
  BY SMTT(20), <1>2, <1>5, <1>6, <1>8 DEF EarlyPlace
<1>12. job.kind = "soft" /\ n - 1 = 1 => h = "walsync" /\ Committed
  BY SMTT(20), <1>2, <1>5, <1>6, <1>8 DEF EarlyPlace
<1>13. /\ job.kind # "soft" /\ ~ Committed /\ h # "datasync" => n - 1 > p
       /\ job.kind # "soft" /\ ~ Committed /\ h \notin {"data", "datasync"} => n - 1 > p + 1
  BY SMTT(20), <1>2, <1>5, <1>6, <1>8 DEF EarlyPlace
<1>14. Committed' = Committed
  BY <1>9 DEF Committed
<1> QED
  BY <1>3, <1>4, <1>10, <1>11, <1>12, <1>13, <1>14 DEF n, p, h

\* What such a step leaves alone.
Kept ==
    /\ UNCHANGED <<st, tree, pend, envs, gen, cid, nextGen, nextCid, unframed, reserved,
                   latest, syncWrites, call>>
    /\ points' = points

\* What the files still say after it.
FilesAgree ==
    /\ Forced' = Forced /\ Newest' = Newest
    /\ fd' \in {"none", "live", "unlinked"} /\ (fd' = "unlinked" <=> fd = "unlinked")
    /\ fd = "unlinked" => Live' = << >>
    /\ Replayed(Live', Forced) = Replayed(Live, Forced)
    /\ fd # "unlinked" => TailMuts(Live') \o MutsOf(buf') = TailMuts(Live) \o MutsOf(buf)
    /\ buf' \in {buf, << >>} /\ (walGone' => walGone \/ fd = "unlinked")
    /\ CommitsFrom(wal', wal)

\* A step that only writes or forces the WAL or the pages keeps what the
\* handle knows of its files.
LEMMA QuietStep ==
    ASSUME TypeInv, CallInv, RunInv, job # NoJob, Head(job.todo) \in EarlySteps, Advance, Kept,
           FilesAgree,
           Head(job.todo) = "walsync" /\ job.kind = "soft" /\ Committed => walSynced' = Len(wal')
    PROVE  TypeInv' /\ CallInv' /\ FrameInv' /\ TreeInv' /\ IdInv'
<1> DEFINE Same == /\ Committed' = Committed /\ ~ Framed /\ ~ Finishing /\ ~ Framed' /\ ~ Finishing'
<1>1. Same /\ Len(job.todo) > 1 /\ (job.kind = "soft" /\ Len(job'.todo) = 1 =>
                                      Head(job.todo) = "walsync" /\ Committed)
  BY SameStage DEF Kept
<1>2. /\ job' \in JobRec /\ job' # NoJob /\ Rest(job'.kind, syncWrites', job'.todo)
      /\ job'.kind = job.kind /\ job'.gen = job.gen /\ job'.cid = job.cid
      /\ job'.muts = job.muts /\ job'.content = job.content
  BY <1>1, Advanced DEF Kept
<1>3. TypeInv'
  BY <1>2, MutsNone DEF TypeInv, Kept, FilesAgree
<1>4. CallInv'
  BY <1>2, CallKept DEF Kept, FilesAgree
<1>5. FrameInv'
  BY <1>1, <1>2 DEF RunInv, FrameInv, Kept, FilesAgree
<1>6. TreeInv'
  <2>1. Journaled' = Journaled /\ Unjournaled' = Unjournaled
    BY <1>1 DEF Journaled, Unjournaled, Kept, FilesAgree
  <2>2. tree' = Replayed(Live', Forced') \o Unjournaled'
    BY <2>1 DEF RunInv, TreeInv, Kept, FilesAgree
  <2>3. /\ fd' # "unlinked" => TailMuts(Live') \o MutsOf(buf') = Unjournaled'
        /\ fd' = "unlinked" => Live' = << >>
        /\ job'.content = tree'
    BY <1>2, <2>1 DEF RunInv, TreeInv, Kept, FilesAgree
  <2>4. /\ Committed' => job'.content \in points' /\ (walGone' => fd' = "unlinked")
        /\ job'.kind = "soft" /\ Len(job'.todo) = 1 => walSynced' = Len(wal')
    BY <1>1, <1>2 DEF RunInv, TreeInv, Kept, FilesAgree
  <2> QED
    BY <2>2, <2>3, <2>4 DEF TreeInv
<1>7. IdInv'
  <2>1. /\ gen' < nextGen' /\ cid' < nextCid'
        /\ Forced'.gen <= gen' /\ Forced'.cid <= cid'
        /\ unframed' = 0 => Forced'.gen = gen' /\ Forced'.cid = cid'
    BY <1>1 DEF RunInv, IdInv, Kept, FilesAgree
  <2>2. /\ gen' < job'.gen
        /\ IF job'.kind = "maint" THEN job'.cid = cid' ELSE cid' < job'.cid
    BY <1>2 DEF RunInv, IdInv, Kept
  <2>3. job'.kind = "soft" =>
          IF Committed' THEN job'.gen < nextGen' /\ job'.cid < nextCid'
          ELSE job'.gen = nextGen' /\ job'.cid = nextCid'
    BY <1>1, <1>2 DEF RunInv, IdInv, Kept
  <2>4. ASSUME NEW i \in CommitsIn(wal') PROVE
          IF Committed' \/ st' = "opening"
          THEN /\ wal'[i].gen <= job'.gen /\ wal'[i].cid <= job'.cid
               /\ wal'[i].gen = job'.gen => wal'[i].cid = job'.cid /\ wal'[i].muts = job'.muts
          ELSE wal'[i].gen <= gen' /\ wal'[i].cid <= cid'
    <3>1. i \in CommitsIn(wal) /\ wal'[i] = wal[i]
      BY DEF FilesAgree, CommitsFrom
    <3> QED
      BY <1>1, <1>2, <3>1 DEF RunInv, IdInv, Kept
  <2> QED
    BY <2>1, <2>2, <2>3, <2>4 DEF IdInv
<1> QED
  BY <1>3, <1>4, <1>5, <1>6, <1>7

\* Hence it keeps the invariant, provided the files stay in order.
LEMMA QuietInv ==
    ASSUME IInv, job # NoJob, Head(job.todo) \in EarlySteps, Advance, Kept, FilesAgree,
           Head(job.todo) = "walsync" /\ job.kind = "soft" /\ Committed => walSynced' = Len(wal'),
           LogInv', WalInv', Reach' \subseteq Reach, PageInv', JobPagesInv', acked' = acked,
           nextMut' = nextMut
    PROVE  IInv' /\ Effect
<1>1. TypeInv /\ CallInv /\ RunInv /\ OutcomeInv /\ Running
  BY RunningJob DEF IInv, DiskInv
<1>2. TypeInv' /\ CallInv' /\ FrameInv' /\ TreeInv' /\ IdInv'
  BY <1>1, QuietStep
<1>3. OutcomeInv' /\ Effect
  BY <1>1, Settled DEF OutcomeInv, Kept
<1> QED
  BY <1>2, <1>3 DEF IInv, DiskInv, RunInv

\* The pages written so far stay, and the job is not past them.
LEMMA JobPagesKept ==
    ASSUME TypeInv, JobPagesInv, job # NoJob, Head(job.todo) \in EarlySteps \ {"data", "datasync"},
           Advance, syncWrites' = syncWrites, UNCHANGED <<data, cached>>
    PROVE  JobPagesInv'
<1>1. /\ Len(job.todo) > 1 /\ Committed' = Committed
      /\ job.kind # "soft" /\ ~ Committed => Len(job'.todo) > PagesLeft + 1
  BY SameStage
<1>2. /\ job' # NoJob /\ job'.kind = job.kind /\ job'.content = job.content
      /\ Len(job'.todo) = Len(job.todo) - 1 /\ PagesLeft' = PagesLeft
  BY <1>1, Advanced
<1>3. Len(job.todo) \in Nat /\ PagesLeft \in {3, 4, 5}
  BY JobNow
<1>4. CASE job.kind = "soft"
  BY <1>2, <1>4 DEF JobPagesInv
<1>5. CASE job.kind # "soft" /\ ~ Committed
  <2>1. Len(job'.todo) \in Int /\ ~ (Len(job'.todo) <= PagesLeft + 1) /\ ~ (Len(job'.todo) <= PagesLeft)
    BY SMTT(20), <1>1, <1>2, <1>3, <1>5
  <2> QED
    BY <1>2, <2>1 DEF JobPagesInv
<1>6. CASE job.kind # "soft" /\ Committed
  <2>1. Len(job.todo) <= PagesLeft
    BY SMTT(20), <1>3, <1>6 DEF Committed
  <2> QED
    BY <1>2, <1>3, <1>6, <2>1 DEF JobPagesInv
<1> QED
  BY <1>4, <1>5, <1>6

\* Nothing touched the files.
LEMMA FilesSame ==
    ASSUME TypeInv, TreeInv, UNCHANGED <<walVars, log, logSynced, fd, buf>>
    PROVE  FilesAgree
<1>1. Live' = Live /\ Forced' = Forced /\ Newest' = Newest
  BY DEF Live, Forced, Newest, walVars
<1>2. fd \in {"none", "live", "unlinked"}
  BY DEF TypeInv
<1>3. UNCHANGED <<wal, walGone, fd, buf>>
  BY DEF walVars
<1>4. CommitsFrom(wal', wal)
  BY <1>3 DEF CommitsFrom
<1>5. fd = "unlinked" => Live' = << >>
  BY <1>1 DEF TreeInv
<1> QED
  BY <1>1, <1>2, <1>3, <1>4, <1>5 DEF FilesAgree

\* Preflight keeps the invariant.
LEMMA PreflightInv ==
    ASSUME IInv, Preflight
    PROVE  IInv' /\ Effect
<1>1. job # NoJob /\ Head(job.todo) = "preflight" /\ Advance
  BY DEF Preflight, At
<1>2. UNCHANGED <<handleVars, diskVars, histVars, call>>
  BY DEF Preflight
<1>3. TypeInv /\ RunInv /\ LogInv /\ WalInv /\ PageInv
  BY <1>1, RunningJob DEF IInv, DiskInv
<1>4. Kept /\ FilesAgree /\ UNCHANGED <<data, cached>> /\ acked' = acked /\ nextMut' = nextMut
  BY <1>2, <1>3, FilesSame DEF RunInv, Kept, handleVars, diskVars, walVars, histVars
<1>5. LogInv' /\ WalInv' /\ PageInv' /\ Reach' = Reach
  BY <1>2, <1>3 DEF LogInv, WalInv, PageInv, Reach, Forced, Newest, diskVars
<1>6. JobPagesInv'
  BY <1>1, <1>3, <1>4, JobPagesKept DEF EarlySteps, RunInv, Kept
<1> QED
  BY <1>1, <1>4, <1>5, <1>6, QuietInv DEF EarlySteps

\* Writing the pages keeps the invariant.
LEMMA WritePagesInv ==
    ASSUME IInv, WritePages
    PROVE  IInv' /\ Effect
<1>1. job # NoJob /\ Head(job.todo) = "data" /\ Advance
  BY DEF WritePages, At
<1>2. UNCHANGED <<handleVars, walVars, log, logSynced, data, histVars, call>>
      /\ cached' = cached \cup {job.content}
  BY DEF WritePages
<1>3. TypeInv /\ RunInv /\ LogInv /\ WalInv /\ PageInv
  BY <1>1, RunningJob DEF IInv, DiskInv
<1>4. Kept /\ FilesAgree /\ acked' = acked /\ nextMut' = nextMut
  BY <1>2, <1>3, FilesSame DEF RunInv, Kept, handleVars, walVars, histVars
<1>5. LogInv' /\ WalInv' /\ Reach' = Reach
  BY <1>2, <1>3 DEF LogInv, WalInv, Reach, Forced, Newest, walVars
<1>6. PageInv'
  <2>1. job.content \in Content
    BY <1>1, <1>3, JobNow
  <2> QED
    BY <1>2, <1>3, <2>1 DEF PageInv, Forced, Newest
<1>7. JobPagesInv'
  <2>1. /\ Len(job.todo) > 1 /\ ~ Committed
        /\ job.kind # "soft" /\ ~ Committed => Len(job'.todo) > PagesLeft
    BY <1>1, <1>3, <1>4, SameStage DEF EarlySteps, Kept
  <2>2. /\ job' # NoJob /\ job'.kind = job.kind /\ job'.content = job.content
        /\ Len(job'.todo) = Len(job.todo) - 1 /\ PagesLeft' = PagesLeft
    BY <1>1, <1>3, <1>4, <2>1, Advanced DEF Kept
  <2>3. Len(job.todo) \in Nat /\ PagesLeft \in {3, 4, 5}
    BY <1>1, <1>3, JobNow
  <2>4. job.kind # "soft" => ~ (Len(job'.todo) <= PagesLeft)
    BY SMTT(20), <2>1, <2>2, <2>3
  <2> QED
    BY <1>2, <2>2, <2>4 DEF JobPagesInv
<1> QED
  BY <1>1, <1>4, <1>5, <1>6, <1>7, QuietInv DEF EarlySteps

\* Forcing the pages keeps the invariant.
LEMMA SyncPagesInv ==
    ASSUME IInv, SyncPages
    PROVE  IInv' /\ Effect
<1>1. job # NoJob /\ Head(job.todo) = "datasync" /\ Advance
  BY DEF SyncPages, At
<1>2. UNCHANGED <<handleVars, walVars, log, logSynced, histVars, call>>
      /\ data' = data \cup cached /\ cached' = {}
  BY DEF SyncPages
<1>3. TypeInv /\ RunInv /\ LogInv /\ WalInv /\ PageInv
  BY <1>1, RunningJob DEF IInv, DiskInv
<1>4. Kept /\ FilesAgree /\ acked' = acked /\ nextMut' = nextMut
  BY <1>2, <1>3, FilesSame DEF RunInv, Kept, handleVars, walVars, histVars
<1>5. LogInv' /\ WalInv' /\ Reach' = Reach
  BY <1>2, <1>3 DEF LogInv, WalInv, Reach, Forced, Newest, walVars
<1>6. PageInv'
  BY <1>2, <1>3 DEF PageInv, Forced, Newest
<1>7. JobPagesInv'
  <2>1. Len(job.todo) > 1 /\ job.kind # "soft"
    BY <1>1, <1>3, <1>4, SameStage DEF EarlySteps, Kept
  <2>2. /\ job' # NoJob /\ job'.kind = job.kind /\ job'.content = job.content
    BY <1>1, <1>3, <1>4, <2>1, Advanced DEF Kept
  <2>3. /\ Len(job.todo) \in Nat /\ PagesLeft \in {3, 4, 5} /\ PagesLeft = AfterPages(job.kind, syncWrites)
        /\ job.kind \in Kinds /\ Stage(job.kind, syncWrites, "datasync", Len(job.todo))
    BY <1>1, <1>3, JobNow
  <2>4. Len(job.todo) <= PagesLeft + 1
    BY SMTT(20), <2>3 DEF Stage
  <2>5. job.content \in cached \cup data
    BY <1>1, <1>3, <2>1, <2>4 DEF RunInv, JobPagesInv
  <2> QED
    BY <1>2, <2>2, <2>5 DEF JobPagesInv
<1> QED
  BY <1>1, <1>4, <1>5, <1>6, <1>7, QuietInv DEF EarlySteps

\* Writing the buffered records keeps the invariant.
LEMMA WriteBufferInv ==
    ASSUME IInv, WriteBuffer
    PROVE  IInv' /\ Effect
<1>1. job # NoJob /\ Head(job.todo) = "wal" /\ Advance
  BY DEF WriteBuffer, At
<1>2. /\ UNCHANGED <<st, tree, pend, envs, gen, cid, nextGen, nextCid, unframed,
                     reserved, latest, syncWrites, call, ret, log, logSynced, data, cached, histVars>>
      /\ WriteWal(buf, FALSE) /\ buf' = << >>
  BY DEF WriteBuffer
<1>3. TypeInv /\ RunInv /\ LogInv /\ WalInv /\ PageInv /\ TreeInv
  BY <1>1, RunningJob DEF IInv, DiskInv, RunInv
<1>4. Kept /\ UNCHANGED <<data, cached>> /\ acked' = acked /\ nextMut' = nextMut
  BY <1>2 DEF Kept, histVars
<1>5. ~ Framed
  BY <1>1, <1>3, <1>4, SameStage DEF EarlySteps, Kept
<1>6. Newest = Forced
  BY <1>3, <1>5 DEF RunInv, FrameInv
<1>7. Written(buf)
  <2>1. /\ fd \in {"none", "live", "unlinked"} /\ reserved \in BOOLEAN /\ buf \in Seq(MutRec)
        /\ fd = "unlinked" => Live = << >>
    BY <1>3 DEF TypeInv, TreeInv
  <2>2. UNCHANGED <<log, logSynced>> /\ FALSE \in BOOLEAN
    BY <1>2
  <2> QED
    BY <1>2, <1>3, <1>6, <2>1, <2>2, WriteMuts
<1>8. FilesAgree
  <2>1. ASSUME fd # "unlinked" PROVE TailMuts(Live') \o MutsOf(buf') = TailMuts(Live) \o MutsOf(buf)
    <3>1. TailMuts(Live') = TailMuts(Live) \o MutsOf(buf)
      BY <1>7, <2>1 DEF Written
    <3>2. TailMuts(Live) \o MutsOf(buf) \in Content
      BY <1>3, <2>1, MutsNone DEF TreeInv, TypeInv, Unjournaled
    <3>3. MutsOf(buf') = << >>
      BY <1>2, MutsNone
    <3> QED
      BY <3>1, <3>2, <3>3, JoinNone
  <2> QED
    BY <1>2, <1>7, <2>1 DEF Written, FilesAgree
<1>9. LogInv' /\ PageInv'
  BY <1>2, <1>3 DEF LogInv, PageInv, Forced, Newest
<1>10. JobPagesInv'
  BY <1>1, <1>3, <1>4, JobPagesKept DEF EarlySteps, RunInv, Kept
<1> QED
  BY <1>1, <1>4, <1>7, <1>8, <1>9, <1>10, QuietInv DEF EarlySteps, Written

\* Forcing the WAL rules out its shorter prefixes.
LEMMA ForceWalInv ==
    ASSUME IInv, Regime, ForceWal
    PROVE  IInv' /\ Effect
<1>1. job # NoJob /\ Head(job.todo) = "walsync" /\ Advance
  BY DEF ForceWal, At
<1>2. /\ UNCHANGED <<st, tree, pend, buf, envs, gen, cid, nextGen, nextCid, unframed,
                     reserved, latest, syncWrites, call, ret, log, logSynced, data, cached, histVars>>
      /\ SyncWal
  BY DEF ForceWal
<1>3. TypeInv /\ RunInv /\ LogInv /\ WalInv /\ PageInv /\ TreeInv /\ CallInv
  BY <1>1, RunningJob DEF IInv, DiskInv, RunInv
<1>4. Kept /\ UNCHANGED <<data, cached>> /\ acked' = acked /\ nextMut' = nextMut
  BY <1>2 DEF Kept, histVars
<1>5. /\ fd' = IF fd = "none" THEN "live" ELSE fd
      /\ walSynced' = IF fd = "unlinked" \/ walGone THEN walSynced ELSE Len(wal)
      /\ UNCHANGED <<wal, walGone>>
  BY <1>2 DEF SyncWal
<1>6. Forced' = Forced /\ Newest' = Newest /\ Live' = Live
  BY <1>2, <1>5 DEF Forced, Newest, Live
<1>7. FilesAgree
  <2>1. /\ fd' \in {"none", "live", "unlinked"} /\ (fd' = "unlinked" <=> fd = "unlinked")
        /\ fd = "unlinked" => Live = << >>
    BY <1>3, <1>5 DEF TypeInv, TreeInv
  <2>2. CommitsFrom(wal', wal)
    BY <1>5 DEF CommitsFrom
  <2> QED
    BY <1>2, <1>5, <1>6, <2>1, <2>2 DEF FilesAgree
<1>8. WalInv' /\ Reach' \subseteq Reach
  <2>1. walSynced \in 0..Len(wal) /\ Len(wal) \in Nat
    BY SMTT(20), <1>3 DEF WalInv, Fits
  <2>2. walSynced' \in walSynced..Len(wal)
    BY SMTT(20), <1>5, <2>1
  <2>3. /\ Fits(wal, walSynced', walGone, Forced, Newest)
        /\ Reveals(wal, walSynced', Forced, Newest) \subseteq Reveals(wal, walSynced, Forced, Newest)
    BY <1>3, <2>2, FitsSync DEF WalInv
  <2> QED
    BY <1>5, <1>6, <2>3 DEF WalInv, Reach
<1>9. LogInv' /\ PageInv'
  BY <1>2, <1>3 DEF LogInv, PageInv, Forced, Newest
<1>10. JobPagesInv'
  BY <1>1, <1>3, <1>4, JobPagesKept DEF EarlySteps, RunInv, Kept
<1>11. job.kind = "soft" /\ Committed => walSynced' = Len(wal')
  BY <1>1, <1>3, <1>5 DEF Regime, CallInv, TreeInv
<1> QED
  BY <1>1, <1>4, <1>7, <1>8, <1>9, <1>10, <1>11, QuietInv DEF EarlySteps

(***************************************************************************)
(* The commit envelope.                                                    *)
(***************************************************************************)
\* Where the envelope is appended.
LEMMA CommitStage ==
    ASSUME TypeInv, job # NoJob, Head(job.todo) = "commit", Advance, syncWrites' = syncWrites
    PROVE  /\ Len(job.todo) > 1 /\ job.kind \in WriteKinds
           /\ ~ Committed /\ Committed'
           /\ ~ Framed /\ ~ Finishing /\ ~ Framed' /\ ~ Finishing'
           /\ job.kind = "soft" => Len(job'.todo) # 1
           /\ job.kind # "soft" => Len(job.todo) <= PagesLeft
<1> DEFINE n == Len(job.todo)
           p == PagesLeft
<1>1. /\ Stage(job.kind, syncWrites, "commit", n)
      /\ n \in Nat /\ p \in {3, 4, 5} /\ p = AfterPages(job.kind, syncWrites)
  BY JobNow
<1>2. "soft" \notin CommitKinds /\ "recover" \notin CommitKinds /\ "maint" \notin CommitKinds
  BY DEF CommitKinds
<1>3. p = AfterPages(job.kind, syncWrites) /\ (job.kind \in CommitKinds => p \in {4, 5})
  BY <1>1 DEF AfterPages
<1>4. (job.kind \in CommitKinds /\ n = p) \/ (job.kind = "soft" /\ n = 3)
  BY <1>1 DEF Stage
<1> HIDE DEF n, p
<1>5. n > 1
  BY SMTT(20), <1>1, <1>3, <1>4
<1>6. /\ job' # NoJob /\ job'.kind = job.kind
      /\ Len(job'.todo) = n - 1 /\ PagesLeft' = p
  BY <1>5, Advanced DEF n, p
<1>7. /\ Committed <=> (job.kind \in CommitKinds /\ n < p) \/ (job.kind = "soft" /\ n < 3)
      /\ Committed' <=> (job.kind \in CommitKinds /\ n - 1 < p) \/ (job.kind = "soft" /\ n - 1 < 3)
      /\ Framed <=> job.kind # "soft" /\ n = 2
      /\ Finishing <=> job.kind # "soft" /\ n = 1
      /\ Framed' <=> job.kind # "soft" /\ n - 1 = 2
      /\ Finishing' <=> job.kind # "soft" /\ n - 1 = 1
  BY <1>6 DEF Committed, Framed, Finishing, n, p
<1>8. ~ Committed /\ Committed'
  BY SMTT(20), <1>1, <1>2, <1>3, <1>4, <1>7
<1>9. ~ Framed /\ ~ Finishing /\ ~ Framed' /\ ~ Finishing'
  BY SMTT(20), <1>1, <1>2, <1>3, <1>4, <1>7
<1>10. (job.kind = "soft" => n - 1 # 1) /\ (job.kind # "soft" => n <= p) /\ job.kind \in WriteKinds
  BY SMTT(20), <1>1, <1>2, <1>3, <1>4 DEF WriteKinds
<1> QED
  BY <1>5, <1>6, <1>8, <1>9, <1>10 DEF n, p

\* Unforced mutation records hide nothing.
LEMMA MutsReveal ==
    ASSUME NEW w, NEW s, NEW a, Fits(w, s, FALSE, a, a), NEW ms \in Seq(MutRec)
    PROVE  Reveals(w, s, a, a) \subseteq Reveals(w \o ms, s, a, a)
<1>1. w \in Seq(Rec) /\ s \in 0..Len(w) /\ Len(w) \in Nat
  BY SMTT(20) DEF Fits
<1>2. w \o ms \in Seq(Rec) /\ Len(w \o ms) = Len(w) + Len(ms) /\ Begins(w, w \o ms)
  BY <1>1, MutsAppended
<1>3. ASSUME NEW k \in s..Len(w)
      PROVE  Replayed(SubSeq(w, 1, k), a) \in Reveals(w \o ms, s, a, a)
  <2>1. k \in 0..Len(w) /\ k \in s..Len(w \o ms)
    <3>1. Len(ms) \in Nat
      BY SMTT(20)
    <3>2. \A x, y \in Nat : \A z \in 0..x : \A j \in z..x : j \in 0..x /\ j \in z..(x + y)
      BY SMTT(20)
    <3> QED
      BY <1>1, <1>2, <3>1, <3>2
  <2>2. SubSeq(w \o ms, 1, k) = SubSeq(w, 1, k)
    BY <1>1, <1>2, <2>1, PrefixOfBeginning
  <2> QED
    BY <2>1, <2>2 DEF Reveals
<1> QED
  BY <1>3 DEF Reveals

\* The WAL after a commit envelope c behind the buffered records ms.
Enveloped(v, ms, c, t, w, s, a) ==
    /\ Fits(v \o Append(ms, c), t, FALSE, a, a)
    /\ Replayed(v \o Append(ms, c), a) = Replayed(v, a) \o c.muts
    /\ Reveals(v \o Append(ms, c), t, a, a) = Reveals(w, s, a, a) \cup {Replayed(v, a) \o c.muts}
    /\ \A i \in CommitsIn(v \o Append(ms, c)) :
          \/ i \in CommitsIn(w) /\ (v \o Append(ms, c))[i] = w[i]
          \/ (v \o Append(ms, c))[i] = c
    /\ TailMuts(v \o Append(ms, c)) = << >>

\* An envelope that covers the tail of the log and is newer than everything
\* in it adds one content to what the log reveals.
LEMMA EnvelopeWritten ==
    ASSUME NEW w, NEW s, NEW gone, NEW a, Fits(w, s, gone, a, a),
           NEW v, NEW t, LivePart(v, t, w, s, gone),
           NEW ms \in Seq(MutRec), NEW c \in CommitRec, c.muts = TailMuts(v) \o MutsOf(ms),
           a.gen < c.gen, a.cid < c.cid,
           \A i \in CommitsIn(w) : w[i].gen < c.gen /\ w[i].cid < c.cid
    PROVE  Enveloped(v, ms, c, t, w, s, a)
<1>1. /\ Fits(v, t, FALSE, a, a) /\ Reveals(v, t, a, a) \subseteq Reveals(w, s, a, a)
  BY LiveFits
<1>2. Quiet(v, ms, t, w, s, a)
  BY MutsWritten DEF ForcedTo
<1> DEFINE x == v \o ms
<1>3. v \in Seq(Rec) /\ x \in Seq(Rec)
  BY <1>1, MutsAppended DEF Fits
<1>4. v \o Append(ms, c) = Append(x, c)
  <2>1. ms \in Seq(Rec) /\ c \in Rec
    BY SeqMonotonic DEF Rec
  <2>2. Append(ms, c) = ms \o <<c>> /\ <<c>> \in Seq(Rec)
    BY SMTT(20), <2>1, AppendIsConcat
  <2>3. (v \o ms) \o <<c>> = v \o (ms \o <<c>>)
    BY SMTT(20), <1>3, <2>1, <2>2, ConcatAssociative
  <2>4. Append(x, c) = x \o <<c>>
    BY <1>3, <2>1, AppendIsConcat
  <2> QED
    BY <2>2, <2>3, <2>4
<1>5. /\ Fits(x, t, FALSE, a, a) /\ CommitsFrom(x, w) /\ Replayed(x, a) = Replayed(v, a)
      /\ TailMuts(x) = c.muts /\ Reveals(x, t, a, a) \subseteq Reveals(w, s, a, a)
  BY <1>2 DEF Quiet
<1>6. Reveals(w, s, a, a) \subseteq Reveals(x, t, a, a)
  <2>1. Reveals(v, t, a, a) \subseteq Reveals(x, t, a, a)
    BY <1>1, MutsReveal
  <2>2. CASE gone
    <3>1. a \in FrameRec /\ UpTo(w, a.gen)
      BY <2>2 DEF Fits, Newer
    <3>2. Reveals(w, s, a, a) = {a.content} /\ v = << >> /\ t = 0
      BY <2>2, <3>1, FitsPublished DEF LivePart
    <3>3. Reveals(<< >>, 0, a, a) = {a.content}
      BY <3>1, FitsEmpty
    <3> QED
      BY <2>1, <3>2, <3>3
  <2>3. CASE ~ gone
    BY <2>1, <2>3 DEF LivePart
  <2> QED
    BY <2>2, <2>3
<1> HIDE DEF x
<1>7. Follows(c, x, a)
  BY <1>5 DEF CommitsFrom, Follows
<1>8. OneMore(x, c, t, a)
  BY <1>5, <1>7, FitsCommit
<1>9. /\ CommitsIn(Append(x, c)) = CommitsIn(x) \cup {Len(x) + 1}
      /\ Append(x, c)[Len(x) + 1] = c
      /\ \A i \in CommitsIn(x) : Append(x, c)[i] = x[i]
      /\ TailMuts(Append(x, c)) = << >>
  BY <1>3, CommitAppended
<1>10. \A i \in CommitsIn(Append(x, c)) :
          \/ i \in CommitsIn(w) /\ Append(x, c)[i] = w[i]
          \/ Append(x, c)[i] = c
  BY <1>5, <1>9 DEF CommitsFrom
<1>11. Reveals(x, t, a, a) = Reveals(w, s, a, a)
  BY <1>5, <1>6
<1> QED
  BY <1>4, <1>5, <1>8, <1>9, <1>10, <1>11 DEF Enveloped, OneMore

\* What appending the envelope leaves in the WAL: the whole tree, unless the
\* descriptor is that of an unlinked file.
Sealed ==
    /\ WalInv' /\ Forced' = Forced /\ Newest' = Newest
    /\ fd' \in {"none", "live", "unlinked"} /\ (fd' = "unlinked" <=> fd = "unlinked")
    /\ fd = "unlinked" => Live' = Live /\ Reach' = Reach
    /\ fd # "unlinked" => /\ ~ walGone' /\ Replayed(Live', Forced) = tree
                          /\ TailMuts(Live') = << >>
                          /\ Reach' = Reach \cup {tree}
    /\ \A i \in CommitsIn(wal') :
          (i \in CommitsIn(wal) /\ wal'[i] = wal[i]) \/ wal'[i] = Commit(job.gen, job.cid, job.muts)

\* That is what AppendCommit writes.
LEMMA CommitWritten ==
    ASSUME IInv, job # NoJob, job.kind \in WriteKinds, ~ Committed, ~ Framed, ~ Finishing,
           WriteWal(Append(buf, Commit(job.gen, job.cid, job.muts)), FALSE),
           UNCHANGED <<log, logSynced>>
    PROVE  Sealed
<1> DEFINE a == Forced
           c == Commit(job.gen, job.cid, job.muts)
<1>1. TypeInv /\ RunInv /\ WalInv /\ CallInv /\ TreeInv /\ FrameInv /\ IdInv
  BY RunningJob DEF IInv, DiskInv, RunInv
<1>2. Newest = a /\ Forced' = a /\ Newest' = a
  BY <1>1 DEF FrameInv, Forced, Newest
<1>3. Fits(wal, walSynced, walGone, a, a) /\ Reach = Reveals(wal, walSynced, a, a)
  BY <1>1, <1>2 DEF WalInv, Reach
<1>4. WalInv' = Fits(wal', walSynced', walGone', a, a) /\ Reach' = Reveals(wal', walSynced', a, a)
  BY <1>2 DEF WalInv, Reach
<1>5. /\ reserved /\ job.muts = pend /\ Unjournaled = pend /\ job.kind \notin {"recover", "maint"}
      /\ buf \in Seq(MutRec) /\ fd \in {"none", "live", "unlinked"}
  BY <1>1 DEF CallInv, TypeInv, Unjournaled, Journaled, WriteKinds, CommitKinds
<1>6. CASE fd = "unlinked"
  <2>1. UNCHANGED <<wal, walSynced, walGone>> /\ fd' = fd
    BY <1>5, <1>6 DEF WriteWal, walVars
  <2>2. Live' = Live
    BY <2>1 DEF Live
  <2> QED
    BY <1>2, <1>3, <1>4, <1>6, <2>1, <2>2 DEF Sealed
<1>7. CASE fd # "unlinked"
  <2> DEFINE t == IF walGone THEN 0 ELSE walSynced
  <2>1. wal' = Live \o Append(buf, c) /\ walGone' = FALSE /\ fd' \in {"none", "live"}
    BY <1>5, <1>7 DEF WriteWal
  <2>2. walSynced' = t
    BY <1>5, <1>7 DEF WriteWal, SyncedByAdmission
  <2>3. Live' = wal'
    BY <2>1 DEF Live
  <2>4. LivePart(Live, t, wal, walSynced, walGone)
    BY DEF Live, LivePart
  <2>5. /\ job.gen \in Nat /\ job.cid \in Nat /\ job.muts \in Content
        /\ gen < job.gen /\ cid < job.cid /\ a.gen <= gen /\ a.cid <= cid
        /\ gen \in Nat /\ cid \in Nat /\ a \in FrameRec
    BY <1>1, <1>3, <1>5, JobNow DEF IdInv, TypeInv, Fits, Newer
  <2>6. c \in CommitRec /\ c.gen = job.gen /\ c.cid = job.cid /\ c.muts = job.muts
    BY <2>5 DEF Commit, CommitRec
  <2>7. c.muts = TailMuts(Live) \o MutsOf(buf)
    BY <1>1, <1>5, <1>7, <2>6 DEF TreeInv
  <2>8. a.gen < c.gen /\ a.cid < c.cid
    BY SMTT(20), <2>5, <2>6, FrameFields
  <2>9. ASSUME NEW i \in CommitsIn(wal) PROVE wal[i].gen < c.gen /\ wal[i].cid < c.cid
    <3>1. wal[i].gen <= gen /\ wal[i].cid <= cid
      BY <1>1, <1>5 DEF IdInv, CallInv
    <3>2. wal[i].gen \in Nat /\ wal[i].cid \in Nat
      BY <1>3, CommitFields DEF Fits
    <3> QED
      BY SMTT(20), <2>5, <2>6, <3>1, <3>2
  <2>10. Enveloped(Live, buf, c, t, wal, walSynced, a)
    <3> HIDE DEF Live, t, a, c
    <3> QED
      BY <1>3, <1>5, <2>4, <2>6, <2>7, <2>8, <2>9, EnvelopeWritten
  <2>11. Replayed(Live, a) \o c.muts = tree
    BY <1>1, <1>5, <2>6 DEF TreeInv
  <2> HIDE DEF c, a, t
  <2> QED
    <3>1. /\ Fits(wal', walSynced', FALSE, a, a) /\ Replayed(wal', a) = tree
          /\ Reveals(wal', walSynced', a, a) = Reveals(wal, walSynced, a, a) \cup {tree}
          /\ TailMuts(wal') = << >>
          /\ \A i \in CommitsIn(wal') : (i \in CommitsIn(wal) /\ wal'[i] = wal[i]) \/ wal'[i] = c
      BY <2>1, <2>2, <2>10, <2>11 DEF Enveloped
    <3> QED
      BY <1>2, <1>3, <1>4, <1>7, <2>1, <2>3, <3>1 DEF Sealed, a, c
<1> QED
  BY <1>6, <1>7

\* Appending the envelope keeps the invariant.
LEMMA AppendCommitInv ==
    ASSUME IInv, AppendCommit
    PROVE  IInv' /\ Effect
<1>1. job # NoJob /\ Head(job.todo) = "commit" /\ Advance
  BY DEF AppendCommit, At
<1>2. /\ UNCHANGED <<st, tree, pend, envs, gen, cid, unframed, reserved, latest,
                     syncWrites, call, log, logSynced, data, cached, acked, nextMut>>
      /\ WriteWal(Append(buf, Commit(job.gen, job.cid, job.muts)), FALSE)
      /\ buf' = << >> /\ points' = points \cup {job.content}
  BY DEF AppendCommit
<1>3. TypeInv /\ RunInv /\ LogInv /\ WalInv /\ PageInv /\ TreeInv /\ CallInv /\ OutcomeInv /\ IdInv
      /\ Running /\ FrameInv /\ JobPagesInv
  BY <1>1, RunningJob DEF IInv, DiskInv, RunInv
<1>4. /\ Len(job.todo) > 1 /\ job.kind \in WriteKinds /\ ~ Committed /\ Committed'
      /\ ~ Framed /\ ~ Finishing /\ ~ Framed' /\ ~ Finishing'
      /\ job.kind = "soft" => Len(job'.todo) # 1
      /\ job.kind # "soft" => Len(job.todo) <= PagesLeft
  BY <1>1, <1>2, <1>3, CommitStage
<1>5. /\ job' \in JobRec /\ job' # NoJob /\ Rest(job'.kind, syncWrites', job'.todo)
      /\ job'.kind = job.kind /\ job'.gen = job.gen /\ job'.cid = job.cid
      /\ job'.muts = job.muts /\ job'.content = job.content
  BY <1>1, <1>2, <1>3, <1>4, Advanced
<1>6. Sealed
  BY <1>1, <1>2, <1>4, CommitWritten
<1>7. /\ tree = Replayed(Live, Forced) \o pend /\ job.content = tree /\ job.muts = pend
      /\ tree \in Content /\ pend \in Content
      /\ fd = "unlinked" => Live = << >>
  BY <1>1, <1>3, <1>4 DEF TreeInv, Unjournaled, Journaled, CallInv, TypeInv
<1>8. /\ IF job.kind = "flush" THEN UNCHANGED <<nextGen, nextCid>>
         ELSE nextGen' = nextGen + 1 /\ nextCid' = nextCid + 1
      /\ nextGen \in Nat /\ nextCid \in Nat
  BY <1>3 DEF AppendCommit, TypeInv
<1>9. OutcomeInv' /\ Effect
  <2>1. Replayed(Live, Forced) \in Reach
    <3>1. Newest = Forced /\ Fits(wal, walSynced, walGone, Forced, Forced)
      BY <1>3, <1>4 DEF FrameInv, WalInv
    <3>3. Replayed(Live, Forced) = Replayed(wal, Forced)
      BY <1>3, <3>1, LiveReplay
    <3> QED
      BY <1>3, <3>3, ReachIs
  <2>2. points' \subseteq Content /\ nextMut' \in Nat /\ points \subseteq points'
    BY <1>2, <1>3, <1>7 DEF OutcomeInv
  <2>3. CASE fd = "unlinked" \/ tree \in Reach
    <3>1. Reach' \subseteq Reach /\ WalInv'
      BY <1>6, <2>3 DEF Sealed
    <3> QED
      BY <1>2, <1>3, <2>2, <3>1, Settled
  <2>4. CASE fd # "unlinked" /\ tree \notin Reach
    <3>1. pend # << >>
      <4>1. Reach \subseteq Content
        BY <1>3, ReachIs
      <4> QED
        BY <1>7, <2>1, <2>4, <4>1, JoinNone
    <3>2. Reach' = Reach \cup {tree}
      BY <1>6, <2>4 DEF Sealed
    <3> QED
      BY <1>2, <1>3, <1>7, <2>1, <2>2, <3>1, <3>2, Attempted
  <2> QED
    BY <2>3, <2>4
<1>10. TypeInv'
  <2>1. nextGen' \in Nat /\ nextCid' \in Nat
    BY SMTT(20), <1>8
  <2>2. fd' \in {"none", "live", "unlinked"}
    BY <1>6 DEF Sealed
  <2> QED
    BY <1>2, <1>3, <1>5, <2>1, <2>2, MutsNone DEF TypeInv
<1>f. /\ Forced' = Forced /\ Newest' = Newest /\ (fd' = "unlinked" <=> fd = "unlinked")
      /\ fd = "unlinked" => Live' = Live
      /\ fd # "unlinked" => ~ walGone' /\ Replayed(Live', Forced) = tree /\ TailMuts(Live') = << >>
  BY <1>6 DEF Sealed
<1>11. CallInv'
  BY <1>1, <1>2, <1>3, <1>5, <1>f, CallKept
<1>12. FrameInv'
  BY <1>2, <1>3, <1>4, <1>6 DEF FrameInv, Sealed
<1>13. TreeInv'
  <2>1. CASE fd = "unlinked"
    <3>1. Unjournaled' = pend
      BY <1>2, <1>4, <1>6, <2>1 DEF Unjournaled, Journaled, Sealed
    <3> QED
      <4>1. tree' = Replayed(Live', Forced') \o Unjournaled'
        BY <1>2, <1>f, <1>7, <2>1, <3>1
      <4>2. fd' = "unlinked" /\ Live' = << >> /\ job'.content = tree' /\ job'.content \in points'
        BY <1>2, <1>5, <1>f, <1>7, <2>1
      <4>3. ~ (job'.kind = "soft" /\ Len(job'.todo) = 1)
        BY <1>4, <1>5
      <4> QED
        BY <4>1, <4>2, <4>3 DEF TreeInv
  <2>2. CASE fd # "unlinked"
    <3>1. Unjournaled' = << >>
      BY <1>4, <1>6, <2>2 DEF Unjournaled, Journaled, Sealed
    <3>2. tree = tree \o << >> /\ << >> \o << >> = << >> /\ MutsOf(buf') = << >>
      BY <1>2, <1>7, JoinNone, MutsNone
    <3> QED
      <4>1. tree' = Replayed(Live', Forced') \o Unjournaled'
        BY <1>2, <1>f, <2>2, <3>1, <3>2
      <4>2. /\ fd' # "unlinked" /\ ~ walGone' /\ job'.content = tree' /\ job'.content \in points'
            /\ TailMuts(Live') \o MutsOf(buf') = Unjournaled'
        BY <1>2, <1>5, <1>f, <1>7, <2>2, <3>1, <3>2
      <4>3. ~ (job'.kind = "soft" /\ Len(job'.todo) = 1)
        BY <1>4, <1>5
      <4> QED
        BY <4>1, <4>2, <4>3 DEF TreeInv
  <2> QED
    BY <2>1, <2>2
<1>14. IdInv'
  <2>0. job.gen \in Nat /\ job.cid \in Nat /\ gen \in Nat /\ cid \in Nat
    BY <1>1, <1>3, JobNow DEF TypeInv
  <2>1. /\ gen' < nextGen' /\ cid' < nextCid'
        /\ Forced'.gen <= gen' /\ Forced'.cid <= cid'
        /\ unframed' = 0 => Forced'.gen = gen' /\ Forced'.cid = cid'
    <3>1. gen < nextGen' /\ cid < nextCid'
      BY SMTT(20), <1>3, <1>8, <2>0 DEF IdInv
    <3> QED
      BY <1>2, <1>3, <1>4, <1>f, <3>1 DEF IdInv
  <2>2. /\ gen < job.gen /\ cid < job.cid /\ job.kind # "maint" /\ st # "opening"
    BY <1>1, <1>3, <1>4 DEF IdInv, CallInv, WriteKinds, CommitKinds
  <2>3. job.kind = "soft" => job.gen < nextGen' /\ job.cid < nextCid'
    BY SMTT(20), <1>1, <1>3, <1>4, <1>8, <2>0 DEF IdInv
  <2>4. ASSUME NEW i \in CommitsIn(wal') PROVE
               /\ wal'[i].gen <= job.gen /\ wal'[i].cid <= job.cid
               /\ wal'[i].gen = job.gen => wal'[i].cid = job.cid /\ wal'[i].muts = job.muts
    <3>1. CASE i \in CommitsIn(wal) /\ wal'[i] = wal[i]
      <4>1. wal[i].gen <= gen /\ wal[i].cid <= cid
        BY <1>3, <1>4, <2>2, <3>1 DEF IdInv
      <4>2. wal[i].gen \in Nat /\ wal[i].cid \in Nat
        BY <1>3, <3>1, CommitFields DEF WalInv, Fits
      <4> QED
        BY SMTT(20), <2>0, <2>2, <3>1, <4>1, <4>2
    <3>2. CASE wal'[i] = Commit(job.gen, job.cid, job.muts)
      BY SMTT(20), <2>0, <3>2 DEF Commit
    <3> QED
      BY <1>6, <3>1, <3>2 DEF Sealed
  <2> QED
    BY <1>2, <1>4, <1>5, <2>1, <2>2, <2>3, <2>4 DEF IdInv
<1>15. JobPagesInv'
  BY <1>1, <1>2, <1>3, <1>4, <1>5 DEF JobPagesInv
<1>16. LogInv' /\ PageInv' /\ WalInv'
  BY <1>2, <1>3, <1>6 DEF LogInv, PageInv, Forced, Newest, Sealed
<1> QED
  BY <1>9, <1>10, <1>11, <1>12, <1>13, <1>14, <1>15, <1>16 DEF IInv, DiskInv, RunInv

(***************************************************************************)
(* The invariant.                                                          *)
(***************************************************************************)
\* A freshly created database satisfies the invariant and reveals the empty
\* content.
LEMMA InitInv ==
    ASSUME Init
    PROVE  IInv /\ Reach = {<< >>}
<1>1. Bootstrap \in FrameRec /\ Bootstrap.gen = 0 /\ Bootstrap.cid = 0 /\ Bootstrap.content = << >>
  BY SMTT(20) DEF Bootstrap, Frame, FrameRec, Content
<1>2. /\ log = <<Bootstrap>> /\ logSynced = 1 /\ Len(log) = 1 /\ log \in Seq(FrameRec)
      /\ Forced = Bootstrap /\ Newest = Bootstrap
  BY SMTT(20), <1>1 DEF Init, Forced, Newest
<1>3. LogInv
  BY SMTT(20), <1>2 DEF LogInv, LogOK, Ascending
<1>4. wal = << >> /\ walSynced = 0 /\ walGone = FALSE /\ Live = << >>
  BY DEF Init, Live
<1>5. WalInv /\ Reach = {<< >>}
  BY <1>1, <1>2, <1>4, FitsEmpty DEF WalInv, Reach
<1>6. PageInv
  BY <1>1, <1>2, MutsNone DEF PageInv, Init
<1>7. OutcomeInv
  <2>1. << >> \o << >> = << >> /\ << >> \in Content
    BY JoinNone, MutsNone
  <2>2. Extends(<< >>, << >>)
    BY <2>1 DEF Extends
  <2> QED
    BY <1>5, <2>1, <2>2 DEF OutcomeInv, Init
<1>8. TypeInv
  <2>1. syncWrites \in BOOLEAN
    BY PublicationAssumption DEF Init
  <2>2. << >> \in Seq(Nat) /\ << >> \in Content /\ << >> \in Seq(MutRec)
    BY SMTT(20), MutsNone
  <2> QED
    BY <2>1, <2>2, NoCallIs DEF TypeInv, Init
<1>9. CallInv
  BY SMTT(20) DEF CallInv, Init
<1>10. ~ Framed /\ ~ Finishing /\ ~ Committed /\ JobPagesInv
  BY DEF Init, Framed, Finishing, Committed, JobPagesInv
<1>11. FrameInv
  BY <1>2, <1>10 DEF FrameInv, Init
<1>12. TreeInv
  <2>1. Replayed(<< >>, Bootstrap) = << >> /\ TailMuts(<< >>) = << >>
    BY <1>1, EmptyLog
  <2>2. Unjournaled = << >>
    BY DEF Unjournaled, Init
  <2> QED
    BY <1>2, <1>4, <1>10, <2>1, <2>2, JoinNone, MutsNone DEF TreeInv, Init
<1>13. IdInv
  BY SMTT(20), <1>1, <1>2, <1>4, <1>10, EmptyLog DEF IdInv, Init
<1> QED
  BY <1>3, <1>5, <1>6, <1>7, <1>8, <1>9, <1>10, <1>11, <1>12, <1>13 DEF IInv, DiskInv, RunInv

\* A step that changes nothing.
LEMMA Stuttering ==
    ASSUME IInv, UNCHANGED vars
    PROVE  IInv' /\ Reach' = Reach /\ acked' = acked
<1>1. UNCHANGED <<st, tree, pend, buf, envs, gen, cid, nextGen, nextCid, unframed, reserved, fd, latest,
                  syncWrites, job, call, wal, walSynced, walGone, log, logSynced, data, cached, acked,
                  points, nextMut>>
  BY DEF vars, handleVars, callVars, diskVars, histVars
<1>2. Forced' = Forced /\ Newest' = Newest /\ Live' = Live
  BY <1>1 DEF Forced, Newest, Live
<1>3. Committed' = Committed /\ Framed' = Framed /\ Finishing' = Finishing /\ PagesLeft' = PagesLeft
  BY <1>1 DEF Committed, Framed, Finishing, PagesLeft
<1>4. Unjournaled' = Unjournaled
  BY <1>1, <1>3 DEF Unjournaled, Journaled
<1>5. DiskInv' = DiskInv /\ Reach' = Reach
  BY <1>1, <1>2 DEF DiskInv, LogInv, WalInv, PageInv, OutcomeInv, Reach, Extends
<1>6. TypeInv' = TypeInv
  BY <1>1 DEF TypeInv
<1>7. CallInv' = CallInv
  BY <1>1 DEF CallInv
<1>8. FrameInv' = FrameInv /\ TreeInv' = TreeInv
  BY <1>1, <1>2, <1>3, <1>4 DEF FrameInv, TreeInv
<1>9. IdInv' = IdInv /\ JobPagesInv' = JobPagesInv
  BY <1>1, <1>2, <1>3 DEF IdInv, JobPagesInv
<1>10. Running' = Running
  BY <1>1 DEF Running
<1> QED
  BY <1>1, <1>5, <1>6, <1>7, <1>8, <1>9, <1>10 DEF IInv, RunInv

(***************************************************************************)
(* A refused group.                                                        *)
(***************************************************************************)
\* A barrier runs a group publication, and one refused for capacity left the
\* envelopes it took pending.
GroupInv ==
    /\ job # NoJob /\ call.op = "barrier" => job.kind = "group"
    /\ ret.op = "barrier" /\ ret.status = "capacity" => envs = ret.group

\* Only a step of a job that keeps its kind and its call, a call that returns
\* otherwise, and the handing back of the group itself.
LEMMA GroupKept ==
    ASSUME IInv, GroupInv, ~ WalFirst,
           \/ (job' = NoJob \/ call'.op # "barrier") /\ ret'.status # "capacity"
           \/ job # NoJob /\ Advance /\ UNCHANGED <<call, ret, envs>>
           \/ job' = NoJob /\ UNCHANGED <<call, ret, envs>>
    PROVE  GroupInv'
<1>1. CASE job # NoJob /\ Advance /\ UNCHANGED <<call, ret, envs>>
  <2>1. job \in JobRec
    BY <1>1 DEF IInv, TypeInv
  <2>2. job'.kind = job.kind
    BY <1>1, <2>1 DEF Advance, JobRec
  <2> QED
    BY <1>1, <2>2 DEF GroupInv
<1>2. CASE (job' = NoJob \/ call'.op # "barrier") /\ ret'.status # "capacity"
  BY <1>2 DEF GroupInv
<1>3. CASE job' = NoJob /\ UNCHANGED <<call, ret, envs>>
  BY <1>3 DEF GroupInv
<1> QED
  BY <1>1, <1>2, <1>3

\* The calls and the ends of calls.
LEMMA Statuses ==
    /\ NotReturned.status # "capacity" /\ NoCall.op # "barrier"
    /\ \A op, group : Returned(op, "ok", group).status # "capacity"
    /\ \A op, group : Returned(op, "error", group).status # "capacity"
    /\ \A op, status, group : /\ Returned(op, status, group).op = op
                              /\ Returned(op, status, group).group = group
    /\ \A op, group : [op |-> op, group |-> group].op = op
BY DEF NotReturned, Returned, NoCall

\* GroupInv is kept by every step, where the group is published before the
\* barrier returns.
LEMMA GroupStep ==
    ASSUME IInv, GroupInv, ~ WalFirst, Next
    PROVE  GroupInv'
<1>0. TypeInv /\ CallInv
  BY DEF IInv
<1>1. ASSUME NEW failed \in BOOLEAN, Put(failed) PROVE GroupInv'
  BY <1>1, GroupKept, Statuses DEF Put, Idle
<1>2. ASSUME NEW n \in 1..MaxBatch, AdmitBatch(n) PROVE GroupInv'
  BY <1>2, GroupKept, Statuses DEF AdmitBatch, Idle
<1>3. ASSUME NEW n \in 1..MaxBatch, NEW failed \in BOOLEAN, CommitBatch(n, failed) PROVE GroupInv'
  <2>1. ret' = NotReturned /\ (job' = NoJob \/ call' = [op |-> "batch", group |-> << >>])
    BY <1>3 DEF CommitBatch, Idle
  <2> QED
    BY SMTT(20), <2>1, GroupKept, Statuses
<1>4. CASE Barrier
  <2>1. job' = NewJob("group", syncWrites, nextGen, nextCid, pend, tree) /\ ret' = NotReturned
    BY <1>4 DEF Barrier, FlushJob, CommitJob
  <2>2. job'.kind = "group"
    BY <2>1 DEF NewJob
  <2> QED
    BY <2>1, <2>2, Statuses DEF GroupInv
<1>5. ASSUME NEW op \in {"flush", "close", "maint"}, StartFlush(op) PROVE GroupInv'
  <2>1. \/ ret' = Returned("flush", "ok", << >>) /\ job' = NoJob
        \/ ret' = NotReturned /\ call' = [op |-> op, group |-> envs]
    BY <1>5 DEF StartFlush, Idle
  <2> QED
    BY SMTT(20), <2>1, GroupKept, Statuses
<1>6. CASE \/ WriteBuffer \/ ForceWal \/ Preflight \/ WritePages \/ SyncPages
           \/ AppendCommit \/ AppendFrame \/ ForceFrame
  <2>1. job # NoJob /\ Advance /\ UNCHANGED <<call, ret, envs>>
    BY <1>6 DEF WriteBuffer, ForceWal, Preflight, WritePages, SyncPages, AppendCommit, AppendFrame,
                ForceFrame, At, handleVars
  <2> QED
    BY <2>1, GroupKept
<1>7. CASE Finish
  <2>1. job' = NoJob /\ envs' = envs
        /\ (UNCHANGED <<call, ret>> \/ ret' = Returned(call.op, "ok", call.group))
    BY <1>7 DEF Finish, CallDone
  <2> QED
    BY SMTT(20), <2>1, GroupKept, Statuses
<1>8. CASE SoftAck
  <2>1. job # NoJob /\ job.kind = "soft"
    BY <1>8, AckStage DEF SoftAck, At, IInv
  <2> QED
    BY <1>0, <2>1 DEF CallInv
<1>9. CASE Relocate
  <2>1. envs' = envs
    BY <1>9 DEF Relocate, handleVars
  <2>2. /\ call.op = "maint"
        /\ \/ UNCHANGED <<call, ret>>
           \/ ret' = Returned("maint", "ok", call.group) /\ call' = NoCall
    BY <1>9 DEF Relocate
  <2>3. call'.op # "barrier"
    BY <2>2, Statuses
  <2> QED
    BY SMTT(20), <2>1, <2>2, <2>3, Statuses DEF GroupInv
<1>10. CASE FinishRelocation
  BY <1>10, GroupKept, Statuses DEF FinishRelocation
<1>11. CASE CloseRemove
  BY <1>11, GroupKept, Statuses DEF CloseRemove, HandleGone
<1>12. CASE Refuse
  <2>1. /\ job # NoJob /\ job' = NoJob /\ envs' = RestoredEnvs
        /\ ret' = Returned(call.op, "capacity", call.group)
    BY <1>12 DEF Refuse, At
  <2>2. ret'.op = call.op /\ ret'.group = call.group
    BY SMTT(20), <2>1, Statuses
  <2>3. ASSUME call.op = "barrier" PROVE envs' = call.group
    BY <2>1, <2>3 DEF GroupInv, RestoredEnvs
  <2> QED
    BY <2>1, <2>2, <2>3 DEF GroupInv
<1>13. CASE Fail
  BY <1>13, GroupKept, Statuses DEF Fail
<1>14. CASE OpenFail \/ CloseSyncFail \/ ProcessCrash \/ PowerLoss
  <2>1. job' = NoJob /\ (ret' = NotReturned \/ \E op, group : ret' = Returned(op, "error", group))
    BY <1>14 DEF OpenFail, CloseSyncFail, ProcessCrash, PowerLoss, HandleGone
  <2> QED
    BY SMTT(20), <2>1, GroupKept, Statuses
<1>15. CASE Open
  <2>1. ret' = NotReturned /\ call' = NoCall
    BY <1>0, <1>15 DEF Open, CallInv
  <2> QED
    BY <2>1, GroupKept, Statuses
<1> QED
  BY <1>1, <1>2, <1>3, <1>4, <1>5, <1>6, <1>7, <1>8, <1>9, <1>10, <1>11, <1>12, <1>13, <1>14, <1>15
     DEF Next, Call, JobStep

(***************************************************************************)
(* The publication frame.                                                  *)
(***************************************************************************)
\* Where the frame is appended.
LEMMA FrameStage ==
    ASSUME TypeInv, job # NoJob, Head(job.todo) = "frame", Advance, syncWrites' = syncWrites
    PROVE  /\ Len(job.todo) > 1 /\ job.kind # "soft"
           /\ Committed' = Committed /\ (Committed <=> job.kind \in CommitKinds)
           /\ ~ Framed /\ ~ Finishing /\ Framed' /\ ~ Finishing'
           /\ Len(job.todo) <= PagesLeft
<1> DEFINE n == Len(job.todo)
           p == PagesLeft
<1>1. /\ Stage(job.kind, syncWrites, "frame", n)
      /\ n \in Nat /\ p \in {3, 4, 5} /\ p = AfterPages(job.kind, syncWrites)
  BY JobNow
<1>2. "soft" \notin CommitKinds
  BY DEF CommitKinds
<1>3. p = AfterPages(job.kind, syncWrites) /\ (job.kind \in CommitKinds => p \in {4, 5})
  BY <1>1 DEF AfterPages
<1>4. job.kind # "soft" /\ n = 3
  BY <1>1 DEF Stage
<1> HIDE DEF n, p
<1>5. n > 1
  BY SMTT(20), <1>4
<1>6. /\ job' # NoJob /\ job'.kind = job.kind
      /\ Len(job'.todo) = n - 1 /\ PagesLeft' = p
  BY <1>5, Advanced DEF n, p
<1>7. /\ Committed <=> (job.kind \in CommitKinds /\ n < p) \/ (job.kind = "soft" /\ n < 3)
      /\ Committed' <=> (job.kind \in CommitKinds /\ n - 1 < p) \/ (job.kind = "soft" /\ n - 1 < 3)
      /\ Framed <=> job.kind # "soft" /\ n = 2
      /\ Finishing <=> job.kind # "soft" /\ n = 1
      /\ Framed' <=> job.kind # "soft" /\ n - 1 = 2
      /\ Finishing' <=> job.kind # "soft" /\ n - 1 = 1
  BY <1>6 DEF Committed, Framed, Finishing, n, p
<1>8. (Committed <=> job.kind \in CommitKinds) /\ (Committed' <=> job.kind \in CommitKinds)
  BY SMTT(20), <1>1, <1>3, <1>4, <1>7
<1>9. ~ Framed /\ ~ Finishing /\ Framed' /\ ~ Finishing' /\ n <= p
  BY SMTT(20), <1>1, <1>4, <1>7
<1>10. Committed' = Committed
  BY <1>8 DEF Committed
<1> QED
  BY <1>4, <1>5, <1>8, <1>9, <1>10 DEF n, p

\* Every envelope in the WAL is covered by the frame of the job.
LEMMA FrameCovers ==
    ASSUME IInv, job # NoJob, job.kind # "soft", Committed <=> job.kind \in CommitKinds,
           NEW f, f = Frame(job.gen, job.cid, job.muts, job.content)
    PROVE  f \in FrameRec /\ Agree(wal, f) /\ UpTo(wal, f.gen)
<1>1. TypeInv /\ WalInv /\ CallInv /\ IdInv
  BY RunningJob DEF IInv, DiskInv, RunInv
<1>2. /\ job.kind \in Kinds /\ job.gen \in Nat /\ job.cid \in Nat
      /\ job.muts \in Content /\ job.content \in Content
  BY <1>1, JobNow
<1>3. f \in FrameRec /\ f.gen = job.gen /\ f.cid = job.cid /\ f.muts = job.muts
  BY <1>2 DEF Frame, FrameRec
<1>4. ASSUME NEW i \in CommitsIn(wal)
      PROVE  /\ wal[i].gen <= job.gen /\ wal[i].cid <= job.cid
             /\ wal[i].gen = job.gen => wal[i].cid = job.cid /\ wal[i].muts = job.muts
  <2>1. CASE Committed \/ st = "opening"
    BY <1>1, <2>1 DEF IdInv
  <2>2. CASE ~ (Committed \/ st = "opening")
    <3>1. job.kind = "maint"
      BY <1>1, <1>2, <2>2 DEF CallInv, Kinds, WriteKinds
    <3>2. wal[i].gen <= gen /\ wal[i].cid <= cid /\ gen < job.gen /\ job.cid = cid
      BY <1>1, <2>2, <3>1 DEF IdInv
    <3>3. wal[i].gen \in Nat /\ wal[i].cid \in Nat /\ gen \in Nat
      BY <1>1, CommitFields DEF WalInv, Fits, TypeInv
    <3> QED
      BY SMTT(20), <1>2, <3>2, <3>3
  <2> QED
    BY <2>1, <2>2
<1>5. \A i \in CommitsIn(wal) : wal[i].gen \in Nat /\ wal[i].cid \in Nat
  BY <1>1, CommitFields DEF WalInv, Fits
<1>6. Agree(wal, f)
  <2>1. ASSUME NEW i \in CommitsIn(wal)
        PROVE  /\ wal[i].gen < f.gen => wal[i].cid <= f.cid
               /\ wal[i].gen = f.gen => wal[i].cid = f.cid /\ wal[i].muts = f.muts
               /\ wal[i].gen > f.gen => wal[i].cid > f.cid
    BY SMTT(20), <1>2, <1>3, <1>4, <1>5
  <2> QED
    BY <2>1 DEF Agree
<1> QED
  BY <1>3, <1>4, <1>6 DEF UpTo

\* Appending the frame keeps the invariant.
LEMMA AppendFrameInv ==
    ASSUME IInv, AppendFrame
    PROVE  IInv' /\ Effect
<1> DEFINE f == Frame(job.gen, job.cid, job.muts, job.content)
<1>1. job # NoJob /\ Head(job.todo) = "frame" /\ Advance
  BY DEF AppendFrame, At
<1>2. /\ UNCHANGED <<st, tree, pend, buf, envs, gen, cid, nextGen, nextCid, unframed, reserved, fd,
                     latest, syncWrites, call, wal, walSynced, walGone, logSynced, data, cached, acked,
                     points, nextMut>>
      /\ log' = Append(log, f)
  BY DEF AppendFrame, handleVars, walVars, histVars
<1>3. TypeInv /\ RunInv /\ LogInv /\ WalInv /\ PageInv /\ TreeInv /\ CallInv /\ OutcomeInv /\ IdInv
      /\ Running /\ FrameInv /\ JobPagesInv
  BY <1>1, RunningJob DEF IInv, DiskInv, RunInv
<1>4. /\ Len(job.todo) > 1 /\ job.kind # "soft"
      /\ Committed' = Committed /\ (Committed <=> job.kind \in CommitKinds)
      /\ ~ Framed /\ ~ Finishing /\ Framed' /\ ~ Finishing'
      /\ Len(job.todo) <= PagesLeft
  BY <1>1, <1>2, <1>3, FrameStage
<1>5. /\ job' \in JobRec /\ job' # NoJob /\ Rest(job'.kind, syncWrites', job'.todo)
      /\ job'.kind = job.kind /\ job'.gen = job.gen /\ job'.cid = job.cid
      /\ job'.muts = job.muts /\ job'.content = job.content
  BY <1>1, <1>2, <1>3, <1>4, Advanced
<1>6. f \in FrameRec /\ Agree(wal, f) /\ UpTo(wal, f.gen)
  BY <1>1, <1>4, FrameCovers
<1>7. f.gen = job.gen /\ f.content = job.content
  BY DEF Frame
<1> HIDE DEF f
<1>8. Newest = Forced /\ logSynced = Len(log) /\ Forced \in FrameRec /\ log # << >>
  <2>1. Newest = Forced
    BY <1>3, <1>4 DEF FrameInv
  <2>2. log[logSynced] = log[Len(log)] <=> logSynced = Len(log)
    BY <1>3, LogFrames DEF LogInv
  <2> QED
    BY <1>3, <2>1, <2>2 DEF Newest, Forced, WalInv, Fits, Newer, LogInv, LogOK
<1>9. Forced.gen < f.gen
  <2>1. Forced.gen <= gen /\ gen < job.gen /\ gen \in Nat /\ job.gen \in Nat
    BY <1>1, <1>3, <1>4, JobNow DEF IdInv, TypeInv
  <2> QED
    BY SMTT(20), <1>7, <1>8, <2>1, FrameFields
<1>10. LogInv' /\ Forced' = Forced /\ Newest' = f
  <2>1. LogOK(log, Len(log)) /\ log[Len(log)].gen < f.gen
    BY <1>3, <1>8, <1>9 DEF LogInv, Forced
  <2>2. /\ LogOK(Append(log, f), Len(log)) /\ Len(Append(log, f)) = Len(log) + 1
        /\ Append(log, f)[Len(log)] = log[Len(log)] /\ Append(log, f)[Len(log) + 1] = f
    BY <1>6, <2>1, LogAppend
  <2> QED
    BY <1>2, <1>8, <2>2 DEF LogInv, Forced, Newest
<1>11. /\ WalInv' /\ f # Forced /\ Reach' = Reach \cup {f.content}
  <2>1. Fits(wal, walSynced, walGone, Forced, Forced) /\ Reach = Reveals(wal, walSynced, Forced, Forced)
    BY <1>3, <1>8 DEF WalInv, Reach
  <2>2. /\ Fits(wal, walSynced, walGone, Forced, f) /\ f # Forced
        /\ Reveals(wal, walSynced, Forced, f) = Reveals(wal, walSynced, Forced, Forced) \cup {f.content}
    BY SMTT(20), <1>6, <1>9, <2>1, FitsFrame
  <2> QED
    BY <1>2, <1>10, <2>1, <2>2 DEF WalInv, Reach
<1>12. PageInv'
  <2>1. job.content \in data
    BY <1>1, <1>3, <1>4 DEF JobPagesInv
  <2> QED
    BY <1>2, <1>3, <1>7, <1>10, <2>1 DEF PageInv
<1>13. OutcomeInv' /\ Effect
  <2>1. /\ tree = Replayed(Live, Forced) \o Unjournaled /\ job.content = tree /\ tree \in Content
        /\ Unjournaled \in Content
    BY <1>1, <1>3, MutsNone DEF TreeInv, TypeInv, Unjournaled
  <2>2. Replayed(Live, Forced) \in Reach /\ Reach \subseteq Content
    BY <1>3, <1>8, LiveReplay, ReachIs
  <2>3. CASE Unjournaled = << >>
    <3>1. tree \in Reach
      BY <2>1, <2>2, <2>3, JoinNone
    <3>2. Reach' \subseteq Reach
      BY <1>7, <1>11, <2>1, <3>1
    <3> QED
      BY <1>2, <1>3, <1>11, <3>2, Settled DEF OutcomeInv
  <2>4. CASE Unjournaled # << >>
    <3>1. Committed
      BY <1>1, <1>3, <1>4, <2>4, JobNow DEF Unjournaled, CallInv, Kinds, WriteKinds
    <3>2. job.content \in points
      BY <1>3, <3>1 DEF TreeInv
    <3>3. points' = points \cup {tree} /\ nextMut' \in Nat
      BY <1>2, <1>3, <2>1, <3>2 DEF OutcomeInv
    <3>4. Reach' = Reach \cup {tree}
      BY <1>7, <1>11, <2>1
    <3> QED
      BY <1>2, <1>3, <2>1, <2>2, <2>4, <3>3, <3>4, Attempted
  <2> QED
    BY <2>3, <2>4
<1>14. TypeInv'
  BY <1>2, <1>3, <1>5 DEF TypeInv
<1>15. CallInv'
  BY <1>1, <1>2, <1>3, <1>5, CallKept
<1>16. FrameInv'
  BY <1>2, <1>3, <1>4, <1>5, <1>10, <1>11 DEF FrameInv, f
<1>17. TreeInv'
  <2>1. Live' = Live /\ Unjournaled' = Unjournaled
    BY <1>2, <1>4 DEF Live, Unjournaled, Journaled
  <2> QED
    BY <1>1, <1>2, <1>3, <1>4, <1>5, <1>10, <2>1 DEF TreeInv
<1>18. IdInv'
  BY <1>1, <1>2, <1>3, <1>4, <1>5, <1>10 DEF IdInv
<1>19. JobPagesInv'
  BY <1>1, <1>2, <1>3, <1>4, <1>5 DEF JobPagesInv
<1> QED
  BY <1>10, <1>11, <1>12, <1>13, <1>14, <1>15, <1>16, <1>17, <1>18, <1>19 DEF IInv, DiskInv, RunInv

\* Where the frame is forced.
LEMMA ForceStage ==
    ASSUME TypeInv, job # NoJob, Head(job.todo) = "framesync", Advance, syncWrites' = syncWrites
    PROVE  /\ Len(job.todo) > 1 /\ job.kind # "soft"
           /\ Committed' = Committed /\ (Committed <=> job.kind \in CommitKinds)
           /\ Framed /\ ~ Finishing /\ ~ Framed' /\ Finishing'
           /\ Len(job.todo) <= PagesLeft
<1> DEFINE n == Len(job.todo)
           p == PagesLeft
<1>1. /\ Stage(job.kind, syncWrites, "framesync", n)
      /\ n \in Nat /\ p \in {3, 4, 5} /\ p = AfterPages(job.kind, syncWrites)
  BY JobNow
<1>2. "soft" \notin CommitKinds
  BY DEF CommitKinds
<1>4. job.kind # "soft" /\ n = 2
  BY <1>1 DEF Stage
<1> HIDE DEF n, p
<1>5. n > 1
  BY SMTT(20), <1>4
<1>6. /\ job' # NoJob /\ job'.kind = job.kind
      /\ Len(job'.todo) = n - 1 /\ PagesLeft' = p
  BY <1>5, Advanced DEF n, p
<1>7. /\ Committed <=> (job.kind \in CommitKinds /\ n < p) \/ (job.kind = "soft" /\ n < 3)
      /\ Committed' <=> (job.kind \in CommitKinds /\ n - 1 < p) \/ (job.kind = "soft" /\ n - 1 < 3)
      /\ Framed <=> job.kind # "soft" /\ n = 2
      /\ Finishing <=> job.kind # "soft" /\ n = 1
      /\ Framed' <=> job.kind # "soft" /\ n - 1 = 2
      /\ Finishing' <=> job.kind # "soft" /\ n - 1 = 1
  BY <1>6 DEF Committed, Framed, Finishing, n, p
<1>8. (Committed <=> job.kind \in CommitKinds) /\ (Committed' <=> job.kind \in CommitKinds)
  BY SMTT(20), <1>1, <1>4, <1>7
<1>9. Framed /\ ~ Finishing /\ ~ Framed' /\ Finishing' /\ n <= p
  BY SMTT(20), <1>1, <1>4, <1>7
<1>10. Committed' = Committed
  BY <1>8 DEF Committed
<1> QED
  BY <1>4, <1>5, <1>8, <1>9, <1>10 DEF n, p

\* Once the frame is in the log the tree is nothing but its content.
LEMMA NothingPending ==
    ASSUME TypeInv, CallInv, job # NoJob, job.kind # "soft", Committed <=> job.kind \in CommitKinds
    PROVE  Committed \/ pend = << >>
BY JobNow DEF CallInv, Kinds, WriteKinds

\* Forcing the frame keeps the invariant.
LEMMA ForceFrameInv ==
    ASSUME IInv, ForceFrame
    PROVE  IInv' /\ Effect
<1>1. job # NoJob /\ Head(job.todo) = "framesync" /\ Advance
  BY DEF ForceFrame, At
<1>2. /\ UNCHANGED <<st, tree, pend, buf, envs, gen, cid, nextGen, nextCid, unframed, reserved, fd,
                     syncWrites, call, wal, walSynced, walGone, log, data, cached, acked, points, nextMut>>
      /\ logSynced' = Len(log) /\ latest' = Frame(job.gen, job.cid, job.muts, job.content)
  BY DEF ForceFrame, walVars, histVars
<1>3. TypeInv /\ RunInv /\ LogInv /\ WalInv /\ PageInv /\ TreeInv /\ CallInv /\ OutcomeInv /\ IdInv
      /\ Running /\ FrameInv /\ JobPagesInv
  BY <1>1, RunningJob DEF IInv, DiskInv, RunInv
<1>4. /\ Len(job.todo) > 1 /\ job.kind # "soft"
      /\ Committed' = Committed /\ (Committed <=> job.kind \in CommitKinds)
      /\ Framed /\ ~ Finishing /\ ~ Framed' /\ Finishing'
      /\ Len(job.todo) <= PagesLeft
  BY <1>1, <1>2, <1>3, ForceStage
<1>5. /\ job' \in JobRec /\ job' # NoJob /\ Rest(job'.kind, syncWrites', job'.todo)
      /\ job'.kind = job.kind /\ job'.gen = job.gen /\ job'.cid = job.cid
      /\ job'.muts = job.muts /\ job'.content = job.content
  BY <1>1, <1>2, <1>3, <1>4, Advanced
<1>6. /\ Newest = Frame(job.gen, job.cid, job.muts, job.content) /\ Newest # Forced
      /\ Newest.content = job.content
  <2>1. Newest = Frame(job.gen, job.cid, job.muts, job.content) /\ Newest # Forced
    BY <1>3, <1>4 DEF FrameInv
  <2> QED
    BY <2>1 DEF Frame
<1>7. LogInv' /\ Forced' = Newest /\ Newest' = Newest
  BY <1>2, <1>3, LogForce DEF LogInv, Forced, Newest
<1>8. /\ WalInv' /\ Reach' \subseteq Reach /\ Replayed(wal, Newest) = Newest.content
      /\ Newest \in FrameRec
  <2>1. /\ Fits(wal, walSynced, walGone, Newest, Newest)
        /\ Reveals(wal, walSynced, Newest, Newest) \subseteq Reach
        /\ Replayed(wal, Newest) = Newest.content
    BY SMTT(20), <1>3, <1>6, FitsForce DEF WalInv, Reach
  <2>2. Newest \in FrameRec
    BY <1>3 DEF WalInv, Fits, Newer
  <2> QED
    BY <1>2, <1>7, <2>1, <2>2 DEF WalInv, Reach
<1>9. PageInv'
  BY <1>2, <1>3, <1>7 DEF PageInv
<1>10. OutcomeInv' /\ Effect
  BY <1>2, <1>3, <1>8, Settled DEF OutcomeInv
<1>11. TypeInv'
  BY <1>2, <1>3, <1>5 DEF TypeInv
<1>12. CallInv'
  BY <1>1, <1>2, <1>3, <1>5, CallKept
<1>13. FrameInv'
  BY <1>2, <1>4, <1>5, <1>6, <1>7 DEF FrameInv
<1>14. TreeInv'
  <2>1. Live' = Live /\ Replayed(Live, Newest) = job.content
    BY <1>2, <1>6, <1>8, EmptyLog DEF Live
  <2>2. Committed \/ pend = << >>
    BY <1>1, <1>3, <1>4, NothingPending
  <2>3. Unjournaled' = << >>
    BY <1>2, <1>4, <2>2 DEF Unjournaled, Journaled
  <2>4. fd # "unlinked" => Unjournaled = << >>
    BY <2>2 DEF Unjournaled, Journaled
  <2>5. tree = job.content /\ job.content \in Content
    BY <1>1, <1>3, JobNow DEF TreeInv
  <2>6. tree' = Replayed(Live', Forced') \o Unjournaled'
    BY <1>2, <1>7, <2>1, <2>3, <2>5, JoinNone
  <2>7. /\ fd' # "unlinked" => TailMuts(Live') \o MutsOf(buf') = Unjournaled'
        /\ fd' = "unlinked" => Live' = << >>
        /\ job'.content = tree'
        /\ Committed' => job'.content \in points' /\ (walGone' => fd' = "unlinked")
        /\ job'.kind # "soft"
    BY <1>2, <1>3, <1>4, <1>5, <2>1, <2>3, <2>4, <2>5 DEF TreeInv
  <2> QED
    BY <2>6, <2>7 DEF TreeInv
<1>15. IdInv'
  BY <1>1, <1>2, <1>3, <1>4, <1>5 DEF IdInv
<1>16. JobPagesInv'
  BY <1>1, <1>2, <1>3, <1>4, <1>5 DEF JobPagesInv
<1> QED
  BY <1>3, <1>7, <1>8, <1>9, <1>10, <1>11, <1>12, <1>13, <1>14, <1>15, <1>16 DEF IInv, DiskInv, RunInv, Running

(***************************************************************************)
(* The end of a publication.                                               *)
(***************************************************************************)
\* Where a publication ends.
LEMMA FinishStage ==
    ASSUME TypeInv, job # NoJob, Head(job.todo) \in {"finish", "mfinish"}
    PROVE  /\ job.kind # "soft" /\ Finishing /\ ~ Framed
           /\ Committed <=> job.kind \in CommitKinds
           /\ Head(job.todo) = "finish" => job.kind \in {"recover"} \cup CommitKinds
           /\ Head(job.todo) = "mfinish" => job.kind = "maint"
<1> DEFINE n == Len(job.todo)
           p == PagesLeft
<1>1. /\ Stage(job.kind, syncWrites, Head(job.todo), n)
      /\ n \in Nat /\ p \in {3, 4, 5}
  BY JobNow
<1>2. "soft" \notin CommitKinds
  BY DEF CommitKinds
<1>3. /\ job.kind # "soft" /\ n = 1
      /\ Head(job.todo) = "finish" => job.kind \in {"recover"} \cup CommitKinds
      /\ Head(job.todo) = "mfinish" => job.kind = "maint"
  BY <1>1, <1>2 DEF Stage
<1> HIDE DEF n, p
<1>4. /\ Committed <=> (job.kind \in CommitKinds /\ n < p) \/ (job.kind = "soft" /\ n < 3)
      /\ Framed <=> job.kind # "soft" /\ n = 2
      /\ Finishing <=> job.kind # "soft" /\ n = 1
  BY DEF Committed, Framed, Finishing, n, p
<1>5. Finishing /\ ~ Framed /\ (Committed <=> job.kind \in CommitKinds)
  BY SMTT(20), <1>1, <1>3, <1>4
<1> QED
  BY <1>3, <1>5

\* The frame is forced: it is the only outcome, whatever becomes of the WAL.
LEMMA OnlyOutcome ==
    ASSUME IInv, job # NoJob, Finishing, job.kind # "soft", Committed <=> job.kind \in CommitKinds
    PROVE  /\ Newest = Forced /\ Forced \in FrameRec
           /\ Forced = Frame(job.gen, job.cid, job.muts, job.content)
           /\ Forced.gen = job.gen /\ Forced.cid = job.cid /\ Forced.content = job.content
           /\ \A i \in CommitsIn(wal) : wal[i].gen <= job.gen /\ wal[i].cid <= job.cid
           /\ Reveals(wal, walSynced, Forced, Forced) = {job.content}
           /\ Replayed(wal, Forced) = job.content /\ Replayed(<< >>, Forced) = job.content
           /\ \A h \in BOOLEAN : Fits(wal, walSynced, h, Forced, Forced)
           /\ Reach = {job.content} /\ tree = job.content
           /\ fd # "unlinked" => buf = << >> /\ TailMuts(Live) = << >>
           /\ job.kind = "maint" => pend = << >>
<1>1. TypeInv /\ WalInv /\ CallInv /\ IdInv /\ FrameInv /\ TreeInv
  BY RunningJob DEF IInv, DiskInv, RunInv
<1>2. ~ Framed
  BY SMTT(20), <1>1 DEF Framed, Finishing
<1>3. Newest = Forced /\ Forced = Frame(job.gen, job.cid, job.muts, job.content)
  BY <1>1, <1>2 DEF FrameInv
<1>4. Forced \in FrameRec
  BY <1>1 DEF WalInv, Fits, Newer
<1>5. Forced.gen = job.gen /\ Forced.cid = job.cid /\ Forced.content = job.content
  BY <1>3 DEF Frame
<1>6. UpTo(wal, job.gen) /\ \A i \in CommitsIn(wal) : wal[i].cid <= job.cid
  <2>1. CASE Committed \/ st = "opening"
    BY <1>1, <2>1 DEF IdInv, UpTo
  <2>2. CASE ~ (Committed \/ st = "opening")
    <3>1. job.kind = "maint"
      BY <1>1, <2>2, JobNow DEF CallInv, Kinds, WriteKinds
    <3>2. gen < job.gen /\ job.cid = cid /\ gen \in Nat /\ job.gen \in Nat
      BY <1>1, <2>2, <3>1, JobNow DEF IdInv, TypeInv
    <3>3. ASSUME NEW i \in CommitsIn(wal) PROVE wal[i].gen <= job.gen /\ wal[i].cid <= job.cid
      <4>1. wal[i].gen <= gen /\ wal[i].cid <= cid
        BY <1>1, <2>2 DEF IdInv
      <4>2. wal[i].gen \in Nat
        BY <1>1, CommitFields DEF WalInv, Fits
      <4> QED
        BY SMTT(20), <3>2, <4>1, <4>2
    <3> QED
      BY <3>3 DEF UpTo
  <2> QED
    BY <2>1, <2>2
<1>7. /\ Reveals(wal, walSynced, Forced, Forced) = {Forced.content}
      /\ Replayed(wal, Forced) = Forced.content
      /\ \A h \in BOOLEAN : Fits(wal, walSynced, h, Forced, Forced)
  BY <1>1, <1>3, <1>5, <1>6, FitsPublished DEF WalInv
<1>8. Replayed(<< >>, Forced) = Forced.content
  BY <1>4, EmptyLog
<1>9. Reach = {job.content}
  BY <1>3, <1>5, <1>7 DEF Reach
<1>10. Committed \/ pend = << >>
  BY <1>1, NothingPending
<1>11. ASSUME fd # "unlinked" PROVE buf = << >> /\ TailMuts(Live) = << >>
  <2>1. TailMuts(Live) \o MutsOf(buf) = << >>
    BY <1>1, <1>10, <1>11 DEF TreeInv, Unjournaled, Journaled
  <2>2. Live \in Seq(Rec) /\ buf \in Seq(MutRec)
    BY <1>1, EmptyLog DEF WalInv, Fits, Live, TypeInv
  <2>3. /\ TailMuts(Live) \in Seq(Nat) /\ MutsOf(buf) \in Seq(Nat) /\ Len(MutsOf(buf)) = Len(buf)
    BY <2>2, TailIs, MutsOfSeq DEF Content
  <2>4. TailMuts(Live) = << >> /\ MutsOf(buf) = << >>
    BY SMTT(20), <2>1, <2>3, ConcatEqualIffEmpty
  <2> QED
    BY SMTT(20), <2>2, <2>3, <2>4
<1>12. job.kind = "maint" => pend = << >>
  BY <1>1 DEF CallInv
<1>13. tree = job.content
  BY <1>1 DEF TreeInv
<1> QED
  BY <1>3, <1>4, <1>5, <1>6, <1>7, <1>8, <1>9, <1>11, <1>12, <1>13 DEF UpTo

\* The end of a publication keeps the invariant.
LEMMA FinishInv ==
    ASSUME IInv, Finish
    PROVE  IInv' /\ Effect
<1> DEFINE reclaim == ~ walGone /\ Len(wal) >= ReclaimLen
<1>1. job # NoJob /\ Head(job.todo) = "finish"
  BY DEF Finish, At
<1>2. /\ UNCHANGED <<tree, buf, envs, latest, syncWrites, wal, walSynced, log, logSynced,
                     data, cached, points, nextMut>>
      /\ walGone' = (walGone \/ reclaim) /\ reserved' = (reserved /\ ~ reclaim)
      /\ fd' = IF reclaim THEN "none" ELSE fd
      /\ gen' = job.gen /\ cid' = job.cid /\ pend' = << >> /\ unframed' = 0
      /\ nextGen' = Larger(nextGen, job.gen + 1) /\ nextCid' = Larger(nextCid, job.cid + 1)
  BY DEF Finish, ClearPending
<1>3. TypeInv /\ RunInv /\ LogInv /\ WalInv /\ PageInv /\ TreeInv /\ CallInv /\ OutcomeInv /\ IdInv
      /\ Running /\ FrameInv
  BY <1>1, RunningJob DEF IInv, DiskInv, RunInv
<1>4. /\ job.kind # "soft" /\ Finishing /\ ~ Framed /\ (Committed <=> job.kind \in CommitKinds)
      /\ job.kind \in {"recover"} \cup CommitKinds
  BY <1>1, <1>3, FinishStage
<1>5. /\ job' = NoJob /\ st' = "open"
      /\ job.kind = "recover" => acked' = acked
      /\ job.kind # "recover" => acked' = job.content
      /\ \/ call' = NoCall
         \/ call' = call /\ call.op \in {"close", "maint"}
  BY <1>1, <1>3, <1>4 DEF Finish, CallDone, CallInv, Running
<1>6. /\ Newest = Forced /\ Forced \in FrameRec
      /\ Forced.gen = job.gen /\ Forced.cid = job.cid
      /\ \A i \in CommitsIn(wal) : wal[i].gen <= job.gen /\ wal[i].cid <= job.cid
      /\ Reveals(wal, walSynced, Forced, Forced) = {job.content}
      /\ Replayed(wal, Forced) = job.content /\ Replayed(<< >>, Forced) = job.content
      /\ \A h \in BOOLEAN : Fits(wal, walSynced, h, Forced, Forced)
      /\ Reach = {job.content} /\ tree = job.content
      /\ fd # "unlinked" => buf = << >> /\ TailMuts(Live) = << >>
  BY <1>1, <1>4, OnlyOutcome
<1>7. /\ job.gen \in Nat /\ job.cid \in Nat /\ job.content \in Content /\ nextGen \in Nat
      /\ nextCid \in Nat /\ walGone \in BOOLEAN /\ reserved \in BOOLEAN
      /\ fd \in {"none", "live", "unlinked"}
  BY <1>1, <1>3, JobNow DEF TypeInv, WalInv, Fits
<1>8. fd = "unlinked" => ~ reclaim
  <2>1. ReclaimLen \in Nat \ {0}
    BY PublicationAssumption
  <2>2. fd = "unlinked" /\ ~ walGone => wal = << >>
    BY <1>3 DEF TreeInv, Live
  <2> QED
    BY SMTT(20), <2>1, <2>2
<1> HIDE DEF reclaim
<1>9. Forced' = Forced /\ Newest' = Forced
  BY <1>2, <1>6 DEF Forced, Newest
<1>10. LogInv' /\ PageInv'
  BY <1>2, <1>3, <1>6, <1>9 DEF LogInv, PageInv
<1>11. WalInv' /\ Reach' = Reach
  <2>1. walGone' \in BOOLEAN
    BY <1>2, <1>7
  <2> QED
    BY <1>2, <1>6, <1>9, <2>1 DEF WalInv, Reach
<1>12. OutcomeInv' /\ Effect
  <2>1. CASE job.kind = "recover"
    BY <1>2, <1>3, <1>5, <1>11, <2>1, Settled DEF OutcomeInv
  <2>2. CASE job.kind # "recover"
    BY <1>2, <1>3, <1>5, <1>6, <1>11, <2>2, Acked
  <2> QED
    BY <2>1, <2>2
<1>13. /\ nextGen' \in Nat /\ nextCid' \in Nat /\ gen' < nextGen' /\ cid' < nextCid'
  BY SMTT(20), <1>2, <1>7 DEF Larger
<1>14. TypeInv'
  <2>1. call' \in CallRec
    BY <1>3, <1>5, NoCallIs DEF TypeInv
  <2>2. fd' \in {"none", "live", "unlinked"} /\ reserved' \in BOOLEAN
    BY <1>2, <1>7
  <2> QED
    BY <1>2, <1>3, <1>5, <1>7, <1>13, <2>1, <2>2, MutsNone DEF TypeInv
<1>15. CallInv'
  BY SMTT(20), <1>1, <1>2, <1>3, <1>5, <1>8 DEF CallInv
<1>16. ~ Framed' /\ ~ Finishing' /\ ~ Committed'
  BY <1>5 DEF Framed, Finishing, Committed
<1>17. FrameInv'
  BY <1>2, <1>3, <1>9, <1>16 DEF FrameInv
<1>18. TreeInv'
  <2>1. Unjournaled' = << >>
    BY <1>2 DEF Unjournaled
  <2>2. Replayed(Live', Forced) = job.content
    BY <1>2, <1>6 DEF Live
  <2>3. fd' # "unlinked" => buf = << >> /\ TailMuts(Live') = << >>
    <3>1. CASE reclaim
      BY <1>2, <1>6, <1>8, <3>1, EmptyLog DEF Live
    <3>2. CASE ~ reclaim
      BY <1>2, <1>6, <3>2 DEF Live
    <3> QED
      BY <3>1, <3>2
  <2>4. fd' = "unlinked" => Live' = << >>
    BY <1>2, <1>3, <1>8 DEF Live, TreeInv
  <2>5. tree' = Replayed(Live', Forced') \o Unjournaled'
    BY <1>2, <1>6, <1>7, <1>9, <2>1, <2>2, JoinNone
  <2>6. fd' # "unlinked" => TailMuts(Live') \o MutsOf(buf') = Unjournaled'
    BY <1>2, <2>1, <2>3, MutsNone, JoinNone
  <2> QED
    BY <1>5, <1>16, <2>4, <2>5, <2>6 DEF TreeInv
<1>19. IdInv'
  BY SMTT(20), <1>2, <1>5, <1>6, <1>7, <1>9, <1>13, <1>16 DEF IdInv
<1>20. JobPagesInv'
  BY <1>5 DEF JobPagesInv
<1> QED
  BY <1>10, <1>11, <1>12, <1>14, <1>15, <1>17, <1>18, <1>19, <1>20 DEF IInv, DiskInv, RunInv

\* The end of a relocation keeps the invariant.
LEMMA FinishRelocationInv ==
    ASSUME IInv, FinishRelocation
    PROVE  IInv' /\ Effect
<1>1. job # NoJob /\ Head(job.todo) = "mfinish"
  BY DEF FinishRelocation, At
<1>2. /\ UNCHANGED <<st, tree, pend, buf, envs, cid, nextCid, unframed, reserved, fd, latest, syncWrites,
                     wal, walSynced, walGone, log, logSynced, data, cached, acked, points, nextMut>>
      /\ gen' = job.gen /\ nextGen' = job.gen + 1 /\ job' = NoJob /\ call' = NoCall
  BY DEF FinishRelocation, diskVars, histVars
<1>3. TypeInv /\ RunInv /\ LogInv /\ WalInv /\ PageInv /\ TreeInv /\ CallInv /\ OutcomeInv /\ IdInv
      /\ Running /\ FrameInv
  BY <1>1, RunningJob DEF IInv, DiskInv, RunInv
<1>4. /\ job.kind # "soft" /\ Finishing /\ ~ Framed /\ (Committed <=> job.kind \in CommitKinds)
      /\ job.kind = "maint"
  BY <1>1, <1>3, FinishStage
<1>5. /\ Newest = Forced /\ Forced.gen = job.gen /\ Forced.cid = job.cid
      /\ \A i \in CommitsIn(wal) : wal[i].gen <= job.gen /\ wal[i].cid <= job.cid
      /\ pend = << >>
  BY <1>1, <1>4, OnlyOutcome
<1>6. job.gen \in Nat /\ job.cid = cid
  BY <1>1, <1>3, <1>4, JobNow DEF IdInv
<1>7. Forced' = Forced /\ Newest' = Newest /\ Live' = Live
  BY <1>2 DEF Forced, Newest, Live
<1>8. LogInv' /\ PageInv' /\ WalInv' /\ Reach' = Reach
  BY <1>2, <1>3, <1>7 DEF LogInv, PageInv, WalInv, Reach
<1>9. OutcomeInv' /\ Effect
  BY <1>2, <1>3, <1>8, Settled DEF OutcomeInv
<1>10. TypeInv'
  <2>1. call' \in CallRec
    BY <1>2, NoCallIs
  <2> QED
    BY SMTT(20), <1>2, <1>3, <1>6, <2>1 DEF TypeInv
<1>11. CallInv'
  BY <1>1, <1>2, <1>3, <1>4 DEF CallInv
<1>12. ~ Framed' /\ ~ Finishing' /\ ~ Committed'
  BY <1>2 DEF Framed, Finishing, Committed
<1>13. FrameInv'
  BY <1>2, <1>3, <1>5, <1>7, <1>12 DEF FrameInv
<1>14. TreeInv'
  <2>1. Unjournaled' = Unjournaled
    BY <1>2, <1>5 DEF Unjournaled
  <2> QED
    BY <1>2, <1>3, <1>7, <1>12, <2>1 DEF TreeInv
<1>15. IdInv'
  <2>1. gen' < nextGen' /\ cid' < nextCid'
    BY SMTT(20), <1>2, <1>3, <1>6 DEF IdInv
  <2>2. /\ Forced'.gen = gen' /\ Forced'.cid = cid' /\ Forced'.gen <= gen' /\ Forced'.cid <= cid'
    BY SMTT(20), <1>2, <1>3, <1>5, <1>6, <1>7 DEF TypeInv
  <2>3. \A i \in CommitsIn(wal') : wal'[i].gen <= gen' /\ wal'[i].cid <= cid'
    BY <1>2, <1>5, <1>6
  <2>4. st' # "opening"
    BY <1>1, <1>2, <1>3, <1>4 DEF CallInv
  <2> QED
    BY <1>2, <1>12, <2>1, <2>2, <2>3, <2>4 DEF IdInv
<1>16. JobPagesInv'
  BY <1>2 DEF JobPagesInv
<1> QED
  BY <1>8, <1>9, <1>10, <1>11, <1>13, <1>14, <1>15, <1>16 DEF IInv, DiskInv, RunInv
(***************************************************************************)
(* The start of a publication.                                             *)
(***************************************************************************)
\* A soft acknowledgement: the WAL is forced, its end is the only outcome.
LEMMA SoftAckInv ==
    ASSUME IInv, Regime, SoftAck
    PROVE  IInv' /\ Effect
<1>1. job # NoJob /\ Head(job.todo) = "ack"
  BY DEF SoftAck, At
<1>2. /\ UNCHANGED <<st, tree, buf, envs, nextGen, nextCid, reserved, fd, latest, syncWrites,
                     wal, walSynced, walGone, log, logSynced, data, cached, points, nextMut>>
      /\ gen' = job.gen /\ cid' = job.cid /\ unframed' = unframed + Len(pend) + 1
      /\ pend' = << >> /\ acked' = job.content
  BY DEF SoftAck, diskVars
<1>3. TypeInv /\ RunInv /\ LogInv /\ WalInv /\ PageInv /\ TreeInv /\ CallInv /\ OutcomeInv /\ IdInv
      /\ Running /\ FrameInv
  BY <1>1, RunningJob DEF IInv, DiskInv, RunInv
<1>4. job.kind = "soft" /\ Len(job.todo) = 1 /\ Committed /\ ~ Framed /\ ~ Finishing
  BY <1>1, <1>3, AckStage
<1>5. fd # "unlinked" /\ ~ walGone /\ walSynced = Len(wal)
  BY <1>1, <1>3, <1>4 DEF Regime, CallInv, TreeInv
<1>6. Newest = Forced /\ Forced' = Forced /\ Newest' = Forced /\ Live' = Live
  BY <1>2, <1>3, <1>4 DEF FrameInv, Forced, Newest, Live
<1>7. /\ tree = Replayed(wal, Forced) /\ job.content = tree /\ tree \in Content
      /\ Unjournaled = << >>
  <2>1. Unjournaled = << >> /\ Live = wal /\ job.content = tree /\ tree = Replayed(Live, Forced) \o Unjournaled
    BY <1>1, <1>3, <1>4, <1>5 DEF Unjournaled, Journaled, TreeInv, Live
  <2>2. Replayed(wal, Forced) \in Content
    BY <1>3, ReachIs
  <2> QED
    BY <2>1, <2>2, JoinNone
<1>8. Reach = {job.content}
  <2>1. wal \in Seq(Rec) /\ Len(wal) \in Nat
    BY SMTT(20), <1>3 DEF WalInv, Fits
  <2>2. SubSeq(wal, 1, Len(wal)) = wal /\ walSynced..Len(wal) = {Len(wal)}
    BY SMTT(20), <1>5, <2>1, SubSeqFull
  <2> QED
    BY <1>6, <1>7, <2>2 DEF Reach, Reveals
<1>9. LogInv' /\ PageInv' /\ WalInv' /\ Reach' = Reach
  BY <1>2, <1>3, <1>6 DEF LogInv, PageInv, WalInv, Reach
<1>10. OutcomeInv' /\ Effect
  BY <1>2, <1>3, <1>8, <1>9, Acked
<1>11. /\ gen \in Nat /\ cid \in Nat /\ job.gen \in Nat /\ job.cid \in Nat /\ nextGen \in Nat
       /\ nextCid \in Nat /\ unframed \in Nat /\ Len(pend) \in Nat /\ syncWrites \in BOOLEAN
       /\ Forced.gen \in Nat /\ Forced.cid \in Nat
  <2>1. Forced \in FrameRec /\ pend \in Seq(Nat)
    BY <1>3 DEF WalInv, Fits, Newer, TypeInv, Content
  <2> QED
    BY SMTT(20), <1>1, <1>3, <2>1, JobNow, FrameFields DEF TypeInv
<1>12. /\ gen' < nextGen' /\ cid' < nextCid' /\ Forced'.gen <= gen' /\ Forced'.cid <= cid'
       /\ unframed' # 0 /\ unframed' \in Nat
       /\ \A i \in CommitsIn(wal') : wal'[i].gen <= gen' /\ wal'[i].cid <= cid'
  <2>1. job.gen < nextGen /\ job.cid < nextCid
    BY <1>1, <1>3, <1>4 DEF IdInv
  <2>2. Forced.gen <= gen /\ Forced.cid <= cid /\ gen < job.gen /\ cid < job.cid
    BY <1>1, <1>3, <1>4 DEF IdInv
  <2>3. \A i \in CommitsIn(wal) : wal[i].gen <= job.gen /\ wal[i].cid <= job.cid
    BY <1>3, <1>4 DEF IdInv
  <2> QED
    BY SMTT(20), <1>2, <1>6, <1>11, <2>1, <2>2, <2>3
<1>13. /\ fd' # "unlinked" /\ st' = "open" /\ reserved' /\ envs' = << >>
  BY <1>1, <1>2, <1>3, <1>4, <1>5 DEF CallInv, WriteKinds, Running
<1>14. TailMuts(Live) \o MutsOf(buf) = << >>
  BY <1>3, <1>5, <1>7 DEF TreeInv
<1>15. Unjournaled' = << >>
  BY <1>2 DEF Unjournaled
<1>16. tree' = Replayed(Live', Forced') \o Unjournaled'
  <2>1. Live = wal
    BY <1>5 DEF Live
  <2> QED
    BY <1>2, <1>6, <1>7, <1>15, <2>1, JoinNone
<1>17. CASE job' = NoJob
  <2>1. call' = NoCall
    <3>1. CASE job' = CommitJob("materialize", << >>, tree)
      <4>1. "materialize" \in Kinds /\ << >> \in Content
        BY MutsNone DEF Kinds, WriteKinds, CommitKinds
      <4>2. job' = NewJob("materialize", syncWrites, nextGen, nextCid, << >>, tree)
        BY <3>1 DEF CommitJob
      <4>3. job' # NoJob
        BY <1>2, <1>7, <1>11, <4>1, <4>2, Started
      <4> QED
        BY <1>17, <4>3
    <3>2. CASE CallDone
      BY <1>1, <1>3, <1>4, <3>2 DEF CallDone, CallInv
    <3> QED
      BY <3>1, <3>2 DEF SoftAck
  <2>2. TypeInv'
    BY <1>2, <1>3, <1>11, <1>12, <1>17, <2>1, NoCallIs, MutsNone DEF TypeInv
  <2>3. CallInv'
    BY <1>13, <1>17, <2>1 DEF CallInv
  <2>4. ~ Framed' /\ ~ Finishing' /\ ~ Committed' /\ JobPagesInv'
    BY <1>17 DEF Framed, Finishing, Committed, JobPagesInv
  <2>5. FrameInv'
    BY <1>2, <1>3, <1>6, <2>4 DEF FrameInv
  <2>6. TreeInv'
    BY <1>2, <1>6, <1>13, <1>14, <1>15, <1>16, <1>17, <2>4 DEF TreeInv
  <2>7. IdInv'
    BY <1>12, <1>13, <1>17, <2>4 DEF IdInv
  <2> QED
    BY <1>9, <1>10, <2>2, <2>3, <2>4, <2>5, <2>6, <2>7 DEF IInv, DiskInv, RunInv
<1>18. CASE job' # NoJob
  <2>1. /\ job' = NewJob("materialize", syncWrites, nextGen, nextCid, << >>, tree)
        /\ call' = call
    BY <1>18 DEF SoftAck, CallDone, CommitJob
  <2>2. "materialize" \in Kinds /\ << >> \in Content
    BY MutsNone DEF Kinds, WriteKinds, CommitKinds
  <2>3. /\ job' \in JobRec /\ job' # NoJob /\ Rest(job'.kind, syncWrites', job'.todo)
        /\ job'.kind = "materialize" /\ job'.gen = nextGen /\ job'.cid = nextCid /\ job'.muts = << >>
        /\ job'.content = tree
        /\ ~ Committed' /\ ~ Framed' /\ ~ Finishing' /\ JobPagesInv'
    BY <1>2, <1>7, <1>11, <2>1, <2>2, Started
  <2>4. TypeInv'
    BY <1>2, <1>3, <1>11, <1>12, <2>1, <2>3, MutsNone DEF TypeInv
  <2>5. CallInv'
    BY <1>2, <1>13, <2>3 DEF CallInv
  <2>6. FrameInv'
    BY <1>2, <1>3, <1>6, <2>3 DEF FrameInv
  <2>7. TreeInv'
    BY <1>2, <1>6, <1>13, <1>14, <1>15, <1>16, <2>3 DEF TreeInv
  <2>8. IdInv'
    BY <1>2, <1>12, <1>13, <2>3 DEF IdInv
  <2> QED
    BY <1>9, <1>10, <2>3, <2>4, <2>5, <2>6, <2>7, <2>8 DEF IInv, DiskInv, RunInv
<1> QED
  BY <1>17, <1>18

(***************************************************************************)
(* open().                                                                 *)
(***************************************************************************)
AheadOf(w, a) == {i \in DOMAIN w : Ahead(w[i], a)}

\* No envelope of w is past the identities g and c.
Within(w, g, c) == \A i \in CommitsIn(w) : w[i].gen <= g /\ w[i].cid <= c

\* c is the newest envelope of w, and newer than the frame a.
Leads(c, w, a) ==
    /\ c.gen \in Nat /\ c.cid \in Nat /\ c.muts \in Content /\ a.gen < c.gen /\ a.cid < c.cid
    /\ \A i \in CommitsIn(w) : /\ w[i].gen <= c.gen /\ w[i].cid <= c.cid
                               /\ w[i].gen = c.gen => w[i].cid = c.cid /\ w[i].muts = c.muts

\* With no envelope ahead of the frame, every envelope is published.
LEMMA AllPublished ==
    ASSUME NEW w, NEW s, NEW a, Fits(w, s, FALSE, a, a), AheadOf(w, a) = {}
    PROVE  Within(w, a.gen, a.cid)
<1>1. w \in Seq(Rec) /\ Agree(w, a) /\ a.gen \in Nat /\ a.cid \in Nat
  BY FrameFields DEF Fits, Newer
<1>2. ASSUME NEW i \in CommitsIn(w) PROVE w[i].gen <= a.gen /\ w[i].cid <= a.cid
  <2>1. w[i].gen \in Nat /\ w[i].cid \in Nat /\ i \in DOMAIN w /\ w[i].type = "commit"
    BY <1>1, CommitFields DEF CommitsIn
  <2>2. ~ (w[i].gen > a.gen)
    BY <2>1 DEF AheadOf, Ahead
  <2>3. /\ w[i].gen < a.gen => w[i].cid <= a.cid
        /\ w[i].gen = a.gen => w[i].cid = a.cid
    BY <1>1 DEF Agree
  <2> QED
    BY SMTT(20), <1>1, <2>1, <2>2, <2>3
<1> QED
  BY <1>2 DEF Within

\* The last envelope ahead of the frame covers all of the others.
LEMMA LastAhead ==
    ASSUME NEW w, NEW s, NEW a, Fits(w, s, FALSE, a, a), AheadOf(w, a) # {}
    PROVE  Leads(w[Largest(AheadOf(w, a))], w, a)
<1>1. w \in Seq(Rec) /\ WalOK(w) /\ Agree(w, a) /\ a.gen \in Nat /\ a.cid \in Nat /\ Len(w) \in Nat
  BY SMTT(20), FrameFields DEF Fits, Newer
<1> DEFINE T == AheadOf(w, a)
           j == Largest(T)
<1>2. T \in SUBSET (1..Len(w)) /\ \A i \in T : i \in CommitsIn(w) /\ w[i].gen > a.gen
  BY SMTT(20), <1>1 DEF AheadOf, Ahead, CommitsIn
<1>3. j \in T /\ \A k \in T : k <= j
  BY <1>1, <1>2, LargestNat
<1> HIDE DEF j, T
<1>4. j \in CommitsIn(w) /\ w[j].gen > a.gen /\ j \in Nat
  BY SMTT(20), <1>2, <1>3
<1>5. w[j].gen \in Nat /\ w[j].cid \in Nat /\ w[j].muts \in Content
  BY <1>1, <1>4, CommitFields
<1>6. a.gen < w[j].gen /\ a.cid < w[j].cid
  BY <1>1, <1>4, <1>5 DEF Agree
<1>7. ASSUME NEW i \in CommitsIn(w)
      PROVE  /\ w[i].gen <= w[j].gen /\ w[i].cid <= w[j].cid
             /\ w[i].gen = w[j].gen => w[i].cid = w[j].cid /\ w[i].muts = w[j].muts
  <2>1. w[i].gen \in Nat /\ w[i].cid \in Nat /\ i \in DOMAIN w /\ w[i].type = "commit" /\ i \in 1..Len(w)
    BY <1>1, CommitFields DEF CommitsIn
  <2>2. CASE w[i].gen > a.gen
    <3>1. i <= j
      BY <1>3, <2>1, <2>2 DEF T, AheadOf, Ahead
    <3>2. CASE i = j
      BY SMTT(20), <1>5, <3>2
    <3>3. CASE i < j
      <4>1. w[i].gen < w[j].gen /\ w[i].cid < w[j].cid
        BY <1>1, <1>4, <3>3 DEF WalOK
      <4> QED
        BY SMTT(20), <1>5, <2>1, <4>1
    <3> QED
      BY SMTT(20), <1>4, <2>1, <3>1, <3>2, <3>3
  <2>3. CASE ~ (w[i].gen > a.gen)
    <3>1. /\ w[i].gen < a.gen => w[i].cid <= a.cid
          /\ w[i].gen = a.gen => w[i].cid = a.cid
      BY <1>1 DEF Agree
    <3> QED
      BY SMTT(20), <1>1, <1>5, <1>6, <2>1, <2>3, <3>1
  <2> QED
    BY <2>2, <2>3
<1> QED
  BY <1>5, <1>6, <1>7 DEF Leads, j, T

\* The files open() works on, and what it makes of them.
LEMMA OpenFiles ==
    ASSUME IInv, Regime, Open
    PROVE  /\ LogInv' /\ WalInv' /\ PageInv' /\ OutcomeInv' /\ Effect
           /\ Forced' = Authority(log) /\ Newest' = Authority(log) /\ Authority(log) \in FrameRec
           /\ Live' = Reconciled(Live) /\ TailMuts(Live') = << >>
           /\ Fits(Live', IF walGone THEN 0 ELSE walSynced', FALSE, Forced', Forced')
           /\ walGone => Within(wal', Forced'.gen, Forced'.cid)
           /\ ~ walGone => wal' = Live'
<1> DEFINE a == Authority(log)
           w == Reconciled(Live)
<1>1. /\ logSynced' = Len(log)
      /\ IF walGone THEN UNCHANGED <<wal, walSynced, walGone>>
         ELSE wal' = w /\ walGone' = FALSE /\ walSynced' = IF w = wal THEN walSynced ELSE Len(w)
      /\ UNCHANGED <<log, data, cached, acked, points, nextMut>>
  BY DEF Open, Regime, walVars, histVars
<1>2. LogInv /\ WalInv /\ PageInv /\ OutcomeInv
  BY DEF IInv, DiskInv
<1>3. a = Newest /\ Len(log) \in Nat
  BY <1>2, LogFrames DEF LogInv, Newest
<1>4. Forced' = a /\ Newest' = a /\ Forced' = Newest
  BY <1>1, <1>3 DEF Forced, Newest
<1>5. LogInv'
  BY <1>1, <1>2, LogForce DEF LogInv
<1>6. PageInv'
  BY <1>1, <1>2, <1>4 DEF PageInv
<1>7. /\ Fits(wal, walSynced, walGone, a, a)
      /\ Reveals(wal, walSynced, a, a) \subseteq Reach
  BY <1>2, <1>3, FitsForce DEF WalInv, Reach
<1>8. a \in FrameRec /\ a.gen \in Nat /\ a.cid \in Nat /\ wal \in Seq(Rec) /\ Agree(wal, a)
  BY <1>7, FrameFields DEF Fits, Newer
<1> HIDE DEF a
<1>9. CASE walGone
  <2>1. Live = << >> /\ w = << >> /\ Live' = << >>
    BY <1>1, <1>9, EmptyLog DEF Live
  <2>2. WalInv' /\ Reach' \subseteq Reach
    BY <1>1, <1>4, <1>7, <1>9 DEF WalInv, Reach
  <2>3. Fits(<< >>, 0, FALSE, a, a)
    BY <1>8, FitsEmpty
  <2>4. Within(wal, a.gen, a.cid)
    <3>1. UpTo(wal, a.gen)
      BY <1>7, <1>9 DEF Fits
    <3>2. ASSUME NEW i \in CommitsIn(wal) PROVE wal[i].gen <= a.gen /\ wal[i].cid <= a.cid
      <4>1. wal[i].gen \in Nat /\ wal[i].cid \in Nat /\ wal[i].gen <= a.gen
        BY <1>8, <3>1, CommitFields DEF UpTo
      <4>2. /\ wal[i].gen < a.gen => wal[i].cid <= a.cid
            /\ wal[i].gen = a.gen => wal[i].cid = a.cid
        BY <1>8 DEF Agree
      <4> QED
        BY SMTT(20), <1>8, <4>1, <4>2
    <3> QED
      BY <3>2 DEF Within
  <2>5. OutcomeInv' /\ Effect
    BY <1>1, <1>2, <2>2, Settled DEF OutcomeInv
  <2> QED
    BY <1>1, <1>4, <1>5, <1>6, <1>8, <1>9, <2>1, <2>2, <2>3, <2>4, <2>5, EmptyLog DEF a
<1>10. CASE ~ walGone
  <2>1. Live = wal /\ w = Reconciled(wal) /\ Live' = w /\ wal' = w /\ walGone' = FALSE /\ walGone = FALSE
    BY <1>1, <1>7, <1>10 DEF Live, Fits
  <2>2. walSynced' = IF Reconciled(wal) = wal THEN walSynced ELSE Len(Reconciled(wal))
    BY <1>1, <1>10, <2>1
  <2>3. Fits(wal, walSynced, FALSE, a, a)
    BY <1>7, <2>1
  <2>4. /\ Fits(Reconciled(wal), walSynced', FALSE, a, a)
        /\ Reveals(Reconciled(wal), walSynced', a, a) \subseteq Reveals(wal, walSynced, a, a)
    BY <2>2, <2>3, FitsReconciled
  <2>5. TailMuts(Reconciled(wal)) = << >>
    BY <1>8, ReconciledLog
  <2>6. WalInv' /\ Reach' \subseteq Reach
    BY <1>4, <1>7, <2>1, <2>4 DEF WalInv, Reach
  <2>7. OutcomeInv' /\ Effect
    BY <1>1, <1>2, <2>6, Settled DEF OutcomeInv
  <2> QED
    BY <1>4, <1>5, <1>6, <1>8, <1>10, <2>1, <2>4, <2>5, <2>6, <2>7 DEF a
<1> QED
  BY <1>9, <1>10

\* open() keeps the invariant.
LEMMA OpenInv ==
    ASSUME IInv, Regime, Open
    PROVE  IInv' /\ Effect
<1> DEFINE a == Authority(log)
           w == Reconciled(Live)
           j == Largest(AheadOf(w, a))
<1>1. /\ st = "closed" /\ gen' = a.gen /\ cid' = a.cid /\ nextGen' = a.gen + 1 /\ nextCid' = a.cid + 1
      /\ latest' = a /\ syncWrites' \in SyncModes /\ tree' = Replayed(w, a)
      /\ IF AheadOf(w, a) = {} THEN st' = "open" /\ job' = NoJob
         ELSE /\ st' = "opening"
              /\ job' = NewJob("recover", syncWrites', w[j].gen, w[j].cid, w[j].muts, tree')
      /\ UNCHANGED <<pend, buf, envs, unframed, reserved, fd, call>>
  BY DEF Open, AheadOf
<1>2. TypeInv /\ CallInv
  BY DEF IInv
<1>3. /\ pend = << >> /\ buf = << >> /\ envs = << >> /\ unframed = 0 /\ ~ reserved /\ fd = "none"
      /\ call = NoCall
  BY <1>1, <1>2 DEF CallInv
<1>4. /\ LogInv' /\ WalInv' /\ PageInv' /\ OutcomeInv' /\ Effect
      /\ Forced' = a /\ Newest' = a /\ a \in FrameRec
      /\ Live' = w /\ TailMuts(w) = << >>
      /\ Fits(w, IF walGone THEN 0 ELSE walSynced', FALSE, a, a)
      /\ walGone => Within(wal', a.gen, a.cid)
      /\ ~ walGone => wal' = w
  BY OpenFiles
<1>5. syncWrites' \in BOOLEAN
  BY <1>1, PublicationAssumption
<1>6. a.gen \in Nat /\ a.cid \in Nat
  BY <1>4, FrameFields
<1> DEFINE s == IF walGone THEN 0 ELSE walSynced'
<1>7. w \in Seq(Rec) /\ Fits(w, s, FALSE, a, a)
  BY <1>4 DEF Fits
<1>8. tree' \in Content
  BY <1>1, <1>4, <1>7, ReplayedContent
<1> HIDE DEF s, w, a, j
<1>9. /\ tree' = Replayed(Live', Forced') \o pend'
      /\ TailMuts(Live') \o MutsOf(buf') = pend'
  <2>1. pend' = << >> /\ MutsOf(buf') = << >>
    BY <1>1, <1>3, MutsNone
  <2> QED
    BY <1>1, <1>4, <1>8, <2>1, JoinNone, MutsNone
<1>10. Unjournaled' = pend'
  BY <1>1, <1>3 DEF Unjournaled
<1>11. gen' \in Nat /\ cid' \in Nat /\ nextGen' \in Nat /\ nextCid' \in Nat /\ gen' < nextGen' /\ cid' < nextCid'
       /\ Forced'.gen <= gen' /\ Forced'.cid <= cid' /\ Forced'.gen = gen' /\ Forced'.cid = cid'
  BY SMTT(20), <1>1, <1>4, <1>6
<1>12. walGone => AheadOf(w, a) = {}
  <2>1. ASSUME walGone PROVE w = << >>
    BY <2>1, EmptyLog DEF Live, w
  <2> QED
    BY SMTT(20), <2>1 DEF AheadOf
<1>13. CASE AheadOf(w, a) = {}
  <2>1. st' = "open" /\ job' = NoJob
    BY <1>1, <1>13
  <2>2. Within(wal', a.gen, a.cid)
    BY <1>4, <1>7, <1>13, AllPublished
  <2>3. ~ Framed' /\ ~ Finishing' /\ ~ Committed' /\ JobPagesInv'
    BY <2>1 DEF Framed, Finishing, Committed, JobPagesInv
  <2>4. FrameInv'
    BY <1>1, <1>4, <2>3 DEF FrameInv
  <2>5. TreeInv'
    BY <1>1, <1>3, <1>9, <1>10, <2>1, <2>3 DEF TreeInv
  <2>6. IdInv'
    BY <1>1, <1>11, <2>1, <2>2, <2>3 DEF IdInv, Within
  <2>7. TypeInv'
    BY <1>1, <1>2, <1>5, <1>8, <1>11, <2>1 DEF TypeInv
  <2>8. CallInv'
    BY SMTT(20), <1>1, <1>3, <2>1 DEF CallInv
  <2> QED
    BY <1>4, <2>3, <2>4, <2>5, <2>6, <2>7, <2>8 DEF IInv, DiskInv, RunInv
<1>14. CASE AheadOf(w, a) # {}
  <2>1. st' = "opening" /\ job' = NewJob("recover", syncWrites', w[j].gen, w[j].cid, w[j].muts, tree')
    BY <1>1, <1>14
  <2>2. Leads(w[j], w, a) /\ wal' = w
    BY <1>4, <1>7, <1>12, <1>14, LastAhead DEF j
  <2>3. w[j].gen \in Nat /\ w[j].cid \in Nat /\ w[j].muts \in Content /\ "recover" \in Kinds
    BY <2>2 DEF Leads, Kinds
  <2>4. /\ job' \in JobRec /\ job' # NoJob /\ Rest(job'.kind, syncWrites', job'.todo)
        /\ job'.kind = "recover" /\ job'.gen = w[j].gen /\ job'.cid = w[j].cid /\ job'.muts = w[j].muts
        /\ job'.content = tree'
        /\ ~ Committed' /\ ~ Framed' /\ ~ Finishing' /\ JobPagesInv'
    BY <1>5, <1>8, <2>1, <2>3, Started
  <2>5. FrameInv'
    BY <1>1, <1>4, <2>4 DEF FrameInv
  <2>6. TreeInv'
    BY <1>1, <1>3, <1>9, <1>10, <2>4 DEF TreeInv
  <2>7. IdInv'
    <3>1. \A i \in CommitsIn(wal') :
             /\ wal'[i].gen <= job'.gen /\ wal'[i].cid <= job'.cid
             /\ wal'[i].gen = job'.gen => wal'[i].cid = job'.cid /\ wal'[i].muts = job'.muts
      BY <2>2, <2>4 DEF Leads
    <3>2. gen' < job'.gen /\ cid' < job'.cid
      BY <1>1, <2>2, <2>4 DEF Leads
    <3> QED
      BY <1>11, <2>1, <2>4, <3>1, <3>2 DEF IdInv
  <2>8. TypeInv'
    BY <1>1, <1>2, <1>5, <1>8, <1>11, <2>1, <2>4 DEF TypeInv
  <2>9. CallInv'
    BY <1>1, <1>3, <2>1, <2>4 DEF CallInv, WriteKinds, CommitKinds
  <2> QED
    BY <1>4, <2>4, <2>5, <2>6, <2>7, <2>8, <2>9 DEF IInv, DiskInv, RunInv
<1> QED
  BY <1>13, <1>14
=============================================================================
