----------------------- MODULE PublicationInvariant -----------------------
(***************************************************************************)
(* The inductive invariant of the commit path, for any number of           *)
(* mutations, batches, generations, crashes and I/O errors, and the facts  *)
(* its proofs share: what recovery makes of a write-ahead log of any       *)
(* length, and what the file operations do to the set of contents a crash  *)
(* could reveal.                                                           *)
(***************************************************************************)
EXTENDS Publication, SequenceTheorems, WellFoundedInduction, TLAPS

\* The leaves are Zenon's, unless they cite the SMT solver.
USE ZenonT(40)

(***************************************************************************)
(* Induction on natural numbers, for sets.                                 *)
(***************************************************************************)
\* A set of naturals has a least element.
LEMMA LeastNat ==
    ASSUME NEW T \in SUBSET Nat, T # {}
    PROVE  \E n \in T : \A m \in T : n <= m
<1> DEFINE R == OpToRel(<, Nat)
<1>1. IsWellFoundedOn(R, Nat)
  BY NatLessThanWellFounded
<1>2. \A x, y \in Nat : <<x, y>> \in R <=> x < y
  BY DEF OpToRel
<1> HIDE DEF R
<1>3. PICK n \in T : \A m \in T : ~ (<<m, n>> \in R)
  BY <1>1, WFMin
<1>4. \A m \in T : ~(m < n)
  BY <1>2, <1>3, n \in Nat, T \subseteq Nat
<1> QED
  BY SMTT(20), <1>4, T \subseteq Nat

\* Induction: a set that holds 0 and every successor holds every natural.
LEMMA NatInduct ==
    ASSUME NEW S, 0 \in S, \A n \in Nat : n \in S => n + 1 \in S
    PROVE  Nat \subseteq S
<1>1. SUFFICES ASSUME Nat \ S # {} PROVE FALSE
  OBVIOUS
<1>2. PICK n \in Nat \ S : \A m \in Nat \ S : n <= m
  BY <1>1, LeastNat
<1>3. n # 0 /\ n - 1 \in Nat /\ n - 1 \in S
  BY SMTT(20), <1>2
<1> QED
  BY SMTT(20), <1>3

\* A bounded set of naturals has a largest element.
LEMMA LargestNat ==
    ASSUME NEW n \in Nat, NEW T \in SUBSET (1..n), T # {}
    PROVE  /\ Largest(T) \in T
           /\ \A k \in T : k <= Largest(T)
<1> DEFINE U == {n - k : k \in T}
<1>1. U \in SUBSET Nat /\ U # {}
  <2>1. \A k \in T : n - k \in Nat
    BY SMTT(20)
  <2> QED
    BY <2>1
<1>2. PICK u \in U : \A v \in U : u <= v
  BY <1>1, LeastNat
<1>3. PICK j \in T : u = n - j
  BY <1>2
<1>4. \A k \in T : k <= j
  <2>1. ASSUME NEW k \in T PROVE k <= j
    <3>1. n - k \in U
      OBVIOUS
    <3>2. n - j <= n - k /\ k \in Nat /\ j \in Nat
      BY SMTT(20), <1>2, <1>3, <3>1
    <3> QED
      BY SMTT(20), <3>2
  <2> QED
    BY <2>1
<1>5. \E i \in T : \A k \in T : k <= i
  BY <1>4
<1> QED
  BY <1>5 DEF Largest

(***************************************************************************)
(* Records.                                                                *)
(***************************************************************************)
Content == Seq(Nat)
MutRec == [type : {"mut"}, m : Nat]
CommitRec == [type : {"commit"}, gen : Nat, cid : Nat, muts : Content]
Rec == MutRec \cup CommitRec
FrameRec == [gen : Nat, cid : Nat, muts : Content, content : Content]

(***************************************************************************)
(* Replay.                                                                 *)
(***************************************************************************)
\* The content after each record.
Replay(f, w, a) ==
    f = [i \in 0..Len(w) |->
            IF i = 0 THEN a.content
            ELSE IF Ahead(w[i], a) THEN f[i - 1] \o w[i].muts ELSE f[i - 1]]

\* Every log can be replayed, and the contents are contents.
LEMMA ReplayExists ==
    ASSUME NEW w \in Seq(Rec), NEW a \in FrameRec
    PROVE  \E f \in [0..Len(w) -> Content] : Replay(f, w, a)
<1> DEFINE Part(f, n) == f = [i \in 0..n |->
              IF i = 0 THEN a.content
              ELSE IF Ahead(w[i], a) THEN f[i - 1] \o w[i].muts ELSE f[i - 1]]
           Has(n) == \E f \in [0..n -> Content] : Part(f, n)
           S == {n \in Nat : n <= Len(w) => Has(n)}
<1>1. Has(0)
  <2> DEFINE f == [i \in 0..0 |-> a.content]
  <2>1. f \in [0..0 -> Content] /\ Part(f, 0)
    BY SMTT(20) DEF FrameRec
  <2> QED
    BY <2>1
<1>2. ASSUME NEW n \in Nat, n + 1 <= Len(w), Has(n) PROVE Has(n + 1)
  <2>1. n + 1 \in 1..Len(w)
    BY SMTT(20), <1>2
  <2>2. PICK f \in [0..n -> Content] : Part(f, n)
    BY <1>2
  <2>3. w[n + 1] \in Rec
    BY SMTT(20), <2>1
  <2> DEFINE x == IF Ahead(w[n + 1], a) THEN f[n] \o w[n + 1].muts ELSE f[n]
             g == [i \in 0..(n + 1) |-> IF i = n + 1 THEN x ELSE f[i]]
  <2>4. x \in Content
    <3>1. f[n] \in Content
      BY SMTT(20)
    <3>2. Ahead(w[n + 1], a) => w[n + 1].muts \in Content
      BY <2>3 DEF Ahead, Rec, MutRec, CommitRec
    <3> QED
      BY SMTT(20), <3>1, <3>2 DEF Content
  <2>5. g \in [0..(n + 1) -> Content]
    BY SMTT(20), <2>4
  <2>6. ASSUME NEW i \in 0..(n + 1)
        PROVE  g[i] = IF i = 0 THEN a.content
                      ELSE IF Ahead(w[i], a) THEN g[i - 1] \o w[i].muts ELSE g[i - 1]
    <3>1. CASE i = n + 1
      BY SMTT(20), <3>1
    <3>2. CASE i # n + 1
      <4>1. i \in 0..n /\ g[i] = f[i] /\ (i # 0 => g[i - 1] = f[i - 1])
        BY SMTT(20), <3>2
      <4>2. f[i] = IF i = 0 THEN a.content
                   ELSE IF Ahead(w[i], a) THEN f[i - 1] \o w[i].muts ELSE f[i - 1]
        BY <2>2, <4>1
      <4> QED
        BY <4>1, <4>2
    <3> QED
      BY <3>1, <3>2
  <2> HIDE DEF x
  <2>7. Part(g, n + 1)
    BY <2>6
  <2> QED
    BY <2>5, <2>7
<1> HIDE DEF Has
<1>3. 0 \in S /\ \A n \in Nat : n \in S => n + 1 \in S
  BY SMTT(20), <1>1, <1>2
<1> HIDE DEF S
<1>4. Nat \subseteq S
  BY <1>3, NatInduct
<1>5. Has(Len(w))
  BY SMTT(20), <1>4, Len(w) \in Nat DEF S
<1> QED
  BY <1>5 DEF Replay, Has

\* It can be replayed in one way only.
LEMMA ReplayUnique ==
    ASSUME NEW w \in Seq(Rec), NEW a, NEW f, NEW g, Replay(f, w, a), Replay(g, w, a)
    PROVE  f = g
<1> DEFINE S == {n \in Nat : n <= Len(w) => f[n] = g[n]}
           x(h, i) == IF i = 0 THEN a.content
                      ELSE IF Ahead(w[i], a) THEN h[i - 1] \o w[i].muts ELSE h[i - 1]
<1>0. Len(w) \in Nat
  BY SMTT(20)
<1>1. f = [i \in 0..Len(w) |-> x(f, i)] /\ g = [i \in 0..Len(w) |-> x(g, i)]
  BY DEF Replay
<1>2. f[0] = g[0]
  BY SMTT(20), <1>0, <1>1
<1>3. ASSUME NEW n \in Nat, n + 1 <= Len(w), f[n] = g[n] PROVE f[n + 1] = g[n + 1]
  <2>1. n + 1 \in 0..Len(w) /\ n + 1 # 0 /\ (n + 1) - 1 = n
    BY SMTT(20), <1>0, <1>3
  <2>2. f[n + 1] = x(f, n + 1) /\ g[n + 1] = x(g, n + 1)
    BY <1>1, <2>1
  <2> QED
    BY <1>3, <2>1, <2>2
<1>4. 0 \in S /\ \A n \in Nat : n \in S => n + 1 \in S
  BY SMTT(20), <1>0, <1>2, <1>3
<1> HIDE DEF S
<1>5. Nat \subseteq S
  BY <1>4, NatInduct
<1>6. \A n \in 0..Len(w) : f[n] = g[n]
  BY SMTT(20), <1>0, <1>5 DEF S
<1> HIDE DEF x
<1> QED
  BY <1>1, <1>6

\* The replayed content is the last value of any function that replays.
LEMMA ReplayedIs ==
    ASSUME NEW w \in Seq(Rec), NEW a \in FrameRec, NEW f, Replay(f, w, a)
    PROVE  Replayed(w, a) = f[Len(w)]
<1>1. Replayed(w, a) = (CHOOSE g : Replay(g, w, a))[Len(w)]
  BY DEF Replayed, Replay
<1>2. Replay(CHOOSE g : Replay(g, w, a), w, a)
  OBVIOUS
<1>3. f = CHOOSE g : Replay(g, w, a)
  BY <1>2, ReplayUnique
<1> QED
  BY <1>1, <1>3

\* w is the beginning of v.
Begins(w, v) == Len(w) <= Len(v) /\ \A i \in 1..Len(w) : w[i] = v[i]

\* A prefix of a log is a log, and the log begins with it.
LEMMA PrefixBegins ==
    ASSUME NEW w \in Seq(Rec), NEW n \in 0..Len(w)
    PROVE  /\ SubSeq(w, 1, n) \in Seq(Rec)
           /\ Len(SubSeq(w, 1, n)) = n
           /\ Begins(SubSeq(w, 1, n), w)
<1>1. \A i \in 1..n : w[i] \in Rec
  BY SMTT(20)
<1>2. /\ SubSeq(w, 1, n) \in Seq(Rec)
      /\ Len(SubSeq(w, 1, n)) = n
      /\ \A i \in 1..n : SubSeq(w, 1, n)[i] = w[i]
  BY SMTT(20), <1>1, SubSeqProperties
<1> QED
  BY SMTT(20), <1>2 DEF Begins

\* What a log begins with is one of its prefixes.
LEMMA BeginsPrefix ==
    ASSUME NEW w \in Seq(Rec), NEW v \in Seq(Rec), Begins(w, v)
    PROVE  w = SubSeq(v, 1, Len(w))
<1>1. Len(w) \in 0..Len(v)
  BY SMTT(20) DEF Begins
<1>2. /\ SubSeq(v, 1, Len(w)) \in Seq(Rec)
      /\ Len(SubSeq(v, 1, Len(w))) = Len(w)
      /\ Begins(SubSeq(v, 1, Len(w)), v)
  BY <1>1, PrefixBegins
<1>3. \A i \in 1..Len(w) : w[i] = SubSeq(v, 1, Len(w))[i]
  BY <1>2 DEF Begins
<1> QED
  BY <1>2, <1>3, SeqEqual

\* Replaying a prefix arrives where the whole replay was at its end.
LEMMA ReplayPrefix ==
    ASSUME NEW w \in Seq(Rec), NEW v \in Seq(Rec), NEW a \in FrameRec, Begins(w, v),
           NEW f, Replay(f, v, a)
    PROVE  Replayed(w, a) = f[Len(w)]
<1> DEFINE n == Len(w)
           g == [i \in 0..n |-> f[i]]
           x(h, u, i) == IF i = 0 THEN a.content
                         ELSE IF Ahead(u[i], a) THEN h[i - 1] \o u[i].muts ELSE h[i - 1]
<1>1. n \in Nat /\ Len(v) \in Nat /\ n <= Len(v)
  BY SMTT(20) DEF Begins
<1>2. f = [i \in 0..Len(v) |-> x(f, v, i)]
  BY DEF Replay
<1>3. ASSUME NEW i \in 0..n PROVE g[i] = x(g, w, i)
  <2>1. i \in 0..Len(v) /\ f[i] = x(f, v, i) /\ g[i] = f[i]
    BY SMTT(20), <1>1, <1>2
  <2>2. i # 0 => i - 1 \in 0..n /\ g[i - 1] = f[i - 1] /\ w[i] = v[i]
    BY SMTT(20), <1>1 DEF Begins
  <2> QED
    BY <2>1, <2>2
<1>4. g = [i \in 0..n |-> x(g, w, i)]
  <2> HIDE DEF x
  <2> QED
    BY <1>3
<1>5. Replay(g, w, a)
  BY <1>4 DEF Replay
<1>6. Replayed(w, a) = g[n]
  BY <1>5, ReplayedIs
<1> QED
  BY SMTT(20), <1>1, <1>6

\* One more record: a commit envelope ahead of the authority applies its
\* mutations, any other record changes nothing.
LEMMA ReplayStep ==
    ASSUME NEW w \in Seq(Rec), NEW r \in Rec, NEW a \in FrameRec
    PROVE  Replayed(Append(w, r), a) =
               IF Ahead(r, a) THEN Replayed(w, a) \o r.muts ELSE Replayed(w, a)
<1> DEFINE v == Append(w, r)
           n == Len(w) + 1
<1>1. v \in Seq(Rec) /\ Len(v) = n /\ v[n] = r /\ Begins(w, v)
  BY SMTT(20) DEF Begins
<1>2. PICK f \in [0..Len(v) -> Content] : Replay(f, v, a)
  BY <1>1, ReplayExists
<1>3. Replayed(v, a) = f[n] /\ Replayed(w, a) = f[Len(w)]
  <2> HIDE DEF v
  <2> QED
    BY <1>1, <1>2, ReplayedIs, ReplayPrefix
<1>4. f[n] = IF Ahead(v[n], a) THEN f[n - 1] \o v[n].muts ELSE f[n - 1]
  <2>1. n \in 0..Len(v) /\ n # 0
    BY SMTT(20), <1>1
  <2> HIDE DEF v, n
  <2> QED
    BY <1>2, <2>1 DEF Replay
<1> QED
  BY SMTT(20), <1>1, <1>3, <1>4

\* Replaying a log over a frame gives a content.
LEMMA ReplayedContent ==
    ASSUME NEW w \in Seq(Rec), NEW a \in FrameRec
    PROVE  Replayed(w, a) \in Content
<1>1. PICK f \in [0..Len(w) -> Content] : Replay(f, w, a)
  BY ReplayExists
<1>2. Replayed(w, a) = f[Len(w)] /\ Len(w) \in 0..Len(w)
  BY SMTT(20), <1>1, ReplayedIs
<1> QED
  BY <1>2

\* Records not ahead of the authority do not count, wherever they end.
LEMMA ReplayQuiet ==
    ASSUME NEW w \in Seq(Rec), NEW v \in Seq(Rec), NEW a \in FrameRec, Begins(w, v),
           \A i \in DOMAIN v : i > Len(w) => ~ Ahead(v[i], a)
    PROVE  Replayed(v, a) = Replayed(w, a)
<1>1. PICK f \in [0..Len(v) -> Content] : Replay(f, v, a)
  BY ReplayExists
<1>2. Replayed(v, a) = f[Len(v)] /\ Replayed(w, a) = f[Len(w)]
  BY <1>1, ReplayedIs, ReplayPrefix
<1>3. Len(w) \in Nat /\ Len(v) \in Nat /\ Len(w) <= Len(v) /\ DOMAIN v = 1..Len(v)
  BY SMTT(20) DEF Begins
<1> DEFINE S == {n \in Nat : Len(w) + n <= Len(v) => f[Len(w) + n] = f[Len(w)]}
<1>4. 0 \in S
  BY SMTT(20), <1>3
<1>5. ASSUME NEW n \in Nat, n \in S PROVE n + 1 \in S
  <2>1. SUFFICES ASSUME Len(w) + (n + 1) <= Len(v)
                 PROVE  f[Len(w) + (n + 1)] = f[Len(w)]
    BY SMTT(20)
  <2> DEFINE i == Len(w) + (n + 1)
  <2>2. i \in 0..Len(v) /\ i # 0 /\ i \in DOMAIN v /\ i > Len(w) /\ i - 1 = Len(w) + n
    BY SMTT(20), <1>3, <2>1
  <2>3. f[Len(w) + n] = f[Len(w)]
    BY SMTT(20), <1>3, <1>5, <2>1
  <2>4. ~ Ahead(v[i], a)
    BY <2>2
  <2>5. f[i] = f[i - 1]
    <3> HIDE DEF i
    <3> QED
      BY <1>1, <2>2, <2>4 DEF Replay
  <2> QED
    BY <2>2, <2>3, <2>5
<1> HIDE DEF S
<1>6. Nat \subseteq S
  BY <1>4, <1>5, NatInduct
<1>7. Len(v) - Len(w) \in S /\ Len(w) + (Len(v) - Len(w)) = Len(v)
  BY SMTT(20), <1>3, <1>6
<1> QED
  BY SMTT(20), <1>2, <1>3, <1>7 DEF S

\* With no commit ahead of it the authority's content stands.
LEMMA ReplayNone ==
    ASSUME NEW w \in Seq(Rec), NEW a \in FrameRec, \A i \in DOMAIN w : ~ Ahead(w[i], a)
    PROVE  Replayed(w, a) = a.content
<1> DEFINE e == << >>
<1>1. e \in Seq(Rec) /\ Len(e) = 0 /\ Begins(e, w)
  BY SMTT(20) DEF Begins
<1>2. Replayed(w, a) = Replayed(e, a)
  <2> HIDE DEF e
  <2> QED
    BY <1>1, ReplayQuiet
<1>3. PICK f \in [0..Len(e) -> Content] : Replay(f, e, a)
  BY <1>1, ReplayExists
<1>4. Replayed(e, a) = f[0]
  <2> HIDE DEF e
  <2> QED
    BY <1>1, <1>3, ReplayedIs
<1>5. f[0] = a.content
  <2>1. 0 \in 0..Len(e)
    BY SMTT(20), <1>1
  <2> HIDE DEF e
  <2> QED
    BY <1>3, <2>1 DEF Replay
<1> QED
  BY <1>2, <1>4, <1>5

(***************************************************************************)
(* Commit envelopes.                                                       *)
(***************************************************************************)
\* PrevCommit is the last envelope before i, or 0.
LEMMA PrevCommitIs ==
    ASSUME NEW w \in Seq(Rec), NEW i \in Nat
    PROVE  /\ PrevCommit(w, i) \in 0..Len(w)
           /\ PrevCommit(w, i) # 0 => PrevCommit(w, i) \in CommitsIn(w) /\ PrevCommit(w, i) < i
           /\ \A j \in CommitsIn(w) : j < i => j <= PrevCommit(w, i)
<1> DEFINE E == {j \in CommitsIn(w) : j < i}
<1>1. Len(w) \in Nat /\ E \in SUBSET (1..Len(w))
  BY SMTT(20) DEF CommitsIn
<1>2. PrevCommit(w, i) = IF E = {} THEN 0 ELSE Largest(E)
  BY DEF PrevCommit
<1>3. E # {} => Largest(E) \in E /\ \A k \in E : k <= Largest(E)
  BY <1>1, LargestNat
<1> QED
  BY SMTT(20), <1>1, <1>2, <1>3

\* No other position is.
LEMMA PrevCommitUnique ==
    ASSUME NEW w \in Seq(Rec), NEW i \in Nat, NEW p \in Nat,
           p # 0 => p \in CommitsIn(w) /\ p < i,
           \A j \in CommitsIn(w) : j < i => j <= p
    PROVE  PrevCommit(w, i) = p
<1> DEFINE q == PrevCommit(w, i)
<1>1. /\ q \in 0..Len(w)
      /\ q # 0 => q \in CommitsIn(w) /\ q < i
      /\ \A j \in CommitsIn(w) : j < i => j <= q
  BY PrevCommitIs
<1>2. q \in Nat
  BY SMTT(20), <1>1
<1> HIDE DEF q
<1>3. q <= p
  BY SMTT(20), <1>1, <1>2
<1>4. p <= q
  BY SMTT(20), <1>1, <1>2
<1> QED
  BY SMTT(20), <1>2, <1>3, <1>4 DEF q

\* The mutations an envelope stands behind, and whether it covers them.
Covered(w, i) == w[i].muts = MutsOf(SubSeq(w, PrevCommit(w, i) + 1, i - 1))

\* A log of valid envelopes whose identities ascend.
WalOK(w) ==
    /\ \A i \in CommitsIn(w) : Covered(w, i)
    /\ \A i, j \in CommitsIn(w) : i < j => w[i].gen < w[j].gen /\ w[i].cid < w[j].cid

\* No envelope contradicts the frame a.
Agree(w, a) ==
    \A i \in CommitsIn(w) :
        /\ w[i].gen < a.gen => w[i].cid <= a.cid
        /\ w[i].gen = a.gen => w[i].cid = a.cid /\ w[i].muts = a.muts
        /\ w[i].gen > a.gen => w[i].cid > a.cid

\* Every envelope is published: none is newer than generation g.
UpTo(w, g) == \A i \in CommitsIn(w) : w[i].gen <= g

\* Where the last envelope ends, and the mutations behind it.
LastCommit(w) == PrevCommit(w, Len(w) + 1)
TailMuts(w) == MutsOf(SubSeq(w, PrevCommit(w, Len(w) + 1) + 1, Len(w)))

\* A well-formed log that agrees with the frame passes the analysis of
\* open().
LEMMA Validated ==
    ASSUME NEW w, NEW a, WalOK(w), Agree(w, a)
    PROVE  AnalysisOK(w, a)
BY DEF WalOK, Agree, AnalysisOK, Covered

\* The fields of an envelope.
LEMMA CommitFields ==
    ASSUME NEW w \in Seq(Rec), NEW i \in CommitsIn(w)
    PROVE  /\ i \in DOMAIN w /\ i \in 1..Len(w)
           /\ w[i] \in CommitRec
           /\ w[i].gen \in Nat /\ w[i].cid \in Nat /\ w[i].muts \in Content
<1>1. i \in 1..Len(w) /\ w[i] \in Rec /\ w[i].type = "commit"
  BY SMTT(20) DEF CommitsIn
<1>2. w[i] \in CommitRec
  BY <1>1 DEF Rec, MutRec, CommitRec
<1> QED
  BY SMTT(20), <1>1, <1>2 DEF CommitRec

\* What a beginning shares with the whole log.
LEMMA BeginsCommits ==
    ASSUME NEW w \in Seq(Rec), NEW v \in Seq(Rec), Begins(w, v)
    PROVE  /\ CommitsIn(w) = {i \in CommitsIn(v) : i <= Len(w)}
           /\ \A i \in 1..(Len(w) + 1) : PrevCommit(w, i) = PrevCommit(v, i)
           /\ \A i \in CommitsIn(w) : w[i] = v[i] /\ (Covered(w, i) <=> Covered(v, i))
<1>1. CommitsIn(w) = {i \in CommitsIn(v) : i <= Len(w)}
  BY SMTT(20) DEF CommitsIn, Begins
<1>2. ASSUME NEW i \in 1..(Len(w) + 1) PROVE PrevCommit(w, i) = PrevCommit(v, i)
  <2> DEFINE p == PrevCommit(v, i)
  <2>0. i \in Nat
    BY SMTT(20)
  <2>1. /\ p \in 0..Len(v)
        /\ p # 0 => p \in CommitsIn(v) /\ p < i
        /\ \A j \in CommitsIn(v) : j < i => j <= p
    BY PrevCommitIs, <2>0
  <2>2. p \in Nat /\ i \in Nat /\ Len(w) \in Nat
    BY SMTT(20), <2>1
  <2> HIDE DEF p
  <2>3. p # 0 => p \in CommitsIn(w) /\ p < i
    BY SMTT(20), <1>1, <2>1, <2>2
  <2>4. \A j \in CommitsIn(w) : j < i => j <= p
    BY <1>1, <2>1
  <2> QED
    BY <2>2, <2>3, <2>4, PrevCommitUnique DEF p
<1>3. ASSUME NEW i \in CommitsIn(w)
      PROVE  w[i] = v[i] /\ (Covered(w, i) <=> Covered(v, i))
  <2> DEFINE p == PrevCommit(w, i)
  <2>1. i \in 1..Len(w) /\ w[i] = v[i]
    BY SMTT(20) DEF CommitsIn, Begins
  <2>2. p = PrevCommit(v, i) /\ p \in Nat
    BY SMTT(20), <1>2, <2>1, PrevCommitIs
  <2>3. SubSeq(w, p + 1, i - 1) = SubSeq(v, p + 1, i - 1)
    <3>1. \A j \in (p + 1)..(i - 1) : w[j] \in Rec /\ v[j] \in Rec /\ w[j] = v[j]
      BY SMTT(20), <2>1, <2>2 DEF Begins
    <3> HIDE DEF p
    <3> DEFINE s == SubSeq(w, p + 1, i - 1)
               t == SubSeq(v, p + 1, i - 1)
    <3>2. /\ s \in Seq(Rec)
          /\ Len(s) = IF p + 1 <= i - 1 THEN (i - 1) - (p + 1) + 1 ELSE 0
          /\ \A j \in 1..((i - 1) - (p + 1) + 1) : s[j] = w[(p + 1) + j - 1]
      BY SMTT(20), <2>1, <2>2, <3>1, SubSeqProperties
    <3>3. /\ t \in Seq(Rec)
          /\ Len(t) = IF p + 1 <= i - 1 THEN (i - 1) - (p + 1) + 1 ELSE 0
          /\ \A j \in 1..((i - 1) - (p + 1) + 1) : t[j] = v[(p + 1) + j - 1]
      BY SMTT(20), <2>1, <2>2, <3>1, SubSeqProperties
    <3> HIDE DEF s, t
    <3>4. \A j \in 1..Len(s) : s[j] = t[j]
      <4>1. ASSUME NEW j \in 1..Len(s) PROVE s[j] = t[j]
        <5>1. /\ i \in Nat /\ p \in Nat
              /\ j \in 1..((i - 1) - (p + 1) + 1)
              /\ (p + 1) + j - 1 \in (p + 1)..(i - 1)
          BY SMTT(20), <2>1, <2>2, <3>2
        <5>2. s[j] = w[(p + 1) + j - 1] /\ t[j] = v[(p + 1) + j - 1]
          BY <3>2, <3>3, <5>1
        <5> QED
          BY <3>1, <5>1, <5>2
      <4> QED
        BY <4>1
    <3>5. s = t
      BY <3>2, <3>3, <3>4, SeqEqual
    <3> QED
      BY <3>5 DEF s, t
  <2> QED
    BY <2>1, <2>2, <2>3 DEF Covered
<1> QED
  BY <1>1, <1>2, <1>3

\* A prefix of a well-formed log is well-formed, and agrees with and is
\* published by the frames that the log agrees with and is published by.
LEMMA BeginsOK ==
    ASSUME NEW w \in Seq(Rec), NEW v \in Seq(Rec), Begins(w, v)
    PROVE  /\ WalOK(v) => WalOK(w)
           /\ \A a : Agree(v, a) => Agree(w, a)
           /\ \A g : UpTo(v, g) => UpTo(w, g)
<1>1. /\ CommitsIn(w) = {i \in CommitsIn(v) : i <= Len(w)}
      /\ \A i \in CommitsIn(w) : w[i] = v[i] /\ (Covered(w, i) <=> Covered(v, i))
  BY BeginsCommits
<1>2. CommitsIn(w) \subseteq CommitsIn(v)
  BY <1>1
<1>3. WalOK(v) => WalOK(w)
  BY <1>1, <1>2 DEF WalOK
<1>4. ASSUME NEW a, Agree(v, a) PROVE Agree(w, a)
  BY <1>1, <1>2, <1>4 DEF Agree
<1>5. ASSUME NEW g, UpTo(v, g) PROVE UpTo(w, g)
  BY <1>1, <1>2, <1>5 DEF UpTo
<1> QED
  BY <1>3, <1>4, <1>5

\* Nothing replays when every envelope is published.
LEMMA PublishedReplay ==
    ASSUME NEW w \in Seq(Rec), NEW a \in FrameRec, UpTo(w, a.gen)
    PROVE  Replayed(w, a) = a.content
<1>1. ASSUME NEW i \in DOMAIN w, Ahead(w[i], a) PROVE FALSE
  <2>1. i \in CommitsIn(w) /\ w[i].gen > a.gen
    BY <1>1 DEF CommitsIn, Ahead
  <2>2. w[i].gen \in Nat /\ a.gen \in Nat /\ w[i].gen <= a.gen
    BY <2>1, CommitFields DEF UpTo, FrameRec
  <2> QED
    BY SMTT(20), <2>1, <2>2
<1> QED
  BY <1>1, ReplayNone

\* The mutations of a run of mutation records, one by one.
LEMMA MutsOfSeq ==
    ASSUME NEW s \in Seq(MutRec)
    PROVE  /\ MutsOf(s) \in Content /\ Len(MutsOf(s)) = Len(s)
           /\ \A i \in 1..Len(s) : MutsOf(s)[i] = s[i].m
<1>1. DOMAIN s = 1..Len(s) /\ Len(s) \in Nat /\ \A i \in 1..Len(s) : s[i].m \in Nat
  <2>1. \A i \in 1..Len(s) : s[i] \in MutRec
    BY ElementOfSeq
  <2>2. \A r \in MutRec : r.m \in Nat
    BY DEF MutRec
  <2> QED
    BY SMTT(20), <2>1, <2>2
<1>2. MutsOf(s) = [i \in 1..Len(s) |-> s[i].m]
  BY <1>1 DEF MutsOf
<1>3. [i \in 1..Len(s) |-> s[i].m] \in [1..Len(s) -> Nat]
  BY <1>1
<1>4. MutsOf(s) \in Seq(Nat) /\ Len(MutsOf(s)) = Len(s)
  BY SMTT(20), <1>1, <1>2, <1>3, SeqDef
<1> QED
  BY <1>1, <1>2, <1>4 DEF Content

\* Behind the last envelope there are only mutation records.
LEMMA TailIs ==
    ASSUME NEW w \in Seq(Rec)
    PROVE  /\ LastCommit(w) \in 0..Len(w)
           /\ \A i \in CommitsIn(w) : i <= LastCommit(w)
           /\ SubSeq(w, LastCommit(w) + 1, Len(w)) \in Seq(MutRec)
           /\ TailMuts(w) \in Content
           /\ Len(TailMuts(w)) = Len(w) - LastCommit(w)
           /\ \A j \in 1..(Len(w) - LastCommit(w)) : TailMuts(w)[j] = w[LastCommit(w) + j].m
<1> DEFINE p == LastCommit(w)
<1>1. Len(w) \in Nat /\ Len(w) + 1 \in Nat
  BY SMTT(20)
<1>2. p \in 0..Len(w) /\ \A j \in CommitsIn(w) : j < Len(w) + 1 => j <= p
  BY <1>1, PrevCommitIs DEF LastCommit
<1>3. \A i \in CommitsIn(w) : i <= p
  BY SMTT(20), <1>1, <1>2 DEF CommitsIn
<1>4. \A i \in (p + 1)..Len(w) : w[i] \in MutRec
  <2>1. ASSUME NEW i \in (p + 1)..Len(w) PROVE w[i] \in MutRec
    <3>1. i \in 1..Len(w) /\ ~(i <= p)
      BY SMTT(20), <1>1, <1>2
    <3>2. w[i] \in Rec /\ ~(w[i].type = "commit")
      BY SMTT(20), <1>3, <3>1 DEF CommitsIn
    <3> QED
      BY <3>2 DEF Rec, MutRec, CommitRec
  <2> QED
    BY <2>1
<1> DEFINE s == SubSeq(w, p + 1, Len(w))
<1>5. /\ s \in Seq(MutRec)
      /\ Len(s) = IF p + 1 <= Len(w) THEN Len(w) - (p + 1) + 1 ELSE 0
      /\ \A j \in 1..(Len(w) - (p + 1) + 1) : s[j] = w[(p + 1) + j - 1]
  BY SMTT(20), <1>1, <1>2, <1>4, SubSeqProperties
<1>6. TailMuts(w) = MutsOf(s)
  BY DEF TailMuts, LastCommit
<1> HIDE DEF s
<1>7. Len(s) = Len(w) - p
  BY SMTT(20), <1>1, <1>2, <1>5
<1>8. MutsOf(s) \in Content /\ Len(MutsOf(s)) = Len(s) /\ \A i \in 1..Len(s) : MutsOf(s)[i] = s[i].m
  BY <1>5, MutsOfSeq
<1>9. ASSUME NEW j \in 1..(Len(w) - p) PROVE TailMuts(w)[j] = w[p + j].m
  <2>1. j \in 1..Len(s) /\ j \in 1..(Len(w) - (p + 1) + 1) /\ (p + 1) + j - 1 = p + j
    BY SMTT(20), <1>1, <1>2, <1>7
  <2> QED
    BY <1>5, <1>6, <1>8, <2>1
<1> QED
  BY <1>2, <1>3, <1>5, <1>6, <1>7, <1>8, <1>9 DEF s

\* Appending mutation records: no envelope changes, the tail grows.
LEMMA MutsBehind ==
    ASSUME NEW w \in Seq(Rec), NEW ms \in Seq(MutRec), NEW v \in Seq(Rec),
           Len(v) = Len(w) + Len(ms),
           \A i \in 1..Len(v) : v[i] = IF i <= Len(w) THEN w[i] ELSE ms[i - Len(w)]
    PROVE  /\ Begins(w, v)
           /\ CommitsIn(v) = CommitsIn(w)
           /\ \A i \in CommitsIn(w) : v[i] = w[i]
           /\ TailMuts(v) = TailMuts(w) \o MutsOf(ms)
           /\ WalOK(w) => WalOK(v)
<1>2. /\ v \in Seq(Rec) /\ Len(v) = Len(w) + Len(ms) /\ Len(w) \in Nat /\ Len(ms) \in Nat
      /\ \A i \in 1..Len(v) : v[i] = IF i <= Len(w) THEN w[i] ELSE ms[i - Len(w)]
  BY SMTT(20)
<1>3. Begins(w, v)
  BY SMTT(20), <1>2 DEF Begins
<1>4. /\ CommitsIn(w) = {i \in CommitsIn(v) : i <= Len(w)}
      /\ \A i \in 1..(Len(w) + 1) : PrevCommit(w, i) = PrevCommit(v, i)
      /\ \A i \in CommitsIn(w) : w[i] = v[i] /\ (Covered(w, i) <=> Covered(v, i))
  BY <1>2, <1>3, BeginsCommits
<1>5. ASSUME NEW i \in CommitsIn(v) PROVE i <= Len(w)
  <2>1. SUFFICES ASSUME ~(i <= Len(w)) PROVE FALSE
    OBVIOUS
  <2>2. i \in 1..Len(v) /\ v[i].type = "commit"
    BY SMTT(20), <1>2 DEF CommitsIn
  <2>3. v[i] = ms[i - Len(w)] /\ i - Len(w) \in 1..Len(ms)
    BY SMTT(20), <1>2, <2>1, <2>2
  <2>4. v[i] \in MutRec
    BY <2>3, ElementOfSeq
  <2> QED
    BY <2>2, <2>4 DEF MutRec
<1>6. CommitsIn(v) = CommitsIn(w)
  BY <1>4, <1>5
<1>7. WalOK(w) => WalOK(v)
  BY <1>4, <1>6 DEF WalOK
<1> DEFINE p == LastCommit(w)
<1>8. p = LastCommit(v)
  <2>0. Len(w) + 1 \in Nat
    BY SMTT(20), <1>2
  <2>1. /\ p \in 0..Len(w)
        /\ p # 0 => p \in CommitsIn(w) /\ p < Len(w) + 1
        /\ \A j \in CommitsIn(w) : j < Len(w) + 1 => j <= p
    BY <2>0, PrevCommitIs DEF LastCommit
  <2> HIDE DEF p
  <2>2. p \in Nat /\ Len(v) + 1 \in Nat /\ (p # 0 => p \in CommitsIn(v) /\ p < Len(v) + 1)
    BY SMTT(20), <1>2, <1>6, <2>1
  <2>3. \A j \in CommitsIn(v) : j < Len(v) + 1 => j <= p
    BY SMTT(20), <1>2, <1>5, <1>6, <2>1 DEF CommitsIn
  <2> QED
    BY <1>2, <2>2, <2>3, PrevCommitUnique DEF LastCommit
<1>9. TailMuts(v) = TailMuts(w) \o MutsOf(ms)
  <2> DEFINE x == TailMuts(v)
             y == TailMuts(w)
             z == MutsOf(ms)
  <2>1. /\ p \in 0..Len(w)
        /\ y \in Content /\ Len(y) = Len(w) - p
        /\ \A j \in 1..(Len(w) - p) : y[j] = w[p + j].m
    BY TailIs
  <2>2. /\ x \in Content /\ Len(x) = Len(v) - p
        /\ \A j \in 1..(Len(v) - p) : x[j] = v[p + j].m
    <3>1. /\ x \in Content /\ Len(x) = Len(v) - LastCommit(v)
          /\ \A j \in 1..(Len(v) - LastCommit(v)) : x[j] = v[LastCommit(v) + j].m
      BY TailIs
    <3> QED
      BY <1>8, <3>1
  <2>3. z \in Content /\ Len(z) = Len(ms) /\ \A i \in 1..Len(ms) : z[i] = ms[i].m
    BY MutsOfSeq
  <2> HIDE DEF x, y, z, p
  <2>4. /\ y \o z \in Content /\ Len(y \o z) = Len(y) + Len(z)
        /\ \A i \in 1..(Len(y) + Len(z)) : (y \o z)[i] = IF i <= Len(y) THEN y[i] ELSE z[i - Len(y)]
    <3>1. y \in Seq(Nat) /\ z \in Seq(Nat)
      BY <2>1, <2>3 DEF Content
    <3> QED
      BY SMTT(20), <3>1, ConcatProperties DEF Content
  <2>5. p \in Nat /\ Len(x) = Len(y) + Len(z) /\ Len(x) \in Nat
    <3>1. p \in Nat /\ p <= Len(w)
      BY SMTT(20), <1>2, <2>1
    <3>2. Len(w) \in Nat /\ Len(ms) \in Nat
      BY SMTT(20)
    <3>3. Len(x) = (Len(w) + Len(ms)) - p /\ Len(y) = Len(w) - p /\ Len(z) = Len(ms)
      BY <2>1, <2>2, <2>3
    <3>4. \A a, b, c \in Nat : c <= a => (a + b) - c = (a - c) + b /\ (a + b) - c \in Nat
      BY SMTT(20)
    <3> QED
      BY SMTT(20), <3>1, <3>2, <3>3, <3>4
  <2>6. ASSUME NEW j \in 1..Len(x) PROVE x[j] = (y \o z)[j]
    <3>1. j \in Nat /\ j \in 1..(Len(v) - p) /\ p + j \in 1..Len(v) /\ x[j] = v[p + j].m
      BY SMTT(20), <1>2, <2>2, <2>5
    <3>2. CASE j <= Len(y)
      <4>1. p + j <= Len(w) /\ j \in 1..(Len(w) - p)
        BY SMTT(20), <1>2, <2>1, <2>5, <3>1, <3>2
      <4>2. v[p + j] = w[p + j] /\ y[j] = w[p + j].m
        BY <1>2, <2>1, <3>1, <4>1
      <4> QED
        BY <2>4, <2>5, <3>1, <3>2, <4>2
    <3>3. CASE ~(j <= Len(y))
      <4>1. /\ ~(p + j <= Len(w)) /\ j - Len(y) \in 1..Len(ms)
            /\ (p + j) - Len(w) = j - Len(y)
        BY SMTT(20), <1>2, <2>1, <2>2, <2>3, <2>5, <3>1, <3>3
      <4>2. v[p + j] = ms[j - Len(y)] /\ z[j - Len(y)] = ms[j - Len(y)].m
        BY <1>2, <2>3, <3>1, <4>1
      <4> QED
        BY <2>4, <2>5, <3>1, <3>3, <4>2
    <3> QED
      BY <3>2, <3>3
  <2>7. x = y \o z
    BY <2>2, <2>4, <2>5, <2>6, SeqEqual DEF Content
  <2> QED
    BY <2>7 DEF x, y, z
<1> QED
  BY <1>2, <1>3, <1>4, <1>6, <1>7, <1>9

\* Appending mutation records adds no envelope, keeps the log well-formed
\* and lengthens its uncommitted tail.
LEMMA MutsAppended ==
    ASSUME NEW w \in Seq(Rec), NEW ms \in Seq(MutRec)
    PROVE  /\ w \o ms \in Seq(Rec) /\ Len(w \o ms) = Len(w) + Len(ms) /\ Begins(w, w \o ms)
           /\ CommitsIn(w \o ms) = CommitsIn(w)
           /\ \A i \in CommitsIn(w) : (w \o ms)[i] = w[i]
           /\ TailMuts(w \o ms) = TailMuts(w) \o MutsOf(ms)
           /\ WalOK(w) => WalOK(w \o ms)
           /\ \A a : Agree(w, a) => Agree(w \o ms, a)
           /\ \A g : UpTo(w, g) => UpTo(w \o ms, g)
<1> DEFINE v == w \o ms
<1>1. ms \in Seq(Rec)
  <2>1. MutRec \subseteq Rec
    BY DEF Rec
  <2> QED
    BY <2>1, SeqMonotonic
<1>2. /\ v \in Seq(Rec) /\ Len(v) = Len(w) + Len(ms)
      /\ \A i \in 1..Len(v) : v[i] = IF i <= Len(w) THEN w[i] ELSE ms[i - Len(w)]
  BY <1>1, ConcatProperties
<1> HIDE DEF v
<1>3. /\ Begins(w, v)
      /\ CommitsIn(v) = CommitsIn(w)
      /\ \A i \in CommitsIn(w) : v[i] = w[i]
      /\ TailMuts(v) = TailMuts(w) \o MutsOf(ms)
      /\ WalOK(w) => WalOK(v)
  BY <1>2, MutsBehind
<1>4. ASSUME NEW a, Agree(w, a) PROVE Agree(v, a)
  BY <1>3, <1>4 DEF Agree
<1>5. ASSUME NEW g, UpTo(w, g) PROVE UpTo(v, g)
  BY <1>3, <1>5 DEF UpTo
<1> QED
  BY <1>2, <1>3, <1>4, <1>5 DEF v

\* ... and recovery arrives at the same content, wherever the new part ends.
LEMMA MutsReplay ==
    ASSUME NEW w \in Seq(Rec), NEW ms \in Seq(MutRec), NEW a \in FrameRec,
           NEW k \in Len(w)..(Len(w) + Len(ms))
    PROVE  Replayed(SubSeq(w \o ms, 1, k), a) = Replayed(w, a)
<1> DEFINE v == w \o ms
           u == SubSeq(v, 1, k)
<1>1. /\ v \in Seq(Rec) /\ Len(v) = Len(w) + Len(ms) /\ Begins(w, v)
      /\ CommitsIn(v) = CommitsIn(w)
  BY MutsAppended
<1> HIDE DEF v
<1>2. k \in 0..Len(v) /\ k \in Nat /\ Len(w) \in Nat /\ Len(w) <= k
  BY SMTT(20), <1>1
<1>3. u \in Seq(Rec) /\ Len(u) = k /\ Begins(u, v)
  BY <1>1, <1>2, PrefixBegins
<1> HIDE DEF u
<1>4. Begins(w, u)
  BY SMTT(20), <1>1, <1>2, <1>3 DEF Begins
<1>5. ASSUME NEW i \in DOMAIN u, i > Len(w), Ahead(u[i], a) PROVE FALSE
  <2>1. i \in CommitsIn(u)
    BY <1>5 DEF Ahead, CommitsIn
  <2>2. CommitsIn(u) \subseteq CommitsIn(v)
    BY SMTT(20), <1>1, <1>3, BeginsCommits
  <2>3. i \in 1..Len(w)
    BY <1>1, <2>1, <2>2, CommitFields
  <2> QED
    BY SMTT(20), <1>2, <1>5, <2>3
<1>6. Replayed(u, a) = Replayed(w, a)
  BY <1>3, <1>4, <1>5, ReplayQuiet
<1> QED
  BY <1>6 DEF u, v

\* Appending the envelope of the tail: the log stays valid, the tail is empty.
LEMMA CommitAppended ==
    ASSUME NEW w \in Seq(Rec), NEW c \in CommitRec
    PROVE  /\ Append(w, c) \in Seq(Rec) /\ Len(Append(w, c)) = Len(w) + 1
           /\ Begins(w, Append(w, c))
           /\ CommitsIn(Append(w, c)) = CommitsIn(w) \cup {Len(w) + 1}
           /\ Append(w, c)[Len(w) + 1] = c
           /\ \A i \in CommitsIn(w) : Append(w, c)[i] = w[i]
           /\ TailMuts(Append(w, c)) = << >>
           /\ /\ WalOK(w) /\ c.muts = TailMuts(w)
              /\ \A i \in CommitsIn(w) : w[i].gen < c.gen /\ w[i].cid < c.cid
              => WalOK(Append(w, c))
<1> DEFINE v == Append(w, c)
           n == Len(w) + 1
<1>0. c \in Rec /\ c.type = "commit"
  BY DEF Rec, CommitRec
<1>1. /\ v \in Seq(Rec) /\ Len(v) = n /\ Len(w) \in Nat /\ n \in Nat
      /\ \A i \in 1..Len(w) : v[i] = w[i]
      /\ v[n] = c
  BY SMTT(20), <1>0, AppendProperties
<1> HIDE DEF v
<1>2. Begins(w, v)
  BY SMTT(20), <1>1 DEF Begins
<1>3. /\ CommitsIn(w) = {i \in CommitsIn(v) : i <= Len(w)}
      /\ \A i \in 1..(Len(w) + 1) : PrevCommit(w, i) = PrevCommit(v, i)
      /\ \A i \in CommitsIn(w) : w[i] = v[i] /\ (Covered(w, i) <=> Covered(v, i))
  BY <1>1, <1>2, BeginsCommits
<1>4. CommitsIn(v) = CommitsIn(w) \cup {n}
  <2>1. n \in CommitsIn(v)
    BY SMTT(20), <1>0, <1>1 DEF CommitsIn
  <2>2. \A i \in CommitsIn(v) : i <= Len(w) \/ i = n
    BY SMTT(20), <1>1, CommitFields
  <2> QED
    BY <1>3, <2>1, <2>2
<1>5. TailMuts(v) = << >>
  <2> DEFINE p == LastCommit(v)
  <2>1. p \in 0..Len(v) /\ \A i \in CommitsIn(v) : i <= p
    BY <1>1, TailIs
  <2>2. TailMuts(v) \in Content /\ Len(TailMuts(v)) = Len(v) - p
    BY <1>1, TailIs
  <2> HIDE DEF p
  <2>3. p = n
    <3>1. n \in CommitsIn(v)
      BY <1>4
    <3> QED
      BY SMTT(20), <1>1, <2>1, <3>1
  <2>4. Len(TailMuts(v)) = 0
    BY SMTT(20), <1>1, <2>2, <2>3
  <2> QED
    BY <2>2, <2>4, EmptySeq DEF Content
<1>6. ASSUME WalOK(w), c.muts = TailMuts(w),
             \A i \in CommitsIn(w) : w[i].gen < c.gen /\ w[i].cid < c.cid
      PROVE  WalOK(v)
  <2>1. Covered(v, n)
    <3>1. PrevCommit(v, n) = PrevCommit(w, n) /\ n - 1 = Len(w)
      BY SMTT(20), <1>1, <1>3
    <3>2. TailMuts(w) = MutsOf(SubSeq(w, PrevCommit(w, n) + 1, Len(w)))
      BY DEF TailMuts
    <3>3. SubSeq(v, PrevCommit(w, n) + 1, Len(w)) = SubSeq(w, PrevCommit(w, n) + 1, Len(w))
      <4> DEFINE p == PrevCommit(w, n)
                 s == SubSeq(w, p + 1, Len(w))
                 t == SubSeq(v, p + 1, Len(w))
      <4>1. p \in Nat /\ p <= Len(w)
        BY SMTT(20), <1>1, PrevCommitIs
      <4> HIDE DEF p
      <4>2. \A j \in (p + 1)..Len(w) : w[j] \in Rec /\ v[j] \in Rec /\ v[j] = w[j]
        BY SMTT(20), <1>1, <4>1
      <4>3. /\ s \in Seq(Rec)
            /\ Len(s) = IF p + 1 <= Len(w) THEN Len(w) - (p + 1) + 1 ELSE 0
            /\ \A j \in 1..(Len(w) - (p + 1) + 1) : s[j] = w[(p + 1) + j - 1]
        BY SMTT(20), <1>1, <4>1, <4>2, SubSeqProperties
      <4>4. /\ t \in Seq(Rec)
            /\ Len(t) = IF p + 1 <= Len(w) THEN Len(w) - (p + 1) + 1 ELSE 0
            /\ \A j \in 1..(Len(w) - (p + 1) + 1) : t[j] = v[(p + 1) + j - 1]
        BY SMTT(20), <1>1, <4>1, <4>2, SubSeqProperties
      <4> HIDE DEF s, t
      <4>5. ASSUME NEW j \in 1..Len(s) PROVE s[j] = t[j]
        <5>1. j \in 1..(Len(w) - (p + 1) + 1) /\ (p + 1) + j - 1 \in (p + 1)..Len(w)
          BY SMTT(20), <1>1, <4>1, <4>3
        <5> QED
          BY <4>2, <4>3, <4>4, <5>1
      <4>6. s = t
        BY <4>3, <4>4, <4>5, SeqEqual
      <4> QED
        BY <4>6 DEF p, s, t
    <3> QED
      BY <1>1, <1>6, <3>1, <3>2, <3>3 DEF Covered
  <2>2. \A i \in CommitsIn(v) : Covered(v, i)
    BY <1>3, <1>4, <1>6, <2>1 DEF WalOK
  <2>3. ASSUME NEW i \in CommitsIn(v), NEW j \in CommitsIn(v), i < j
        PROVE  v[i].gen < v[j].gen /\ v[i].cid < v[j].cid
    <3>1. i \in 1..n /\ j \in 1..n
      BY <1>1, CommitFields
    <3>2. i \in CommitsIn(w)
      BY SMTT(20), <1>1, <1>4, <2>3, <3>1
    <3>3. CASE j = n
      BY <1>1, <1>3, <1>6, <3>2, <3>3
    <3>4. CASE j # n
      BY <1>3, <1>4, <1>6, <2>3, <3>2, <3>4 DEF WalOK
    <3> QED
      BY <3>3, <3>4
  <2> QED
    BY <2>2, <2>3 DEF WalOK
<1> HIDE DEF n
<1> QED
  BY <1>1, <1>2, <1>3, <1>4, <1>5, <1>6 DEF v, n

\* What reconcile_wal leaves: every envelope, and nothing behind the last.
LEMMA ReconciledLog ==
    ASSUME NEW w \in Seq(Rec)
    PROVE  /\ Reconciled(w) \in Seq(Rec) /\ Begins(Reconciled(w), w)
           /\ CommitsIn(Reconciled(w)) = CommitsIn(w)
           /\ TailMuts(Reconciled(w)) = << >>
           /\ \A a \in FrameRec : Replayed(Reconciled(w), a) = Replayed(w, a)
<1> DEFINE p == LastCommit(w)
           v == Reconciled(w)
<1>0. Len(w) \in Nat /\ Len(w) + 1 \in Nat
  BY SMTT(20)
<1>1. /\ p \in 0..Len(w)
      /\ p # 0 => p \in CommitsIn(w)
      /\ \A i \in CommitsIn(w) : i <= p
  BY <1>0, PrevCommitIs, TailIs DEF LastCommit
<1>2. v = SubSeq(w, 1, p)
  BY DEF Reconciled, LastCommit
<1> HIDE DEF p, v
<1>3. v \in Seq(Rec) /\ Len(v) = p /\ Begins(v, w)
  BY <1>1, <1>2, PrefixBegins
<1>4. CommitsIn(v) = CommitsIn(w)
  BY <1>1, <1>3, BeginsCommits
<1>5. TailMuts(v) = << >>
  <2> DEFINE q == LastCommit(v)
  <2>1. q \in 0..Len(v) /\ \A i \in CommitsIn(v) : i <= q
    BY <1>3, TailIs
  <2>2. TailMuts(v) \in Content /\ Len(TailMuts(v)) = Len(v) - q
    BY <1>3, TailIs
  <2> HIDE DEF q
  <2>3. q = p
    BY SMTT(20), <1>1, <1>3, <1>4, <2>1
  <2>4. Len(TailMuts(v)) = 0
    BY SMTT(20), <1>1, <1>3, <2>2, <2>3
  <2> QED
    BY <2>2, <2>4, EmptySeq DEF Content
<1>6. ASSUME NEW a \in FrameRec PROVE Replayed(v, a) = Replayed(w, a)
  <2>1. ASSUME NEW i \in DOMAIN w, i > Len(v), Ahead(w[i], a) PROVE FALSE
    <3>1. i \in CommitsIn(w) /\ i \in 1..Len(w)
      BY SMTT(20), <2>1 DEF Ahead, CommitsIn
    <3> QED
      BY SMTT(20), <1>1, <1>3, <2>1, <3>1
  <2> QED
    BY <1>3, <2>1, ReplayQuiet
<1> QED
  BY <1>3, <1>4, <1>5, <1>6 DEF v

\* The empty log is well-formed, agrees with every frame and replays to the
\* content of the frame.
LEMMA EmptyLog ==
    /\ << >> \in Seq(Rec) /\ CommitsIn(<< >>) = {} /\ WalOK(<< >>)
    /\ TailMuts(<< >>) = << >>
    /\ Reconciled(<< >>) = << >>
    /\ \A a : Agree(<< >>, a)
    /\ \A g : UpTo(<< >>, g)
    /\ \A a \in FrameRec : Replayed(<< >>, a) = a.content
<1> DEFINE e == << >>
<1>1. e \in Seq(Rec) /\ Len(e) = 0 /\ CommitsIn(e) = {}
  BY SMTT(20) DEF CommitsIn
<1>2. WalOK(e) /\ (\A a : Agree(e, a)) /\ (\A g : UpTo(e, g))
  BY <1>1 DEF WalOK, Agree, UpTo
<1> HIDE DEF e
<1>3. TailMuts(e) = << >>
  <2>1. LastCommit(e) \in 0..Len(e) /\ TailMuts(e) \in Content /\ Len(TailMuts(e)) = Len(e) - LastCommit(e)
    BY <1>1, TailIs
  <2>2. Len(TailMuts(e)) = 0
    BY SMTT(20), <1>1, <2>1
  <2> QED
    BY <2>1, <2>2, EmptySeq DEF Content
<1>4. Reconciled(e) = e
  <2>1. Reconciled(e) \in Seq(Rec) /\ Begins(Reconciled(e), e)
    BY <1>1, ReconciledLog
  <2>2. Len(Reconciled(e)) = 0
    BY SMTT(20), <1>1, <2>1 DEF Begins
  <2> QED
    BY <1>1, <2>1, <2>2, EmptySeq
<1>5. ASSUME NEW a \in FrameRec PROVE Replayed(e, a) = a.content
  BY <1>1, <1>2, PublishedReplay
<1> QED
  BY <1>1, <1>2, <1>3, <1>4, <1>5 DEF e

\* The newest generation is the last frame of a log whose generations ascend.
Ascending(l) == \A i, j \in DOMAIN l : i < j => l[i].gen < l[j].gen

\* The newest frame of a log whose generations ascend is its last one.
LEMMA AuthorityIsLast ==
    ASSUME NEW l \in Seq(FrameRec), l # << >>, Ascending(l)
    PROVE  Authority(l) = l[Len(l)]
<1> DEFINE P(i) == \A j \in DOMAIN l : l[j].gen <= l[i].gen
           n == Len(l)
<1>1. n \in DOMAIN l /\ DOMAIN l = 1..n /\ n \in Nat
  BY SMTT(20), EmptySeq
<1>2. \A i \in DOMAIN l : l[i].gen \in Nat
  <2>1. \A r \in FrameRec : r.gen \in Nat
    BY DEF FrameRec
  <2>2. \A i \in 1..n : l[i] \in FrameRec
    BY ElementOfSeq
  <2> QED
    BY <1>1, <2>1, <2>2
<1>3. P(n)
  BY SMTT(20), <1>1, <1>2 DEF Ascending
<1>4. ASSUME NEW i \in DOMAIN l, P(i) PROVE i = n
  <2>1. l[n].gen <= l[i].gen /\ l[i].gen \in Nat /\ l[n].gen \in Nat
    BY <1>1, <1>2, <1>4
  <2>2. i < n => l[i].gen < l[n].gen
    BY <1>1 DEF Ascending
  <2> QED
    BY SMTT(20), <1>1, <2>1, <2>2
<1> HIDE DEF P
<1>5. (CHOOSE i \in DOMAIN l : P(i)) = n
  BY <1>1, <1>3, <1>4
<1> QED
  BY <1>5 DEF Authority, P

(***************************************************************************)
(* A WAL w, forced up to s, beside the frames a, which is forced, and z,   *)
(* which is the newest: what fits, and which contents a crash can reveal.  *)
(***************************************************************************)
Newer(a, z) == a \in FrameRec /\ z \in FrameRec /\ (z = a \/ a.gen < z.gen)

Fits(w, s, gone, a, z) ==
    /\ w \in Seq(Rec) /\ WalOK(w) /\ s \in 0..Len(w) /\ gone \in BOOLEAN
    /\ Newer(a, z)
    /\ Agree(w, a) /\ Agree(w, z)
    /\ gone => UpTo(w, a.gen)
    /\ z # a => UpTo(w, z.gen)

Reveals(w, s, a, z) ==
    {Replayed(SubSeq(w, 1, k), a) : k \in s..Len(w)} \cup (IF z = a THEN {} ELSE {z.content})

\* The fields of a frame.
LEMMA FrameFields ==
    ASSUME NEW a \in FrameRec
    PROVE  a.gen \in Nat /\ a.cid \in Nat /\ a.muts \in Content /\ a.content \in Content
BY DEF FrameRec

\* What one generation publishes, a later one does.
LEMMA UpToMore ==
    ASSUME NEW w \in Seq(Rec), NEW g \in Nat, NEW h \in Nat, g <= h, UpTo(w, g)
    PROVE  UpTo(w, h)
<1>1. ASSUME NEW i \in CommitsIn(w) PROVE w[i].gen <= h
  <2>1. w[i].gen \in Nat /\ w[i].gen <= g
    BY CommitFields DEF UpTo
  <2> QED
    BY SMTT(20), <2>1
<1> QED
  BY <1>1 DEF UpTo

\* The whole log replays to something a crash can reveal.
LEMMA FitsMember ==
    ASSUME NEW w, NEW s, NEW gone, NEW a, NEW z, Fits(w, s, gone, a, z)
    PROVE  /\ Replayed(w, a) \in Reveals(w, s, a, z)
           /\ Reveals(w, s, a, z) \subseteq Content
           /\ gone => Replayed(w, a) = a.content
           /\ \A k \in s..Len(w) : SubSeq(w, 1, k) \in Seq(Rec)
<1>1. w \in Seq(Rec) /\ Len(w) \in Nat /\ s \in 0..Len(w) /\ a \in FrameRec /\ z \in FrameRec
  BY SMTT(20) DEF Fits, Newer
<1>2. Len(w) \in s..Len(w) /\ SubSeq(w, 1, Len(w)) = w
  BY SMTT(20), <1>1, SubSeqFull
<1>3. Replayed(w, a) \in Reveals(w, s, a, z)
  BY <1>2 DEF Reveals
<1>4. ASSUME NEW k \in s..Len(w)
      PROVE  SubSeq(w, 1, k) \in Seq(Rec) /\ Replayed(SubSeq(w, 1, k), a) \in Content
  <2>1. SubSeq(w, 1, k) \in Seq(Rec)
    BY SMTT(20), <1>1, k \in 0..Len(w), PrefixBegins
  <2> QED
    BY <1>1, <2>1, ReplayedContent
<1>5. Reveals(w, s, a, z) \subseteq Content
  BY <1>1, <1>4, FrameFields DEF Reveals
<1>6. gone => Replayed(w, a) = a.content
  BY <1>1, PublishedReplay DEF Fits
<1> QED
  BY <1>3, <1>4, <1>5, <1>6

\* When every envelope is published, only the published content.
LEMMA FitsPublished ==
    ASSUME NEW w, NEW s, NEW gone, NEW a, Fits(w, s, gone, a, a), UpTo(w, a.gen)
    PROVE  /\ Reveals(w, s, a, a) = {a.content} /\ Replayed(w, a) = a.content
           /\ \A h \in BOOLEAN : Fits(w, s, h, a, a)
<1>1. w \in Seq(Rec) /\ Len(w) \in Nat /\ s \in 0..Len(w) /\ a \in FrameRec
  BY SMTT(20) DEF Fits, Newer
<1>2. ASSUME NEW k \in s..Len(w) PROVE Replayed(SubSeq(w, 1, k), a) = a.content
  <2>1. k \in 0..Len(w)
    BY SMTT(20), <1>1
  <2>2. SubSeq(w, 1, k) \in Seq(Rec) /\ Begins(SubSeq(w, 1, k), w)
    BY <1>1, <2>1, PrefixBegins
  <2>3. UpTo(SubSeq(w, 1, k), a.gen)
    BY <1>1, <2>2, BeginsOK
  <2> QED
    BY <1>1, <2>2, <2>3, PublishedReplay
<1>3. Len(w) \in s..Len(w)
  BY SMTT(20), <1>1
<1>4. Reveals(w, s, a, a) = {a.content}
  BY <1>2, <1>3 DEF Reveals
<1>5. Replayed(w, a) = a.content
  BY <1>1, PublishedReplay
<1>6. ASSUME NEW h \in BOOLEAN PROVE Fits(w, s, h, a, a)
  BY DEF Fits
<1> QED
  BY <1>4, <1>5, <1>6

\* An empty WAL fits every frame and reveals its content.
LEMMA FitsEmpty ==
    ASSUME NEW a \in FrameRec
    PROVE  /\ Fits(<< >>, 0, FALSE, a, a) /\ Reveals(<< >>, 0, a, a) = {a.content}
           /\ UpTo(<< >>, a.gen)
<1> DEFINE e == << >>
<1>1. e \in Seq(Rec) /\ WalOK(e) /\ 0 \in 0..Len(e) /\ Agree(e, a) /\ UpTo(e, a.gen)
  BY SMTT(20), EmptyLog
<1> HIDE DEF e
<1>2. Fits(e, 0, FALSE, a, a)
  BY <1>1 DEF Fits, Newer
<1>3. Reveals(e, 0, a, a) = {a.content}
  BY <1>1, <1>2, FitsPublished
<1> QED
  BY <1>1, <1>2, <1>3 DEF e

\* Forcing more of the log only rules contents out.
LEMMA FitsSync ==
    ASSUME NEW w, NEW s, NEW gone, NEW a, NEW z, Fits(w, s, gone, a, z), NEW t \in s..Len(w)
    PROVE  Fits(w, t, gone, a, z) /\ Reveals(w, t, a, z) \subseteq Reveals(w, s, a, z)
<1>1. w \in Seq(Rec) /\ Len(w) \in Nat /\ s \in 0..Len(w)
  BY SMTT(20) DEF Fits
<1>2. t \in 0..Len(w) /\ t..Len(w) \subseteq s..Len(w)
  BY SMTT(20), <1>1
<1>3. Fits(w, t, gone, a, z)
  BY <1>2 DEF Fits
<1> QED
  BY <1>2, <1>3 DEF Reveals

\* A prefix of a prefix.
LEMMA PrefixOfBeginning ==
    ASSUME NEW w \in Seq(Rec), NEW v \in Seq(Rec), Begins(w, v), NEW k \in 0..Len(w)
    PROVE  SubSeq(v, 1, k) = SubSeq(w, 1, k) /\ k \in 0..Len(v)
<1>1. k \in 0..Len(v)
  BY SMTT(20) DEF Begins
<1>2. /\ SubSeq(v, 1, k) \in Seq(Rec) /\ Len(SubSeq(v, 1, k)) = k /\ Begins(SubSeq(v, 1, k), v)
      /\ SubSeq(w, 1, k) \in Seq(Rec) /\ Len(SubSeq(w, 1, k)) = k /\ Begins(SubSeq(w, 1, k), w)
  BY <1>1, PrefixBegins
<1>3. \A i \in 1..k : SubSeq(v, 1, k)[i] = SubSeq(w, 1, k)[i]
  BY SMTT(20), <1>2 DEF Begins
<1> QED
  BY <1>1, <1>2, <1>3, SeqEqual

\* Appending mutation records reveals nothing new.
LEMMA FitsMuts ==
    ASSUME NEW w, NEW s, NEW a, Fits(w, s, FALSE, a, a), NEW ms \in Seq(MutRec),
           NEW t \in {s, Len(w), Len(w) + Len(ms)}
    PROVE  /\ Fits(w \o ms, t, FALSE, a, a)
           /\ Reveals(w \o ms, t, a, a) \subseteq Reveals(w, s, a, a)
           /\ Replayed(w \o ms, a) = Replayed(w, a)
<1> DEFINE v == w \o ms
<1>1. /\ w \in Seq(Rec) /\ Len(w) \in Nat /\ Len(ms) \in Nat /\ s \in 0..Len(w)
      /\ a \in FrameRec /\ WalOK(w) /\ Agree(w, a)
  BY SMTT(20) DEF Fits, Newer
<1>2. /\ v \in Seq(Rec) /\ Len(v) = Len(w) + Len(ms) /\ Begins(w, v)
      /\ WalOK(v) /\ Agree(v, a)
  BY <1>1, MutsAppended
<1>3. \A k \in Len(w)..(Len(w) + Len(ms)) : Replayed(SubSeq(v, 1, k), a) = Replayed(w, a)
  BY <1>1, MutsReplay
<1> HIDE DEF v
<1>4. t \in s..Len(v) /\ t \in Nat /\ s \in Nat
  BY SMTT(20), <1>1, <1>2
<1>5. Fits(v, t, FALSE, a, a)
  BY SMTT(20), <1>1, <1>2, <1>4 DEF Fits, Newer
<1>6. Replayed(v, a) = Replayed(w, a)
  <2>1. Len(v) \in Len(w)..(Len(w) + Len(ms)) /\ SubSeq(v, 1, Len(v)) = v
    BY SMTT(20), <1>1, <1>2, SubSeqFull
  <2>2. Replayed(SubSeq(v, 1, Len(v)), a) = Replayed(w, a)
    BY <1>3, <2>1
  <2> QED
    BY <2>1, <2>2
<1>7. ASSUME NEW k \in t..Len(v) PROVE Replayed(SubSeq(v, 1, k), a) \in Reveals(w, s, a, a)
  <2>1. k \in Nat /\ k \in s..Len(v)
    BY SMTT(20), <1>1, <1>2, <1>4
  <2>2. CASE k <= Len(w)
    <3>1. k \in 0..Len(w) /\ k \in s..Len(w)
      BY SMTT(20), <1>1, <2>1, <2>2
    <3>2. SubSeq(v, 1, k) = SubSeq(w, 1, k)
      BY <1>1, <1>2, <3>1, PrefixOfBeginning
    <3> QED
      BY <3>1, <3>2 DEF Reveals
  <2>3. CASE ~(k <= Len(w))
    <3>1. k \in Len(w)..(Len(w) + Len(ms))
      BY SMTT(20), <1>1, <1>2, <2>1, <2>3
    <3>2. Replayed(SubSeq(v, 1, k), a) = Replayed(w, a)
      BY <1>3, <3>1
    <3> QED
      BY <3>2, FitsMember
  <2> QED
    BY <2>2, <2>3
<1>8. Reveals(v, t, a, a) \subseteq Reveals(w, s, a, a)
  BY <1>7 DEF Reveals
<1> QED
  BY <1>5, <1>6, <1>8 DEF v

\* An envelope that may be appended behind w, over the forced frame a, and
\* what it adds to the outcomes.
Follows(c, w, a) ==
    /\ c.muts = TailMuts(w) /\ a.gen < c.gen /\ a.cid < c.cid
    /\ \A i \in CommitsIn(w) : w[i].gen < c.gen /\ w[i].cid < c.cid
OneMore(w, c, s, a) ==
    /\ Fits(Append(w, c), s, FALSE, a, a)
    /\ Replayed(Append(w, c), a) = Replayed(w, a) \o c.muts
    /\ Reveals(Append(w, c), s, a, a) = Reveals(w, s, a, a) \cup {Replayed(w, a) \o c.muts}

\* Appending the envelope of the tail adds one content.
LEMMA FitsCommit ==
    ASSUME NEW w, NEW s, NEW a, Fits(w, s, FALSE, a, a), NEW c \in CommitRec, Follows(c, w, a)
    PROVE  OneMore(w, c, s, a)
<1> DEFINE v == Append(w, c)
           n == Len(w) + 1
<1>0. /\ c.muts = TailMuts(w) /\ a.gen < c.gen /\ a.cid < c.cid
      /\ \A i \in CommitsIn(w) : w[i].gen < c.gen /\ w[i].cid < c.cid
  BY DEF Follows
<1>1. /\ w \in Seq(Rec) /\ Len(w) \in Nat /\ s \in 0..Len(w)
      /\ a \in FrameRec /\ WalOK(w) /\ Agree(w, a)
  BY SMTT(20) DEF Fits, Newer
<1>2. c \in Rec /\ c.gen \in Nat /\ c.cid \in Nat /\ Ahead(c, a)
  BY <1>0 DEF Rec, CommitRec, Ahead
<1>3. /\ v \in Seq(Rec) /\ Len(v) = n /\ Begins(w, v)
      /\ CommitsIn(v) = CommitsIn(w) \cup {n}
      /\ v[n] = c
      /\ \A i \in CommitsIn(w) : v[i] = w[i]
      /\ WalOK(v)
  BY <1>0, <1>1, CommitAppended
<1>4. Replayed(v, a) = Replayed(w, a) \o c.muts
  BY <1>1, <1>2, ReplayStep
<1> HIDE DEF v
<1>5. Agree(v, a)
  <2>1. ASSUME NEW i \in CommitsIn(v)
        PROVE  /\ v[i].gen < a.gen => v[i].cid <= a.cid
               /\ v[i].gen = a.gen => v[i].cid = a.cid /\ v[i].muts = a.muts
               /\ v[i].gen > a.gen => v[i].cid > a.cid
    <3>1. CASE i \in CommitsIn(w)
      BY <1>1, <1>3, <3>1 DEF Agree
    <3>2. CASE i = n
      BY SMTT(20), <1>0, <1>1, <1>2, <1>3, <3>2, FrameFields
    <3> QED
      BY <1>3, <3>1, <3>2
  <2> QED
    BY <2>1 DEF Agree
<1>6. Fits(v, s, FALSE, a, a)
  <2>1. s \in 0..Len(v)
    BY SMTT(20), <1>1, <1>3
  <2> QED
    BY <1>1, <1>3, <1>5, <2>1 DEF Fits, Newer
<1>7. s..Len(v) = (s..Len(w)) \cup {n}
  BY SMTT(20), <1>1, <1>3
<1>8. \A k \in s..Len(w) : SubSeq(v, 1, k) = SubSeq(w, 1, k)
  <2>1. s..Len(w) \subseteq 0..Len(w)
    BY SMTT(20), <1>1
  <2> QED
    BY <1>1, <1>3, <2>1, PrefixOfBeginning
<1>9. SubSeq(v, 1, n) = v
  BY <1>3, SubSeqFull
<1>10. Reveals(v, s, a, a) = Reveals(w, s, a, a) \cup {Replayed(v, a)}
  <2> HIDE DEF n
  <2> QED
    BY <1>7, <1>8, <1>9 DEF Reveals
<1> QED
  BY <1>4, <1>6, <1>10 DEF v, OneMore

\* A new frame that publishes every envelope adds its content.
LEMMA FitsFrame ==
    ASSUME NEW w, NEW s, NEW gone, NEW a, Fits(w, s, gone, a, a),
           NEW f \in FrameRec, a.gen < f.gen, Agree(w, f), UpTo(w, f.gen)
    PROVE  /\ Fits(w, s, gone, a, f) /\ f # a
           /\ Reveals(w, s, a, f) = Reveals(w, s, a, a) \cup {f.content}
<1>1. f # a
  BY SMTT(20), FrameFields DEF Fits, Newer
<1> QED
  BY <1>1 DEF Fits, Newer, Reveals

\* Forcing it leaves its content alone.
LEMMA FitsForce ==
    ASSUME NEW w, NEW s, NEW gone, NEW a, NEW z, Fits(w, s, gone, a, z)
    PROVE  /\ Fits(w, s, gone, z, z)
           /\ Reveals(w, s, z, z) \subseteq Reveals(w, s, a, z)
           /\ z # a => Reveals(w, s, z, z) = {z.content} /\ Replayed(w, z) = z.content
<1>1. CASE z = a
  BY <1>1
<1>2. CASE z # a
  <2>1. w \in Seq(Rec) /\ a.gen \in Nat /\ z.gen \in Nat /\ a.gen <= z.gen /\ UpTo(w, z.gen)
    BY SMTT(20), <1>2, FrameFields DEF Fits, Newer
  <2>2. Fits(w, s, gone, z, z)
    BY <2>1 DEF Fits, Newer
  <2>3. Reveals(w, s, z, z) = {z.content} /\ Replayed(w, z) = z.content
    BY <2>1, <2>2, FitsPublished
  <2> QED
    BY <1>2, <2>2, <2>3 DEF Reveals
<1> QED
  BY <1>1, <1>2

\* What a power loss leaves fits, and reveals one of the contents.
LEMMA FitsSurvivor ==
    ASSUME NEW w, NEW s, NEW gone, NEW a, NEW z, Fits(w, s, gone, a, z), NEW b \in {a, z},
           NEW v, \/ \E k \in s..Len(w) : v = SubSeq(w, 1, k)
                  \/ gone /\ v = << >>
    PROVE  /\ Fits(v, Len(v), FALSE, b, b)
           /\ Reveals(v, Len(v), b, b) \subseteq Reveals(w, s, a, z)
<1>1. /\ w \in Seq(Rec) /\ Len(w) \in Nat /\ s \in 0..Len(w) /\ WalOK(w)
      /\ Agree(w, a) /\ Agree(w, z) /\ a \in FrameRec /\ z \in FrameRec
  BY SMTT(20) DEF Fits, Newer
<1>2. v \in Seq(Rec) /\ Begins(v, w) /\ Len(v) \in Nat
  <2>1. CASE v = << >>
    BY SMTT(20), <1>1, <2>1 DEF Begins
  <2>2. ASSUME NEW k \in s..Len(w), v = SubSeq(w, 1, k) PROVE v \in Seq(Rec) /\ Begins(v, w)
    BY SMTT(20), <1>1, <2>2, k \in 0..Len(w), PrefixBegins
  <2> QED
    BY SMTT(20), <2>1, <2>2
<1>3. /\ WalOK(v) /\ Agree(v, b)
      /\ \A g : UpTo(w, g) => UpTo(v, g)
  BY <1>1, <1>2, BeginsOK
<1>4. Fits(v, Len(v), FALSE, b, b)
  BY SMTT(20), <1>1, <1>2, <1>3 DEF Fits, Newer
<1>5. Reveals(v, Len(v), b, b) = {Replayed(v, b)}
  <2>1. Len(v)..Len(v) = {Len(v)} /\ SubSeq(v, 1, Len(v)) = v
    BY SMTT(20), <1>2, SubSeqFull
  <2> QED
    BY <2>1 DEF Reveals
<1>6. Replayed(v, b) \in Reveals(w, s, a, z)
  <2>1. CASE b # a
    <3>1. b = z /\ z # a /\ UpTo(v, z.gen)
      BY <1>3, <2>1 DEF Fits
    <3>2. Replayed(v, z) = z.content
      BY <1>1, <1>2, <3>1, PublishedReplay
    <3> QED
      BY <3>1, <3>2 DEF Reveals
  <2>2. CASE b = a /\ gone /\ v = << >>
    <3>1. Replayed(v, a) = a.content /\ Replayed(w, a) = a.content
      BY <1>1, <2>2, EmptyLog, FitsMember
    <3> QED
      BY <2>2, <3>1, FitsMember
  <2>3. CASE b = a /\ \E k \in s..Len(w) : v = SubSeq(w, 1, k)
    BY <2>3 DEF Reveals
  <2> QED
    BY <2>1, <2>2, <2>3
<1> QED
  BY <1>4, <1>5, <1>6

\* Cutting the tail off changes nothing recovery looks at.
LEMMA FitsReconciled ==
    ASSUME NEW w, NEW s, NEW a, Fits(w, s, FALSE, a, a), NEW t,
           t = IF Reconciled(w) = w THEN s ELSE Len(Reconciled(w))
    PROVE  /\ Fits(Reconciled(w), t, FALSE, a, a)
           /\ Reveals(Reconciled(w), t, a, a) \subseteq Reveals(w, s, a, a)
           /\ Replayed(Reconciled(w), a) = Replayed(w, a)
<1> DEFINE v == Reconciled(w)
<1>1. w \in Seq(Rec) /\ WalOK(w) /\ Agree(w, a) /\ a \in FrameRec
  BY DEF Fits, Newer
<1>2. v \in Seq(Rec) /\ Begins(v, w) /\ Replayed(v, a) = Replayed(w, a) /\ Len(v) \in Nat
  BY SMTT(20), <1>1, ReconciledLog
<1>3. WalOK(v) /\ Agree(v, a)
  BY <1>1, <1>2, BeginsOK
<1> HIDE DEF v
<1>4. CASE v = w
  BY <1>4 DEF v
<1>5. CASE v # w
  <2>1. t = Len(v)
    BY <1>5 DEF v
  <2>2. Fits(v, t, FALSE, a, a)
    BY SMTT(20), <1>1, <1>2, <1>3, <2>1 DEF Fits, Newer
  <2>3. Reveals(v, t, a, a) = {Replayed(v, a)}
    <3>1. Len(v)..Len(v) = {Len(v)} /\ SubSeq(v, 1, Len(v)) = v
      BY SMTT(20), <1>2, SubSeqFull
    <3> QED
      BY <2>1, <3>1 DEF Reveals
  <2>4. Replayed(w, a) \in Reveals(w, s, a, a)
    BY FitsMember
  <2> QED
    BY <1>2, <2>2, <2>3, <2>4 DEF v
<1> QED
  BY <1>4, <1>5

(***************************************************************************)
(* A metadata log l, forced up to frame s.                                 *)
(***************************************************************************)
LogOK(l, s) ==
    /\ l \in Seq(FrameRec) /\ l # << >> /\ Ascending(l)
    /\ s \in 1..Len(l) /\ Len(l) <= s + 1

\* The forced frame and the newest one: they differ by at most one frame,
\* and the newest is the authority.
LEMMA LogFrames ==
    ASSUME NEW l, NEW s, LogOK(l, s)
    PROVE  /\ s \in Nat /\ Len(l) \in Nat
           /\ Newer(l[s], l[Len(l)]) /\ Authority(l) = l[Len(l)]
           /\ l[s] = l[Len(l)] <=> s = Len(l)
           /\ s # Len(l) => Len(l) = s + 1
<1>1. l \in Seq(FrameRec) /\ l # << >> /\ Ascending(l) /\ s \in 1..Len(l)
  BY DEF LogOK
<1>2. Len(l) \in Nat /\ Len(l) \in 1..Len(l) /\ s \in Nat /\ DOMAIN l = 1..Len(l)
  BY SMTT(20), <1>1, LenProperties
<1>3. l[s] \in FrameRec /\ l[Len(l)] \in FrameRec
  BY <1>1, <1>2, ElementOfSeq
<1>4. s # Len(l) => l[s].gen < l[Len(l)].gen
  <2>1. s # Len(l) => s < Len(l)
    <3>1. \A m, n \in Nat : n <= m /\ n # m => n < m
      BY SMTT(20)
    <3>2. s <= Len(l)
      BY SMTT(20), <1>1
    <3> QED
      BY <1>2, <3>1, <3>2
  <2> QED
    BY <1>1, <1>2, <2>1 DEF Ascending
<1>5. l[s].gen \in Nat
  BY <1>3, FrameFields
<1>6. Newer(l[s], l[Len(l)]) /\ (l[s] = l[Len(l)] <=> s = Len(l))
  BY SMTT(20), <1>3, <1>4, <1>5 DEF Newer
<1>7. s # Len(l) => Len(l) = s + 1
  <2>1. Len(l) <= s + 1 /\ s <= Len(l)
    BY SMTT(20), <1>1 DEF LogOK
  <2>2. \A m, n \in Nat : m <= n + 1 /\ n <= m /\ n # m => m = n + 1
    BY SMTT(20)
  <2> QED
    BY <1>2, <2>1, <2>2
<1> QED
  BY <1>1, <1>2, <1>6, <1>7, AuthorityIsLast

\* A metadata log cut by a power loss is well-formed, and selects the forced
\* frame or the newest.
LEMMA LogSurvivor ==
    ASSUME NEW l, NEW s, LogOK(l, s), NEW k \in s..Len(l)
    PROVE  /\ LogOK(SubSeq(l, 1, k), k) /\ Len(SubSeq(l, 1, k)) = k
           /\ SubSeq(l, 1, k)[k] = l[k] /\ l[k] \in {l[s], l[Len(l)]}
           /\ Authority(SubSeq(l, 1, k)) = l[k]
<1> DEFINE m == SubSeq(l, 1, k)
<1>1. /\ l \in Seq(FrameRec) /\ Ascending(l) /\ Len(l) \in Nat /\ DOMAIN l = 1..Len(l)
      /\ s \in 1..Len(l) /\ s \in Nat
  BY LogFrames, LenProperties DEF LogOK
<1>2. k \in 1..Len(l) /\ k \in Nat /\ k \in 1..k
  BY SMTT(20), <1>1
<1>3. \A i \in 1..k : l[i] \in FrameRec
  BY SMTT(20), <1>1, <1>2, ElementOfSeq
<1>4. m \in Seq(FrameRec) /\ Len(m) = k /\ \A i \in 1..k : m[i] = l[i]
  BY SMTT(20), <1>1, <1>2, <1>3, SubSeqProperties
<1> HIDE DEF m
<1>5. m # << >> /\ DOMAIN m = 1..k
  BY SMTT(20), <1>2, <1>4, EmptySeq, LenProperties
<1>6. Ascending(m)
  BY SMTT(20), <1>1, <1>2, <1>4, <1>5 DEF Ascending
<1>7. Authority(m) = m[k]
  BY <1>4, <1>5, <1>6, AuthorityIsLast
<1>8. k = s \/ k = Len(l)
  <2>1. s # Len(l) => Len(l) = s + 1
    BY LogFrames
  <2>2. \A j, h, n \in Nat : n <= j /\ j <= h /\ (h = n \/ h = n + 1) => j = n \/ j = h
    BY SMTT(20)
  <2>3. s <= k /\ k <= Len(l)
    BY SMTT(20), <1>1
  <2> QED
    BY <1>1, <1>2, <2>1, <2>2, <2>3
<1>9. LogOK(m, k)
  BY SMTT(20), <1>2, <1>4, <1>5, <1>6 DEF LogOK
<1> QED
  BY <1>2, <1>4, <1>7, <1>8, <1>9 DEF m

\* A frame of a later generation may be appended to a forced log.
LEMMA LogAppend ==
    ASSUME NEW l, LogOK(l, Len(l)), NEW f \in FrameRec, l[Len(l)].gen < f.gen
    PROVE  /\ LogOK(Append(l, f), Len(l)) /\ Len(Append(l, f)) = Len(l) + 1
           /\ Append(l, f)[Len(l)] = l[Len(l)] /\ Append(l, f)[Len(l) + 1] = f
<1> DEFINE m == Append(l, f)
           n == Len(l)
<1>1. l \in Seq(FrameRec) /\ Ascending(l) /\ n \in Nat /\ DOMAIN l = 1..n /\ n \in 1..n
  BY LenProperties DEF LogOK
<1>2. /\ m \in Seq(FrameRec) /\ m # << >> /\ Len(m) = n + 1
      /\ \A i \in 1..n : m[i] = l[i]
      /\ m[n + 1] = f
  BY SMTT(20), <1>1, AppendProperties
<1> HIDE DEF m
<1>3. DOMAIN m = 1..(n + 1)
  BY <1>2, LenProperties
<1>4. ASSUME NEW i \in DOMAIN m, NEW j \in DOMAIN m, i < j PROVE m[i].gen < m[j].gen
  <2>1. i \in 1..n
    BY SMTT(20), <1>1, <1>3, <1>4
  <2>2. CASE j # n + 1
    BY SMTT(20), <1>1, <1>2, <1>3, <1>4, <2>1, <2>2 DEF Ascending
  <2>3. CASE j = n + 1
    <3>1. l[i] \in FrameRec /\ l[n] \in FrameRec
      BY <1>1, <2>1, ElementOfSeq
    <3>2. l[i].gen \in Nat /\ l[n].gen \in Nat /\ f.gen \in Nat
      BY <3>1, FrameFields
    <3>3. i = n \/ l[i].gen < l[n].gen
      BY SMTT(20), <1>1, <2>1 DEF Ascending
    <3> QED
      BY SMTT(20), <1>2, <2>1, <2>3, <3>2, <3>3
  <2> QED
    BY <2>2, <2>3
<1>5. LogOK(m, n)
  <2>1. n \in 1..Len(m) /\ Len(m) <= n + 1
    BY SMTT(20), <1>1, <1>2
  <2> QED
    BY <1>2, <1>4, <2>1 DEF LogOK, Ascending
<1> QED
  BY <1>1, <1>2, <1>5 DEF m

\* Forcing the log keeps it well-formed.
LEMMA LogForce ==
    ASSUME NEW l, NEW s, LogOK(l, s)
    PROVE  LogOK(l, Len(l))
<1>1. Len(l) \in 1..Len(l) /\ Len(l) <= Len(l) + 1
  BY SMTT(20), LogFrames DEF LogOK
<1> QED
  BY <1>1 DEF LogOK

(***************************************************************************)
(* What open() arrives at.                                                 *)
(***************************************************************************)
\* The file a power loss may leave of w, forced up to s.
Left(v, w, s, gone) == (\E k \in s..Len(w) : v = SubSeq(w, 1, k)) \/ (gone /\ v = << >>)

\* Whatever is left of the log, under either frame, its envelopes are
\* accepted and its replay is one of the contents the files reveal.
LEMMA Arrives ==
    ASSUME NEW w, NEW s, NEW gone, NEW a, NEW z, Fits(w, s, gone, a, z), NEW b \in {a, z},
           NEW v, Left(v, w, s, gone)
    PROVE  /\ AnalysisOK(v, b)
           /\ Replayed(Reconciled(v), b) \in Reveals(w, s, a, z)
<1>1. /\ Fits(v, Len(v), FALSE, b, b)
      /\ Reveals(v, Len(v), b, b) \subseteq Reveals(w, s, a, z)
  BY FitsSurvivor DEF Left
<1>2. v \in Seq(Rec) /\ WalOK(v) /\ Agree(v, b) /\ b \in FrameRec
  BY <1>1 DEF Fits, Newer
<1>3. Replayed(v, b) \in Reveals(v, Len(v), b, b)
  BY <1>1, FitsMember
<1>4. Replayed(Reconciled(v), b) = Replayed(v, b)
  BY <1>2, ReconciledLog
<1> QED
  BY <1>1, <1>2, <1>3, <1>4, Validated

\* Conversely, each content the files reveal is the replay of what may be
\* left of them.
LEMMA Arrived ==
    ASSUME NEW w, NEW s, NEW gone, NEW a, NEW z, Fits(w, s, gone, a, z),
           NEW c \in Reveals(w, s, a, z)
    PROVE  \E k \in s..Len(w) : \E b \in {a, z} : c = Replayed(Reconciled(SubSeq(w, 1, k)), b)
<1>1. w \in Seq(Rec) /\ Len(w) \in Nat /\ s \in 0..Len(w) /\ a \in FrameRec /\ z \in FrameRec
  BY SMTT(20) DEF Fits, Newer
<1>2. CASE \E k \in s..Len(w) : c = Replayed(SubSeq(w, 1, k), a)
  <2>1. PICK k \in s..Len(w) : c = Replayed(SubSeq(w, 1, k), a)
    BY <1>2
  <2>2. SubSeq(w, 1, k) \in Seq(Rec)
    BY FitsMember
  <2>3. c = Replayed(Reconciled(SubSeq(w, 1, k)), a)
    BY <1>1, <2>1, <2>2, ReconciledLog
  <2> QED
    BY <2>3
<1>3. CASE z # a /\ c = z.content
  <2>1. Replayed(w, z) = z.content
    BY SMTT(20), <1>3, FitsForce
  <2>2. Len(w) \in s..Len(w) /\ SubSeq(w, 1, Len(w)) = w
    BY SMTT(20), <1>1, SubSeqFull
  <2>3. c = Replayed(Reconciled(SubSeq(w, 1, Len(w))), z)
    BY <1>1, <1>3, <2>1, <2>2, ReconciledLog
  <2> QED
    BY <2>2, <2>3
<1> QED
  BY <1>2, <1>3 DEF Reveals

(***************************************************************************)
(* The inductive invariant: the files.                                     *)
(***************************************************************************)
\* The frame a power loss cannot take away, and the newest one.
Forced == log[logSynced]
Newest == log[Len(log)]

LogInv == LogOK(log, logSynced)
WalInv == Fits(wal, walSynced, walGone, Forced, Newest)

PageInv ==
    /\ data \subseteq Content /\ cached \subseteq Content
    /\ Forced.content \in data /\ Newest.content \in data

\* The contents open() may arrive at.
Reach == Reveals(wal, walSynced, Forced, Newest)

Extends(c, a) == \E t \in Content : c = a \o t

OutcomeInv ==
    /\ acked \in Content /\ points \subseteq Content /\ nextMut \in Nat
    /\ \A c \in Reach : Extends(c, acked) /\ c \in points

DiskInv == LogInv /\ WalInv /\ PageInv /\ OutcomeInv

(***************************************************************************)
(* The handle.                                                             *)
(***************************************************************************)
CommitKinds == {"flush", "group", "materialize"}
WriteKinds == CommitKinds \cup {"soft"}
Kinds == WriteKinds \cup {"recover", "maint"}

StepNames == {"wal", "walsync", "preflight", "data", "datasync", "commit", "frame",
              "framesync", "finish", "mfinish", "ack"}
JobRec == [kind : Kinds, todo : Seq(StepNames), gen : Nat, cid : Nat, muts : Content,
           content : Content]
CallRec == [op : {"none", "barrier", "batch", "flush", "close", "maint"}, group : Seq(Nat)]

\* The remaining steps are the end of the list.
Rest(kind, sync, todo) ==
    \E i \in 1..Len(Steps(kind, sync)) :
        todo = SubSeq(Steps(kind, sync), i, Len(Steps(kind, sync)))

\* Steps left once the pages are forced.
AfterPages(kind, sync) == IF kind \in CommitKinds THEN IF sync THEN 5 ELSE 4 ELSE 3
PagesLeft == AfterPages(job.kind, syncWrites)

\* Has the job appended its envelope, its frame, and forced the frame?
Committed ==
    /\ job # NoJob
    /\ \/ job.kind \in CommitKinds /\ Len(job.todo) < PagesLeft
       \/ job.kind = "soft" /\ Len(job.todo) < 3
Framed == job # NoJob /\ job.kind # "soft" /\ Len(job.todo) = 2
Finishing == job # NoJob /\ job.kind # "soft" /\ Len(job.todo) = 1

\* The part of the tree only memory holds.
Journaled == Committed /\ (fd = "unlinked" => Finishing)
Unjournaled == IF Journaled THEN << >> ELSE pend

TypeInv ==
    /\ st \in {"closed", "opening", "open", "fenced"}
    /\ tree \in Content /\ pend \in Content /\ buf \in Seq(MutRec) /\ envs \in Seq(Nat)
    /\ gen \in Nat /\ cid \in Nat /\ nextGen \in Nat /\ nextCid \in Nat /\ unframed \in Nat
    /\ reserved \in BOOLEAN /\ syncWrites \in BOOLEAN /\ fd \in {"none", "live", "unlinked"}
    /\ call \in CallRec
    /\ \/ job = NoJob
       \/ job \in JobRec /\ Rest(job.kind, syncWrites, job.todo)

\* Which publications and calls are under way, and what they imply.
CallInv ==
    /\ st = "opening" <=> job # NoJob /\ job.kind = "recover"
    /\ st \in {"closed", "fenced"} => job = NoJob /\ call = NoCall
    /\ st = "closed" => /\ pend = << >> /\ buf = << >> /\ envs = << >>
                        /\ unframed = 0 /\ ~ reserved /\ fd = "none"
    /\ st = "opening" => buf = << >> /\ call = NoCall
    /\ job # NoJob \/ call # NoCall => envs = << >>
    /\ job # NoJob /\ job.kind = "maint" => call.op = "maint"
    /\ job # NoJob /\ job.kind = "soft" => WalFirst /\ call.op \in {"barrier", "batch"}
    /\ job = NoJob /\ call # NoCall => /\ call.op \in {"close", "maint"}
                                       /\ pend = << >> /\ unframed = 0
    /\ job # NoJob /\ job.kind \in {"recover", "maint"} => pend = << >> /\ unframed = 0
    /\ job # NoJob /\ job.kind \in WriteKinds => job.muts = pend /\ reserved
    /\ job # NoJob /\ job.kind \in {"soft", "group"} /\ call.group # << >> => pend # << >>
    /\ st = "open" /\ envs # << >> => pend # << >>
    /\ st = "open" /\ (pend # << >> \/ unframed > 0) => reserved
    /\ fd = "unlinked" => CloseSyncFails

\* The frames the handle believes in.
FrameInv ==
    /\ latest = Forced
    /\ Framed <=> Newest # Forced
    /\ Framed => Newest = Frame(job.gen, job.cid, job.muts, job.content)
    /\ Finishing => Forced = Frame(job.gen, job.cid, job.muts, job.content)

\* What the tree holds beyond the files.
TreeInv ==
    /\ tree = Replayed(Live, Forced) \o Unjournaled
    /\ fd # "unlinked" => TailMuts(Live) \o MutsOf(buf) = Unjournaled
    /\ fd = "unlinked" => Live = << >>
    /\ job # NoJob => job.content = tree
    /\ Committed => job.content \in points /\ (walGone => fd = "unlinked")
    /\ job # NoJob /\ job.kind = "soft" /\ Len(job.todo) = 1 => walSynced = Len(wal)

\* Identities: of the handle, of the job, and of the envelopes in the WAL.
IdInv ==
    /\ gen < nextGen /\ cid < nextCid
    /\ ~ Finishing => /\ Forced.gen <= gen /\ Forced.cid <= cid
                      /\ unframed = 0 => Forced.gen = gen /\ Forced.cid = cid
    /\ job # NoJob => /\ gen < job.gen
                      /\ IF job.kind = "maint" THEN job.cid = cid ELSE cid < job.cid
    /\ job # NoJob /\ job.kind = "soft" =>
          IF Committed THEN job.gen < nextGen /\ job.cid < nextCid
          ELSE job.gen = nextGen /\ job.cid = nextCid
    /\ \A i \in CommitsIn(wal) :
          IF Committed \/ st = "opening"
          THEN /\ wal[i].gen <= job.gen /\ wal[i].cid <= job.cid
               /\ wal[i].gen = job.gen => wal[i].cid = job.cid /\ wal[i].muts = job.muts
          ELSE wal[i].gen <= gen /\ wal[i].cid <= cid

\* How far the pages of the job are.
JobPagesInv ==
    job # NoJob /\ job.kind # "soft" =>
        /\ Len(job.todo) <= PagesLeft + 1 => job.content \in cached \cup data
        /\ Len(job.todo) <= PagesLeft => job.content \in data

Running == st \in {"open", "opening"}
RunInv == FrameInv /\ TreeInv /\ IdInv /\ JobPagesInv

IInv == DiskInv /\ TypeInv /\ CallInv /\ (Running => RunInv)

(***************************************************************************)
(* The steps of a publication.                                             *)
(***************************************************************************)
\* Which step comes with how many left.
Stage(kind, sync, step, n) ==
    LET p == AfterPages(kind, sync)
    IN  \/ step = "wal" /\ kind \in CommitKinds /\ n > p + 3
        \/ step = "walsync" /\ kind \in {"recover"} \cup CommitKinds /\ n > p + 3
        \/ step = "walsync" /\ kind \in CommitKinds /\ n = 4 /\ p = 5
        \/ step = "walsync" /\ kind = "soft" /\ n = 2
        \/ step = "preflight" /\ kind # "soft" /\ n = p + 3
        \/ step = "data" /\ kind # "soft" /\ n = p + 2
        \/ step = "datasync" /\ kind # "soft" /\ n = p + 1
        \/ step = "commit" /\ kind \in CommitKinds /\ n = p
        \/ step = "commit" /\ kind = "soft" /\ n = 3
        \/ step = "frame" /\ kind # "soft" /\ n = 3
        \/ step = "framesync" /\ kind # "soft" /\ n = 2
        \/ step = "finish" /\ kind \in {"recover"} \cup CommitKinds /\ n = 1
        \/ step = "mfinish" /\ kind = "maint" /\ n = 1
        \/ step = "ack" /\ kind = "soft" /\ n = 1

\* Each list of steps is in the order Stage describes.
LEMMA StagesOf ==
    ASSUME NEW kind \in Kinds, NEW sync \in BOOLEAN
    PROVE  /\ Steps(kind, sync) \in Seq(StepNames)
           /\ Len(Steps(kind, sync)) > 2
           /\ kind # "soft" => Len(Steps(kind, sync)) >= AfterPages(kind, sync) + 3
           /\ kind = "soft" => Len(Steps(kind, sync)) = 3
           /\ \A i \in 1..Len(Steps(kind, sync)) :
                 Stage(kind, sync, Steps(kind, sync)[i], Len(Steps(kind, sync)) - i + 1)
<1> DEFINE Q(t) == /\ t \in Seq(StepNames) /\ Len(t) > 2
                   /\ kind # "soft" => Len(t) >= AfterPages(kind, sync) + 3
                   /\ kind = "soft" => Len(t) = 3
                   /\ \A i \in 1..Len(t) : Stage(kind, sync, t[i], Len(t) - i + 1)
<1> SUFFICES Q(Steps(kind, sync))
  OBVIOUS
<1>1. CASE kind \in CommitKinds /\ sync
  <2> DEFINE t == <<"wal", "walsync", "preflight", "data", "datasync", "commit",
                    "walsync", "frame", "framesync", "finish">>
  <2>1. Steps(kind, sync) = t
    BY <1>1 DEF Steps, CommitKinds
  <2>2. t \in Seq(StepNames) /\ Len(t) = 10
    BY SMTT(20) DEF StepNames
  <2>3. AfterPages(kind, sync) = 5 /\ kind \in CommitKinds /\ kind # "soft"
    BY <1>1 DEF AfterPages, CommitKinds
  <2>4. ASSUME NEW i \in 1..10 PROVE Stage(kind, sync, t[i], 10 - i + 1)
    <3>1. i \in {1, 2, 3, 4, 5, 6, 7, 8, 9, 10}
      BY SMTT(20)
    <3>2. CASE i = 1
      BY SMTT(20), <2>3, <3>2 DEF Stage
    <3>3. CASE i = 2
      BY SMTT(20), <2>3, <3>3 DEF Stage
    <3>4. CASE i = 3
      BY SMTT(20), <2>3, <3>4 DEF Stage
    <3>5. CASE i = 4
      BY SMTT(20), <2>3, <3>5 DEF Stage
    <3>6. CASE i = 5
      BY SMTT(20), <2>3, <3>6 DEF Stage
    <3>7. CASE i = 6
      BY SMTT(20), <2>3, <3>7 DEF Stage
    <3>8. CASE i = 7
      BY SMTT(20), <2>3, <3>8 DEF Stage
    <3>9. CASE i = 8
      BY SMTT(20), <2>3, <3>9 DEF Stage
    <3>10. CASE i = 9
      BY SMTT(20), <2>3, <3>10 DEF Stage
    <3>11. CASE i = 10
      BY SMTT(20), <2>3, <3>11 DEF Stage
    <3> QED
      BY <3>1, <3>2, <3>3, <3>4, <3>5, <3>6, <3>7, <3>8, <3>9, <3>10, <3>11
  <2> QED
    BY SMTT(20), <2>1, <2>2, <2>3, <2>4
<1>2. CASE kind \in CommitKinds /\ ~ sync
  <2> DEFINE t == <<"wal", "preflight", "data", "datasync", "commit",
                    "frame", "framesync", "finish">>
  <2>1. Steps(kind, sync) = t
    BY <1>2 DEF Steps, CommitKinds
  <2>2. t \in Seq(StepNames) /\ Len(t) = 8
    BY SMTT(20) DEF StepNames
  <2>3. AfterPages(kind, sync) = 4 /\ kind \in CommitKinds /\ kind # "soft"
    BY <1>2 DEF AfterPages, CommitKinds
  <2>4. ASSUME NEW i \in 1..8 PROVE Stage(kind, sync, t[i], 8 - i + 1)
    <3>1. i \in {1, 2, 3, 4, 5, 6, 7, 8}
      BY SMTT(20)
    <3>2. CASE i = 1
      BY SMTT(20), <2>3, <3>2 DEF Stage
    <3>3. CASE i = 2
      BY SMTT(20), <2>3, <3>3 DEF Stage
    <3>4. CASE i = 3
      BY SMTT(20), <2>3, <3>4 DEF Stage
    <3>5. CASE i = 4
      BY SMTT(20), <2>3, <3>5 DEF Stage
    <3>6. CASE i = 5
      BY SMTT(20), <2>3, <3>6 DEF Stage
    <3>7. CASE i = 6
      BY SMTT(20), <2>3, <3>7 DEF Stage
    <3>8. CASE i = 7
      BY SMTT(20), <2>3, <3>8 DEF Stage
    <3>9. CASE i = 8
      BY SMTT(20), <2>3, <3>9 DEF Stage
    <3> QED
      BY <3>1, <3>2, <3>3, <3>4, <3>5, <3>6, <3>7, <3>8, <3>9
  <2> QED
    BY SMTT(20), <2>1, <2>2, <2>3, <2>4
<1>3. CASE kind = "recover" /\ sync
  <2> DEFINE t == <<"walsync", "preflight", "data", "datasync", "frame", "framesync", "finish">>
  <2>1. Steps(kind, sync) = t
    BY <1>3 DEF Steps
  <2>2. t \in Seq(StepNames) /\ Len(t) = 7
    BY SMTT(20) DEF StepNames
  <2>3. AfterPages(kind, sync) = 3 /\ kind = "recover" /\ kind # "soft"
    BY <1>3 DEF AfterPages, CommitKinds
  <2>4. ASSUME NEW i \in 1..7 PROVE Stage(kind, sync, t[i], 7 - i + 1)
    <3>1. i \in {1, 2, 3, 4, 5, 6, 7}
      BY SMTT(20)
    <3>2. CASE i = 1
      BY SMTT(20), <2>3, <3>2 DEF Stage
    <3>3. CASE i = 2
      BY SMTT(20), <2>3, <3>3 DEF Stage
    <3>4. CASE i = 3
      BY SMTT(20), <2>3, <3>4 DEF Stage
    <3>5. CASE i = 4
      BY SMTT(20), <2>3, <3>5 DEF Stage
    <3>6. CASE i = 5
      BY SMTT(20), <2>3, <3>6 DEF Stage
    <3>7. CASE i = 6
      BY SMTT(20), <2>3, <3>7 DEF Stage
    <3>8. CASE i = 7
      BY SMTT(20), <2>3, <3>8 DEF Stage
    <3> QED
      BY <3>1, <3>2, <3>3, <3>4, <3>5, <3>6, <3>7, <3>8
  <2> QED
    BY SMTT(20), <2>1, <2>2, <2>3, <2>4
<1>4. CASE kind = "recover" /\ ~ sync
  <2> DEFINE t == <<"preflight", "data", "datasync", "frame", "framesync", "finish">>
  <2>1. Steps(kind, sync) = t
    BY <1>4 DEF Steps
  <2>2. t \in Seq(StepNames) /\ Len(t) = 6
    BY SMTT(20) DEF StepNames
  <2>3. AfterPages(kind, sync) = 3 /\ kind = "recover" /\ kind # "soft"
    BY <1>4 DEF AfterPages, CommitKinds
  <2>4. ASSUME NEW i \in 1..6 PROVE Stage(kind, sync, t[i], 6 - i + 1)
    <3>1. i \in {1, 2, 3, 4, 5, 6}
      BY SMTT(20)
    <3>2. CASE i = 1
      BY SMTT(20), <2>3, <3>2 DEF Stage
    <3>3. CASE i = 2
      BY SMTT(20), <2>3, <3>3 DEF Stage
    <3>4. CASE i = 3
      BY SMTT(20), <2>3, <3>4 DEF Stage
    <3>5. CASE i = 4
      BY SMTT(20), <2>3, <3>5 DEF Stage
    <3>6. CASE i = 5
      BY SMTT(20), <2>3, <3>6 DEF Stage
    <3>7. CASE i = 6
      BY SMTT(20), <2>3, <3>7 DEF Stage
    <3> QED
      BY <3>1, <3>2, <3>3, <3>4, <3>5, <3>6, <3>7
  <2> QED
    BY SMTT(20), <2>1, <2>2, <2>3, <2>4
<1>5. CASE kind = "maint"
  <2> DEFINE t == <<"preflight", "data", "datasync", "frame", "framesync", "mfinish">>
  <2>1. Steps(kind, sync) = t
    BY <1>5 DEF Steps
  <2>2. t \in Seq(StepNames) /\ Len(t) = 6
    BY SMTT(20) DEF StepNames
  <2>3. AfterPages(kind, sync) = 3 /\ kind = "maint" /\ kind # "soft"
    BY <1>5 DEF AfterPages, CommitKinds
  <2>4. ASSUME NEW i \in 1..6 PROVE Stage(kind, sync, t[i], 6 - i + 1)
    <3>1. i \in {1, 2, 3, 4, 5, 6}
      BY SMTT(20)
    <3>2. CASE i = 1
      BY SMTT(20), <2>3, <3>2 DEF Stage
    <3>3. CASE i = 2
      BY SMTT(20), <2>3, <3>3 DEF Stage
    <3>4. CASE i = 3
      BY SMTT(20), <2>3, <3>4 DEF Stage
    <3>5. CASE i = 4
      BY SMTT(20), <2>3, <3>5 DEF Stage
    <3>6. CASE i = 5
      BY SMTT(20), <2>3, <3>6 DEF Stage
    <3>7. CASE i = 6
      BY SMTT(20), <2>3, <3>7 DEF Stage
    <3> QED
      BY <3>1, <3>2, <3>3, <3>4, <3>5, <3>6, <3>7
  <2> QED
    BY SMTT(20), <2>1, <2>2, <2>3, <2>4
<1>6. CASE kind = "soft"
  <2> DEFINE t == <<"commit", "walsync", "ack">>
  <2>1. Steps(kind, sync) = t
    BY <1>6 DEF Steps
  <2>2. t \in Seq(StepNames) /\ Len(t) = 3
    BY SMTT(20) DEF StepNames
  <2>3. AfterPages(kind, sync) = 3 /\ kind = "soft"
    BY <1>6 DEF AfterPages, CommitKinds
  <2>4. ASSUME NEW i \in 1..3 PROVE Stage(kind, sync, t[i], 3 - i + 1)
    <3>1. i \in {1, 2, 3}
      BY SMTT(20)
    <3>2. CASE i = 1
      BY SMTT(20), <2>3, <3>2 DEF Stage
    <3>3. CASE i = 2
      BY SMTT(20), <2>3, <3>3 DEF Stage
    <3>4. CASE i = 3
      BY SMTT(20), <2>3, <3>4 DEF Stage
    <3> QED
      BY <3>1, <3>2, <3>3, <3>4
  <2> QED
    BY SMTT(20), <2>1, <2>2, <2>3, <2>4
<1> QED
  BY <1>1, <1>2, <1>3, <1>4, <1>5, <1>6 DEF Kinds, WriteKinds

\* A job in progress: its next step, and what is left after it.
LEMMA RestIs ==
    ASSUME NEW kind \in Kinds, NEW sync \in BOOLEAN, NEW todo, Rest(kind, sync, todo)
    PROVE  /\ todo \in Seq(StepNames) /\ todo # << >> /\ Len(todo) \in Nat /\ Len(todo) > 0
           /\ Stage(kind, sync, Head(todo), Len(todo))
           /\ kind = "soft" => Len(todo) <= 3
           /\ Tail(todo) \in Seq(StepNames) /\ Len(Tail(todo)) = Len(todo) - 1
           /\ Len(todo) > 1 => Rest(kind, sync, Tail(todo))
<1> DEFINE t == Steps(kind, sync)
           n == Len(t)
<1>1. t \in Seq(StepNames) /\ n \in Nat /\ n > 2 /\ (kind = "soft" => n = 3)
  BY SMTT(20), StagesOf
<1>2. \A i \in 1..n : Stage(kind, sync, t[i], n - i + 1)
  BY StagesOf
<1>3. PICK i \in 1..n : todo = SubSeq(t, i, n)
  BY DEF Rest
<1> HIDE DEF t
<1>4. Head(todo) = t[i] /\ Tail(todo) = SubSeq(t, i + 1, n)
  BY SMTT(20), <1>1, <1>3, HeadTailOfSubSeq, n \in i..n
<1>5. todo \in Seq(StepNames) /\ Len(todo) = n - i + 1
  BY SMTT(20), <1>1, <1>3
<1>6. todo # << >>
  BY SMTT(20), <1>1, <1>5
<1>7. Tail(todo) \in Seq(StepNames) /\ Len(Tail(todo)) = Len(todo) - 1
  BY <1>5, <1>6, HeadTailProperties
<1>8. ASSUME Len(todo) > 1 PROVE Rest(kind, sync, Tail(todo))
  <2>1. i + 1 \in 1..n
    BY SMTT(20), <1>1, <1>5, <1>8
  <2> QED
    BY <1>4, <2>1 DEF Rest, t
<1>9. Stage(kind, sync, Head(todo), Len(todo))
  BY <1>2, <1>4, <1>5
<1> QED
  <2>0. \A m \in Nat : \A j \in 1..m : m - j + 1 \in Nat /\ m - j + 1 > 0
                                       /\ (m = 3 => m - j + 1 <= 3)
    BY SMTT(20)
  <2>1. Len(todo) \in Nat /\ Len(todo) > 0 /\ (n = 3 => Len(todo) <= 3)
    BY <1>1, <1>5, <2>0
  <2> QED
    BY <1>1, <1>5, <1>6, <1>7, <1>8, <1>9, <2>1

\* A job that starts.
LEMMA RestAll ==
    ASSUME NEW kind \in Kinds, NEW sync \in BOOLEAN
    PROVE  /\ Rest(kind, sync, Steps(kind, sync))
           /\ kind # "soft" => Len(Steps(kind, sync)) >= AfterPages(kind, sync) + 3
           /\ kind = "soft" => Len(Steps(kind, sync)) = 3
<1>1. /\ Steps(kind, sync) \in Seq(StepNames) /\ Len(Steps(kind, sync)) > 2
      /\ kind # "soft" => Len(Steps(kind, sync)) >= AfterPages(kind, sync) + 3
      /\ kind = "soft" => Len(Steps(kind, sync)) = 3
  BY StagesOf
<1>2. Steps(kind, sync) = SubSeq(Steps(kind, sync), 1, Len(Steps(kind, sync)))
  BY <1>1, SubSeqFull
<1> QED
  BY SMTT(20), <1>1, <1>2 DEF Rest

(***************************************************************************)
(* Sequences of mutations and their records.                               *)
(***************************************************************************)
\* The concatenation of contents is a content.
LEMMA Join ==
    ASSUME NEW a \in Content, NEW b \in Content
    PROVE  a \o b \in Content
BY ConcatProperties DEF Content

\* Concatenation is associative.
LEMMA JoinThree ==
    ASSUME NEW a \in Content, NEW b \in Content, NEW c \in Content
    PROVE  (a \o b) \o c = a \o (b \o c)
BY SMTT(20), ConcatAssociative DEF Content

\* The empty content is neutral.
LEMMA JoinNone ==
    ASSUME NEW a \in Content
    PROVE  a \o << >> = a /\ << >> \o a = a
BY ConcatEmptySeq DEF Content

\* The empty run of records.
LEMMA MutsNone == << >> \in Seq(MutRec) /\ MutsOf(<< >>) = << >> /\ << >> \in Content
BY SMTT(20) DEF MutsOf, Content

(***************************************************************************)
(* What the file operations do.                                            *)
(***************************************************************************)
\* The commit records of v are those of w.
CommitsFrom(v, w) == \A i \in CommitsIn(v) : i \in CommitsIn(w) /\ v[i] = w[i]

\* The part of the WAL a reader sees: nothing once it is unlinked.
LivePart(v, t, w, s, gone) == IF gone THEN v = << >> /\ t = 0 ELSE v = w /\ t = s

\* An unlinked WAL has nothing left to say.
LEMMA LiveFits ==
    ASSUME NEW w, NEW s, NEW gone, NEW a, Fits(w, s, gone, a, a),
           NEW v, NEW t, LivePart(v, t, w, s, gone)
    PROVE  /\ Fits(v, t, FALSE, a, a) /\ Reveals(v, t, a, a) \subseteq Reveals(w, s, a, a)
           /\ Replayed(v, a) = Replayed(w, a) /\ CommitsFrom(v, w)
<1>1. CASE gone
  <2>1. a \in FrameRec /\ UpTo(w, a.gen)
    BY <1>1 DEF Fits, Newer
  <2>2. Reveals(w, s, a, a) = {a.content} /\ Replayed(w, a) = a.content
    BY <2>1, FitsPublished
  <2>3. Fits(<< >>, 0, FALSE, a, a) /\ Reveals(<< >>, 0, a, a) = {a.content}
    BY <2>1, FitsEmpty
  <2>4. Replayed(<< >>, a) = a.content /\ CommitsIn(<< >>) = {}
    BY <2>1, EmptyLog
  <2> QED
    BY <1>1, <2>2, <2>3, <2>4 DEF CommitsFrom, LivePart
<1>2. CASE ~ gone
  <2>1. gone = FALSE
    BY <1>2 DEF Fits
  <2> QED
    BY <1>2, <2>1 DEF CommitsFrom, LivePart
<1> QED
  BY <1>1, <1>2

\* How far the file may be forced after ms are appended to v.
ForcedTo(u, t, v, ms) == u \in {t, Len(v), Len(v) + Len(ms)}

\* What appending ms to v makes of the contents w reveals.
Quiet(v, ms, u, w, s, a) ==
    /\ Fits(v \o ms, u, FALSE, a, a)
    /\ Reveals(v \o ms, u, a, a) \subseteq Reveals(w, s, a, a)
    /\ Replayed(v \o ms, a) = Replayed(v, a)
    /\ CommitsFrom(v \o ms, w)
    /\ TailMuts(v \o ms) = TailMuts(v) \o MutsOf(ms)

\* Mutation records appended to what is live.
LEMMA MutsWritten ==
    ASSUME NEW w, NEW s, NEW gone, NEW a, Fits(w, s, gone, a, a),
           NEW v, NEW t, LivePart(v, t, w, s, gone),
           NEW ms \in Seq(MutRec), NEW u, ForcedTo(u, t, v, ms)
    PROVE  Quiet(v, ms, u, w, s, a)
<1>1. /\ Fits(v, t, FALSE, a, a) /\ Reveals(v, t, a, a) \subseteq Reveals(w, s, a, a)
      /\ CommitsFrom(v, w)
  BY LiveFits
<1>2. /\ Fits(v \o ms, u, FALSE, a, a)
      /\ Reveals(v \o ms, u, a, a) \subseteq Reveals(v, t, a, a)
      /\ Replayed(v \o ms, a) = Replayed(v, a)
  BY <1>1, FitsMuts DEF ForcedTo
<1>3. v \in Seq(Rec)
  BY <1>1 DEF Fits
<1>4. /\ CommitsIn(v \o ms) = CommitsIn(v)
      /\ \A i \in CommitsIn(v) : (v \o ms)[i] = v[i]
      /\ TailMuts(v \o ms) = TailMuts(v) \o MutsOf(ms)
  BY <1>3, MutsAppended
<1> QED
  BY <1>1, <1>2, <1>3, <1>4 DEF CommitsFrom, Quiet

\* What writing mutation records through the descriptor leaves.
Written(ms) ==
    /\ WalInv' /\ Forced' = Forced /\ Newest' = Newest /\ Reach' \subseteq Reach
    /\ fd' \in {"none", "live", "unlinked"} /\ (fd' = "unlinked" <=> fd = "unlinked")
    /\ fd = "unlinked" => Live' = << >>
    /\ Replayed(Live', Forced) = Replayed(Live, Forced)
    /\ fd # "unlinked" => ~ walGone' /\ TailMuts(Live') = TailMuts(Live) \o MutsOf(ms)
    /\ CommitsFrom(wal', wal)

\* Writing mutation records through the cached descriptor reveals nothing
\* new, whether or not the file is recreated, forced or unlinked.
LEMMA WriteMuts ==
    ASSUME WalInv, Newest = Forced, fd \in {"none", "live", "unlinked"}, reserved \in BOOLEAN,
           fd = "unlinked" => Live = << >>,
           NEW ms \in Seq(MutRec), NEW sync \in BOOLEAN, WriteWal(ms, sync),
           UNCHANGED <<log, logSynced>>
    PROVE  Written(ms)
<1> DEFINE a == Forced
<1>1. Forced' = a /\ Newest' = a /\ Newest = a
  BY DEF Forced, Newest
<1>2. Fits(wal, walSynced, walGone, a, a) /\ Reach = Reveals(wal, walSynced, a, a)
  BY <1>1 DEF WalInv, Reach
<1>3. WalInv' = Fits(wal', walSynced', walGone', a, a) /\ Reach' = Reveals(wal', walSynced', a, a)
  BY <1>1 DEF WalInv, Reach
<1>w. wal \in Seq(Rec) /\ walGone \in BOOLEAN /\ a \in FrameRec /\ walSynced \in 0..Len(wal)
  BY <1>2 DEF Fits, Newer
<1> HIDE DEF a
<1>4. CASE fd = "unlinked" /\ reserved
  <2>1. UNCHANGED <<wal, walSynced, walGone>> /\ fd' = fd
    BY <1>4 DEF WriteWal, walVars
  <2>2. Live' = Live
    BY <2>1 DEF Live
  <2> QED
    BY <1>1, <1>2, <1>3, <1>4, <2>1, <2>2 DEF Written, CommitsFrom, a
<1>5. CASE fd = "unlinked" /\ ~ reserved
  <2>1. wal' = << >> /\ walSynced' = 0 /\ walGone' = FALSE /\ fd' = fd
    BY <1>5 DEF WriteWal
  <2>2. Live' = << >> /\ Live = << >>
    BY <1>5, <2>1 DEF Live
  <2>3. wal = << >> \/ walGone
    BY <2>2 DEF Live
  <2>4. UpTo(wal, a.gen)
    BY <1>2, <2>3, EmptyLog DEF Fits
  <2>5. Reveals(wal, walSynced, a, a) = {a.content}
    BY <1>2, <2>4, FitsPublished
  <2>6. Fits(<< >>, 0, FALSE, a, a) /\ Reveals(<< >>, 0, a, a) = {a.content}
    BY <1>w, FitsEmpty
  <2>7. CommitsFrom(<< >>, wal)
    BY EmptyLog DEF CommitsFrom
  <2> QED
    BY <1>1, <1>2, <1>3, <1>5, <2>1, <2>2, <2>5, <2>6, <2>7 DEF Written, a
<1>6. CASE fd # "unlinked"
  <2> DEFINE t == IF walGone THEN 0 ELSE walSynced
  <2>1. wal' = Live \o ms /\ walGone' = FALSE /\ fd' = IF ms = << >> THEN fd ELSE "live"
    BY <1>6 DEF WriteWal
  <2>2. PICK s \in SyncedByAdmission : walSynced' = IF sync THEN Len(wal') ELSE s
    BY <1>6 DEF WriteWal
  <2>3. Live' = wal'
    BY <2>1 DEF Live
  <2>4. LivePart(Live, t, wal, walSynced, walGone)
    BY DEF Live, LivePart
  <2>5. Live \in Seq(Rec) /\ Len(Live \o ms) = Len(Live) + Len(ms)
    <3>1. Live \in Seq(Rec)
      BY <1>w, EmptyLog DEF Live
    <3> QED
      BY <3>1, MutsAppended
  <2>6. ForcedTo(walSynced', t, Live, ms)
    BY <2>1, <2>2, <2>5 DEF SyncedByAdmission, Live, ForcedTo
  <2> HIDE DEF t
  <2>m. Quiet(Live, ms, walSynced', wal, walSynced, a)
    <3> HIDE DEF Live
    <3> QED
      BY <1>2, <2>4, <2>6, MutsWritten
  <2>7. /\ Fits(wal', walSynced', FALSE, a, a)
        /\ Reveals(wal', walSynced', a, a) \subseteq Reveals(wal, walSynced, a, a)
        /\ Replayed(wal', a) = Replayed(Live, a)
        /\ CommitsFrom(wal', wal)
        /\ TailMuts(wal') = TailMuts(Live) \o MutsOf(ms)
    BY <2>1, <2>m DEF Quiet
  <2> QED
    BY <1>1, <1>2, <1>3, <1>6, <2>1, <2>3, <2>7 DEF Written, a
<1> QED
  BY <1>4, <1>5, <1>6

(***************************************************************************)
(* What a step may do to the contents a crash could reveal.                *)
(***************************************************************************)
Settles == acked' = acked /\ Reach' \subseteq Reach /\ Reach' # {}
Attempts(c) ==
    /\ acked' = acked /\ Reach' = Reach \cup {c}
    /\ \E m \in Reach : \E t \in Content \ {<< >>} : c = m \o t
Acks == Reach' = Reach /\ Reach = {acked'}
Effect == Settles \/ (\E c \in Content : Attempts(c)) \/ Acks

\* There is an outcome, and all of them are contents.
LEMMA ReachIs ==
    ASSUME WalInv
    PROVE  Reach # {} /\ Reach \subseteq Content /\ Replayed(wal, Forced) \in Reach
BY FitsMember DEF WalInv, Reach

\* The same of the next state.
LEMMA ReachNext ==
    ASSUME WalInv'
    PROVE  Reach' # {} /\ Reach' \subseteq Content /\ Replayed(wal', Forced') \in Reach'
BY FitsMember DEF WalInv, Reach

\* Contents ruled out, and more commits attempted.
LEMMA Settled ==
    ASSUME OutcomeInv, WalInv', acked' = acked, Reach' \subseteq Reach, points \subseteq points',
           points' \subseteq Content, nextMut' \in Nat
    PROVE  OutcomeInv' /\ Effect
<1>1. OutcomeInv'
  BY DEF OutcomeInv, Extends
<1>2. Settles
  BY ReachNext DEF Settles
<1> QED
  BY <1>1, <1>2 DEF Effect

\* The only outcome acknowledged.
LEMMA Acked ==
    ASSUME OutcomeInv, WalInv, Reach' = Reach, Reach = {acked'}, points' = points, nextMut' = nextMut
    PROVE  OutcomeInv' /\ Effect
<1>1. acked' \in Content /\ acked' \in points
  BY ReachIs DEF OutcomeInv
<1>2. acked' = acked' \o << >> /\ << >> \in Content
  BY <1>1, JoinNone, MutsNone
<1>3. OutcomeInv'
  BY <1>1, <1>2 DEF OutcomeInv, Extends
<1>4. Acks
  BY DEF Acks
<1> QED
  BY <1>3, <1>4 DEF Effect

(***************************************************************************)
(* The publication in progress.                                            *)
(***************************************************************************)
\* The fields of a publication.
LEMMA JobsAreJobs ==
    ASSUME NEW j \in JobRec
    PROVE  /\ j # NoJob /\ j.kind \in Kinds /\ j.todo \in Seq(StepNames)
           /\ j.gen \in Nat /\ j.cid \in Nat /\ j.muts \in Content /\ j.content \in Content
BY SMTT(20) DEF JobRec, NoJob, Kinds, WriteKinds, CommitKinds

\* The next step of the job, and how many are left.
LEMMA JobNow ==
    ASSUME TypeInv, job # NoJob
    PROVE  /\ job \in JobRec /\ Rest(job.kind, syncWrites, job.todo)
           /\ job.kind \in Kinds
           /\ job.gen \in Nat /\ job.cid \in Nat /\ job.muts \in Content /\ job.content \in Content
           /\ Len(job.todo) \in Nat /\ Len(job.todo) > 0
           /\ Stage(job.kind, syncWrites, Head(job.todo), Len(job.todo))
           /\ job.kind = "soft" => Len(job.todo) <= 3
           /\ PagesLeft \in {3, 4, 5} /\ PagesLeft = AfterPages(job.kind, syncWrites)
           /\ job.kind \notin CommitKinds => PagesLeft = 3
<1>1. job \in JobRec /\ Rest(job.kind, syncWrites, job.todo) /\ syncWrites \in BOOLEAN
  BY DEF TypeInv
<1>2. /\ job.kind \in Kinds
      /\ job.gen \in Nat /\ job.cid \in Nat /\ job.muts \in Content /\ job.content \in Content
  BY <1>1, JobsAreJobs
<1>3. PagesLeft \in {3, 4, 5} /\ PagesLeft = AfterPages(job.kind, syncWrites)
  BY DEF PagesLeft, AfterPages
<1>5. job.kind \notin CommitKinds => PagesLeft = 3
  BY DEF PagesLeft, AfterPages
<1>4. /\ Len(job.todo) \in Nat /\ Len(job.todo) > 0
      /\ Stage(job.kind, syncWrites, Head(job.todo), Len(job.todo))
      /\ job.kind = "soft" => Len(job.todo) <= 3
  BY <1>1, <1>2, RestIs
<1> QED
  BY <1>1, <1>2, <1>3, <1>4, <1>5

\* The regime the theorems are about.  The metadata log is written back by the
\* time a reopen without a power loss reads it; callers of the WAL-first mode
\* drain their envelopes with publication_barrier before flush, close and
\* compact, and there the directory sync of close() does not fail.
Regime == WrittenBack /\ (WalFirst => DrainFirst /\ ~ CloseSyncFails)

\* The content of the live part of the WAL.
LEMMA LiveReplay ==
    ASSUME WalInv, Newest = Forced
    PROVE  Replayed(Live, Forced) = Replayed(wal, Forced)
<1>1. Fits(wal, walSynced, walGone, Forced, Forced) /\ Forced \in FrameRec
  BY DEF WalInv, Fits, Newer
<1>2. CASE walGone
  <2>1. UpTo(wal, Forced.gen)
    BY <1>1, <1>2 DEF Fits
  <2>2. Replayed(wal, Forced) = Forced.content
    BY <1>1, <2>1, FitsPublished
  <2> QED
    BY <1>1, <1>2, <2>2, EmptyLog DEF Live
<1>3. CASE ~ walGone
  BY <1>3 DEF Live
<1> QED
  BY <1>2, <1>3

\* No call is in progress.
LEMMA NoCallIs == NoCall \in CallRec /\ NoCall.op = "none"
BY SMTT(20) DEF CallRec, NoCall

\* Publications run only in a handle that is open or opening.
LEMMA RunningJob ==
    ASSUME IInv, job # NoJob
    PROVE  Running /\ RunInv
<1>1. Running
  BY DEF IInv, CallInv, TypeInv, Running
<1> QED
  BY <1>1 DEF IInv

(***************************************************************************)
(* The start of a publication.                                             *)
(***************************************************************************)
\* A publication that has just started.
LEMMA Started ==
    ASSUME NEW kind \in Kinds, NEW g \in Nat, NEW c \in Nat, NEW ms \in Content, NEW content \in Content,
           syncWrites' \in BOOLEAN,
           job' = NewJob(kind, syncWrites', g, c, ms, content)
    PROVE  /\ job' \in JobRec /\ job' # NoJob /\ Rest(job'.kind, syncWrites', job'.todo)
           /\ job'.kind = kind /\ job'.gen = g /\ job'.cid = c /\ job'.muts = ms
           /\ job'.content = content
           /\ ~ Committed' /\ ~ Framed' /\ ~ Finishing' /\ JobPagesInv'
           /\ kind = "soft" => Len(job'.todo) # 1
<1> DEFINE t == Steps(kind, syncWrites')
           n == Len(t)
           p == AfterPages(kind, syncWrites')
<1>1. /\ Rest(kind, syncWrites', t) /\ (kind # "soft" => n >= p + 3) /\ (kind = "soft" => n = 3)
      /\ t \in Seq(StepNames)
  BY RestAll, StagesOf
<1>2. /\ job'.kind = kind /\ job'.gen = g /\ job'.cid = c /\ job'.muts = ms
      /\ job'.content = content /\ job'.todo = t
  BY DEF NewJob
<1>3. job' \in JobRec
  BY <1>1 DEF NewJob, JobRec
<1>4. job' # NoJob
  BY <1>3, JobsAreJobs
<1>5. n \in Nat /\ p \in {3, 4, 5} /\ PagesLeft' = p /\ Len(job'.todo) = n
  BY SMTT(20), <1>1, <1>2 DEF AfterPages, PagesLeft
<1>6. "soft" \notin CommitKinds
  BY DEF CommitKinds
<1> HIDE DEF t, n, p
<1>7. /\ Committed' <=> (kind \in CommitKinds /\ n < p) \/ (kind = "soft" /\ n < 3)
      /\ Framed' <=> kind # "soft" /\ n = 2
      /\ Finishing' <=> kind # "soft" /\ n = 1
  BY <1>2, <1>4, <1>5 DEF Committed, Framed, Finishing
<1>8. ~ Committed' /\ ~ Framed' /\ ~ Finishing'
  BY SMTT(20), <1>1, <1>5, <1>6, <1>7
<1>9. JobPagesInv'
  <2>1. kind # "soft" => ~ (n <= p + 1) /\ ~ (n <= p)
    BY SMTT(20), <1>1, <1>5
  <2> QED
    BY <1>2, <1>5, <2>1 DEF JobPagesInv
<1>10. kind = "soft" => n # 1
  BY SMTT(20), <1>1
<1> QED
  BY <1>1, <1>2, <1>3, <1>4, <1>5, <1>8, <1>9, <1>10

\* Where a soft commit is acknowledged.
LEMMA AckStage ==
    ASSUME TypeInv, job # NoJob, Head(job.todo) = "ack"
    PROVE  job.kind = "soft" /\ Len(job.todo) = 1 /\ Committed /\ ~ Framed /\ ~ Finishing
<1> DEFINE n == Len(job.todo)
<1>1. Stage(job.kind, syncWrites, "ack", n)
  BY JobNow
<1>2. job.kind = "soft" /\ n = 1
  BY <1>1 DEF Stage
<1> QED
  BY SMTT(20), <1>2 DEF Committed, Framed, Finishing

\* One content more.
LEMMA Attempted ==
    ASSUME OutcomeInv, WalInv, acked' = acked, NEW c \in Content, NEW m \in Reach, NEW t \in Content,
           c = m \o t, t # << >>, Reach' = Reach \cup {c},
           points' = points \cup {c}, nextMut' \in Nat
    PROVE  OutcomeInv' /\ Effect
<1>1. m \in Content
  BY ReachIs
<1>2. PICK x \in Content : m = acked \o x
  BY DEF OutcomeInv, Extends
<1>3. c = acked \o (x \o t) /\ x \o t \in Content
  <2>1. acked \in Content
    BY DEF OutcomeInv
  <2>2. x \o t \in Content /\ (acked \o x) \o t = acked \o (x \o t)
    BY <2>1, Join, JoinThree
  <2> QED
    BY <1>2, <2>2
<1>4. Extends(c, acked)
  BY <1>3 DEF Extends
<1>5. OutcomeInv'
  BY <1>4 DEF OutcomeInv, Extends
<1>6. Attempts(c)
  BY DEF Attempts
<1> QED
  BY <1>5, <1>6 DEF Effect

\* The job one step on.
LEMMA Advanced ==
    ASSUME TypeInv, job # NoJob, Len(job.todo) > 1, Advance, syncWrites' = syncWrites
    PROVE  /\ job' \in JobRec /\ job' # NoJob /\ Rest(job'.kind, syncWrites', job'.todo)
           /\ job'.kind = job.kind /\ job'.gen = job.gen /\ job'.cid = job.cid
           /\ job'.muts = job.muts /\ job'.content = job.content
           /\ Len(job'.todo) = Len(job.todo) - 1
           /\ PagesLeft' = PagesLeft
<1>1. job \in JobRec /\ job.kind \in Kinds /\ Rest(job.kind, syncWrites, job.todo)
  BY JobNow
<1>2. syncWrites \in BOOLEAN
  BY DEF TypeInv
<1>3. /\ Tail(job.todo) \in Seq(StepNames) /\ Len(Tail(job.todo)) = Len(job.todo) - 1
      /\ Rest(job.kind, syncWrites, Tail(job.todo))
  BY <1>1, <1>2, RestIs
<1>4. /\ job' \in JobRec
      /\ job'.kind = job.kind /\ job'.gen = job.gen /\ job'.cid = job.cid
      /\ job'.muts = job.muts /\ job'.content = job.content /\ job'.todo = Tail(job.todo)
  BY <1>1, <1>3 DEF Advance, JobRec
<1>5. job' # NoJob
  BY <1>4, JobsAreJobs
<1> QED
  BY <1>3, <1>4, <1>5 DEF PagesLeft

\* A step of a job leaves the call alone.
LEMMA CallKept ==
    ASSUME CallInv, job # NoJob, job' # NoJob, job'.kind = job.kind, job'.muts = job.muts,
           UNCHANGED <<st, pend, envs, unframed, reserved, call>>,
           buf' \in {buf, << >>}, fd' = "unlinked" <=> fd = "unlinked"
    PROVE  CallInv'
<1>1. st \notin {"closed", "fenced"}
  BY DEF CallInv
<1> QED
  BY <1>1 DEF CallInv
=============================================================================
