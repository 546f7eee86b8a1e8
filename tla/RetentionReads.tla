-------------------------- MODULE RetentionReads --------------------------
(***************************************************************************)
(* A read under a root returns the value of the root's commit, and one of  *)
(* a transaction that of its base: for any number of handles, commits,     *)
(* roots, opens and maintenance calls, in both blob layouts and on both    *)
(* commit paths, and with a crash at any step.                             *)
(*                                                                         *)
(* Added to the invariant of RetentionProofs: the blob file a pointer      *)
(* names is never given to another value while the pointer counts (the     *)
(* epoch), the WAL holds what the newest frame lacks, what a job publishes *)
(* is such a store again, pages of protected generations are not           *)
(* overwritten, and the sidecar of a root holds the record its pointer     *)
(* names.                                                                  *)
(***************************************************************************)
EXTENDS RetentionProofs

\* The leaves are Zenon's, unless they cite the SMT solver.
USE ZenonT(40)

\* Generations are numbered once, a frame's value is its commit's, and the
\* first has no record.
LogGood(L) ==
    /\ \A m, n \in L : m.gen = n.gen => m = n
    /\ \A m \in L : /\ m.gen \in Nat /\ m.commit \in Nat /\ m.val = m.commit /\ m.ptr \in Nat
                    /\ m.gen = 0 => m.ptr = None

\* Pointer p names the record of value v.
Held(p, v, f) == IF p = None THEN DOMAIN f = {} ELSE p \in DOMAIN f /\ f[p] = v

\* Blob files are numbered from 1 and one is the last.
Numbered(f) == /\ DOMAIN f \subseteq Nat \ {0}
               /\ \E p \in DOMAIN f \cup {0} : \A q \in DOMAIN f : q <= p

\* From generation e on a pointer that names a record names its own.
Agrees(L, e, f) == \A m \in L : (m.gen >= e /\ m.ptr \in DOMAIN f) => f[m.ptr] = m.val

Below(L, e, n) == \A m \in L : m.gen >= e => m.ptr < n

\* The WAL has the commits since the newest frame.
Logged(s) ==
    /\ s.soft \in Seq(Nat) /\ s.cid = Latest(s).commit + Len(s.soft)
    /\ \A k \in 1 .. Len(s.soft) : s.soft[k] = Latest(s).commit + k

Counted(s) ==
    /\ s.staged \in BOOLEAN /\ s.cid \in Nat
    /\ s.val = IF s.staged THEN s.cid + 1 ELSE s.cid

Files(s) ==
    /\ Numbered(s.blobs) /\ s.next \in Nat \ {0} /\ \A p \in DOMAIN s.blobs : p < s.next
    /\ s.ptr \in Nat /\ Held(s.ptr, s.val, s.blobs)

Imaged(s, e) ==
    /\ Numbered(s.image) /\ Agrees(s.log, e, s.image)
    /\ Held(Latest(s).ptr, Latest(s).val, s.image)

Base(s, e) ==
    /\ DbOK(s) /\ LogGood(s.log) /\ e \in Nat /\ Files(s)
    /\ Agrees(s.log, e, s.blobs) /\ Below(s.log, e, s.next)

StoreOK(s, e) ==
    Base(s, e) /\ e <= Latest(s).gen /\ Imaged(s, e) /\ Logged(s) /\ Counted(s)

\* The pages and the record of root i are there.
Paged(m) == m.gen \notin gone \ {0}
Kept(m, i) ==
    /\ Paged(m) /\ m.val = m.commit
    /\ m.ptr = None \/ (i \in DOMAIN side /\ m.ptr \in DOMAIN side[i] /\ side[i][m.ptr] = m.val)

Viewed(i) == \E l \in Leases : lease[l].kind = "view" /\ lease[l].h = h /\ lease[l].id = i

StoreInv == StoreOK(db, epoch) /\ \A g \in gone : g \in Nat /\ g < Latest(db).gen

RootInv ==
    /\ \A i \in DOMAIN reg.roots : Kept(reg.roots[i], i)
    /\ h > 0 =>
         /\ Covered(rs[h].eph, db.log)
         /\ \A i \in DOMAIN rs[h].roots : Kept(rs[h].roots[i], i)
         /\ \A i \in DOMAIN rs[h].eph : /\ Paged(rs[h].eph[i])
                                        /\ Viewed(i) \/ Kept(rs[h].eph[i], i)

TxInv == \A l \in Leases : lease[l].kind = "tx" => lease[l].man.commit = lease[l].base

\* The oldest generation whose pointers count once the job is installed.
NextEpoch == IF job.op = "vacuum" THEN Latest(job.to).gen ELSE epoch

Moving ==
    /\ StoreOK(job.to, NextEpoch) /\ Latest(db).gen <= Latest(job.to).gen
    /\ Covered(rs[h].eph, job.to.log)
    /\ job.op = "retain" => \A m \in job.to.log : m.commit = job.commit => m.gen >= epoch
    /\ job.op = "tx" => Latest(job.to).commit = job.to.cid

Rooting ==
    /\ job.man.gen >= epoch
    /\ job.op = "tx" => job.man.commit = db.cid
    /\ job.step = "check" => job.id \in DOMAIN side /\ side[job.id] = db.blobs
    /\ job.step = "rename" => Kept(job.man, job.id)

CallInv ==
    job # NoJob => IF job.step \in {"blob_tmp", "blob_rename", "install"} THEN Moving ELSE Rooting

ReadInv == StoreInv /\ RootInv /\ TxInv /\ CallInv

-----------------------------------------------------------------------------
(* The store. *)

LEMMA LastFileFacts ==
    ASSUME NEW f, Numbered(f)
    PROVE  /\ LastFile(f) \in Nat /\ LastFile(f) \in DOMAIN f \cup {0}
           /\ \A q \in DOMAIN f : q <= LastFile(f)
<1>1. LastFile(f) \in DOMAIN f \cup {0} /\ \A q \in DOMAIN f : q <= LastFile(f)
  BY DEF LastFile, Numbered
<1> QED BY SMTT(20), <1>1 DEF Numbered

\* The frame with the highest generation is the newest one.
LEMMA LatestIs ==
    ASSUME NEW s, LogGood(s.log), NEW m \in s.log, \A n \in s.log : n.gen <= m.gen
    PROVE  Latest(s) = m
<1>1. LogOK(s.log)
  BY DEF LogOK, LogGood
<1>2. Latest(s) \in s.log /\ m.gen <= Latest(s).gen
  BY <1>1, LatestFacts
<1>3. Latest(s).gen = m.gen
  BY SMTT(20), <1>2 DEF LogGood
<1> QED BY <1>2, <1>3 DEF LogGood

\* A store with the same log has the same newest frame.
LEMMA SameLatest ==
    ASSUME NEW s, NEW t, t.log = s.log
    PROVE  Latest(t) = Latest(s)
BY DEF Latest

LEMMA FrameOK ==
    ASSUME NEW s, NEW e, Base(s, e), e <= Latest(s).gen + 1,
           s.cid \in Nat, s.val = s.cid, s.staged = FALSE
    PROVE  /\ StoreOK(Frame(s), e) /\ Frame(s).staged = FALSE
           /\ Latest(Frame(s)).gen = Latest(s).gen + 1
           /\ Latest(Frame(s)).commit = Frame(s).cid /\ s.log \subseteq Frame(s).log
<1> DEFINE m == [gen |-> Latest(s).gen + 1, commit |-> s.cid, val |-> s.val, ptr |-> s.ptr]
           t == Frame(s)
<1>1. /\ t.log = s.log \cup {m} /\ t.image = s.blobs /\ t.soft = <<>>
      /\ t.cid = s.cid /\ t.val = s.val /\ t.ptr = s.ptr /\ t.blobs = s.blobs
      /\ t.next = s.next /\ t.staged = FALSE
  BY DEF Frame, Base, DbOK, DbFields
<1>2. m.gen = Latest(s).gen + 1 /\ m.commit = s.cid /\ m.val = s.val /\ m.ptr = s.ptr
  OBVIOUS
<1> HIDE DEF m, t
<1>3. /\ Latest(s).gen \in Nat /\ \A n \in s.log : n.gen \in Nat /\ n.gen <= Latest(s).gen
      /\ s.ptr \in Nat /\ e \in Nat
  BY LatestFacts DEF Base, DbOK, LogOK, Files
<1>4. m.gen \in Nat /\ m.gen # 0 /\ \A n \in s.log : n.gen <= m.gen /\ n.gen # m.gen
  BY SMTT(20), <1>2, <1>3
<1>5. LogGood(t.log)
  BY <1>1, <1>2, <1>3, <1>4 DEF LogGood, Base
<1>6. Latest(t) = m
  <2>1. m \in t.log /\ \A n \in t.log : n.gen <= m.gen
    <3>1. m.gen <= m.gen
      BY SMTT(20), <1>4
    <3> QED BY <1>1, <1>4, <3>1
  <2> QED BY <1>5, <2>1, LatestIs
<1>7. DbOK(t)
  BY FrameExtends DEF t, Extends, Base
<1>8. Files(t)
  BY <1>1 DEF Files, Base
<1>9. s.ptr < s.next /\ (s.ptr \in DOMAIN s.blobs => s.blobs[s.ptr] = s.val)
  <2>1. CASE s.ptr = None
    <3>1. s.ptr \notin DOMAIN s.blobs
      BY <2>1 DEF Base, Files, Held
    <3>2. s.ptr < s.next
      BY SMTT(20), <2>1 DEF None, Base, Files
    <3> QED BY <3>1, <3>2
  <2>2. CASE s.ptr # None
    BY <2>2 DEF Base, Files, Held
  <2> QED BY <2>1, <2>2
<1>10. Agrees(t.log, e, t.blobs) /\ Below(t.log, e, t.next)
  BY <1>1, <1>2, <1>9 DEF Agrees, Below, Base
<1>11. Imaged(t, e)
  BY <1>1, <1>2, <1>6, <1>10 DEF Imaged, Base, Files
<1>12. Logged(t)
  <2>1. t.soft \in Seq(Nat) /\ Len(t.soft) = 0
    BY SMTT(20), <1>1
  <2>2. s.cid = m.commit + 0 /\ \A k \in 1 .. 0 : FALSE
    BY SMTT(20), <1>2
  <2> QED BY <1>1, <1>6, <2>1, <2>2 DEF Logged
<1>13. Counted(t)
  BY <1>1 DEF Counted
<1>14. e <= Latest(t).gen
  BY <1>2, <1>6
<1> QED BY <1>1, <1>2, <1>3, <1>5, <1>6, <1>7, <1>8, <1>10, <1>11, <1>12, <1>13, <1>14
        DEF StoreOK, Base, t

\* A put.
LEMMA WriteOK ==
    ASSUME NEW s, NEW v, NEW e, Base(s, e)
    PROVE  /\ Base(Write(s, v), e)
           /\ DOMAIN Write(s, v) = DbFields /\ Write(s, v).log = s.log
           /\ Write(s, v).val = v /\ Write(s, v).ptr = s.next /\ Write(s, v).cid = s.cid
           /\ Write(s, v).staged = s.staged /\ Write(s, v).soft = s.soft
           /\ Write(s, v).image = s.image
<1> DEFINE w == Write(s, v)
           f == Merge(s.blobs, Single(s.next, v))
<1>1. DOMAIN s = DbFields
  BY DEF Base, DbOK
<1>2. /\ DOMAIN w = DbFields /\ w.log = s.log /\ w.val = v /\ w.ptr = s.next
      /\ w.cid = s.cid /\ w.staged = s.staged /\ w.soft = s.soft /\ w.image = s.image
      /\ w.blobs = f /\ w.next = s.next + 1
  BY <1>1 DEF Write, DbFields
<1>3. /\ s.next \in Nat \ {0} /\ DOMAIN s.blobs \subseteq Nat \ {0}
      /\ \A p \in DOMAIN s.blobs : p < s.next
  BY DEF Base, Files, Numbered
<1>4. s.next \notin DOMAIN s.blobs
  BY SMTT(20), <1>3
<1>5. /\ DOMAIN f = DOMAIN s.blobs \cup {s.next} /\ f[s.next] = v
      /\ \A p \in DOMAIN s.blobs : f[p] = s.blobs[p]
  BY <1>4 DEF Merge, Single
<1> HIDE DEF f, w
<1>6. DbOK(w)
  BY WriteExtends DEF Base, Extends, w
<1>7. /\ w.next \in Nat \ {0} /\ \A p \in DOMAIN f : p < w.next /\ p <= s.next
      /\ DOMAIN f \subseteq Nat \ {0}
  BY SMTT(20), <1>2, <1>3, <1>5
<1>8. s.next # None /\ s.next \in Nat
  BY SMTT(20), <1>3 DEF None
<1>9. Files(w)
  BY <1>2, <1>5, <1>7, <1>8 DEF Files, Numbered, Held
<1>10. Agrees(w.log, e, w.blobs) /\ Below(w.log, e, w.next)
  <2>1. \A m \in s.log : m.gen >= e => m.ptr \in Nat /\ m.ptr < s.next
    BY DEF Base, Below, LogGood
  <2>2. \A m \in s.log : m.gen >= e => m.ptr < w.next /\ m.ptr # s.next
    BY SMTT(20), <1>2, <1>3, <2>1
  <2> QED BY <1>2, <1>5, <2>2 DEF Agrees, Below, Base
<1> QED BY <1>2, <1>6, <1>9, <1>10 DEF Base, w

\* The state between a put and its commit.
LEMMA CommitOK ==
    ASSUME NEW s, NEW e, Base(s, e), e <= Latest(s).gen, Imaged(s, e), Logged(s),
           s.cid \in Nat, s.val = s.cid + 1
    PROVE  /\ StoreOK(Commit(s), e) /\ Commit(s).staged = FALSE
           /\ Latest(s).gen <= Latest(Commit(s)).gen
           /\ mode # "wal_first" => Latest(Commit(s)).commit = Commit(s).cid
<1> DEFINE t == [s EXCEPT !.cid = @ + 1, !.staged = FALSE]
           u == [t EXCEPT !.soft = Append(@, t.val)]
<1>1. DOMAIN s = DbFields /\ Latest(s).gen \in Nat /\ Latest(s).commit \in Nat /\ e \in Nat
  BY LatestFacts DEF Base, DbOK, LogGood
<1>2. /\ DOMAIN t = DbFields /\ t.log = s.log /\ t.boot = s.boot /\ t.val = s.val /\ t.ptr = s.ptr
      /\ t.blobs = s.blobs /\ t.next = s.next /\ t.image = s.image /\ t.soft = s.soft
      /\ t.cid = s.cid + 1 /\ t.staged = FALSE
  BY <1>1 DEF DbFields
<1>3. /\ DOMAIN u = DbFields /\ u.log = s.log /\ u.boot = s.boot /\ u.val = s.val /\ u.ptr = s.ptr
      /\ u.blobs = s.blobs /\ u.next = s.next /\ u.image = s.image
      /\ u.soft = Append(s.soft, s.val) /\ u.cid = s.cid + 1 /\ u.staged = FALSE
  BY <1>1, <1>2 DEF DbFields
<1>4. Commit(s) = IF mode = "wal_first" THEN u ELSE Frame(t)
  BY DEF Commit
<1> HIDE DEF t, u
<1>5. DbOK(t) /\ DbOK(u) /\ Latest(t) = Latest(s) /\ Latest(u) = Latest(s)
  BY <1>2, <1>3, SameLog DEF Base, Extends
<1>6. Base(t, e) /\ Base(u, e)
  BY <1>2, <1>3, <1>5 DEF Base, Files
<1>7. CASE mode # "wal_first"
  <2>1. t.cid \in Nat /\ e <= Latest(t).gen + 1
    BY SMTT(20), <1>1, <1>2, <1>5
  <2>2. /\ StoreOK(Frame(t), e) /\ Frame(t).staged = FALSE
        /\ Latest(Frame(t)).gen = Latest(t).gen + 1 /\ Latest(Frame(t)).commit = Frame(t).cid
    BY <1>2, <1>6, <2>1, FrameOK
  <2>3. Latest(s).gen <= Latest(s).gen + 1
    BY SMTT(20), <1>1
  <2> QED BY <1>4, <1>5, <1>7, <2>2, <2>3
<1>8. CASE mode = "wal_first"
  <2>1. Imaged(u, e)
    BY <1>3, <1>5 DEF Imaged
  <2>2. Logged(u)
    <3> DEFINE c == Latest(s).commit
    <3>1. s.soft \in Seq(Nat) /\ s.cid = c + Len(s.soft) /\ c \in Nat
          /\ \A k \in 1 .. Len(s.soft) : s.soft[k] = c + k
      BY <1>1 DEF Logged
    <3> HIDE DEF c
    <3>2. /\ u.soft \in Seq(Nat) /\ Len(u.soft) = Len(s.soft) + 1 /\ Len(s.soft) \in Nat
          /\ u.soft[Len(s.soft) + 1] = s.val /\ \A k \in 1 .. Len(s.soft) : u.soft[k] = s.soft[k]
      <4>1. s.val \in Nat
        BY SMTT(20)
      <4> QED BY SMTT(20), <1>3, <3>1, <4>1
    <3>3. u.cid = c + Len(u.soft) /\ s.val = c + (Len(s.soft) + 1)
      BY SMTT(20), <1>3, <3>1, <3>2
    <3>4. \A k \in 1 .. Len(u.soft) : k \in 1 .. Len(s.soft) \/ k = Len(s.soft) + 1
      BY SMTT(20), <3>2
    <3>5. \A k \in 1 .. Len(u.soft) : u.soft[k] = c + k
      BY <3>1, <3>2, <3>3, <3>4
    <3> QED BY <1>5, <3>2, <3>3, <3>5 DEF Logged, c
  <2>3. Counted(u)
    <3>1. u.cid \in Nat
      BY SMTT(20), <1>3
    <3> QED BY <1>3, <3>1 DEF Counted
  <2>4. Latest(s).gen <= Latest(s).gen
    BY SMTT(20), <1>1
  <2> QED BY <1>3, <1>4, <1>5, <1>6, <1>8, <2>1, <2>2, <2>3, <2>4 DEF StoreOK
<1> QED BY <1>7, <1>8

\* admit_batch
LEMMA StageOK ==
    ASSUME NEW s, NEW e, StoreOK(s, e), s.staged = FALSE, NEW v, v = s.cid + 1
    PROVE  /\ StoreOK([Write(s, v) EXCEPT !.staged = TRUE], e)
           /\ Latest([Write(s, v) EXCEPT !.staged = TRUE]) = Latest(s)
<1> DEFINE w == Write(s, v)
           t == [w EXCEPT !.staged = TRUE]
<1>1. /\ Base(w, e) /\ DOMAIN w = DbFields /\ w.log = s.log /\ w.val = v
      /\ w.cid = s.cid /\ w.soft = s.soft /\ w.image = s.image
  <2>1. Base(s, e)
    BY DEF StoreOK
  <2> QED BY SMTT(20), <2>1, WriteOK
<1>2. /\ DOMAIN t = DbFields /\ t.log = s.log /\ t.boot = w.boot /\ t.val = v /\ t.ptr = w.ptr
      /\ t.blobs = w.blobs /\ t.next = w.next /\ t.image = s.image /\ t.soft = s.soft
      /\ t.cid = s.cid /\ t.staged = TRUE
  BY <1>1 DEF DbFields
<1> HIDE DEF t, w
<1>3. Latest(t) = Latest(s) /\ DbOK(t)
  BY <1>1, <1>2, SameLog DEF Base, Extends, Latest
<1>4. Base(t, e)
  BY <1>1, <1>2, <1>3 DEF Base, Files
<1>5. Imaged(t, e) /\ Logged(t)
  BY <1>2, <1>3 DEF StoreOK, Imaged, Logged
<1>6. Counted(t)
  BY <1>2 DEF StoreOK, Counted
<1> QED BY <1>3, <1>4, <1>5, <1>6 DEF StoreOK, t, w

\* commit_batch
LEMMA PutOK ==
    ASSUME NEW s, NEW e, StoreOK(s, e), s.staged = FALSE, NEW v, v = s.cid + 1
    PROVE  /\ StoreOK(Commit(Write(s, v)), e)
           /\ Latest(s).gen <= Latest(Commit(Write(s, v))).gen
<1> DEFINE w == Write(s, v)
<1>1. /\ Base(w, e) /\ w.log = s.log /\ w.val = v
      /\ w.cid = s.cid /\ w.soft = s.soft /\ w.image = s.image
  <2>1. Base(s, e)
    BY DEF StoreOK
  <2> QED BY SMTT(20), <2>1, WriteOK
<1> HIDE DEF w
<1>2. Latest(w) = Latest(s)
  BY <1>1, SameLatest
<1>3. Imaged(w, e) /\ Logged(w) /\ w.cid \in Nat /\ e <= Latest(w).gen
  BY <1>1, <1>2 DEF StoreOK, Imaged, Logged, Counted
<1> QED BY <1>1, <1>2, <1>3, CommitOK DEF w

LEMMA FlushedOK ==
    ASSUME NEW s, NEW e, StoreOK(s, e)
    PROVE  /\ StoreOK(Flushed(s), e) /\ Flushed(s).staged = FALSE
           /\ Latest(s).gen <= Latest(Flushed(s)).gen
           /\ (mode = "wal_first" => s.staged = FALSE) =>
                 Latest(Flushed(s)).commit = Flushed(s).cid
<1>1. /\ s.staged \in BOOLEAN /\ Latest(s).gen \in Nat /\ Latest(s).commit \in Nat
      /\ e \in Nat /\ e <= Latest(s).gen /\ s.cid \in Nat
  BY LatestFacts DEF StoreOK, Base, DbOK, LogGood, Counted
<1>2. CASE s.staged = TRUE
  <2>1. Flushed(s) = Commit(s) /\ s.val = s.cid + 1
    BY <1>2 DEF Flushed, StoreOK, Counted
  <2> QED BY <1>1, <1>2, <2>1, CommitOK DEF StoreOK
<1>3. CASE s.staged = FALSE /\ s.soft # <<>>
  <2>1. Flushed(s) = Frame(s) /\ s.val = s.cid
    BY <1>3 DEF Flushed, StoreOK, Counted
  <2>2. e <= Latest(s).gen + 1 /\ Latest(s).gen <= Latest(s).gen + 1
    BY SMTT(20), <1>1
  <2> QED BY <1>1, <1>3, <2>1, <2>2, FrameOK DEF StoreOK
<1>4. CASE s.staged = FALSE /\ s.soft = <<>>
  <2>1. Flushed(s) = s
    BY <1>4 DEF Flushed
  <2>2. s.cid = Latest(s).commit /\ Latest(s).gen <= Latest(s).gen
    <3>1. s.cid = Latest(s).commit + Len(s.soft)
      BY DEF StoreOK, Logged
    <3> QED BY SMTT(20), <1>1, <1>4, <3>1
  <2> QED BY <1>4, <2>1, <2>2
<1> QED BY <1>1, <1>2, <1>3, <1>4

\* A record on its own.
LEMMA SingleFacts ==
    ASSUME NEW p \in Nat \ {0}, NEW v
    PROVE  /\ DOMAIN Single(p, v) = {p} /\ Single(p, v)[p] = v
           /\ Numbered(Single(p, v)) /\ Held(p, v, Single(p, v))
<1>1. DOMAIN Single(p, v) = {p} /\ Single(p, v)[p] = v
  BY DEF Single
<1>2. p <= p /\ p # None
  BY SMTT(20) DEF None
<1> QED BY <1>1, <1>2 DEF Numbered, Held

LEMMA VacuumedOK ==
    ASSUME NEW s, NEW e, StoreOK(s, e), s.staged = FALSE
    PROVE  /\ StoreOK(Vacuumed(s), Latest(Vacuumed(s)).gen)
           /\ Latest(s).gen <= Latest(Vacuumed(s)).gen
<1> DEFINE E == Latest(s).gen + 1
           t == IF s.ptr = None THEN [s EXCEPT !.blobs = <<>>, !.next = 1]
                ELSE [s EXCEPT !.blobs = Single(1, s.val), !.next = 2, !.ptr = 1]
<1>1. /\ DbOK(s) /\ DOMAIN s = DbFields /\ LogGood(s.log) /\ s.cid \in Nat /\ s.val = s.cid
      /\ Latest(s).gen \in Nat /\ \A m \in s.log : m.gen \in Nat /\ m.gen <= Latest(s).gen
  BY LatestFacts DEF StoreOK, Base, DbOK, LogOK, Counted
<1>2. /\ DOMAIN t = DbFields /\ t.log = s.log /\ t.boot = s.boot /\ t.val = s.val
      /\ t.cid = s.cid /\ t.staged = FALSE
  BY <1>1 DEF DbFields
<1>3. \/ t.blobs = <<>> /\ t.next = 1 /\ t.ptr = None
      \/ t.blobs = Single(1, s.val) /\ t.next = 2 /\ t.ptr = 1
  BY <1>1 DEF DbFields
<1>4. Vacuumed(s) = Frame(t)
  BY DEF Vacuumed
<1> HIDE DEF t
<1>5. Files(t)
  <2>1. DOMAIN <<>> = {} /\ {1, 2} \subseteq Nat \ {0} /\ 1 \in Nat \ {0} /\ 2 \in Nat \ {0}
        /\ 1 < 2 /\ None \in Nat /\ 1 \in Nat
    BY SMTT(20) DEF None
  <2>2. CASE t.blobs = <<>> /\ t.next = 1 /\ t.ptr = None
    BY <2>1, <2>2 DEF Files, Numbered, Held
  <2>3. CASE t.blobs = Single(1, s.val) /\ t.next = 2 /\ t.ptr = 1
    <3>1. /\ DOMAIN Single(1, s.val) = {1}
          /\ Numbered(Single(1, s.val)) /\ Held(1, s.val, Single(1, s.val))
      BY SMTT(20), SingleFacts
    <3> QED BY <1>2, <2>1, <2>3, <3>1 DEF Files
  <2> QED BY <1>3, <2>2, <2>3
<1>6. E \in Nat /\ E <= Latest(s).gen + 1 /\ Latest(s).gen <= E /\ \A m \in s.log : ~(m.gen >= E)
  BY SMTT(20), <1>1
<1>7. DbOK(t) /\ Latest(t) = Latest(s)
  BY <1>1, <1>2, SameLog DEF Extends
<1> HIDE DEF E
<1>8. Base(t, E)
  BY <1>1, <1>2, <1>5, <1>6, <1>7 DEF Base, Agrees, Below
<1>9. StoreOK(Frame(t), E) /\ Latest(Frame(t)).gen = Latest(t).gen + 1
  BY <1>1, <1>2, <1>6, <1>7, <1>8, FrameOK
<1> QED BY <1>4, <1>6, <1>7, <1>9 DEF E

\* What gc leaves of the blob files.
LEMMA SweepOK ==
    ASSUME NEW s, NEW e, Base(s, e), s.ptr # None, NEW t,
           t = [s EXCEPT !.blobs = Single(s.ptr, s.val)]
    PROVE  Base(t, e) /\ t.log = s.log /\ t.cid = s.cid /\ t.val = s.val /\ t.staged = s.staged
<1>1. DOMAIN s = DbFields
  BY DEF Base, DbOK
<1>2. /\ DOMAIN t = DbFields /\ t.log = s.log /\ t.boot = s.boot /\ t.val = s.val
      /\ t.cid = s.cid /\ t.staged = s.staged /\ t.next = s.next /\ t.ptr = s.ptr
      /\ t.blobs = Single(s.ptr, s.val)
  BY <1>1 DEF DbFields
<1>3. s.ptr \in DOMAIN s.blobs /\ s.blobs[s.ptr] = s.val /\ s.ptr \in Nat \ {0}
  BY DEF Base, Files, Held, Numbered
<1>4. /\ DOMAIN t.blobs = {s.ptr} /\ t.blobs[s.ptr] = s.val
      /\ Numbered(t.blobs) /\ Held(s.ptr, s.val, t.blobs)
  BY <1>2, <1>3, SingleFacts
<1>5. Files(t)
  BY <1>2, <1>3, <1>4 DEF Files, Base
<1>6. Agrees(t.log, e, t.blobs) /\ Below(t.log, e, t.next)
  BY <1>2, <1>3, <1>4 DEF Agrees, Below, Base
<1>7. DbOK(t)
  BY <1>2, SameLog DEF Base, Extends
<1> QED BY <1>2, <1>5, <1>6, <1>7 DEF Base

LEMMA SweptOK ==
    ASSUME NEW s, NEW e, StoreOK(s, e), s.staged = FALSE
    PROVE  StoreOK(Swept(s), e) /\ Latest(s).gen <= Latest(Swept(s)).gen
<1>1. /\ Base(s, e) /\ s.cid \in Nat /\ s.val = s.cid /\ Latest(s).gen \in Nat /\ e \in Nat
      /\ e <= Latest(s).gen
  BY LatestFacts DEF StoreOK, Base, DbOK, Counted
<1>2. Latest(s).gen <= Latest(s).gen /\ Latest(s).gen <= Latest(s).gen + 1
      /\ e <= Latest(s).gen + 1
  BY SMTT(20), <1>1
<1>3. CASE DOMAIN s.blobs \subseteq {s.ptr}
  BY <1>2, <1>3 DEF Swept
<1>4. CASE ~(DOMAIN s.blobs \subseteq {s.ptr})
  <2>1. s.ptr # None
    BY <1>1, <1>4 DEF Base, Files, Held
  <2>2. CASE layout = "segmented"
    <3> DEFINE t == [s EXCEPT !.blobs = Single(s.ptr, s.val)]
    <3>1. Swept(s) = Frame(t)
      BY <1>4, <2>2 DEF Swept
    <3>2. Base(t, e) /\ t.log = s.log /\ t.cid = s.cid /\ t.val = s.val /\ t.staged = s.staged
      BY <1>1, <2>1, SweepOK
    <3> HIDE DEF t
    <3>3. Latest(t) = Latest(s)
      BY <3>2, SameLatest
    <3> QED BY <1>1, <1>2, <3>1, <3>2, <3>3, FrameOK
  <2>3. CASE layout # "segmented"
    <3> DEFINE w == Write(s, s.val)
               t == [w EXCEPT !.blobs = Single(s.next, s.val)]
    <3>1. Swept(s) = Frame(t)
      BY <1>4, <2>3 DEF Swept
    <3>2. /\ Base(w, e) /\ w.log = s.log /\ w.val = s.val /\ w.ptr = s.next
          /\ w.cid = s.cid /\ w.staged = s.staged
      BY SMTT(20), <1>1, WriteOK
    <3>3. w.ptr # None
      BY SMTT(20), <1>1, <3>2 DEF Base, Files, None
    <3>4. t = [w EXCEPT !.blobs = Single(w.ptr, w.val)]
      BY <3>2
    <3> HIDE DEF w, t
    <3>5. Base(t, e) /\ t.log = w.log /\ t.cid = w.cid /\ t.val = w.val /\ t.staged = w.staged
      BY <3>2, <3>3, <3>4, SweepOK
    <3>6. Latest(t) = Latest(s)
      BY <3>2, <3>5, SameLatest
    <3> QED BY <1>1, <1>2, <3>1, <3>2, <3>5, <3>6, FrameOK
  <2> QED BY <2>2, <2>3
<1> QED BY <1>3, <1>4

\* Fewer frames, the newest among them.
LEMMA FewerFrames ==
    ASSUME NEW s, NEW e, StoreOK(s, e), NEW t, DbOK(t), t.log \subseteq s.log,
           Latest(s) \in t.log, t.blobs = s.blobs, t.next = s.next, t.ptr = s.ptr, t.val = s.val,
           t.image = s.image, t.soft = s.soft, t.cid = s.cid, t.staged = s.staged
    PROVE  StoreOK(t, e) /\ Latest(t) = Latest(s)
<1>1. LogGood(t.log)
  BY DEF StoreOK, Base, LogGood
<1>2. Latest(t) = Latest(s)
  <2>1. \A n \in t.log : n.gen <= Latest(s).gen
    BY LatestFacts DEF StoreOK, Base, DbOK
  <2> QED BY <1>1, <2>1, LatestIs
<1>3. Base(t, e)
  BY <1>1 DEF StoreOK, Base, Files, Agrees, Below
<1>4. Imaged(t, e)
  BY <1>2 DEF StoreOK, Imaged, Agrees
<1>5. Logged(t) /\ Counted(t)
  BY <1>2 DEF StoreOK, Logged, Counted
<1> QED BY <1>2, <1>3, <1>4, <1>5 DEF StoreOK

LEMMA PrunedOK ==
    ASSUME NEW s, NEW e, StoreOK(s, e), Latest(s).gen > 0
    PROVE  StoreOK(Pruned(s), e) /\ Latest(Pruned(s)) = Latest(s)
<1> DEFINE t == Pruned(s)
<1>1. DOMAIN s = DbFields /\ DbOK(s) /\ Latest(s) \in s.log /\ Latest(s).gen \in Nat
  BY LatestFacts DEF StoreOK, Base, DbOK
<1>2. /\ t.log = {m \in s.log : m.gen >= Latest(s).gen - 1 \/ m.gen \in ProtectedGens}
      /\ t.blobs = s.blobs /\ t.next = s.next /\ t.ptr = s.ptr /\ t.val = s.val
      /\ t.image = s.image /\ t.soft = s.soft /\ t.cid = s.cid /\ t.staged = s.staged
  BY <1>1 DEF Pruned, DbFields
<1>3. DbOK(t)
  BY <1>1, PrunedKeeps
<1> HIDE DEF t
<1>4. Latest(s).gen >= Latest(s).gen - 1
  BY SMTT(20), <1>1
<1>5. t.log \subseteq s.log /\ Latest(s) \in t.log
  BY <1>1, <1>2, <1>4
<1>6. StoreOK(t, e) /\ Latest(t) = Latest(s)
  BY SMTT(20), <1>2, <1>3, <1>5, FewerFrames
<1> QED BY <1>6 DEF t

\* Puts of the values vs.
LEMMA WriteAllOK ==
    ASSUME NEW s, NEW e, Base(s, e), NEW vs \in Seq(Nat), vs # <<>>
    PROVE  /\ Base(WriteAll(s, vs), e) /\ WriteAll(s, vs).log = s.log
           /\ WriteAll(s, vs).val = vs[Len(vs)] /\ WriteAll(s, vs).cid = s.cid + Len(vs)
           /\ WriteAll(s, vs).staged = s.staged
<1> DEFINE n == Len(vs)
           w == WriteAll(s, vs)
           g == [p \in s.next .. s.next + n - 1 |-> vs[p - s.next + 1]]
           f == Merge(s.blobs, g)
           l == s.next + n - 1
<1>1. DOMAIN s = DbFields /\ DbOK(s)
  BY DEF Base, DbOK
<1>2. /\ DOMAIN w = DbFields /\ w.log = s.log /\ w.boot = s.boot /\ w.val = vs[n] /\ w.ptr = l
      /\ w.cid = s.cid + n /\ w.staged = s.staged /\ w.blobs = f /\ w.next = s.next + n
  BY <1>1 DEF WriteAll, DbFields
<1>3. /\ s.next \in Nat \ {0} /\ DOMAIN s.blobs \subseteq Nat \ {0}
      /\ \A p \in DOMAIN s.blobs : p < s.next
  BY DEF Base, Files, Numbered
<1>4. n \in Nat \ {0}
  BY SMTT(20)
<1>5. /\ l \in Nat \ {0} /\ s.next <= l /\ l \in s.next .. l /\ l - s.next + 1 = n
      /\ \A p \in DOMAIN s.blobs : p \notin s.next .. l /\ p <= l
      /\ \A p \in s.next .. l : p \in Nat \ {0} /\ p <= l
      /\ \A p \in Nat : p <= l => p < s.next + n
  BY SMTT(20), <1>3, <1>4
<1>6. /\ DOMAIN f = DOMAIN s.blobs \cup s.next .. l
      /\ \A p \in DOMAIN s.blobs : f[p] = s.blobs[p]
      /\ \A p \in s.next .. l : p \notin DOMAIN s.blobs => f[p] = vs[p - s.next + 1]
  BY DEF Merge
<1>7. f[l] = vs[n]
  BY <1>5, <1>6
<1> HIDE DEF f, w, l, g, n
<1>8. DbOK(w)
  BY <1>1, <1>2, SameLog DEF Extends
<1>9. Numbered(f)
  BY <1>3, <1>5, <1>6 DEF Numbered
<1>10. Files(w)
  <2>1. w.next \in Nat \ {0}
    BY SMTT(20), <1>2, <1>3, <1>4
  <2>2. \A p \in DOMAIN f : p < w.next
    BY <1>2, <1>3, <1>5, <1>6
  <2>3. l # None
    BY SMTT(20), <1>5 DEF None
  <2>4. Held(l, vs[n], f) /\ l \in Nat
    BY <1>5, <1>6, <1>7, <2>3 DEF Held
  <2> QED BY <1>2, <1>9, <2>1, <2>2, <2>4 DEF Files
<1>11. Agrees(w.log, e, w.blobs) /\ Below(w.log, e, w.next)
  <2>1. \A m \in s.log : m.gen >= e => m.ptr \in Nat /\ m.ptr < s.next
    BY DEF Base, Below, LogGood
  <2>2. \A m \in s.log : m.gen >= e => m.ptr < w.next /\ m.ptr \notin s.next .. l
    BY SMTT(20), <1>2, <1>3, <1>4, <2>1
  <2> QED BY <1>2, <1>6, <2>2 DEF Agrees, Below, Base
<1>12. Base(w, e)
  BY <1>2, <1>8, <1>10, <1>11 DEF Base
<1> QED BY <1>2, <1>12 DEF w, n

LEMMA RecoveredOK ==
    ASSUME StoreOK(db, epoch), NEW e,
           e = IF \E m \in db.log : m.ptr > LastFile(db.image) THEN Latest(db).gen ELSE epoch
    PROVE  StoreOK(Recovered, e) /\ Latest(db).gen <= Latest(Recovered).gen
<1> DEFINE m == Latest(db)
           L == {n \in db.log : db.boot \/ n.gen > 0}
           s == [db EXCEPT !.cid = m.commit, !.val = m.val, !.ptr = m.ptr, !.staged = FALSE,
                           !.blobs = db.image, !.next = LastFile(db.image) + 1, !.log = L]
           w == WriteAll(s, db.soft)
<1>1. /\ DbOK(db) /\ DOMAIN db = DbFields /\ LogGood(db.log)
      /\ m \in db.log /\ m.gen \in Nat /\ m.commit \in Nat /\ m.val = m.commit /\ m.ptr \in Nat
      /\ \A n \in db.log : n.gen \in Nat /\ n.gen <= m.gen /\ n.ptr \in Nat
      /\ epoch \in Nat /\ epoch <= m.gen
  BY LatestFacts DEF StoreOK, Base, DbOK, LogGood
<1>2. /\ DOMAIN s = DbFields /\ s.log = L /\ s.boot = db.boot /\ s.cid = m.commit
      /\ s.val = m.val /\ s.ptr = m.ptr /\ s.staged = FALSE /\ s.blobs = db.image
      /\ s.next = LastFile(db.image) + 1 /\ s.image = db.image /\ s.soft = db.soft
  BY <1>1 DEF DbFields
<1>3. L \subseteq db.log /\ m \in L
  BY <1>1 DEF DbOK
<1>4. Recovered = IF db.soft = <<>> THEN s ELSE Frame(w)
  BY DEF Recovered
<1>5. LogGood(s.log)
  BY <1>1, <1>2, <1>3 DEF LogGood
<1> HIDE DEF s, L, m
<1>6. Latest(s) = m
  BY <1>1, <1>2, <1>3, <1>5, LatestIs
<1>7. DbOK(s)
  <2>1. LogOK(s.log)
    BY <1>1, <1>2, <1>3 DEF LogOK
  <2> QED BY <1>1, <1>2, <1>6, <2>1 DEF DbOK, m
<1>8. /\ Numbered(db.image) /\ Held(m.ptr, m.val, db.image)
      /\ \A n \in db.log : (n.gen >= epoch /\ n.ptr \in DOMAIN db.image) => db.image[n.ptr] = n.val
  BY DEF StoreOK, Imaged, Agrees, m
<1>9. /\ LastFile(db.image) \in Nat /\ \A q \in DOMAIN db.image : q <= LastFile(db.image)
  BY <1>8, LastFileFacts
<1>10. m.ptr <= LastFile(db.image)
  <2>1. CASE m.ptr = None
    BY SMTT(20), <1>9, <2>1 DEF None
  <2>2. CASE m.ptr # None
    BY <1>8, <1>9, <2>2 DEF Held
  <2> QED BY <2>1, <2>2
<1>11. /\ s.next \in Nat \ {0} /\ \A q \in Nat : q <= LastFile(db.image) => q < s.next
  BY SMTT(20), <1>2, <1>9
<1>12. Files(s)
  BY <1>1, <1>2, <1>8, <1>9, <1>11 DEF Files, Numbered
<1>13. e \in Nat /\ e <= m.gen /\ \A n \in db.log : n.gen >= e => n.gen >= epoch
  <2>1. \A g \in Nat : (g >= m.gen => g >= epoch) /\ m.gen <= m.gen
    BY SMTT(20), <1>1
  <2> QED BY <1>1, <2>1 DEF m
<1>14. Below(s.log, e, s.next)
  <2>1. CASE \E n \in db.log : n.ptr > LastFile(db.image)
    <3>1. e = m.gen
      BY <2>1 DEF m
    <3>2. \A n \in db.log : n.gen >= m.gen => n.gen = m.gen
      BY SMTT(20), <1>1
    <3>3. \A n \in db.log : n.gen >= e => n = m
      BY <1>1, <3>1, <3>2 DEF LogGood
    <3> QED BY <1>1, <1>2, <1>3, <1>10, <1>11, <3>3 DEF Below
  <2>2. CASE ~\E n \in db.log : n.ptr > LastFile(db.image)
    <3>1. \A q \in Nat : ~(q > LastFile(db.image)) => q <= LastFile(db.image)
      BY SMTT(20), <1>9
    <3> QED BY <1>1, <1>2, <1>3, <1>11, <2>2, <3>1 DEF Below
  <2> QED BY <2>1, <2>2
<1>15. Agrees(s.log, e, s.blobs)
  BY <1>2, <1>3, <1>8, <1>13 DEF Agrees
<1>16. Base(s, e)
  BY <1>5, <1>7, <1>12, <1>13, <1>14, <1>15 DEF Base
<1>17. /\ db.soft \in Seq(Nat) /\ \A k \in 1 .. Len(db.soft) : db.soft[k] = m.commit + k
  BY DEF StoreOK, Logged, m
<1>18. CASE db.soft = <<>>
  <2>1. Imaged(s, e)
    BY <1>2, <1>6, <1>8, <1>15 DEF Imaged
  <2>2. Logged(s)
    <3>1. Len(db.soft) = 0 /\ m.commit = m.commit + 0 /\ \A k \in 1 .. 0 : FALSE
      BY SMTT(20), <1>1, <1>18
    <3> QED BY <1>2, <1>6, <1>17, <3>1 DEF Logged
  <2>3. Counted(s)
    BY <1>1, <1>2 DEF Counted
  <2>4. m.gen <= m.gen
    BY SMTT(20), <1>1
  <2> QED BY <1>4, <1>6, <1>13, <1>16, <1>18, <2>1, <2>2, <2>3, <2>4 DEF StoreOK, m
<1>19. CASE db.soft # <<>>
  <2>1. /\ Base(w, e) /\ w.log = s.log /\ w.val = db.soft[Len(db.soft)]
        /\ w.cid = m.commit + Len(db.soft) /\ w.staged = FALSE
    <3>1. /\ Base(WriteAll(s, db.soft), e) /\ WriteAll(s, db.soft).log = s.log
          /\ WriteAll(s, db.soft).val = db.soft[Len(db.soft)]
          /\ WriteAll(s, db.soft).cid = s.cid + Len(db.soft)
          /\ WriteAll(s, db.soft).staged = s.staged
      BY SMTT(20), <1>16, <1>17, <1>19, WriteAllOK
    <3> QED BY <1>2, <3>1
  <2> HIDE DEF w
  <2>2. Len(db.soft) \in 1 .. Len(db.soft) /\ Len(db.soft) \in Nat
    BY SMTT(20), <1>17, <1>19
  <2>3. w.val = w.cid /\ w.cid \in Nat
    <3>1. db.soft[Len(db.soft)] = m.commit + Len(db.soft)
      BY <1>17, <2>2
    <3>2. m.commit + Len(db.soft) \in Nat
      BY SMTT(20), <1>1, <2>2
    <3> QED BY <2>1, <3>1, <3>2
  <2>4. Latest(w) = m
    BY <1>6, <2>1, SameLatest
  <2>5. e <= m.gen + 1 /\ m.gen <= m.gen + 1
    BY SMTT(20), <1>1, <1>13
  <2>6. StoreOK(Frame(w), e) /\ Latest(Frame(w)).gen = m.gen + 1
    BY <2>1, <2>3, <2>4, <2>5, FrameOK
  <2> QED BY <1>4, <1>19, <2>5, <2>6 DEF m
<1> QED BY <1>18, <1>19

-----------------------------------------------------------------------------
(* The calls. *)

\* Pages of protected generations are not overwritten, nor the newest one's.
LEMMA ReuseOK ==
    ASSUME StoreInv, NEW s, NEW e, StoreOK(s, e), Latest(db).gen <= Latest(s).gen,
           NEW keep, Reuse(s, keep)
    PROVE  /\ \A g \in gone' : g \in Nat /\ g < Latest(s).gen
           /\ \A g \in keep : g \notin gone \ {0} => g \notin gone' \ {0}
<1> DEFINE G == {m.gen : m \in {n \in s.log : n.gen < Latest(s).gen - 1}} \ keep
<1>1. gone' = gone \/ gone' = gone \cup G
  BY DEF Reuse
<1>2. Latest(db).gen \in Nat /\ Latest(s).gen \in Nat /\ \A m \in s.log : m.gen \in Nat
  BY LatestFacts DEF StoreInv, StoreOK, Base, DbOK, LogOK
<1>3. \A g \in gone : g \in Nat /\ g < Latest(s).gen
  BY SMTT(20), <1>2 DEF StoreInv
<1>4. \A g \in G : g \in Nat /\ g < Latest(s).gen - 1 /\ g \notin keep
  BY <1>2
<1> HIDE DEF G
<1>5. \A g \in G : g \in Nat /\ g < Latest(s).gen
  BY SMTT(20), <1>2, <1>4
<1> QED BY <1>1, <1>3, <1>4, <1>5

\* Every root in memory is protected, and so is every one in the file.
LEMMA AllProtected ==
    ASSUME IInv, h > 0
    PROVE  /\ \A i \in DOMAIN rs[h].roots : rs[h].roots[i].gen \in ProtectedGens
           /\ \A i \in DOMAIN rs[h].eph : rs[h].eph[i].gen \in ProtectedGens
           /\ \A i \in DOMAIN reg.roots : reg.roots[i].gen \in ProtectedGens
<1>1. /\ DOMAIN AllRoots = DOMAIN rs[h].roots \cup DOMAIN rs[h].eph
      /\ \A i \in DOMAIN rs[h].roots : AllRoots[i] = rs[h].roots[i]
      /\ \A i \in DOMAIN rs[h].eph : i \notin DOMAIN rs[h].roots => AllRoots[i] = rs[h].eph[i]
  BY DEF AllRoots, Merge
<1>2. \A i \in DOMAIN rs[h].eph : i \notin DOMAIN rs[h].roots
  BY IdFacts
<1>3. \A i \in DOMAIN AllRoots : AllRoots[i].gen \in ProtectedGens
  BY DEF ProtectedGens
<1> QED BY <1>1, <1>2, <1>3 DEF IInv, MemoryInv

\* A root keeps its pages and its record.
LEMMA KeptStays ==
    ASSUME NEW i, NEW m, Kept(m, i), m.gen \notin gone \ {0} => m.gen \notin gone' \ {0},
           i \in DOMAIN side => i \in DOMAIN side' /\ side'[i] = side[i]
    PROVE  Kept(m, i)'
BY DEF Kept, Paged

\* The store is replaced by one that goes on from it.
LEMMA MovedRoots ==
    ASSUME IInv, ReadInv, h > 0, NEW e, StoreOK(db', e), Latest(db).gen <= Latest(db').gen,
           Reuse(db', ProtectedGens), Covered(rs[h].eph, db'.log), epoch' = e,
           h' = h, reg' = reg, side' = side,
           rs'[h].roots = rs[h].roots,
           \A i \in DOMAIN rs'[h].eph : /\ i \in DOMAIN rs[h].eph /\ rs'[h].eph[i] = rs[h].eph[i]
                                        /\ (Viewed(i) => Viewed(i)')
    PROVE  StoreInv' /\ RootInv'
<1>1. /\ \A g \in gone' : g \in Nat /\ g < Latest(db').gen
      /\ \A g \in ProtectedGens : g \notin gone \ {0} => g \notin gone' \ {0}
  <2> PICK s : s = db'
    OBVIOUS
  <2>1. /\ \A g \in gone' : g \in Nat /\ g < Latest(s).gen
        /\ \A g \in ProtectedGens : g \notin gone \ {0} => g \notin gone' \ {0}
    BY SMTT(20), ReuseOK DEF ReadInv
  <2> QED BY <2>1
<1>2. StoreInv'
  BY <1>1 DEF StoreInv, StoreOK, Base, Latest, Imaged, Logged, Counted, Files
<1>3. \A i \in DOMAIN reg.roots : Kept(reg.roots[i], i)'
  BY <1>1, AllProtected, KeptStays DEF ReadInv, RootInv
<1>4. \A i \in DOMAIN rs[h].roots : Kept(rs[h].roots[i], i)'
  BY <1>1, AllProtected, KeptStays DEF ReadInv, RootInv
<1>5. ASSUME NEW i \in DOMAIN rs'[h].eph, NEW m, m = rs'[h].eph[i]
      PROVE  Paged(m)' /\ (Viewed(i)' \/ Kept(m, i)')
  <2>1. m = rs[h].eph[i] /\ m.gen \in ProtectedGens /\ Paged(m) /\ (Viewed(i) \/ Kept(m, i))
    BY <1>5, AllProtected DEF ReadInv, RootInv
  <2>2. Paged(m)' /\ (Kept(m, i) => Kept(m, i)')
    BY <1>1, <2>1, KeptStays DEF Paged
  <2> QED BY <1>5, <2>1, <2>2
<1>6. Covered(rs'[h].eph, db'.log)
  BY DEF Covered
<1> QED BY <1>2, <1>3, <1>4, <1>5, <1>6 DEF RootInv, Kept, Paged

\* Nothing changes but the job.
LEMMA Steady ==
    ASSUME ReadInv, db' = db, gone' = gone, epoch' = epoch, rs' = rs, lease' = lease,
           reg' = reg, side' = side
    PROVE  h' = h /\ StoreInv' /\ RootInv' /\ TxInv'
<1>1. h' = h
  BY DEF h
<1>2. StoreInv'
  BY DEF ReadInv, StoreInv
<1>3. RootInv'
  BY <1>1 DEF ReadInv, RootInv, Kept, Paged, Viewed, Covered
<1>4. TxInv'
  BY DEF ReadInv, TxInv
<1> QED BY <1>1, <1>2, <1>3, <1>4

\* A call that publishes s.
LEMMA StartReads ==
    ASSUME IInv, ReadInv, NEW op, NEW l, NEW c, NEW s, Start(op, l, c, s),
           NEW e, e = (IF op = "vacuum" THEN Latest(s).gen ELSE epoch),
           StoreOK(s, e), Latest(db).gen <= Latest(s).gen,
           Covered(rs[h].eph, s.log),
           op = "retain" => \A m \in s.log : m.commit = c => m.gen >= epoch,
           op = "tx" => Latest(s).commit = s.cid
    PROVE  ReadInv'
<1>1. PICK step \in {"install", "blob_tmp"} :
        job' = [op |-> op, lease |-> l, commit |-> c, to |-> s, step |-> step,
                id |-> 0, man |-> Latest(db)]
  BY DEF Start
<1>2. /\ db' = db /\ gone' = gone /\ epoch' = epoch /\ rs' = rs /\ lease' = lease
      /\ reg' = reg /\ side' = side
  BY DEF Start, handleVars, fileVars
<1>3. job'.op = op /\ job'.commit = c /\ job'.to = s /\ job'.step = step
  BY SMTT(20), <1>1
<1>4. h' = h /\ StoreInv' /\ RootInv' /\ TxInv'
  BY <1>2, Steady
<1>5. NextEpoch' = e
  BY <1>2, <1>3 DEF NextEpoch
<1>6. Moving'
  BY <1>2, <1>3, <1>4, <1>5 DEF Moving, Covered
<1>7. CallInv'
  BY <1>3, <1>6 DEF CallInv
<1> QED BY <1>4, <1>7 DEF ReadInv

\* A store with every frame of this one has every root's.
LEMMA EphCovered ==
    ASSUME ReadInv, h > 0, NEW s, Extends(db, s)
    PROVE  Covered(rs[h].eph, s.log)
BY DEF ReadInv, RootInv, Covered, Extends

\* Calls that change no blob file's number: the epoch stays.
LEMMA PlainStart ==
    ASSUME IInv, ReadInv, NEW op, op # "vacuum", NEW l, NEW c, NEW s, Start(op, l, c, s),
           StoreOK(s, epoch), Latest(db).gen <= Latest(s).gen, Extends(db, s),
           op = "retain" => \A m \in s.log : m.commit = c => m.gen >= epoch,
           op = "tx" => Latest(s).commit = s.cid
    PROVE  ReadInv'
<1>1. h > 0
  BY DEF Start, Idle, IInv, HandleInv
<1>2. Covered(rs[h].eph, s.log)
  BY <1>1, EphCovered
<1>3. epoch = (IF op = "vacuum" THEN Latest(s).gen ELSE epoch)
  OBVIOUS
<1> QED BY SMTT(20), <1>2, <1>3, StartReads

LEMMA PutReads ==
    ASSUME IInv, ReadInv, NEW op \in {"publish", "commit"}, NEW l, ~db.staged,
           Start(op, l, 0, Commit(Write(db, Value)))
    PROVE  ReadInv'
<1> DEFINE s == Commit(Write(db, Value))
<1>1. st = "open" /\ db.staged = FALSE /\ StoreOK(db, epoch)
  BY DEF Start, Idle, ReadInv, StoreInv, StoreOK, Counted
<1>2. StoreOK(s, epoch) /\ Latest(db).gen <= Latest(s).gen
  BY <1>1, PutOK DEF Value
<1>3. Extends(db, s)
  BY <1>1, Publications
<1> HIDE DEF s
<1>4. Start(op, l, 0, s) /\ op # "vacuum" /\ op # "retain" /\ op # "tx"
  BY DEF s
<1> QED BY <1>2, <1>3, <1>4, PlainStart

LEMMA FlushReads ==
    ASSUME IInv, ReadInv, NEW op \in {"publish", "retain", "snap", "tx"}, NEW l, NEW c,
           Start(op, l, c, Flushed(db)),
           op = "retain" => \A m \in Flushed(db).log : m.commit = c => m.gen >= epoch,
           op = "tx" => ~(mode = "wal_first" /\ db.staged)
    PROVE  ReadInv'
<1> DEFINE s == Flushed(db)
<1>1. st = "open" /\ StoreOK(db, epoch) /\ (~db.staged => db.staged = FALSE)
  BY DEF Start, Idle, ReadInv, StoreInv, StoreOK, Counted
<1>2. /\ StoreOK(s, epoch) /\ Latest(db).gen <= Latest(s).gen
      /\ op = "tx" => Latest(s).commit = s.cid
  BY <1>1, FlushedOK
<1>3. Extends(db, s)
  BY <1>1, Publications
<1>4. Start(op, l, c, s) /\ op # "vacuum"
      /\ (op = "retain" => \A m \in s.log : m.commit = c => m.gen >= epoch)
  OBVIOUS
<1> HIDE DEF s
<1> QED BY <1>2, <1>3, <1>4, PlainStart

LEMMA GcReads ==
    ASSUME IInv, ReadInv, Gc
    PROVE  ReadInv'
<1> DEFINE s == Swept(Flushed(db))
<1>1. st = "open" /\ StoreOK(db, epoch) /\ Start("publish", None, 0, s)
  BY DEF Gc, Maintain, Idle, ReadInv, StoreInv
<1>2. StoreOK(Flushed(db), epoch) /\ Flushed(db).staged = FALSE
      /\ Latest(db).gen <= Latest(Flushed(db)).gen
  BY <1>1, FlushedOK
<1>3. StoreOK(s, epoch) /\ Latest(Flushed(db)).gen <= Latest(s).gen
  BY <1>2, SweptOK
<1>4. Extends(db, s)
  BY <1>1, Publications
<1> HIDE DEF s
<1>5. Latest(db).gen \in Nat /\ Latest(Flushed(db)).gen \in Nat /\ Latest(s).gen \in Nat
  BY <1>1, <1>2, <1>3, LatestFacts DEF StoreOK, Base, DbOK
<1>6. Latest(db).gen <= Latest(s).gen
  BY SMTT(20), <1>2, <1>3, <1>5
<1> QED BY <1>1, <1>3, <1>4, <1>6, PlainStart

LEMMA VacuumReads ==
    ASSUME IInv, ReadInv, Vacuum
    PROVE  ReadInv'
<1> DEFINE s == Vacuumed(Flushed(db))
<1>1. st = "open" /\ StoreOK(db, epoch) /\ Start("vacuum", None, 0, s)
  BY DEF Vacuum, Maintain, Start, Idle, ReadInv, StoreInv
<1>2. StoreOK(Flushed(db), epoch) /\ Flushed(db).staged = FALSE
      /\ Latest(db).gen <= Latest(Flushed(db)).gen
  BY <1>1, FlushedOK
<1>3. StoreOK(s, Latest(s).gen) /\ Latest(Flushed(db)).gen <= Latest(s).gen
  BY <1>2, VacuumedOK
<1>4. Extends(db, s) /\ h > 0
  BY <1>1, Publications DEF IInv, HandleInv
<1> HIDE DEF s
<1>5. Latest(db).gen \in Nat /\ Latest(Flushed(db)).gen \in Nat /\ Latest(s).gen \in Nat
  BY <1>1, <1>2, <1>3, LatestFacts DEF StoreOK, Base, DbOK
<1>6. Latest(db).gen <= Latest(s).gen
  BY SMTT(20), <1>2, <1>3, <1>5
<1>7. Covered(rs[h].eph, s.log)
  BY <1>4, EphCovered
<1>8. PICK e : e = Latest(s).gen
  OBVIOUS
<1> QED BY SMTT(20), <1>1, <1>3, <1>6, <1>7, <1>8, StartReads

LEMMA PruneReads ==
    ASSUME IInv, ReadInv, Prune
    PROVE  ReadInv'
<1> DEFINE f == Flushed(db)
           s == Pruned(f)
<1>1. st = "open" /\ StoreOK(db, epoch) /\ Start("publish", None, 0, s) /\ Latest(f).gen > 0
  BY DEF Prune, Maintain, Idle, ReadInv, StoreInv
<1>2. StoreOK(f, epoch) /\ Latest(db).gen <= Latest(f).gen
  BY <1>1, FlushedOK
<1>3. StoreOK(s, epoch) /\ Latest(s) = Latest(f)
  BY <1>1, <1>2, PrunedOK
<1>4. Extends(db, f) /\ DbOK(f) /\ h > 0
  BY <1>1, Publications DEF IInv, HandleInv
<1>5. \A m \in f.log : m.gen \in ProtectedGens => m \in s.log
  BY <1>1, <1>4, PrunedKeeps
<1> HIDE DEF f, s
<1>6. Covered(rs[h].eph, s.log)
  BY <1>4, <1>5, EphCovered, AllProtected DEF Covered
<1>7. Latest(db).gen <= Latest(s).gen
  BY <1>2, <1>3
<1> QED BY SMTT(20), <1>1, <1>3, <1>6, <1>7, StartReads

LEMMA StageReads ==
    ASSUME IInv, ReadInv, Stage
    PROVE  ReadInv'
<1> DEFINE s == [Write(db, Value) EXCEPT !.staged = TRUE]
<1>1. /\ st = "open" /\ job = NoJob /\ db' = s /\ gone' = gone /\ epoch' = epoch
      /\ rs' = rs /\ h' = h /\ lease' = lease /\ reg' = reg /\ side' = side /\ job' = job
      /\ StoreOK(db, epoch) /\ db.staged = FALSE
  BY DEF Stage, Idle, fileVars, h, ReadInv, StoreInv, StoreOK, Counted
<1>2. StoreOK(s, epoch) /\ Latest(s) = Latest(db)
  BY <1>1, StageOK DEF Value
<1>3. h > 0 /\ Extends(db, db')
  <2>1. DOMAIN Write(db, Value) = DbFields /\ Write(db, Value).log = db.log
        /\ Write(db, Value).boot = db.boot
    BY SMTT(20) DEF Write, DbFields, IInv, HandleInv, DbOK
  <2>2. DOMAIN s = DbFields /\ s.log = db.log /\ s.boot = db.boot
    BY <2>1 DEF DbFields
  <2> QED BY <1>1, <2>2, SameLog DEF IInv, HandleInv
<1> HIDE DEF s
<1>4. Covered(rs[h].eph, db'.log)
  BY <1>3, EphCovered
<1>5. Latest(db).gen <= Latest(db').gen
  BY SMTT(20), <1>1, <1>2, LatestFacts DEF StoreOK, Base, DbOK
<1>6. Reuse(db', ProtectedGens)
  BY <1>1 DEF Reuse
<1>7. \A i : Viewed(i) => Viewed(i)'
  BY <1>1 DEF Viewed
<1>8. StoreInv' /\ RootInv'
  <2>1. StoreOK(db', epoch)
    BY <1>1, <1>2
  <2> QED BY <1>1, <1>3, <1>4, <1>5, <1>6, <1>7, <2>1, MovedRoots
<1> QED BY <1>1, <1>8 DEF ReadInv, TxInv, CallInv

LEMMA CloseReads ==
    ASSUME IInv, ReadInv, NEW flush \in BOOLEAN, Close(flush)
    PROVE  ReadInv'
<1>1. /\ st = "open" /\ job = NoJob /\ epoch' = epoch
      /\ rs' = rs /\ h' = h /\ lease' = lease /\ reg' = reg /\ side' = side /\ job' = job
      /\ StoreOK(db, epoch) /\ h > 0
      /\ \/ db' = Flushed(db) /\ Reuse(Flushed(db), ProtectedGens)
         \/ db' = db /\ gone' = gone
  BY DEF Close, Idle, fileVars, h, ReadInv, StoreInv, IInv, HandleInv
<1>2. CASE db' = Flushed(db) /\ Reuse(Flushed(db), ProtectedGens)
  <2>1. StoreOK(Flushed(db), epoch) /\ Latest(db).gen <= Latest(Flushed(db)).gen
    BY <1>1, FlushedOK
  <2>2. Extends(db, Flushed(db))
    BY <1>1, Publications
  <2>3. StoreOK(db', epoch) /\ Latest(db).gen <= Latest(db').gen /\ Reuse(db', ProtectedGens)
    BY <1>2, <2>1
  <2>4. Covered(rs[h].eph, db'.log)
    BY <1>1, <1>2, <2>2, EphCovered
  <2>5. \A i : Viewed(i) => Viewed(i)'
    BY <1>1 DEF Viewed
  <2>6. StoreInv' /\ RootInv'
    BY <1>1, <2>3, <2>4, <2>5, MovedRoots
  <2> QED BY <1>1, <2>6 DEF ReadInv, TxInv, CallInv
<1>3. CASE db' = db /\ gone' = gone
  BY <1>1, <1>3, Steady DEF ReadInv, CallInv
<1> QED BY <1>1, <1>2, <1>3

\* The roots of the next state.
LEMMA RootsNow ==
    ASSUME h' = h,
           \A i \in DOMAIN reg'.roots : \A m : m = reg'.roots[i] => Kept(m, i)',
           h > 0 => Covered(rs'[h].eph, db'.log),
           h > 0 => \A i \in DOMAIN rs'[h].roots : \A m : m = rs'[h].roots[i] => Kept(m, i)',
           h > 0 => \A i \in DOMAIN rs'[h].eph : \A m : m = rs'[h].eph[i] =>
                       Paged(m)' /\ (Viewed(i)' \/ Kept(m, i)')
    PROVE  RootInv'
BY DEF RootInv

LEMMA BeginViewReads ==
    ASSUME IInv, ReadInv, NEW l \in Leases, BeginView(l)
    PROVE  ReadInv'
<1> PICK n : n = rs[h].nextEph
  OBVIOUS
<1> PICK x : x = Merge(rs[h].eph, Single(n, Latest(db)))
  OBVIOUS
<1> PICK v : v = [kind |-> "view", h |-> h, id |-> n, base |-> db.cid, man |-> Latest(db)]
  OBVIOUS
<1>1. /\ st = "open" /\ job = NoJob /\ job' = job /\ lease[l] = NoLease
      /\ db' = db /\ gone' = gone /\ epoch' = epoch /\ reg' = reg /\ side' = side
      /\ rs' = [rs EXCEPT ![h].eph = x, ![h].nextEph = @ - 1]
      /\ lease' = [lease EXCEPT ![l] = v] /\ h > 0
  BY DEF BeginView, Idle, handleVars, fileVars, IInv, HandleInv
<1>2. /\ n \notin DOMAIN rs[h].eph /\ h \in 1 .. h
  BY <1>1, IdFacts
<1>3. /\ h' = h /\ rs'[h].eph = x /\ rs'[h].roots = rs[h].roots
  BY <1>1, <1>2, AddEph DEF IInv, Only
<1>4. /\ DOMAIN x = DOMAIN rs[h].eph \cup {n} /\ x[n] = Latest(db)
      /\ \A i \in DOMAIN rs[h].eph : x[i] = rs[h].eph[i]
  BY <1>2 DEF Merge, Single
<1>5. v.kind = "view" /\ v.h = h /\ v.id = n
  OBVIOUS
<1>6. /\ lease'[l] = v /\ \A j \in Leases : j # l => lease'[j] = lease[j]
  BY <1>1 DEF IInv, LeaseInv
<1>7. \A i : (Viewed(i) => Viewed(i)') /\ Viewed(n)'
  <2>1. \A j \in Leases : lease[j].kind = "view" => j # l
    BY <1>1, Kinds
  <2> QED BY <1>3, <1>5, <1>6, <2>1 DEF Viewed
<1>8. Latest(db) \in db.log /\ Paged(Latest(db))
  <2>1. Latest(db) \in db.log /\ Latest(db).gen \in Nat
    BY LatestFacts DEF IInv, HandleInv, DbOK
  <2>2. Latest(db).gen \notin gone
    BY SMTT(20), <2>1 DEF ReadInv, StoreInv
  <2> QED BY <2>1, <2>2 DEF Paged
<1>9. RootInv'
  <2>1. \A m, i : Kept(m, i) => Kept(m, i)'
    BY <1>1, KeptStays
  <2>2. \A m : Paged(m) => Paged(m)'
    BY <1>1 DEF Paged
  <2>3. Covered(x, db.log)
    BY <1>1, <1>4, <1>8 DEF ReadInv, RootInv, Covered
  <2>4. \A i \in DOMAIN reg.roots : Kept(reg.roots[i], i)
    BY DEF ReadInv, RootInv
  <2>5. \A i \in DOMAIN rs[h].roots : Kept(rs[h].roots[i], i)
    BY <1>1 DEF ReadInv, RootInv
  <2>6. ASSUME NEW i \in DOMAIN x PROVE Paged(x[i]) /\ (Viewed(i)' \/ Kept(x[i], i))
    <3>1. CASE i \in DOMAIN rs[h].eph
      BY <1>1, <1>4, <1>7, <3>1 DEF ReadInv, RootInv
    <3> QED BY <1>4, <1>7, <1>8, <2>6, <3>1
  <2> QED BY <1>1, <1>3, <2>1, <2>2, <2>3, <2>4, <2>5, <2>6, RootsNow
<1>10. TxInv'
  BY <1>5, <1>6 DEF ReadInv, TxInv
<1> QED BY <1>1, <1>9, <1>10 DEF ReadInv, StoreInv, CallInv

\* Fewer roots, and the pages, the records and the job as they were.
LEMMA FewerRoots ==
    ASSUME ReadInv, h > 0, h' = h, db' = db, gone' = gone, epoch' = epoch, job' = job, side' = side,
           \A i \in DOMAIN reg'.roots : \/ i \in DOMAIN reg.roots /\ reg'.roots[i] = reg.roots[i]
                                        \/ /\ i \in DOMAIN rs[h].roots
                                           /\ reg'.roots[i] = rs[h].roots[i],
           \A i \in DOMAIN rs'[h].roots : /\ i \in DOMAIN rs[h].roots
                                          /\ rs'[h].roots[i] = rs[h].roots[i],
           \A i \in DOMAIN rs'[h].eph : /\ i \in DOMAIN rs[h].eph /\ rs'[h].eph[i] = rs[h].eph[i]
                                        /\ (Viewed(i) => Viewed(i)'),
           \A l \in Leases : lease'[l] \in {lease[l], NoLease}
    PROVE  ReadInv'
<1>1. /\ \A m, i : Kept(m, i) => Kept(m, i)'
      /\ \A m : Paged(m) => Paged(m)'
  BY KeptStays DEF Paged
<1>2. Covered(rs'[h].eph, db'.log)
  BY DEF ReadInv, RootInv, Covered
<1>3. \A i \in DOMAIN reg'.roots : Kept(reg'.roots[i], i)
  BY DEF ReadInv, RootInv
<1>4. \A i \in DOMAIN rs'[h].roots : Kept(rs'[h].roots[i], i)
  BY DEF ReadInv, RootInv
<1>5. \A i \in DOMAIN rs'[h].eph : Paged(rs'[h].eph[i]) /\ (Viewed(i)' \/ Kept(rs'[h].eph[i], i))
  BY DEF ReadInv, RootInv
<1>6. RootInv'
  BY <1>1, <1>2, <1>3, <1>4, <1>5, RootsNow
<1>7. TxInv'
  BY Kinds DEF ReadInv, TxInv
<1>8. NextEpoch' = NextEpoch
  BY DEF NextEpoch
<1>9. Moving => Moving'
  BY <1>8 DEF Moving, Covered
<1>10. Rooting => Rooting'
  BY <1>1 DEF Rooting
<1>11. CallInv'
  BY <1>9, <1>10 DEF ReadInv, CallInv
<1> QED BY <1>6, <1>7, <1>11 DEF ReadInv, StoreInv

LEMMA StartRemoveReads ==
    ASSUME Known = {}, IInv, ReadInv, h > 0, NEW i, NEW by, StartRemove(h, i, by),
           \A l \in Leases : lease'[l] \in {lease[l], NoLease},
           \A l \in Leases : lease'[l] = lease[l] \/ lease[l].id = i
    PROVE  ReadInv'
<1>1. Careful
  BY DEF Careful
<1>2. /\ db' = db /\ job' = job /\ reg' = reg /\ side' = side /\ h' = h
      /\ rs'[h].roots = rs[h].roots
  BY <1>1, StartRemoveFacts
<1>3. gone' = gone /\ epoch' = epoch
  BY DEF StartRemove, handleVars
<1>4. \/ rs' = [rs EXCEPT ![h].eph = Without(rs[h].eph, i)]
      \/ rs' = rs /\ i \notin DOMAIN rs[h].eph
  <2>1. CASE i \in DOMAIN rs[h].eph
    <3>1. i \notin DOMAIN rs[h].roots
      BY <2>1, IdFacts
    <3> QED BY <2>1, <3>1 DEF StartRemove
  <2>2. CASE i \notin DOMAIN rs[h].eph
    BY <2>2 DEF StartRemove
  <2> QED BY <2>1, <2>2
<1>5. \A j \in DOMAIN rs'[h].eph : j \in DOMAIN rs[h].eph /\ rs'[h].eph[j] = rs[h].eph[j] /\ j # i
  <2>1. CASE rs' = [rs EXCEPT ![h].eph = Without(rs[h].eph, i)]
    <3> DEFINE x == Without(rs[h].eph, i)
    <3>1. DOMAIN x = DOMAIN rs[h].eph \ {i} /\ \A j \in DOMAIN x : x[j] = rs[h].eph[j]
      BY DEF Without
    <3>2. rs'[h].eph = x
      BY <2>1, IdFacts, SetEph DEF IInv
    <3> HIDE DEF x
    <3> QED BY <3>1, <3>2
  <2> QED BY <1>4, <2>1
<1>6. \A j : (j # i /\ Viewed(j)) => Viewed(j)'
  BY <1>2 DEF Viewed
<1> QED BY <1>2, <1>3, <1>5, <1>6, FewerRoots

LEMMA ReleaseSnapshotReads ==
    ASSUME Known = {}, IInv, ReadInv, NEW i \in DOMAIN named, ReleaseSnapshot(i)
    PROVE  ReadInv'
<1>1. h > 0 /\ StartRemove(h, i, "writer") /\ lease' = lease
  BY DEF ReleaseSnapshot, Idle, IInv, HandleInv
<1> QED BY <1>1, StartRemoveReads

LEMMA DropLeaseReads ==
    ASSUME Known = {}, IInv, ReadInv, NEW l \in Leases, DropLease(l)
    PROVE  ReadInv'
<1>1. /\ Live(l) /\ lease' = [lease EXCEPT ![l] = NoLease] /\ lease[l].h = h
      /\ StartRemove(lease[l].h, lease[l].id, "lease")
  BY DEF DropLease, Live
<1>2. h > 0
  <2>1. h \in 1 .. h /\ h \in Nat
    BY <1>1 DEF IInv, HandleInv, LeaseInv, HeldOK
  <2> QED BY SMTT(20), <2>1
<1>3. lease'[l] = NoLease /\ \A j \in Leases : j # l => lease'[j] = lease[j]
  BY <1>1 DEF IInv, LeaseInv
<1> PICK i : i = lease[l].id
  OBVIOUS
<1>4. StartRemove(h, i, "lease")
  BY <1>1
<1>5. /\ \A j \in Leases : lease'[j] \in {lease[j], NoLease}
      /\ \A j \in Leases : lease'[j] = lease[j] \/ lease[j].id = i
  BY <1>3
<1> QED BY <1>2, <1>4, <1>5, StartRemoveReads

LEMMA RemoveRootReads ==
    ASSUME IInv, ReadInv, RemoveRoot
    PROVE  ReadInv'
<1>1. /\ db' = db /\ gone' = gone /\ epoch' = epoch /\ job' = job /\ lease' = lease /\ side' = side
      /\ rel.step \in {"unlink", "persist"}
  BY DEF RemoveRoot, handleVars
<1>2. rel # NoRel /\ h > 0 /\ rel.h = h /\ h \in 1 .. h
  BY <1>1, Kinds, IdFacts DEF IInv, RelInv
<1>3. rel.step = "persist" => /\ tmp # NoTmp /\ tmp.kind = "registry"
                              /\ tmp.reg = WithoutRoot(Registry(h), rel.id)
  BY <1>2, Kinds DEF IInv, RelInv
<1>4. /\ rs' = [rs EXCEPT ![h].roots = Without(rs[h].roots, rel.id)]
      /\ \/ reg' = Empty /\ rel.step = "unlink"
         \/ reg' = WithoutRoot(Registry(h), rel.id)
  BY <1>1, <1>2, <1>3 DEF RemoveRoot, Renamed
<1> DEFINE x == Without(rs[h].roots, rel.id)
<1>5. /\ DOMAIN x = DOMAIN rs[h].roots \ {rel.id}
      /\ \A i \in DOMAIN x : x[i] = rs[h].roots[i]
  BY DEF Without
<1>6. Only(h) /\ rs'[h].eph = rs[h].eph /\ rs'[h].roots = x
  BY <1>2, <1>4, SetRoots DEF IInv
<1> HIDE DEF x
<1>7. \A i \in DOMAIN reg'.roots : i \in DOMAIN rs[h].roots /\ reg'.roots[i] = rs[h].roots[i]
  BY SMTT(20), <1>2, <1>4, RemovedRegistry
<1>8. h' = h /\ \A i : Viewed(i) => Viewed(i)'
  BY <1>1, <1>6 DEF Viewed, Only
<1> QED BY <1>1, <1>2, <1>5, <1>6, <1>7, <1>8, FewerRoots

-----------------------------------------------------------------------------
(* Sidecars and the steps of a registration. *)

\* The sidecar i, of no root, comes or goes.
LEMMA SideReads ==
    ASSUME IInv, ReadInv, h > 0, db' = db, gone' = gone, epoch' = epoch, rs' = rs, lease' = lease,
           reg' = reg,
           NEW i, i \notin DOMAIN rs[h].roots, i \notin DOMAIN rs[h].eph,
           \A j \in DOMAIN side : j # i => j \in DOMAIN side' /\ side'[j] = side[j]
    PROVE  h' = h /\ StoreInv' /\ RootInv' /\ TxInv'
<1>1. h' = h /\ \A j : Viewed(j) => Viewed(j)'
  BY DEF h, Viewed
<1>2. i \notin DOMAIN reg.roots
  BY DEF IInv, MemoryInv
<1>3. \A m, j : (Kept(m, j) /\ j # i) => Kept(m, j)'
  BY KeptStays
<1>4. \A m : Paged(m) => Paged(m)'
  BY DEF Paged
<1>5. \A j \in DOMAIN reg.roots : Kept(reg.roots[j], j) /\ j # i
  BY <1>2 DEF ReadInv, RootInv
<1>6. \A j \in DOMAIN rs[h].roots : Kept(rs[h].roots[j], j) /\ j # i
  BY DEF ReadInv, RootInv
<1>7. \A j \in DOMAIN rs[h].eph : Paged(rs[h].eph[j]) /\ (Viewed(j)' \/ Kept(rs[h].eph[j], j)) /\ j # i
  BY <1>1 DEF ReadInv, RootInv
<1>8. Covered(rs'[h].eph, db'.log)
  BY DEF ReadInv, RootInv
<1>9. RootInv'
  BY <1>1, <1>3, <1>4, <1>5, <1>6, <1>7, <1>8, RootsNow
<1> QED BY <1>1, <1>9 DEF ReadInv, StoreInv, TxInv

LEMMA RemoveSidecarReads ==
    ASSUME IInv, ReadInv, RemoveSidecar
    PROVE  ReadInv'
<1>1. /\ rel.step = "unside" /\ side' = Without(side, rel.id)
      /\ rs' = rs /\ job' = job /\ lease' = lease /\ reg' = reg
      /\ db' = db /\ gone' = gone /\ epoch' = epoch
  BY DEF RemoveSidecar, handleVars
<1> PICK i : i = rel.id
  OBVIOUS
<1>2. rel # NoRel
  BY <1>1, Kinds
<1>3. /\ h > 0 /\ i \notin DOMAIN rs[h].roots /\ i \notin DOMAIN rs[h].eph
      /\ i \in 1 .. rs[h].next - 1 \/ i \in rs[h].nextEph + 1 .. -1
  BY <1>1, <1>2 DEF IInv, RelInv
<1>4. \A j \in DOMAIN side : j # i => j \in DOMAIN side' /\ side'[j] = side[j]
  BY <1>1 DEF Without
<1>5. h' = h /\ StoreInv' /\ RootInv' /\ TxInv'
  BY <1>1, <1>3, <1>4, SideReads
<1>6. i # rs[h].next /\ i # rs[h].nextEph
  <2>1. StateOK(rs[h])
    BY <1>3, IdFacts
  <2> QED BY SMTT(20), <1>3, <2>1 DEF StateOK
<1>7. Moving => Moving'
  <2>1. NextEpoch' = NextEpoch
    BY <1>1 DEF NextEpoch
  <2> QED BY <1>1, <1>5, <2>1 DEF Moving, Covered
<1>8. ASSUME Rooting, Registering PROVE Rooting'
  <2>1. job.id # i
    BY <1>6, <1>8 DEF Registering
  <2>2. Kept(job.man, job.id) => Kept(job.man, job.id)'
    BY <1>1, <1>4, <2>1 DEF Kept, Paged
  <2> QED BY <1>1, <1>4, <1>8, <2>1, <2>2 DEF Rooting
<1>9. CallInv'
  <2>1. job # NoJob => job.step \in {"blob_tmp", "blob_rename", "install"} \/ Registering
    BY DEF IInv, JobInv
  <2> QED BY <1>1, <1>7, <1>8, <2>1 DEF ReadInv, CallInv
<1> QED BY <1>5, <1>9 DEF ReadInv

\* The sidecar of a registration that is given up.
LEMMA AbandonReads ==
    ASSUME IInv, ReadInv, job.step \in {"side", "check", "rename"}, job' = NoJob,
           side' = Without(side, job.id), rs' = rs, lease' = lease, reg' = reg,
           db' = db, gone' = gone, epoch' = epoch
    PROVE  ReadInv'
<1> PICK i : i = job.id
  OBVIOUS
<1>1. h > 0 /\ Registering
  BY JobFacts
<1>2. i \notin DOMAIN rs[h].roots /\ i \notin DOMAIN rs[h].eph
  BY <1>1, IdFacts DEF Registering
<1>3. \A j \in DOMAIN side : j # i => j \in DOMAIN side' /\ side'[j] = side[j]
  BY DEF Without
<1>4. StoreInv' /\ RootInv' /\ TxInv'
  BY <1>1, <1>2, <1>3, SideReads
<1> QED BY <1>4 DEF ReadInv, CallInv

LEMMA PersistFailsReads ==
    ASSUME Known = {}, IInv, ReadInv, NEW after \in BOOLEAN, PersistFails(after)
    PROVE  ReadInv'
<1>1. /\ rs' = rs /\ lease' = lease /\ named' = named
      /\ db' = db /\ gone' = gone /\ epoch' = epoch
  BY DEF PersistFails, handleVars
<1>2. CASE job.step = "rename" /\ side' = Without(side, job.id) /\ job' = NoJob /\ reg' = reg
  BY <1>1, <1>2, AbandonReads
<1>3. CASE /\ rel' = NoRel /\ side' = side /\ job' = job
           /\ \/ rel.step = "unlink" /\ (reg' = reg \/ reg' = Empty) /\ tmp' = tmp
              \/ rel.step = "persist" /\ tmp # NoTmp /\ (reg' = reg \/ Renamed)
  <2>1. rel # NoRel
    BY <1>3, Kinds
  <2>2. h > 0 /\ (rel.step = "persist" =>
                   tmp = [kind |-> "registry", reg |-> WithoutRoot(Registry(h), rel.id)])
    BY <1>3, <2>1 DEF IInv, RelInv
  <2>3. \/ reg' = reg
        \/ reg' = Empty /\ rel.step = "unlink"
        \/ reg' = WithoutRoot(Registry(h), rel.id)
    BY <1>3, <2>2, Kinds DEF Renamed
  <2>4. h' = h /\ \A i : Viewed(i) => Viewed(i)'
    BY <1>1 DEF h, Viewed
  <2>5. \A i \in DOMAIN reg'.roots : i \in DOMAIN rs[h].roots /\ reg'.roots[i] = rs[h].roots[i]
    <3>1. \A k \in 1 .. h : rs'[k].eph = rs[k].eph
      BY <1>1
    <3> QED BY <1>1, <1>3, <2>1, <2>3, <2>4, <3>1, RegistryReplaced
  <2> QED BY <1>1, <1>3, <2>2, <2>4, <2>5, FewerRoots
<1> QED BY <1>2, <1>3 DEF PersistFails

LEMMA SidecarFailsReads ==
    ASSUME IInv, ReadInv, SidecarFails
    PROVE  ReadInv'
BY AbandonReads DEF SidecarFails, handleVars

LEMMA MovingAt ==
    ASSUME IInv, ReadInv, job.step \in {"blob_tmp", "blob_rename"}, NEW s \in {"blob_rename", "install"},
           job' = [job EXCEPT !.step = s], db' = db, gone' = gone, epoch' = epoch, rs' = rs,
           lease' = lease, reg' = reg, side' = side
    PROVE  ReadInv'
<1>1. h' = h /\ StoreInv' /\ RootInv' /\ TxInv'
  BY Steady
<1>2. DOMAIN job = JobFields /\ job # NoJob
  BY JobFacts
<1>3. job'.step = s /\ job'.op = job.op /\ job'.commit = job.commit /\ job'.to = job.to
  BY <1>2, JobAt
<1>4. Moving
  BY <1>2 DEF ReadInv, CallInv
<1>5. NextEpoch' = NextEpoch
  BY SMTT(20), <1>3 DEF NextEpoch
<1>6. Moving'
  BY <1>1, <1>3, <1>4, <1>5 DEF Moving, Covered
<1> QED BY <1>1, <1>3, <1>6 DEF ReadInv, CallInv

LEMMA BlobReads ==
    ASSUME IInv, ReadInv, WriteBlobTmp \/ RenameBlobTmp
    PROVE  ReadInv'
<1>1. CASE WriteBlobTmp
  BY <1>1, MovingAt DEF WriteBlobTmp, handleVars
<1>2. CASE RenameBlobTmp
  <2>1. job.step = "blob_rename"
    BY <1>2 DEF RenameBlobTmp
  <2>2. tmp # NoTmp
    BY <2>1, JobFacts, Kinds DEF Publishing
  <2> QED BY <1>2, <2>1, <2>2, MovingAt DEF RenameBlobTmp
<1> QED BY <1>1, <1>2

LEMMA WriteSidecarReads ==
    ASSUME IInv, ReadInv, WriteSidecar
    PROVE  ReadInv'
<1> PICK i : i = job.id
  OBVIOUS
<1>1. /\ job.step = "side" /\ side' = Merge(Single(i, db.blobs), side)
      /\ job' = [job EXCEPT !.step = "check"]
      /\ db' = db /\ gone' = gone /\ epoch' = epoch /\ rs' = rs /\ lease' = lease /\ reg' = reg
  BY DEF WriteSidecar, handleVars
<1>2. h > 0 /\ Registering /\ DOMAIN job = JobFields /\ job # NoJob
  BY <1>1, JobFacts
<1>3. i \notin DOMAIN rs[h].roots /\ i \notin DOMAIN rs[h].eph
  BY <1>2, IdFacts DEF Registering
<1>4. /\ i \in DOMAIN side' /\ side'[i] = db.blobs
      /\ \A j \in DOMAIN side : j # i => j \in DOMAIN side' /\ side'[j] = side[j]
  BY <1>1 DEF Merge, Single
<1>5. h' = h /\ StoreInv' /\ RootInv' /\ TxInv'
  BY <1>1, <1>2, <1>3, <1>4, SideReads
<1>6. /\ job'.step = "check" /\ job'.op = job.op /\ job'.id = i /\ job'.man = job.man
  BY <1>1, <1>2, JobAt
<1>7. Rooting
  BY <1>1, <1>2 DEF ReadInv, CallInv
<1>8. Rooting'
  BY <1>1, <1>4, <1>6, <1>7 DEF Rooting
<1> QED BY <1>5, <1>6, <1>8 DEF ReadInv, CallInv

\* What passes the checks can be read.
LEMMA CheckedKept ==
    ASSUME IInv, ReadInv, job.step = "check", Intact(job.man, db.blobs)
    PROVE  Kept(job.man, job.id)
<1>1. Registering /\ job # NoJob
  BY JobFacts
<1>2. Rooting
  BY <1>1 DEF ReadInv, CallInv
<1> PICK m : m = job.man
  OBVIOUS
<1>3. /\ m \in db.log /\ m.gen >= epoch /\ job.id \in DOMAIN side /\ side[job.id] = db.blobs
  BY <1>1, <1>2 DEF Registering, Rooting
<1>4. /\ m.val = m.commit /\ (m.gen = 0 => m.ptr = None)
      /\ m.ptr \in DOMAIN db.blobs => db.blobs[m.ptr] = m.val
  BY <1>3 DEF ReadInv, StoreInv, StoreOK, Base, LogGood, Agrees
<1>5. m.gen = 0 \/ (m.gen \notin gone /\ m.ptr \in DOMAIN db.blobs \cup {None})
  BY DEF Intact
<1> QED BY <1>3, <1>4, <1>5 DEF Kept, Paged

LEMMA CheckRootReads ==
    ASSUME IInv, ReadInv, CheckRoot
    PROVE  ReadInv'
<1>1. /\ job.step = "check" /\ db' = db /\ gone' = gone /\ epoch' = epoch /\ reg' = reg
  BY DEF CheckRoot, handleVars
<1>2. /\ h > 0 /\ DOMAIN job = JobFields /\ Registering /\ job # NoJob
      /\ job.op \in {"snap", "tx"} => job.lease \in Leases /\ lease[job.lease] = NoLease
  BY <1>1, JobFacts
<1>3. Rooting
  BY <1>1, <1>2 DEF ReadInv, CallInv
<1>4. CASE /\ side' = Without(side, job.id) /\ job' = NoJob /\ rs' = rs /\ lease' = lease
  BY <1>1, <1>4, AbandonReads
<1>5. CASE /\ job.op = "tx" /\ Intact(job.man, db.blobs)
           /\ rs' = [rs EXCEPT ![h].eph = Merge(@, Single(job.id, job.man)), ![h].nextEph = @ - 1]
           /\ lease' = [lease EXCEPT ![job.lease] = Holding("tx")]
           /\ job' = NoJob /\ side' = side
  <2> PICK n : n = job.id
    OBVIOUS
  <2> PICK x : x = Merge(rs[h].eph, Single(n, job.man))
    OBVIOUS
  <2> PICK l \in Leases : l = job.lease
    BY <1>2, <1>5
  <2>1. n = rs[h].nextEph /\ n \notin DOMAIN rs[h].eph /\ h \in 1 .. h /\ lease[l] = NoLease
    BY <1>2, <1>5, IdFacts DEF Registering
  <2>2. rs' = [rs EXCEPT ![h].eph = x, ![h].nextEph = @ - 1]
    BY <1>5
  <2>3. h' = h /\ rs'[h].eph = x /\ rs'[h].roots = rs[h].roots
    BY <2>1, <2>2, AddEph DEF IInv, Only
  <2>4. /\ DOMAIN x = DOMAIN rs[h].eph \cup {n} /\ x[n] = job.man
        /\ \A i \in DOMAIN rs[h].eph : x[i] = rs[h].eph[i]
    BY <2>1 DEF Merge, Single
  <2>5. /\ lease'[l].kind = "tx" /\ lease'[l].base = db.cid /\ lease'[l].man = job.man
        /\ \A j \in Leases : j # l => lease'[j] = lease[j]
    BY <1>5 DEF Holding, IInv, LeaseInv
  <2>6. \A i : Viewed(i) => Viewed(i)'
    <3>1. \A j \in Leases : lease[j].kind = "view" => j # l
      BY <2>1, Kinds
    <3> QED BY <2>3, <2>5, <3>1 DEF Viewed
  <2>7. Kept(job.man, n) /\ job.man \in db.log
    BY <1>1, <1>2, <1>5, CheckedKept DEF Registering
  <2>8. RootInv'
    <3>1. /\ \A m, i : Kept(m, i) => Kept(m, i)'
          /\ \A m : Paged(m) => Paged(m)'
      BY <1>1, <1>5, KeptStays DEF Paged
    <3>2. Covered(x, db.log)
      BY <1>2, <2>4, <2>7 DEF ReadInv, RootInv, Covered
    <3>3. \A i \in DOMAIN reg.roots : Kept(reg.roots[i], i)
      BY DEF ReadInv, RootInv
    <3>4. \A i \in DOMAIN rs[h].roots : Kept(rs[h].roots[i], i)
      BY <1>2 DEF ReadInv, RootInv
    <3>5. ASSUME NEW i \in DOMAIN x PROVE Paged(x[i]) /\ (Viewed(i)' \/ Kept(x[i], i))
      <4>1. CASE i \in DOMAIN rs[h].eph
        BY <1>2, <2>4, <2>6, <4>1 DEF ReadInv, RootInv
      <4>2. CASE i = n
        BY <2>4, <2>7, <4>2 DEF Kept
      <4> QED BY <2>4, <3>5, <4>1, <4>2
    <3> QED BY <1>1, <1>2, <2>3, <3>1, <3>2, <3>3, <3>4, <3>5, RootsNow
  <2>9. TxInv'
    <3>1. job.man.commit = db.cid
      BY <1>3, <1>5 DEF Rooting
    <3> QED BY <2>5, <3>1 DEF ReadInv, TxInv
  <2> QED BY <1>1, <1>5, <2>8, <2>9 DEF ReadInv, StoreInv, CallInv
<1>6. CASE /\ job.op # "tx" /\ Intact(job.man, db.blobs)
           /\ job' = [job EXCEPT !.step = "rename"]
           /\ rs' = rs /\ lease' = lease /\ side' = side
  <2>1. job'.step = "rename" /\ job'.op = job.op /\ job'.id = job.id /\ job'.man = job.man
    BY <1>2, <1>6, JobAt
  <2>2. StoreInv' /\ RootInv' /\ TxInv'
    BY <1>1, <1>6, Steady
  <2>3. Kept(job.man, job.id)
    BY <1>1, <1>6, CheckedKept
  <2>4. Kept(job.man, job.id)'
    <3> PICK m : m = job.man
      OBVIOUS
    <3> PICK i : i = job.id
      OBVIOUS
    <3>1. Kept(m, i)'
      BY <1>1, <1>6, <2>3 DEF Kept, Paged
    <3> QED BY <2>1, <3>1 DEF Kept, Paged
  <2>5. Rooting'
    BY <1>1, <1>3, <1>6, <2>1, <2>4 DEF Rooting
  <2> QED BY <2>1, <2>2, <2>5 DEF ReadInv, CallInv
<1> QED BY <1>4, <1>5, <1>6 DEF CheckRoot

LEMMA InsertRootReads ==
    ASSUME IInv, ReadInv, InsertRoot
    PROVE  ReadInv'
<1>1. /\ job' = NoJob /\ db' = db /\ side' = side /\ h > 0 /\ Registering /\ job.op # "tx"
      /\ job.op = "snap" => /\ job.lease \in Leases /\ lease[job.lease] = NoLease
                            /\ lease' = [lease EXCEPT ![job.lease] = Holding("snap")]
      /\ job.op # "snap" => lease' = lease
      /\ reg' = WithRoot(Registry(h), job.man)
      /\ rs' = [rs EXCEPT ![h].next = reg'.next, ![h].roots = reg'.roots]
  BY InsertedRoot
<1>2. gone' = gone /\ epoch' = epoch /\ job.step = "rename"
  BY DEF InsertRoot, handleVars
<1> PICK n : n = rs[h].next
  OBVIOUS
<1>3. n = job.id /\ h \in 1 .. h /\ n \notin DOMAIN rs[h].roots
  BY <1>1, IdFacts DEF Registering
<1>4. Kept(job.man, n)
  <2>1. job # NoJob
    BY <1>2, Kinds
  <2> QED BY <1>2, <1>3, <2>1 DEF ReadInv, CallInv, Rooting
<1>5. reg'.roots = Merge(rs[h].roots, Single(n, job.man))
  BY SMTT(20), <1>1 DEF WithRoot, Registry
<1>6. /\ DOMAIN reg'.roots = DOMAIN rs[h].roots \cup {n} /\ reg'.roots[n] = job.man
      /\ \A i \in DOMAIN rs[h].roots : reg'.roots[i] = rs[h].roots[i]
  BY <1>3, <1>5 DEF Merge, Single
<1>7. /\ Only(h) /\ DOMAIN rs'[h] = StateFields
      /\ rs'[h].eph = rs[h].eph /\ rs'[h].nextEph = rs[h].nextEph
      /\ rs'[h].roots = reg'.roots /\ rs'[h].next = reg'.next
  BY <1>1, <1>3, AddRoot DEF IInv
<1>8. h' = h /\ \A l \in Leases : lease'[l] = lease[l]
                                 \/ (lease[l] = NoLease /\ lease'[l].kind = "snap")
  <2>1. h' = h /\ DOMAIN lease = Leases
    BY <1>7 DEF Only, IInv, LeaseInv
  <2>2. CASE job.op = "snap"
    <3> PICK v : v = Holding("snap")
      OBVIOUS
    <3>1. v.kind = "snap"
      BY DEF Holding
    <3> QED BY <1>1, <2>1, <2>2, <3>1
  <2> QED BY <1>1, <2>1, <2>2
<1>9. \A i : Viewed(i) => Viewed(i)'
  <2>1. \A l \in Leases : lease[l].kind = "view" => lease[l] # NoLease
    BY Kinds
  <2> QED BY <1>8, <2>1 DEF Viewed
<1>10. RootInv'
  <2>1. /\ \A m, i : Kept(m, i) => Kept(m, i)'
        /\ \A m : Paged(m) => Paged(m)'
    BY <1>1, <1>2, KeptStays DEF Paged
  <2>2. \A i \in DOMAIN reg'.roots : Kept(reg'.roots[i], i)
    BY <1>1, <1>4, <1>6 DEF ReadInv, RootInv
  <2>3. Covered(rs'[h].eph, db'.log)
    BY <1>1, <1>7 DEF ReadInv, RootInv
  <2>4. \A i \in DOMAIN rs[h].eph : Paged(rs[h].eph[i]) /\ (Viewed(i)' \/ Kept(rs[h].eph[i], i))
    BY <1>1, <1>9 DEF ReadInv, RootInv
  <2> QED BY <1>7, <1>8, <2>1, <2>2, <2>3, <2>4, RootsNow
<1>11. TxInv'
  BY <1>8 DEF ReadInv, TxInv
<1> QED BY <1>1, <1>2, <1>10, <1>11 DEF ReadInv, StoreInv, CallInv

-----------------------------------------------------------------------------
(* The publication is complete. *)

LEMMA InstalledReads ==
    ASSUME IInv, ReadInv, Install, h' = h, rs'[h].roots = rs[h].roots,
           \A i \in DOMAIN rs'[h].eph : /\ i \in DOMAIN rs[h].eph /\ rs'[h].eph[i] = rs[h].eph[i]
                                        /\ (Viewed(i) => Viewed(i)')
    PROVE  StoreInv' /\ RootInv'
<1>1. /\ job.step = "install" /\ db' = job.to /\ Reuse(job.to, ProtectedGens)
      /\ epoch' = NextEpoch
  BY DEF Install, NextEpoch
<1>2. h > 0 /\ job # NoJob /\ reg' = reg /\ side' = side
  BY <1>1, Installed, JobFacts
<1>3. Moving
  BY <1>1, <1>2 DEF ReadInv, CallInv
<1>4. /\ StoreOK(db', NextEpoch) /\ Latest(db).gen <= Latest(db').gen
      /\ Covered(rs[h].eph, db'.log) /\ Reuse(db', ProtectedGens)
  BY <1>1, <1>3 DEF Moving
<1> PICK e : e = NextEpoch
  OBVIOUS
<1>5. StoreOK(db', e) /\ epoch' = e
  BY <1>1, <1>4
<1> QED BY <1>2, <1>4, <1>5, MovedRoots

LEMMA InstallReads ==
    ASSUME IInv, ReadInv, Install
    PROVE  ReadInv'
<1>1. /\ h > 0 /\ h \in 1 .. h /\ Publishing /\ DOMAIN job = JobFields /\ job.step = "install"
      /\ job.op \in {"publish", "vacuum", "commit", "retain", "snap", "tx"}
      /\ db' = job.to
  BY Installed
<1>2. Moving
  <2>1. job # NoJob
    BY <1>1, Kinds
  <2> QED BY <1>1, <2>1 DEF ReadInv, CallInv
<1>3. ASSUME rs' = rs, lease' = lease PROVE StoreInv' /\ RootInv' /\ TxInv'
  <2>1. h' = h /\ \A i : Viewed(i) => Viewed(i)'
    BY <1>3 DEF h, Viewed
  <2>2. StoreInv' /\ RootInv'
    BY <1>3, <2>1, InstalledReads
  <2> QED BY <1>3, <2>2 DEF ReadInv, TxInv
<1>4. CASE job' = NoJob /\ rs' = rs /\ lease' = lease
  BY <1>3, <1>4 DEF ReadInv, CallInv
<1>5. ASSUME job.op \in {"retain", "snap", "tx"}, rs' = rs, lease' = lease,
             NEW m \in Target(job.to),
             job' = [job EXCEPT !.step = "side", !.man = m, !.id =
                       IF job.op = "tx" THEN rs[h].nextEph ELSE rs[h].next]
      PROVE  ReadInv'
  <2>1. job'.step = "side" /\ job'.op = job.op /\ job'.man = m
    BY <1>1, <1>5 DEF JobFields
  <2>2. epoch' = epoch /\ NextEpoch = epoch
    BY <1>5 DEF Install, NextEpoch
  <2>3. epoch <= Latest(job.to).gen /\ epoch \in Nat /\ Latest(job.to).gen \in Nat
    <3>1. StoreOK(job.to, epoch)
      BY <1>2, <2>2 DEF Moving
    <3> QED BY <3>1, LatestFacts DEF StoreOK, Base, DbOK
  <2>4. Latest(job.to).gen >= epoch
    BY SMTT(20), <2>3
  <2>5. m.gen >= epoch
    <3>1. CASE job.op = "retain"
      BY <1>2, <1>5, <3>1 DEF Moving, Target
    <3>2. CASE job.op # "retain"
      BY <1>5, <2>4, <3>2 DEF Target
    <3> QED BY <3>1, <3>2
  <2>6. job.op = "tx" => m.commit = db'.cid
    <3>1. job.op = "tx" => m = Latest(job.to)
      BY <1>5 DEF Target
    <3> QED BY <1>1, <1>2, <3>1 DEF Moving
  <2>7. Rooting'
    BY <2>1, <2>2, <2>5, <2>6 DEF Rooting
  <2>8. CallInv'
    BY <2>1, <2>7 DEF CallInv
  <2> QED BY <1>3, <1>5, <2>8 DEF ReadInv
<1>6. CASE job.op = "commit"
  <2> PICK l \in Leases : l = job.lease /\ lease[l].kind = "tx" /\ lease[l].h = h
    BY <1>1, <1>6 DEF Publishing
  <2> PICK i : i = lease[l].id
    OBVIOUS
  <2>1. /\ rs' = [rs EXCEPT ![h].eph = Without(rs[h].eph, i)]
        /\ lease' = [lease EXCEPT ![l] = NoLease] /\ job' = NoJob
    BY <1>6 DEF Install
  <2> DEFINE x == Without(rs[h].eph, i)
  <2>2. DOMAIN x = DOMAIN rs[h].eph \ {i} /\ \A j \in DOMAIN x : x[j] = rs[h].eph[j]
    BY DEF Without
  <2>3. /\ Only(h) /\ DOMAIN rs'[h] = StateFields
        /\ rs'[h].eph = x /\ rs'[h].nextEph = rs[h].nextEph
        /\ rs'[h].roots = rs[h].roots /\ rs'[h].next = rs[h].next
    BY <1>1, <2>1, SetEph DEF IInv
  <2> HIDE DEF x
  <2>4. lease'[l] = NoLease /\ \A j \in Leases : j # l => lease'[j] = lease[j]
    BY <2>1 DEF IInv, LeaseInv
  <2>5. h' = h /\ \A j : Viewed(j) => Viewed(j)'
    BY <2>3, <2>4 DEF Viewed, Only
  <2>6. StoreInv' /\ RootInv'
    BY <2>2, <2>3, <2>5, InstalledReads
  <2>7. TxInv'
    BY <2>4, Kinds DEF ReadInv, TxInv
  <2> QED BY <2>1, <2>6, <2>7 DEF ReadInv, CallInv
<1>7. CASE job.op \in {"publish", "vacuum"}
  BY <1>4, <1>7 DEF Install
<1>8. CASE job.op = "retain" /\ Holds(job.commit) # {}
  BY <1>4, <1>8 DEF Install
<1>9. CASE job.op \in {"snap", "tx"} \/ (job.op = "retain" /\ Holds(job.commit) = {})
  <2>1. /\ rs' = rs /\ lease' = lease
        /\ job' = NoJob \/ \E m \in Target(job.to) :
              job' = [job EXCEPT !.step = "side", !.man = m, !.id =
                        IF job.op = "tx" THEN rs[h].nextEph ELSE rs[h].next]
    BY <1>9 DEF Install
  <2> QED BY <1>4, <1>5, <1>9, <2>1
<1> QED BY <1>1, <1>6, <1>7, <1>8, <1>9

-----------------------------------------------------------------------------
(* The life of the handle and of the process. *)

LEMMA CrashReads ==
    ASSUME IInv, ReadInv, Crash
    PROVE  ReadInv'
<1>1. /\ rs' = <<>> /\ job' = NoJob /\ lease' = [l \in Leases |-> NoLease]
      /\ db' = db /\ gone' = gone /\ epoch' = epoch /\ reg' = reg /\ side' = side
  BY DEF Crash, fileVars
<1>2. ~(h' > 0)
  BY SMTT(20), <1>1 DEF h
<1>3. \A i \in DOMAIN reg.roots : Kept(reg.roots[i], i)'
  BY <1>1, KeptStays DEF ReadInv, RootInv, Kept, Paged
<1>4. RootInv'
  BY <1>1, <1>2, <1>3 DEF RootInv
<1>5. TxInv'
  BY <1>1, Kinds DEF TxInv
<1> QED BY <1>1, <1>4, <1>5 DEF ReadInv, StoreInv, CallInv

LEMMA OpenReads ==
    ASSUME IInv, ReadInv, Open
    PROVE  ReadInv'
<1> DEFINE K == {reg.roots[i].gen : i \in DOMAIN reg.roots}
<1>1. /\ st = "closed" /\ side' = OwnedSidecars /\ db' = Recovered
      /\ Reuse(Recovered, K) /\ job' = job /\ lease' = lease /\ reg' = reg
      /\ epoch' = IF \E m \in db.log : m.ptr > LastFile(db.image) THEN Latest(db).gen ELSE epoch
  BY DEF Open
<1>2. job = NoJob
  BY <1>1 DEF IInv, JobInv
<1> PICK e : e = IF \E m \in db.log : m.ptr > LastFile(db.image) THEN Latest(db).gen ELSE epoch
  OBVIOUS
<1>3. StoreOK(Recovered, e) /\ Latest(db).gen <= Latest(Recovered).gen /\ epoch' = e
  BY <1>1, RecoveredOK DEF ReadInv, StoreInv
<1>4. /\ \A g \in gone' : g \in Nat /\ g < Latest(Recovered).gen
      /\ \A g \in K : g \notin gone \ {0} => g \notin gone' \ {0}
  <2> HIDE DEF K
  <2> PICK s : s = Recovered
    OBVIOUS
  <2>1. /\ StoreInv /\ StoreOK(s, e) /\ Latest(db).gen <= Latest(s).gen /\ Reuse(s, K)
    BY <1>1, <1>3 DEF ReadInv
  <2>2. /\ \A g \in gone' : g \in Nat /\ g < Latest(s).gen
        /\ \A g \in K : g \notin gone \ {0} => g \notin gone' \ {0}
    BY <2>1, ReuseOK
  <2> QED BY <2>2
<1>5. StoreInv'
  BY <1>1, <1>3, <1>4 DEF StoreInv
<1>6. rs'[h'] = Loaded
  BY OpenedStates
<1>7. Loaded.roots = reg.roots /\ DOMAIN Loaded.eph = {}
  BY SMTT(20) DEF Loaded
<1>8. \A i \in DOMAIN reg.roots : /\ i \in DOMAIN side => i \in DOMAIN side' /\ side'[i] = side[i]
                                  /\ reg.roots[i].gen \in K
  BY <1>1 DEF OwnedSidecars
<1>9. ASSUME NEW i \in DOMAIN reg.roots, NEW m, m = reg.roots[i] PROVE Kept(m, i)'
  <2>1. Kept(m, i) /\ (m.gen \notin gone \ {0} => m.gen \notin gone' \ {0})
    BY <1>4, <1>8, <1>9 DEF ReadInv, RootInv
  <2> QED BY <1>8, <2>1, KeptStays
<1>10. RootInv'
  BY <1>1, <1>6, <1>7, <1>9 DEF RootInv, Covered
<1> QED BY <1>1, <1>2, <1>5, <1>10 DEF ReadInv, TxInv, CallInv

LEMMA InitReads ==
    ASSUME Init
    PROVE  ReadInv
<1> DEFINE m == [gen |-> 0, commit |-> 0, val |-> 0, ptr |-> None]
<1>1. /\ gone = {} /\ epoch = 0 /\ rs = <<Loaded>> /\ job = NoJob /\ reg = Empty
      /\ side = <<>> /\ lease = [l \in Leases |-> NoLease]
  BY DEF Init
<1>2. /\ DOMAIN db = DbFields /\ db.cid = 0 /\ db.val = 0 /\ db.ptr = None /\ db.blobs = <<>>
      /\ db.next = 1 /\ db.staged = FALSE /\ db.soft = <<>> /\ db.image = <<>> /\ db.boot = TRUE
      /\ db.log = {m}
  BY SMTT(20) DEF Init, DbFields
<1>3. m.gen = 0 /\ m.commit = 0 /\ m.val = 0 /\ m.ptr = None
  OBVIOUS
<1> HIDE DEF m
<1>4. /\ 0 \in Nat /\ 1 \in Nat \ {0} /\ None = 0 /\ 0 <= 0 /\ 0 < 1 /\ 0 = 0 + 0
      /\ DOMAIN <<>> = {} /\ <<>> \in Seq(Nat) /\ Len(<<>>) = 0 /\ \A k \in 1 .. 0 : FALSE
  BY SMTT(20) DEF None
<1>5. LogGood(db.log)
  BY <1>2, <1>3, <1>4 DEF LogGood
<1>6. Latest(db) = m
  <2>1. m \in db.log /\ \A n \in db.log : n.gen <= m.gen
    BY <1>2, <1>3, <1>4
  <2> QED BY <1>5, <2>1, LatestIs
<1>7. DbOK(db)
  BY InitStep DEF IInv, HandleInv
<1>8. Numbered(<<>>) /\ Held(None, 0, <<>>)
  BY <1>4 DEF Numbered, Held
<1>9. Files(db)
  BY <1>2, <1>4, <1>8 DEF Files
<1>10. Base(db, epoch)
  BY <1>1, <1>2, <1>3, <1>4, <1>5, <1>7, <1>9 DEF Base, Agrees, Below
<1>11. Imaged(db, epoch) /\ Logged(db) /\ Counted(db)
  BY <1>1, <1>2, <1>3, <1>4, <1>6, <1>8 DEF Imaged, Agrees, Logged, Counted
<1>12. StoreInv
  BY <1>1, <1>3, <1>4, <1>6, <1>10, <1>11 DEF StoreInv, StoreOK
<1>13. h = 1 /\ rs[1] = Loaded
  <2> HIDE DEF Loaded
  <2> QED BY SMTT(20), <1>1 DEF h
<1>14. DOMAIN reg.roots = {} /\ DOMAIN Loaded.roots = {} /\ DOMAIN Loaded.eph = {}
  BY SMTT(20), <1>1 DEF Loaded, Empty
<1>15. RootInv
  BY <1>13, <1>14 DEF RootInv, Covered
<1>16. TxInv
  BY <1>1, Kinds DEF TxInv
<1> QED BY <1>1, <1>12, <1>15, <1>16 DEF ReadInv, CallInv

LEMMA StutterReads ==
    ASSUME ReadInv, UNCHANGED vars
    PROVE  ReadInv'
<1>1. /\ rs' = rs /\ db' = db /\ gone' = gone /\ epoch' = epoch /\ job' = job /\ lease' = lease
      /\ reg' = reg /\ side' = side
  BY DEF vars, handleVars, fileVars
<1>2. h' = h /\ StoreInv' /\ RootInv' /\ TxInv'
  BY <1>1, Steady
<1>3. NextEpoch' = NextEpoch
  BY <1>1 DEF NextEpoch
<1>4. (Moving => Moving') /\ (Rooting => Rooting')
  BY <1>1, <1>2, <1>3 DEF Moving, Rooting, Covered, Kept, Paged
<1> QED BY <1>1, <1>2, <1>4 DEF ReadInv, CallInv

-----------------------------------------------------------------------------
(* The theorems. *)

LEMMA NextReads ==
    ASSUME Known = {}, IInv, ReadInv, Next
    PROVE  ReadInv'
<1>1. ASSUME CommitBatch PROVE ReadInv'
  BY <1>1, PutReads DEF CommitBatch
<1>2. ASSUME Flush PROVE ReadInv'
  BY <1>2, FlushReads DEF Flush
<1>3. ASSUME NEW c \in 0 .. MaxCommit, RetainCommit(c) PROVE ReadInv'
  <2>1. /\ Start("retain", None, c, Flushed(db))
        /\ \A m \in Flushed(db).log : m.commit = c => m.gen >= epoch
    BY <1>3 DEF RetainCommit, Register
  <2> QED BY <2>1, FlushReads
<1>4. ASSUME NEW l \in Leases, RetainCurrent(l) PROVE ReadInv'
  BY <1>4, FlushReads DEF RetainCurrent, Register
<1>5. ASSUME NEW l \in Leases, BeginTransaction(l) PROVE ReadInv'
  <2>1. Start("tx", l, 0, Flushed(db)) /\ ~(mode = "wal_first" /\ db.staged)
    BY <1>5 DEF BeginTransaction, Register
  <2> QED BY <2>1, FlushReads
<1>6. ASSUME NEW l \in Leases, CommitTransaction(l) PROVE ReadInv'
  BY <1>6, PutReads DEF CommitTransaction
<1>7. ASSUME Stage \/ Gc \/ Vacuum \/ Prune PROVE ReadInv'
  BY <1>7, StageReads, GcReads, VacuumReads, PruneReads
<1>8. ASSUME NEW l \in Leases, BeginView(l) \/ DropLease(l) PROVE ReadInv'
  BY <1>8, BeginViewReads, DropLeaseReads
<1>9. ASSUME NEW i \in DOMAIN named, ReleaseSnapshot(i) PROVE ReadInv'
  BY <1>9, ReleaseSnapshotReads
<1>10. ASSUME WriteBlobTmp \/ RenameBlobTmp \/ Install \/ WriteSidecar \/ CheckRoot
              \/ InsertRoot \/ RemoveRoot \/ RemoveSidecar \/ SidecarFails
       PROVE  ReadInv'
  BY <1>10, BlobReads, InstallReads, WriteSidecarReads, CheckRootReads, InsertRootReads,
     RemoveRootReads, RemoveSidecarReads, SidecarFailsReads
<1>11. ASSUME NEW after \in BOOLEAN, PersistFails(after) PROVE ReadInv'
  BY <1>11, PersistFailsReads
<1>12. ASSUME NEW flush \in BOOLEAN, Close(flush) PROVE ReadInv'
  BY <1>12, CloseReads
<1>13. ASSUME Crash \/ Open PROVE ReadInv'
  BY <1>13, CrashReads, OpenReads
<1> QED BY <1>1, <1>2, <1>3, <1>4, <1>5, <1>6, <1>7, <1>8, <1>9, <1>10, <1>11, <1>12, <1>13
        DEF Next

\* The store, the roots, the transactions and the call in progress stay
\* consistent in every reachable state.
THEOREM ReadInvariant ==
    ASSUME Known = {}
    PROVE  Spec => [](IInv /\ ReadInv)
<1>1. Init => IInv /\ ReadInv
  BY InitStep, InitReads
<1>2. IInv /\ ReadInv /\ [Next]_vars => IInv' /\ ReadInv'
  BY NextStep, StutterStep, NextReads, StutterReads DEF Careful
<1> QED BY <1>1, <1>2, PTL DEF Spec

\* A root that no view holds reads as its commit.
LEMMA KeptReads ==
    ASSUME IInv, ReadInv, st = "open", NEW i \in DOMAIN AllRoots, ~Viewed(i)
    PROVE  GetAt(i) = AllRoots[i].commit
<1>1. h > 0
  BY DEF IInv, HandleInv
<1>2. /\ DOMAIN AllRoots = DOMAIN rs[h].roots \cup DOMAIN rs[h].eph
      /\ \A j \in DOMAIN rs[h].roots : AllRoots[j] = rs[h].roots[j]
      /\ \A j \in DOMAIN rs[h].eph : j \notin DOMAIN rs[h].roots => AllRoots[j] = rs[h].eph[j]
  BY DEF AllRoots, Merge
<1> PICK m : m = AllRoots[i]
  OBVIOUS
<1>3. Kept(m, i) /\ (m.gen = 0 \/ m \in db.log)
  <2>1. CASE i \in DOMAIN rs[h].roots
    BY <1>1, <1>2, <2>1 DEF ReadInv, RootInv, IInv, MemoryInv, Covered
  <2>2. CASE i \notin DOMAIN rs[h].roots
    BY <1>1, <1>2, <2>2 DEF ReadInv, RootInv, Covered
  <2> QED BY <2>1, <2>2
<1>4. /\ m.gen = 0 \/ (m \in db.log /\ m.gen \notin gone)
      /\ m.val = m.commit
      /\ m.ptr = None \/ (i \in DOMAIN side /\ m.ptr \in DOMAIN side[i] /\ side[i][m.ptr] = m.val)
  BY <1>3 DEF Kept, Paged
<1> QED BY <1>4 DEF GetAt

\* get_at and range_at under a named root or a transaction return the value of
\* its commit, whatever commits, gc, vacuum, prune_history, releases, failing
\* registry writes, crashes and opens came after; the pages under a view stay.
THEOREM RootsAlwaysReadable ==
    ASSUME Known = {}
    PROVE  Spec => []RootsReadable
<1>1. IInv /\ ReadInv => RootsReadable
  <2> SUFFICES ASSUME IInv, ReadInv, st = "open", NEW i \in DOMAIN AllRoots
               PROVE  IF Viewed(i) THEN AllRoots[i].gen \notin gone \ {0}
                      ELSE GetAt(i) = AllRoots[i].commit
    BY DEF RootsReadable, Viewed
  <2>1. h > 0
    BY DEF IInv, HandleInv
  <2>2. Paged(AllRoots[i])
    <3>1. /\ DOMAIN AllRoots = DOMAIN rs[h].roots \cup DOMAIN rs[h].eph
          /\ \A j \in DOMAIN rs[h].roots : AllRoots[j] = rs[h].roots[j]
          /\ \A j \in DOMAIN rs[h].eph : j \notin DOMAIN rs[h].roots => AllRoots[j] = rs[h].eph[j]
      BY DEF AllRoots, Merge
    <3>2. CASE i \in DOMAIN rs[h].roots
      BY <2>1, <3>1, <3>2 DEF ReadInv, RootInv, Kept
    <3>3. CASE i \notin DOMAIN rs[h].roots
      BY <2>1, <3>1, <3>3 DEF ReadInv, RootInv
    <3> QED BY <3>2, <3>3
  <2> QED BY <2>2, KeptReads DEF Paged
<1> QED BY <1>1, ReadInvariant, PTL

\* A transaction's reads return the value its base commit left: the manifest
\* it registered is that of the commit its own commit will be checked against.
THEOREM TxAlwaysReadsBase ==
    ASSUME Known = {}
    PROVE  Spec => []TxReadsBase
<1>1. IInv /\ ReadInv => TxReadsBase
  <2> SUFFICES ASSUME IInv, ReadInv, st = "open", NEW l \in Leases, lease[l].kind = "tx",
                      lease[l].h = h
               PROVE  GetAt(lease[l].id) = lease[l].base
    BY DEF TxReadsBase
  <2> PICK i : i = lease[l].id
    OBVIOUS
  <2>1. h > 0 /\ Live(l)
    BY Kinds DEF IInv, HandleInv, Live
  <2>2. i \in DOMAIN rs[h].eph /\ rs[h].eph[i] = lease[l].man
    BY <2>1 DEF IInv, LeaseInv, HeldOK
  <2>3. i \notin DOMAIN rs[h].roots
    BY <2>1, <2>2, IdFacts
  <2>4. i \in DOMAIN AllRoots /\ AllRoots[i] = lease[l].man
    BY <2>2, <2>3 DEF AllRoots, Merge
  <2>5. ~Viewed(i)
    <3> SUFFICES ASSUME NEW j \in Leases, lease[j].kind = "view", lease[j].h = h, lease[j].id = i
                 PROVE  FALSE
      BY DEF Viewed
    <3>1. Live(j) /\ j # l
      BY Kinds DEF Live
    <3> QED BY <2>1, <3>1 DEF IInv, LeaseInv
  <2>6. lease[l].man.commit = lease[l].base
    BY DEF ReadInv, TxInv
  <2> QED BY <2>4, <2>5, <2>6, KeptReads
<1> QED BY <1>1, ReadInvariant, PTL
=============================================================================
