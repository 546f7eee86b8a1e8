-------------------------- MODULE RetentionProofs --------------------------
(***************************************************************************)
(* Retained roots stay, open() accepts what is on disk, and no sidecar is  *)
(* lost or left behind: for any number of handles, commits, roots, opens,  *)
(* maintenance calls and failing writes, any interleaving of releases with *)
(* the writer's calls, and a crash at any step.                            *)
(*                                                                         *)
(* The inductive invariant says who owns an id: the registry file and the  *)
(* state in memory agree but for a root being removed; a sidecar belongs   *)
(* to a root, to the registration under way or to the removal under way;   *)
(* an id given out is in the file, held by one handle and not being        *)
(* removed; and the file seerdb.tmp holds what its writer is to rename.    *)
(***************************************************************************)
EXTENDS Retention, TLAPS

\* The leaves are Zenon's, unless they cite the SMT solver.
USE ZenonT(40)

\* Callers that avoid the situations in which a root can be lost.
Careful == Known \subseteq {"renumbered", "soft_base"}

DbFields == {"cid", "val", "ptr", "blobs", "next", "staged", "soft", "image", "boot", "log"}
StateFields == {"next", "roots", "eph", "nextEph"}
JobFields == {"op", "lease", "commit", "to", "step", "id", "man"}
RelFields == {"by", "h", "id", "step"}

\* A log has a newest frame, past the bootstrap frame once that is gone.
LogOK(L) == /\ \A m \in L : m.gen \in Nat
            /\ \E m \in L : \A n \in L : n.gen <= m.gen

DbOK(s) == /\ DOMAIN s = DbFields /\ s.boot \in BOOLEAN
           /\ LogOK(s.log) /\ (s.boot \/ Latest(s).gen > 0)

StateOK(r) == /\ DOMAIN r = StateFields
              /\ r.next \in Nat \ {0} /\ r.nextEph \in Int /\ r.nextEph < 0
              /\ DOMAIN r.roots \subseteq 1 .. r.next - 1
              /\ DOMAIN r.eph \subseteq r.nextEph + 1 .. -1

\* Every root is a frame of the log, or that of the empty store.
Covered(f, L) == \A i \in DOMAIN f : f[i].gen = 0 \/ f[i] \in L

HandleInv ==
    /\ DbOK(db) /\ blobFile = "blobs"
    /\ st \in {"open", "closed"} /\ (st = "open" => h > 0)
    /\ h \in Nat /\ \A k \in 1 .. h : StateOK(rs[k])

\* The registry file has only roots that the memory has, each with its frame
\* and its sidecar; a sidecar that no root has is the one being made or the
\* one being removed.
FileInv ==
    /\ DOMAIN reg = {"next", "roots"} /\ reg.next \in Nat \ {0}
    /\ \A i \in DOMAIN reg.roots : i \in 1 .. reg.next - 1 /\ i \in DOMAIN side
    /\ Covered(reg.roots, db.log)

MemoryInv ==
    h > 0 =>
      /\ \A i \in DOMAIN reg.roots : i \in DOMAIN rs[h].roots /\ rs[h].roots[i] = reg.roots[i]
      /\ Covered(rs[h].roots, db.log)
      /\ DOMAIN rs[h].roots \subseteq DOMAIN side
      /\ \A i \in DOMAIN side :
            \/ i \in DOMAIN rs[h].roots \/ i \in DOMAIN rs[h].eph
            \/ job.step \in {"check", "rename"} /\ i = job.id
            \/ rel.step = "unside" /\ i = rel.id

Removing(i) == rel # NoRel /\ rel.id = i

\* What callers hold is in the file, and nobody else's.
NamedInv ==
    \A i \in DOMAIN named : /\ i \in DOMAIN reg.roots /\ reg.roots[i].commit = named[i]
                            /\ ~Owned(i) /\ ~Removing(i)

HeldOK(l) ==
    /\ lease[l].h \in 1 .. h
    /\ \/ /\ lease[l].kind = "snap" /\ lease[l].id \in DOMAIN reg.roots
          /\ reg.roots[lease[l].id] = lease[l].man /\ ~Removing(lease[l].id)
       \/ /\ lease[l].kind \in {"tx", "view"} /\ lease[l].id \in DOMAIN rs[lease[l].h].eph
          /\ rs[lease[l].h].eph[lease[l].id] = lease[l].man

LeaseInv ==
    /\ DOMAIN lease = Leases
    /\ \A l \in Leases : Live(l) => HeldOK(l)
    /\ \A l, j \in Leases : (Live(l) /\ Live(j) /\ l # j /\ lease[l].id = lease[j].id) =>
          lease[l].kind # "snap" /\ lease[l].h # lease[j].h

\* A removal is of the current handle; what it is to rename is in seerdb.tmp.
RelInv ==
    rel # NoRel =>
      /\ h > 0 /\ rel.h = h /\ DOMAIN rel = RelFields
      /\ rel.id \in 1 .. rs[h].next - 1 \/ rel.id \in rs[h].nextEph + 1 .. -1
      /\ \/ rel.step = "unlink" /\ DOMAIN rs[h].roots = {rel.id}
         \/ /\ rel.step = "persist" /\ rel.id \in DOMAIN rs[h].roots
            /\ tmp = [kind |-> "registry", reg |-> WithoutRoot(Registry(h), rel.id)]
         \/ rel.step = "unside" /\ rel.id \notin DOMAIN rs[h].roots \cup DOMAIN rs[h].eph

\* A call before its publication is complete.
Publishing ==
    /\ DbOK(job.to) /\ Covered(rs[h].roots, job.to.log)
    /\ job.op = "retain" => \A i \in Holds(job.commit) : ~HalfRemoved(i) /\ ~Owned(i)
    /\ job.op = "commit" => /\ job.lease \in Leases
                            /\ lease[job.lease].kind = "tx" /\ lease[job.lease].h = h
    /\ job.step = "blob_rename" => tmp = [kind |-> "blobs"]

\* A registration after it: the id is still free, the sidecar is written.
Registering ==
    /\ job.op \in {"retain", "snap", "tx"} /\ job.man \in db.log
    /\ job.id = IF job.op = "tx" THEN rs[h].nextEph ELSE rs[h].next
    /\ job.op = "retain" => job.man.commit = job.commit
    /\ job.step \in {"check", "rename"} => job.id \in DOMAIN side
    /\ job.step = "rename" =>
          /\ job.op # "tx" /\ rel = NoRel
          /\ tmp = [kind |-> "registry", reg |-> WithRoot(Registry(h), job.man)]

JobInv ==
    job # NoJob =>
      /\ st = "open" /\ DOMAIN job = JobFields
      /\ job.op \in {"publish", "vacuum", "commit", "retain", "snap", "tx"}
      /\ job.op \in {"snap", "tx"} => job.lease \in Leases /\ lease[job.lease] = NoLease
      /\ \/ job.step \in {"blob_tmp", "blob_rename", "install"} /\ Publishing
         \/ job.step \in {"side", "check", "rename"} /\ Registering

\* A sequence of states, one for every open() of the process.
RsSeq == \E S : rs \in Seq(S)

IInv == RsSeq /\ HandleInv /\ FileInv /\ MemoryInv /\ NamedInv /\ LeaseInv /\ RelInv /\ JobInv

-----------------------------------------------------------------------------
(* The store. *)

LEMMA LatestFacts ==
    ASSUME NEW s, LogOK(s.log)
    PROVE  /\ Latest(s) \in s.log /\ Latest(s).gen \in Nat
           /\ \A n \in s.log : n.gen <= Latest(s).gen
BY DEF LogOK, Latest

\* t is s with more frames, or none.
Extends(s, t) == DbOK(t) /\ s.log \subseteq t.log

LEMMA SameLog ==
    ASSUME NEW s, NEW t, DbOK(s), DOMAIN t = DbFields, t.log = s.log, t.boot = s.boot
    PROVE  Extends(s, t) /\ Latest(t) = Latest(s)
BY DEF DbOK, Extends, Latest

LEMMA FrameExtends ==
    ASSUME NEW s, DbOK(s)
    PROVE  Extends(s, Frame(s))
<1> DEFINE m == [gen |-> Latest(s).gen + 1, commit |-> s.cid, val |-> s.val, ptr |-> s.ptr]
<1>1. /\ DOMAIN Frame(s) = DbFields /\ Frame(s).boot = s.boot
      /\ Frame(s).log = s.log \cup {m}
  BY SMTT(20) DEF Frame, DbOK, DbFields
<1>2. /\ Latest(s).gen \in Nat /\ m.gen \in Nat /\ m.gen > 0
      /\ \A n \in s.log : n.gen \in Nat /\ n.gen <= m.gen
  BY SMTT(20), LatestFacts DEF DbOK, LogOK
<1>3. LogOK(Frame(s).log)
  <2>1. m.gen <= m.gen
    BY SMTT(20), <1>2
  <2> QED BY <1>1, <1>2, <2>1 DEF LogOK
<1>4. Latest(Frame(s)).gen > 0
  <2>1. m.gen <= Latest(Frame(s)).gen /\ Latest(Frame(s)).gen \in Nat
    BY <1>1, <1>3, LatestFacts
  <2> QED BY SMTT(20), <1>2, <2>1
<1> QED BY <1>1, <1>3, <1>4 DEF Extends, DbOK

LEMMA WriteExtends ==
    ASSUME NEW s, NEW v, DbOK(s)
    PROVE  Extends(s, Write(s, v))
<1>1. /\ DOMAIN Write(s, v) = DbFields
      /\ Write(s, v).log = s.log /\ Write(s, v).boot = s.boot
  BY SMTT(20) DEF Write, DbOK, DbFields
<1> QED BY <1>1, SameLog

LEMMA CommitExtends ==
    ASSUME NEW s, DbOK(s)
    PROVE  Extends(s, Commit(s))
<1> DEFINE t == [s EXCEPT !.cid = @ + 1, !.staged = FALSE]
           u == [t EXCEPT !.soft = Append(@, t.val)]
<1>1. /\ DOMAIN t = DbFields /\ t.log = s.log /\ t.boot = s.boot
      /\ DOMAIN u = DbFields /\ u.log = s.log /\ u.boot = s.boot
  BY SMTT(20) DEF DbOK, DbFields
<1>2. Extends(s, t) /\ Extends(s, u)
  BY <1>1, SameLog
<1>3. Extends(s, Frame(t))
  BY <1>1, <1>2, FrameExtends DEF Extends
<1>4. Commit(s) = u \/ Commit(s) = Frame(t)
  BY DEF Commit
<1> QED BY <1>2, <1>3, <1>4

LEMMA FlushedExtends ==
    ASSUME NEW s, DbOK(s)
    PROVE  Extends(s, Flushed(s))
<1>1. Extends(s, s)
  BY DEF Extends
<1> QED BY <1>1, CommitExtends, FrameExtends DEF Flushed

LEMMA VacuumedExtends ==
    ASSUME NEW s, DbOK(s)
    PROVE  Extends(s, Vacuumed(s))
<1> DEFINE t == [s EXCEPT !.blobs = <<>>, !.next = 1]
           u == [s EXCEPT !.blobs = Single(1, s.val), !.next = 2, !.ptr = 1]
<1>1. /\ DOMAIN t = DbFields /\ t.log = s.log /\ t.boot = s.boot
      /\ DOMAIN u = DbFields /\ u.log = s.log /\ u.boot = s.boot
  BY SMTT(20) DEF DbOK, DbFields
<1>2. DbOK(t) /\ DbOK(u)
  BY <1>1, SameLog DEF Extends
<1>3. Extends(s, Frame(t)) /\ Extends(s, Frame(u))
  BY <1>1, <1>2, FrameExtends DEF Extends
<1> QED BY <1>3 DEF Vacuumed

LEMMA SweptExtends ==
    ASSUME NEW s, DbOK(s)
    PROVE  Extends(s, Swept(s))
<1> DEFINE t == [s EXCEPT !.blobs = Single(s.ptr, s.val)]
           w == Write(s, s.val)
           u == [w EXCEPT !.blobs = Single(s.next, s.val)]
<1>1. DOMAIN t = DbFields /\ t.log = s.log /\ t.boot = s.boot
  BY SMTT(20) DEF DbOK, DbFields
<1>2. DOMAIN u = DbFields /\ u.log = s.log /\ u.boot = s.boot
  BY SMTT(20) DEF DbOK, DbFields, Write
<1>3. DbOK(t) /\ DbOK(u) /\ Extends(s, s)
  BY <1>1, <1>2, SameLog DEF Extends
<1>4. Extends(s, Frame(t)) /\ Extends(s, Frame(u))
  BY <1>1, <1>2, <1>3, FrameExtends DEF Extends
<1> QED BY <1>3, <1>4 DEF Swept

\* Pruning keeps the frames of the roots.
LEMMA PrunedKeeps ==
    ASSUME NEW s, DbOK(s), Latest(s).gen > 0
    PROVE  /\ DbOK(Pruned(s))
           /\ \A m \in s.log : m.gen \in ProtectedGens => m \in Pruned(s).log
<1>1. /\ DOMAIN Pruned(s) = DbFields /\ Pruned(s).boot = FALSE
      /\ Pruned(s).log = {m \in s.log : m.gen >= Latest(s).gen - 1 \/ m.gen \in ProtectedGens}
  BY SMTT(20) DEF Pruned, DbOK, DbFields
<1>2. /\ Latest(s) \in s.log /\ Latest(s).gen \in Nat /\ Latest(s).gen >= Latest(s).gen - 1
      /\ \A n \in s.log : n.gen \in Nat /\ n.gen <= Latest(s).gen
  BY SMTT(20), LatestFacts DEF DbOK, LogOK
<1>3. Latest(s) \in Pruned(s).log /\ LogOK(Pruned(s).log)
  BY <1>1, <1>2 DEF LogOK
<1>4. Latest(Pruned(s)).gen > 0
  <2>1. Latest(s).gen <= Latest(Pruned(s)).gen /\ Latest(Pruned(s)).gen \in Nat
    BY <1>3, LatestFacts
  <2> QED BY SMTT(20), <1>2, <2>1
<1> QED BY <1>1, <1>3, <1>4 DEF DbOK

\* What open() recovers has every frame but that of the empty store.
LEMMA RecoveredKeeps ==
    ASSUME DbOK(db)
    PROVE  /\ DbOK(Recovered)
           /\ \A m \in db.log : m.gen = 0 \/ m \in Recovered.log
<1> DEFINE m == Latest(db)
           L == {n \in db.log : db.boot \/ n.gen > 0}
           s == [db EXCEPT !.cid = m.commit, !.val = m.val, !.ptr = m.ptr, !.staged = FALSE,
                           !.blobs = db.image, !.next = LastFile(db.image) + 1, !.log = L]
           w == WriteAll(s, db.soft)
<1>1. DOMAIN s = DbFields /\ s.log = L /\ s.boot = db.boot
  BY SMTT(20) DEF DbOK, DbFields
<1>2. DOMAIN w = DbFields /\ w.log = L /\ w.boot = db.boot
  <2>1. DOMAIN w = DOMAIN s
    BY DEF WriteAll
  <2>2. "log" \in DOMAIN s /\ "boot" \in DOMAIN s
    BY <1>1 DEF DbFields
  <2>3. w.log = s.log /\ w.boot = s.boot
    BY <2>2 DEF WriteAll
  <2> QED BY <1>1, <2>1, <2>3
<1>3. /\ Latest(db) \in L /\ \A n \in L : n.gen \in Nat /\ n.gen <= Latest(db).gen
  BY LatestFacts DEF DbOK, LogOK
<1>4. LogOK(s.log)
  BY <1>1, <1>3 DEF LogOK
<1>5. s.boot \/ Latest(s).gen > 0
  <2>1. Latest(s) \in L
    BY <1>1, <1>4, LatestFacts
  <2> QED BY <1>1, <2>1
<1>6. DbOK(s) /\ DbOK(w)
  BY <1>1, <1>2, <1>4, <1>5, SameLog DEF DbOK, Extends
<1>7. DbOK(Frame(w)) /\ L \subseteq Frame(w).log
  BY <1>2, <1>6, FrameExtends DEF Extends
<1>8. Recovered = IF db.soft = <<>> THEN s ELSE Frame(w)
  BY DEF Recovered
<1>9. \A n \in db.log : n.gen = 0 \/ n \in L
  BY SMTT(20) DEF DbOK, LogOK
<1> QED BY <1>1, <1>6, <1>7, <1>8, <1>9

\* A root survives in a log that loses at most the empty store's frame.
LEMMA CoveredKept ==
    ASSUME NEW f, NEW L, NEW M, Covered(f, L), \A m \in L : m.gen = 0 \/ m \in M
    PROVE  Covered(f, M)
BY DEF Covered

-----------------------------------------------------------------------------
(* The states in memory. *)

LEMMA RsFacts ==
    ASSUME RsSeq
    PROVE  h \in Nat /\ DOMAIN rs = 1 .. h
BY SMTT(20) DEF RsSeq, h

\* Only the state of handle k changes.
Only(k) == RsSeq' /\ h' = h /\ \A j \in 1 .. h : j # k => rs'[j] = rs[j]

LEMMA SetState ==
    ASSUME RsSeq, NEW k \in 1 .. h, NEW r, rs' = [rs EXCEPT ![k] = r]
    PROVE  Only(k) /\ rs'[k] = r
<1>1. PICK S : rs \in Seq(S)
  BY DEF RsSeq
<1>2. rs \in Seq(S \cup {r}) /\ r \in S \cup {r}
  BY SMTT(20), <1>1
<1>3. rs' \in Seq(S \cup {r}) /\ Len(rs') = Len(rs)
  BY SMTT(20), <1>2 DEF h
<1>4. k \in DOMAIN rs /\ \A j \in 1 .. h : j \in DOMAIN rs
  BY RsFacts
<1> QED BY <1>3, <1>4 DEF RsSeq, Only, h

LEMMA SetEph ==
    ASSUME RsSeq, HandleInv, NEW k \in 1 .. h, NEW x, rs' = [rs EXCEPT ![k].eph = x]
    PROVE  /\ Only(k) /\ DOMAIN rs'[k] = StateFields
           /\ rs'[k].eph = x /\ rs'[k].nextEph = rs[k].nextEph
           /\ rs'[k].roots = rs[k].roots /\ rs'[k].next = rs[k].next
<1> DEFINE r == [rs[k] EXCEPT !.eph = x]
<1>1. rs' = [rs EXCEPT ![k] = r]
  BY SMTT(20), RsFacts
<1>2. Only(k) /\ rs'[k] = r
  BY <1>1, SetState
<1>3. DOMAIN rs[k] = StateFields
  BY DEF HandleInv, StateOK
<1> QED BY SMTT(20), <1>2, <1>3 DEF StateFields

LEMMA AddEph ==
    ASSUME RsSeq, HandleInv, NEW k \in 1 .. h, NEW x,
           rs' = [rs EXCEPT ![k].eph = x, ![k].nextEph = @ - 1]
    PROVE  /\ Only(k) /\ DOMAIN rs'[k] = StateFields
           /\ rs'[k].eph = x /\ rs'[k].nextEph = rs[k].nextEph - 1
           /\ rs'[k].roots = rs[k].roots /\ rs'[k].next = rs[k].next
<1> DEFINE r == [rs[k] EXCEPT !.eph = x, !.nextEph = @ - 1]
<1>1. rs' = [rs EXCEPT ![k] = r]
  BY RsFacts
<1>2. Only(k) /\ rs'[k] = r
  BY <1>1, SetState
<1>3. DOMAIN rs[k] = StateFields
  BY DEF HandleInv, StateOK
<1> QED BY <1>2, <1>3 DEF StateFields

LEMMA SetRoots ==
    ASSUME RsSeq, HandleInv, NEW k \in 1 .. h, NEW x, rs' = [rs EXCEPT ![k].roots = x]
    PROVE  /\ Only(k) /\ DOMAIN rs'[k] = StateFields
           /\ rs'[k].eph = rs[k].eph /\ rs'[k].nextEph = rs[k].nextEph
           /\ rs'[k].roots = x /\ rs'[k].next = rs[k].next
<1> DEFINE r == [rs[k] EXCEPT !.roots = x]
<1>1. rs' = [rs EXCEPT ![k] = r]
  BY SMTT(20), RsFacts
<1>2. Only(k) /\ rs'[k] = r
  BY <1>1, SetState
<1>3. DOMAIN rs[k] = StateFields
  BY DEF HandleInv, StateOK
<1> QED BY SMTT(20), <1>2, <1>3 DEF StateFields

LEMMA AddRoot ==
    ASSUME RsSeq, HandleInv, NEW k \in 1 .. h, NEW n, NEW x,
           rs' = [rs EXCEPT ![k].next = n, ![k].roots = x]
    PROVE  /\ Only(k) /\ DOMAIN rs'[k] = StateFields
           /\ rs'[k].eph = rs[k].eph /\ rs'[k].nextEph = rs[k].nextEph
           /\ rs'[k].roots = x /\ rs'[k].next = n
<1> DEFINE r == [rs[k] EXCEPT !.next = n, !.roots = x]
<1>1. rs' = [rs EXCEPT ![k] = r]
  BY RsFacts
<1>2. Only(k) /\ rs'[k] = r
  BY <1>1, SetState
<1>3. DOMAIN rs[k] = StateFields
  BY DEF HandleInv, StateOK
<1> QED BY <1>2, <1>3 DEF StateFields

\* What the maps' operators yield.
LEMMA MapFacts ==
    /\ \A f, i, v : DOMAIN Merge(f, Single(i, v)) = DOMAIN f \cup {i}
    /\ \A f, i, v : i \notin DOMAIN f => Merge(f, Single(i, v))[i] = v
    /\ \A f, i, v : \A j \in DOMAIN f : Merge(f, Single(i, v))[j] = f[j]
    /\ \A f, i, v : DOMAIN Merge(Single(i, v), f) = DOMAIN f \cup {i}
    /\ \A f, i, v : Merge(Single(i, v), f)[i] = v
    /\ \A f, i, v : \A j \in DOMAIN f : j # i => Merge(Single(i, v), f)[j] = f[j]
    /\ \A f, i : DOMAIN Without(f, i) = DOMAIN f \ {i}
    /\ \A f, i : \A j \in DOMAIN f : j # i => Without(f, i)[j] = f[j]
BY SMTT(20) DEF Merge, Single, Without

\* Two ids of a state differ if one is of the registry and one is not.
LEMMA IdFacts ==
    ASSUME IInv, h > 0
    PROVE  /\ rs[h].next \notin DOMAIN rs[h].roots /\ rs[h].next \notin DOMAIN rs[h].eph
           /\ rs[h].nextEph \notin DOMAIN rs[h].roots /\ rs[h].nextEph \notin DOMAIN rs[h].eph
           /\ \A i \in DOMAIN rs[h].roots : i \notin DOMAIN rs[h].eph
           /\ \A i \in DOMAIN rs[h].eph : i \notin DOMAIN reg.roots
           /\ rs[h].next \notin DOMAIN reg.roots /\ rs[h].nextEph \notin DOMAIN reg.roots
           /\ h \in 1 .. h /\ StateOK(rs[h])
<1>1. h \in 1 .. h
  BY SMTT(20) DEF IInv, HandleInv
<1>2. StateOK(rs[h])
  BY <1>1 DEF IInv, HandleInv
<1>3. \A i \in DOMAIN reg.roots : i \in DOMAIN rs[h].roots
  BY DEF IInv, MemoryInv
<1> QED BY SMTT(20), <1>1, <1>2, <1>3 DEF StateOK

-----------------------------------------------------------------------------
(* The calls of the writer. *)

\* The store moves on, or the handle goes, between two calls.
LEMMA StoreStep ==
    ASSUME IInv, job = NoJob, UNCHANGED <<rs, job, rel, lease, named, fileVars>>,
           st' \in {"open", "closed"}, st' = "open" => st = "open",
           DbOK(db'), \A m \in db.log : m.gen = 0 \/ m \in db'.log
    PROVE  IInv'
<1>1. /\ rs' = rs /\ h' = h /\ job' = job /\ rel' = rel /\ lease' = lease /\ named' = named
      /\ reg' = reg /\ side' = side /\ tmp' = tmp /\ blobFile' = blobFile
  BY DEF fileVars, h
<1>2. RsSeq' /\ HandleInv'
  BY <1>1 DEF IInv, RsSeq, HandleInv
<1>3. FileInv' /\ MemoryInv'
  BY <1>1, CoveredKept DEF IInv, FileInv, MemoryInv
<1>4. NamedInv' /\ LeaseInv'
  <2>1. NamedInv'
    BY <1>1 DEF IInv, NamedInv, Owned, Removing
  <2>2. LeaseInv'
    BY SMTT(20), <1>1 DEF IInv, LeaseInv, HeldOK, Removing, Live
  <2> QED BY <2>1, <2>2
<1>5. RelInv'
  BY <1>1 DEF IInv, RelInv, Registry
<1>6. JobInv'
  BY <1>1 DEF JobInv
<1> QED BY <1>2, <1>3, <1>4, <1>5, <1>6 DEF IInv

LEMMA StageStep ==
    ASSUME IInv, Stage
    PROVE  IInv'
<1> DEFINE w == Write(db, Value)
<1>1. Extends(db, w)
  BY WriteExtends DEF IInv, HandleInv
<1>2. DOMAIN [w EXCEPT !.staged = TRUE] = DbFields /\ [w EXCEPT !.staged = TRUE].log = w.log
      /\ [w EXCEPT !.staged = TRUE].boot = w.boot
  BY SMTT(20), <1>1 DEF Extends, DbOK, DbFields
<1>3. Extends(w, db') /\ db' = [w EXCEPT !.staged = TRUE]
  BY <1>1, <1>2, SameLog DEF Stage, Extends
<1>4. DbOK(db') /\ db.log \subseteq db'.log
  BY <1>1, <1>3 DEF Extends
<1> QED BY <1>4, StoreStep DEF Stage, Idle

LEMMA CloseStep ==
    ASSUME IInv, NEW flush \in BOOLEAN, Close(flush)
    PROVE  IInv'
<1>1. DbOK(db') /\ db.log \subseteq db'.log
  BY FlushedExtends DEF IInv, HandleInv, Close, Extends
<1> QED BY <1>1, StoreStep DEF Close, Idle

\* A call starts: what it is to publish has the frames of all roots.
LEMMA StartStep ==
    ASSUME IInv, NEW op, NEW l, NEW c, NEW s, Start(op, l, c, s),
           op \in {"publish", "vacuum", "commit", "retain", "snap", "tx"},
           DbOK(s), Covered(rs[h].roots, s.log),
           op = "retain" => \A i \in Holds(c) : ~HalfRemoved(i) /\ ~Owned(i),
           op = "commit" => l \in Leases /\ lease[l].kind = "tx" /\ lease[l].h = h,
           op \in {"snap", "tx"} => l \in Leases /\ lease[l] = NoLease
    PROVE  IInv'
<1>1. PICK step \in {"install", "blob_tmp"} :
        job' = [op |-> op, lease |-> l, commit |-> c, to |-> s, step |-> step,
                id |-> 0, man |-> Latest(db)]
  BY DEF Start
<1>2. /\ st = "open" /\ st' = st /\ db' = db /\ rs' = rs /\ h' = h /\ rel' = rel
      /\ lease' = lease /\ named' = named /\ job = NoJob /\ job.step = "none"
      /\ reg' = reg /\ side' = side /\ tmp' = tmp /\ blobFile' = blobFile
  BY DEF Start, Idle, handleVars, fileVars, h, NoJob
<1>3. /\ job'.op = op /\ job'.lease = l /\ job'.commit = c /\ job'.to = s
      /\ job'.step = step /\ DOMAIN job' = JobFields
  BY SMTT(20), <1>1 DEF JobFields
<1>4. job'.step # "blob_rename" /\ job'.step \in {"blob_tmp", "blob_rename", "install"}
  BY <1>3
<1>5. RsSeq' /\ HandleInv'
  BY <1>2 DEF IInv, RsSeq, HandleInv
<1>6. FileInv' /\ MemoryInv'
  BY <1>2 DEF IInv, FileInv, MemoryInv
<1>7. NamedInv' /\ LeaseInv'
  <2>1. NamedInv'
    BY <1>2 DEF IInv, NamedInv, Owned, Removing
  <2>2. LeaseInv'
    BY <1>2 DEF IInv, LeaseInv, HeldOK, Removing, Live
  <2> QED BY <2>1, <2>2
<1>8. RelInv'
  BY <1>2 DEF IInv, RelInv, Registry
<1>9. Publishing'
  BY <1>2, <1>3, <1>4 DEF Publishing, Holds, HalfRemoved, Owned
<1>10. JobInv'
  BY <1>2, <1>3, <1>4, <1>9 DEF JobInv
<1> QED BY <1>5, <1>6, <1>7, <1>8, <1>10 DEF IInv

LEMMA ExtendsCovers ==
    ASSUME IInv, st = "open", NEW s, Extends(db, s)
    PROVE  DbOK(s) /\ Covered(rs[h].roots, s.log)
BY CoveredKept DEF IInv, HandleInv, MemoryInv, Extends

LEMMA ExtendsThrough ==
    ASSUME NEW s, NEW t, NEW u, Extends(s, t), Extends(t, u)
    PROVE  Extends(s, u)
BY DEF Extends

\* What the calls that publish are to publish.
LEMMA Publications ==
    ASSUME IInv, st = "open"
    PROVE  /\ \A v : Extends(db, Commit(Write(db, v)))
           /\ Extends(db, Flushed(db)) /\ DbOK(Flushed(db))
           /\ Extends(db, Swept(Flushed(db))) /\ Extends(db, Vacuumed(Flushed(db)))
<1>1. DbOK(db)
  BY DEF IInv, HandleInv
<1>2. Extends(db, Flushed(db)) /\ DbOK(Flushed(db))
  BY <1>1, FlushedExtends DEF Extends
<1>3. \A v : Extends(db, Commit(Write(db, v)))
  <2> TAKE v
  <2>1. Extends(db, Write(db, v)) /\ DbOK(Write(db, v))
    BY <1>1, WriteExtends DEF Extends
  <2> QED BY <2>1, CommitExtends, ExtendsThrough
<1>4. Extends(db, Swept(Flushed(db)))
  BY <1>2, SweptExtends, ExtendsThrough
<1>5. Extends(db, Vacuumed(Flushed(db)))
  BY <1>2, VacuumedExtends, ExtendsThrough
<1> QED BY <1>2, <1>3, <1>4, <1>5

LEMMA CommitBatchStep ==
    ASSUME IInv, CommitBatch
    PROVE  IInv'
<1> DEFINE s == Commit(Write(db, Value))
<1>1. st = "open" /\ Start("publish", None, 0, s)
  BY DEF CommitBatch, Start, Idle
<1>2. DbOK(s) /\ Covered(rs[h].roots, s.log)
  BY <1>1, Publications, ExtendsCovers
<1> HIDE DEF s
<1> QED BY <1>1, <1>2, StartStep

LEMMA FlushStep ==
    ASSUME IInv, Flush
    PROVE  IInv'
<1> DEFINE s == Flushed(db)
<1>1. st = "open" /\ Start("publish", None, 0, s)
  BY DEF Flush, Start, Idle
<1>2. DbOK(s) /\ Covered(rs[h].roots, s.log)
  BY <1>1, Publications, ExtendsCovers
<1> HIDE DEF s
<1> QED BY <1>1, <1>2, StartStep

LEMMA GcStep ==
    ASSUME IInv, Gc
    PROVE  IInv'
<1> DEFINE s == Swept(Flushed(db))
<1>1. st = "open" /\ Start("publish", None, 0, s)
  BY DEF Gc, Maintain, Idle
<1>2. DbOK(s) /\ Covered(rs[h].roots, s.log)
  BY <1>1, Publications, ExtendsCovers
<1> HIDE DEF s
<1> QED BY <1>1, <1>2, StartStep

LEMMA VacuumStep ==
    ASSUME IInv, Vacuum
    PROVE  IInv'
<1> DEFINE s == Vacuumed(Flushed(db))
<1>1. st = "open" /\ Start("vacuum", None, 0, s)
  BY DEF Vacuum, Maintain, Start, Idle
<1>2. DbOK(s) /\ Covered(rs[h].roots, s.log)
  BY <1>1, Publications, ExtendsCovers
<1> HIDE DEF s
<1> QED BY <1>1, <1>2, StartStep

\* The frames of the roots are those a prune keeps.
LEMMA PruneStep ==
    ASSUME IInv, Prune
    PROVE  IInv'
<1> DEFINE f == Flushed(db)
           s == Pruned(f)
<1>1. st = "open" /\ Start("publish", None, 0, s) /\ Latest(f).gen > 0
  BY DEF Prune, Maintain, Idle
<1>2. DbOK(f) /\ Covered(rs[h].roots, f.log)
  BY <1>1, Publications, ExtendsCovers
<1>3. DbOK(s) /\ \A m \in f.log : m.gen \in ProtectedGens => m \in s.log
  BY <1>1, <1>2, PrunedKeeps
<1>4. \A i \in DOMAIN rs[h].roots : rs[h].roots[i].gen \in ProtectedGens
  BY DEF ProtectedGens, AllRoots, Merge
<1>5. Covered(rs[h].roots, s.log)
  BY <1>2, <1>3, <1>4 DEF Covered
<1> HIDE DEF s
<1> QED BY <1>1, <1>3, <1>5, StartStep

LEMMA RetainCommitStep ==
    ASSUME Careful, IInv, NEW c, RetainCommit(c)
    PROVE  IInv'
<1> DEFINE s == Flushed(db)
<1>1. st = "open" /\ Start("retain", None, c, s)
  BY DEF RetainCommit, Register, Idle
<1>2. DbOK(s) /\ Covered(rs[h].roots, s.log)
  BY <1>1, Publications, ExtendsCovers
<1>3. \A i \in Holds(c) : ~HalfRemoved(i) /\ ~Owned(i)
  BY DEF RetainCommit, Careful
<1> HIDE DEF s
<1> QED BY <1>1, <1>2, <1>3, StartStep

LEMMA RetainCurrentStep ==
    ASSUME IInv, NEW l \in Leases, RetainCurrent(l)
    PROVE  IInv'
<1> DEFINE s == Flushed(db)
<1>1. st = "open" /\ Start("snap", l, 0, s) /\ lease[l] = NoLease
  BY DEF RetainCurrent, Register, Start, Idle
<1>2. DbOK(s) /\ Covered(rs[h].roots, s.log)
  BY <1>1, Publications, ExtendsCovers
<1> HIDE DEF s
<1> QED BY <1>1, <1>2, StartStep

LEMMA BeginTransactionStep ==
    ASSUME IInv, NEW l \in Leases, BeginTransaction(l)
    PROVE  IInv'
<1> DEFINE s == Flushed(db)
<1>1. st = "open" /\ Start("tx", l, 0, s) /\ lease[l] = NoLease
  BY DEF BeginTransaction, Register, Start, Idle
<1>2. DbOK(s) /\ Covered(rs[h].roots, s.log)
  BY <1>1, Publications, ExtendsCovers
<1> HIDE DEF s
<1> QED BY <1>1, <1>2, StartStep

LEMMA CommitTransactionStep ==
    ASSUME IInv, NEW l \in Leases, CommitTransaction(l)
    PROVE  IInv'
<1> DEFINE s == Commit(Write(db, Value))
<1>1. /\ st = "open" /\ Start("commit", l, 0, s)
      /\ lease[l].kind = "tx" /\ lease[l].h = h
  BY DEF CommitTransaction, Start, Idle
<1>2. DbOK(s) /\ Covered(rs[h].roots, s.log)
  BY <1>1, Publications, ExtendsCovers
<1> HIDE DEF s
<1> QED BY <1>1, <1>2, StartStep

-----------------------------------------------------------------------------
(* Registrations in memory. *)

\* Handle l becomes v, whose root is the manifest m.
AddsLease(l, v, m) ==
    /\ lease' = [lease EXCEPT ![l] = v]
    /\ rs' = [rs EXCEPT ![h].eph = Merge(rs[h].eph, Single(rs[h].nextEph, m)),
                        ![h].nextEph = @ - 1]

\* A transaction or a view gets an id that is new to the current state.
LEMMA NewLease ==
    ASSUME IInv, st = "open", NEW l \in Leases, NEW m, NEW v,
           v.kind \in {"tx", "view"}, v.h = h, v.id = rs[h].nextEph, v.man = m,
           AddsLease(l, v, m), reg' = reg, rel' = rel
    PROVE  /\ RsSeq' /\ h' = h /\ \A k \in 1 .. h : StateOK(rs'[k])
           /\ rs'[h].roots = rs[h].roots /\ rs'[h].next = rs[h].next
           /\ DOMAIN rs'[h].eph = DOMAIN rs[h].eph \cup {rs[h].nextEph}
           /\ \A i : Owned(i)' => Owned(i)
           /\ LeaseInv'
<1> DEFINE n == rs[h].nextEph
           x == Merge(rs[h].eph, Single(n, m))
<1>1. h > 0
  BY DEF IInv, HandleInv
<1>2. /\ h \in 1 .. h /\ StateOK(rs[h])
      /\ n \notin DOMAIN rs[h].eph /\ n \notin DOMAIN reg.roots
  BY <1>1, IdFacts
<1>3. /\ Only(h) /\ DOMAIN rs'[h] = StateFields
      /\ rs'[h].eph = x /\ rs'[h].nextEph = n - 1
      /\ rs'[h].roots = rs[h].roots /\ rs'[h].next = rs[h].next
  BY <1>2, AddEph DEF IInv, AddsLease
<1>4. /\ DOMAIN x = DOMAIN rs[h].eph \cup {n} /\ x[n] = m
      /\ \A i \in DOMAIN rs[h].eph : x[i] = rs[h].eph[i]
  BY <1>2 DEF Merge, Single
<1> HIDE DEF x
<1>5. StateOK(rs'[h])
  <2>1. n \in Int /\ n < 0 /\ \A i \in DOMAIN rs[h].eph : i \in n + 1 .. -1
    BY <1>2 DEF StateOK
  <2>2. n - 1 \in Int /\ n - 1 < 0 /\ \A i \in DOMAIN x : i \in n - 1 + 1 .. -1
    BY SMTT(20), <1>4, <2>1
  <2> QED BY <1>2, <1>3, <2>2 DEF StateOK
<1>6. \A k \in 1 .. h : StateOK(rs'[k])
  BY <1>3, <1>5 DEF Only, IInv, HandleInv
<1>7. DOMAIN lease' = Leases /\ lease'[l] = v /\ \A j \in Leases : j # l => lease'[j] = lease[j]
  BY DEF IInv, LeaseInv, AddsLease
<1>8. \A i : Owned(i)' => Owned(i)
  BY <1>7 DEF Owned
<1>9. \A j \in Leases : (j # l /\ Live(j)) =>
         /\ HeldOK(j) /\ lease[j].h \in 1 .. h
         /\ lease[j].id = n => lease[j].kind # "snap" /\ lease[j].h # h
  BY <1>2 DEF IInv, LeaseInv, HeldOK
<1>10. ASSUME NEW j \in Leases, Live(j)'
       PROVE  HeldOK(j)'
  <2>1. CASE j = l
    BY <1>2, <1>3, <1>4, <1>7, <2>1 DEF HeldOK, Only
  <2>2. CASE j # l
    <3>1. Live(j) /\ lease'[j] = lease[j]
      BY <1>7, <1>10, <2>2 DEF Live
    <3>2. HeldOK(j) /\ lease[j].h \in 1 .. h
      BY <1>9, <2>2, <3>1
    <3>3. \A i \in DOMAIN rs[lease[j].h].eph : /\ i \in DOMAIN rs'[lease[j].h].eph
                                               /\ rs'[lease[j].h].eph[i] = rs[lease[j].h].eph[i]
      BY <1>3, <1>4, <3>2 DEF Only
    <3> QED BY <1>3, <3>1, <3>2, <3>3 DEF HeldOK, Removing, Only
  <2> QED BY <2>1, <2>2
<1>11. ASSUME NEW i \in Leases, NEW j \in Leases, Live(i)', Live(j)', i # j,
              lease'[i].id = lease'[j].id
       PROVE  lease'[i].kind # "snap" /\ lease'[i].h # lease'[j].h
  <2>1. CASE i # l /\ j # l
    BY <1>7, <1>11, <2>1 DEF IInv, LeaseInv, Live
  <2>2. CASE i = l
    BY <1>7, <1>9, <1>11, <2>2 DEF Live
  <2>3. CASE j = l
    BY <1>7, <1>9, <1>11, <2>3 DEF Live
  <2> QED BY <2>1, <2>2, <2>3
<1>12. LeaseInv'
  BY SMTT(20), <1>7, <1>10, <1>11 DEF LeaseInv
<1> QED BY <1>3, <1>4, <1>6, <1>8, <1>12 DEF Only

LEMMA BeginViewStep ==
    ASSUME IInv, NEW l \in Leases, BeginView(l)
    PROVE  IInv'
<1> DEFINE v == [kind |-> "view", h |-> h, id |-> rs[h].nextEph,
                 base |-> db.cid, man |-> Latest(db)]
<1>1. /\ st = "open" /\ job = NoJob /\ ~Locked(h) /\ AddsLease(l, v, Latest(db))
      /\ st' = st /\ db' = db /\ job' = job /\ rel' = rel /\ named' = named
      /\ reg' = reg /\ side' = side /\ tmp' = tmp /\ blobFile' = blobFile
  BY DEF BeginView, Idle, handleVars, fileVars, AddsLease
<1>2. v.kind \in {"tx", "view"} /\ v.h = h /\ v.id = rs[h].nextEph /\ v.man = Latest(db)
  OBVIOUS
<1> HIDE DEF v
<1>3. /\ RsSeq' /\ h' = h /\ \A k \in 1 .. h : StateOK(rs'[k])
      /\ rs'[h].roots = rs[h].roots
      /\ DOMAIN rs'[h].eph = DOMAIN rs[h].eph \cup {rs[h].nextEph}
      /\ \A i : Owned(i)' => Owned(i)
      /\ LeaseInv'
  BY SMTT(20), <1>1, <1>2, NewLease
<1>4. rel = NoRel
  BY <1>1 DEF Locked, IInv, RelInv
<1>5. HandleInv'
  BY <1>1, <1>3 DEF IInv, HandleInv
<1>6. FileInv'
  BY <1>1 DEF IInv, FileInv
<1>7. MemoryInv'
  BY <1>1, <1>3 DEF IInv, MemoryInv
<1>8. NamedInv'
  BY <1>1, <1>3, <1>4 DEF IInv, NamedInv, Removing
<1>9. RelInv' /\ JobInv'
  BY <1>1, <1>4 DEF RelInv, JobInv
<1> QED BY <1>3, <1>5, <1>6, <1>7, <1>8, <1>9 DEF IInv

-----------------------------------------------------------------------------
(* Removals. *)

\* The root with id i leaves the state in memory at most, and to a removal.
LEMMA StartRemoveFacts ==
    ASSUME Careful, IInv, h > 0, NEW i, NEW by, StartRemove(h, i, by)
    PROVE  /\ rel = NoRel /\ job.step # "rename"
           /\ st' = st /\ db' = db /\ job' = job /\ reg' = reg /\ side' = side
           /\ blobFile' = blobFile
           /\ RsSeq' /\ h' = h /\ \A k \in 1 .. h : StateOK(rs'[k]) /\ (k # h => rs'[k] = rs[k])
           /\ rs'[h].roots = rs[h].roots
           /\ rs'[h].next = rs[h].next /\ rs'[h].nextEph = rs[h].nextEph
           /\ \A j \in DOMAIN rs[h].eph :
                 \/ j \in DOMAIN rs'[h].eph /\ rs'[h].eph[j] = rs[h].eph[j]
                 \/ j = i /\ rel'.step = "unside" /\ rel'.id = i
           /\ \A j : Removing(j)' => j = i
           /\ tmp' = tmp \/ job.step # "blob_rename"
           /\ RelInv'
<1>1. /\ rel = NoRel /\ ~Locked(h)
      /\ st' = st /\ db' = db /\ job' = job /\ reg' = reg /\ side' = side /\ blobFile' = blobFile
  BY DEF StartRemove, handleVars
<1>2. job.step # "rename"
  BY <1>1 DEF Locked
<1>3. h \in 1 .. h /\ StateOK(rs[h]) /\ \A k \in 1 .. h : StateOK(rs[k])
  BY IdFacts DEF IInv, HandleInv
<1> DEFINE at(step) == [by |-> by, h |-> h, id |-> i, step |-> step]
<1>4. \A step : /\ DOMAIN at(step) = RelFields /\ at(step).h = h /\ at(step).id = i
                /\ at(step).step = step
  BY SMTT(20) DEF RelFields
<1>5. CASE i \in DOMAIN rs[h].eph /\ rs' = [rs EXCEPT ![h].eph = Without(rs[h].eph, i)]
           /\ rel' = at("unside") /\ tmp' = tmp
  <2> DEFINE x == Without(rs[h].eph, i)
  <2>1. DOMAIN x = DOMAIN rs[h].eph \ {i} /\ \A j \in DOMAIN rs[h].eph : j # i => x[j] = rs[h].eph[j]
    BY DEF Without
  <2>2. /\ Only(h) /\ DOMAIN rs'[h] = StateFields
        /\ rs'[h].eph = x /\ rs'[h].nextEph = rs[h].nextEph
        /\ rs'[h].roots = rs[h].roots /\ rs'[h].next = rs[h].next
    BY <1>3, <1>5, SetEph DEF IInv
  <2> HIDE DEF x, at
  <2>3. StateOK(rs'[h])
    BY <1>3, <2>1, <2>2 DEF StateOK
  <2>4. i \in rs[h].nextEph + 1 .. -1 /\ i \notin DOMAIN rs[h].roots
    BY <1>3, <1>5, IdFacts DEF StateOK
  <2>5. RelInv'
    BY <1>4, <1>5, <2>1, <2>2, <2>4 DEF RelInv, Only
  <2>6. \A k \in 1 .. h : StateOK(rs'[k]) /\ (k # h => rs'[k] = rs[k])
    BY <1>3, <2>2, <2>3 DEF Only
  <2>7. \A j : Removing(j)' => j = i
    BY <1>4, <1>5 DEF Removing
  <2> QED BY <1>1, <1>2, <1>4, <1>5, <2>1, <2>2, <2>5, <2>6, <2>7 DEF Only
<1>6. CASE /\ i \in DOMAIN rs[h].roots /\ rs' = rs
           /\ \/ /\ WithoutRoot(Registry(h), i).roots = <<>>
                 /\ rel' = at("unlink") /\ tmp' = tmp
              \/ /\ tmp' = [kind |-> "registry", reg |-> WithoutRoot(Registry(h), i)]
                 /\ rel' = at("persist") /\ job.step # "blob_rename"
  <2>1. h' = h /\ i \in 1 .. rs[h].next - 1
    BY <1>3, <1>6 DEF StateOK, h
  <2>2. Registry(h)' = Registry(h) /\ WithoutRoot(Registry(h), i)' = WithoutRoot(Registry(h), i)
    BY <1>6, <2>1 DEF Registry, WithoutRoot
  <2>3. WithoutRoot(Registry(h), i).roots = <<>> => DOMAIN rs[h].roots = {i}
    <3>1. WithoutRoot(Registry(h), i).roots = Without(rs[h].roots, i)
      BY SMTT(20) DEF WithoutRoot, Registry
    <3>2. DOMAIN <<>> = {} /\ DOMAIN Without(rs[h].roots, i) = DOMAIN rs[h].roots \ {i}
      BY SMTT(20) DEF Without
    <3> QED BY <1>6, <3>1, <3>2
  <2> HIDE DEF at
  <2>4. RelInv'
    BY <1>4, <1>6, <2>1, <2>2, <2>3 DEF RelInv
  <2>5. \A j : Removing(j)' => j = i
    BY <1>4, <1>6 DEF Removing
  <2> QED BY <1>1, <1>2, <1>3, <1>6, <2>1, <2>4, <2>5 DEF IInv, RsSeq
<1>7. CASE rs' = rs /\ rel' = rel /\ tmp' = tmp
  <2>1. h' = h /\ RelInv' /\ RsSeq' /\ \A j : ~Removing(j)'
    BY <1>1, <1>7 DEF RelInv, h, IInv, RsSeq, Removing
  <2> QED BY <1>1, <1>2, <1>3, <1>7, <2>1
<1> QED BY <1>5, <1>6, <1>7 DEF StartRemove, Careful

\* A handle or a name is given up together with its root.
LEMMA StartRemoveStep ==
    ASSUME Careful, IInv, h > 0, NEW i, NEW by, StartRemove(h, i, by),
           DOMAIN lease' = Leases, \A l \in Leases : lease'[l] \in {lease[l], NoLease},
           \A l \in Leases : (Live(l)' /\ lease[l].id = i) =>
                                lease[l].kind # "snap" /\ lease[l].h # h,
           \A j \in DOMAIN named' : j \in DOMAIN named /\ named'[j] = named[j] /\ j # i,
           job.op = "commit" => lease'[job.lease] = lease[job.lease],
           (job.op = "retain" /\ Publishing) => i \notin Holds(job.commit)
    PROVE  IInv'
<1>1. /\ rel = NoRel /\ job.step # "rename"
      /\ st' = st /\ db' = db /\ job' = job /\ reg' = reg /\ side' = side
      /\ blobFile' = blobFile
      /\ RsSeq' /\ h' = h /\ \A k \in 1 .. h : StateOK(rs'[k]) /\ (k # h => rs'[k] = rs[k])
      /\ rs'[h].roots = rs[h].roots
      /\ rs'[h].next = rs[h].next /\ rs'[h].nextEph = rs[h].nextEph
      /\ \A j \in DOMAIN rs[h].eph :
            \/ j \in DOMAIN rs'[h].eph /\ rs'[h].eph[j] = rs[h].eph[j]
            \/ j = i /\ rel'.step = "unside" /\ rel'.id = i
      /\ \A j : Removing(j)' => j = i
      /\ tmp' = tmp \/ job.step # "blob_rename"
      /\ RelInv'
  BY StartRemoveFacts
<1>2. \A l \in Leases : Live(l)' => Live(l) /\ lease'[l] = lease[l]
  BY DEF Live
<1>3. \A j : Owned(j)' => Owned(j)
  <2>1. NoLease.kind # "snap"
    BY SMTT(20) DEF NoLease
  <2> QED BY <2>1 DEF Owned
<1>4. HandleInv'
  BY <1>1 DEF IInv, HandleInv
<1>5. FileInv'
  BY <1>1 DEF IInv, FileInv
<1>6. MemoryInv'
  <2>1. rel.step # "unside"
    BY <1>1 DEF NoRel
  <2> QED BY <1>1, <2>1 DEF IInv, MemoryInv
<1>7. NamedInv'
  BY <1>1, <1>3 DEF IInv, NamedInv
<1>8. LeaseInv'
  <2>1. ASSUME NEW l \in Leases, Live(l)'
        PROVE  HeldOK(l)'
    <3>1. HeldOK(l) /\ lease'[l] = lease[l] /\ lease[l].h \in 1 .. h
      BY <1>2, <2>1 DEF IInv, LeaseInv, HeldOK
    <3>2. CASE lease[l].kind = "snap"
      BY <1>1, <2>1, <3>1, <3>2 DEF HeldOK
    <3>3. CASE lease[l].kind \in {"tx", "view"}
      <4>1. lease[l].id \in DOMAIN rs[lease[l].h].eph
        BY <3>1, <3>3 DEF HeldOK
      <4>2. lease[l].id \in DOMAIN rs'[lease[l].h].eph
            /\ rs'[lease[l].h].eph[lease[l].id] = rs[lease[l].h].eph[lease[l].id]
        BY <1>1, <2>1, <3>1, <4>1
      <4> QED BY <1>1, <3>1, <3>3, <4>2 DEF HeldOK
    <3> QED BY <3>1, <3>2, <3>3 DEF HeldOK
  <2>2. \A l, j \in Leases : (Live(l)' /\ Live(j)' /\ l # j /\ lease'[l].id = lease'[j].id) =>
           lease'[l].kind # "snap" /\ lease'[l].h # lease'[j].h
    BY <1>2 DEF IInv, LeaseInv
  <2> QED BY SMTT(20), <2>1, <2>2 DEF LeaseInv
<1>9. JobInv'
  <2> SUFFICES ASSUME job # NoJob PROVE JobInv'
    BY <1>1 DEF JobInv
  <2>1. Publishing => Publishing'
    <3> SUFFICES ASSUME Publishing PROVE Publishing'
      OBVIOUS
    <3>1. job.op = "retain" => \A j \in Holds(job.commit) : ~HalfRemoved(j)' /\ ~Owned(j)'
      <4>1. \A j : (rel' # NoRel /\ rel'.id = j) => j = i
        BY <1>1 DEF Removing
      <4> QED BY <1>1, <1>3, <4>1 DEF Publishing, HalfRemoved
    <3>2. Holds(job.commit)' = Holds(job.commit)
      BY <1>1 DEF Holds
    <3> QED BY <1>1, <3>1, <3>2 DEF Publishing
  <2>2. (Registering /\ job.step # "rename") => Registering'
    BY <1>1 DEF Registering
  <2>3. job.op \in {"snap", "tx"} => job.lease \in Leases /\ lease'[job.lease] = NoLease
    BY DEF IInv, JobInv
  <2> QED BY <1>1, <2>1, <2>2, <2>3 DEF IInv, JobInv
<1> QED BY <1>1, <1>4, <1>5, <1>6, <1>7, <1>8, <1>9 DEF IInv

LEMMA ReleaseSnapshotStep ==
    ASSUME Careful, IInv, NEW i \in DOMAIN named, ReleaseSnapshot(i)
    PROVE  IInv'
<1>1. /\ st = "open" /\ job = NoJob /\ StartRemove(h, i, "writer")
      /\ named' = Without(named, i) /\ lease' = lease
  BY DEF ReleaseSnapshot, Idle
<1>2. h > 0 /\ DOMAIN lease' = Leases /\ i \in DOMAIN reg.roots /\ ~Owned(i)
  BY <1>1 DEF IInv, HandleInv, LeaseInv, NamedInv
<1>3. ASSUME NEW l \in Leases, Live(l)', lease[l].id = i
      PROVE  lease[l].kind # "snap" /\ lease[l].h # h
  <2>1. HeldOK(l)
    BY <1>1, <1>3 DEF IInv, LeaseInv, Live
  <2> QED BY <1>2, <1>3, <2>1, IdFacts DEF HeldOK, Owned
<1>4. \A j \in DOMAIN named' : j \in DOMAIN named /\ named'[j] = named[j] /\ j # i
  BY <1>1 DEF Without
<1>5. job.op = "none"
  BY <1>1 DEF NoJob
<1> QED BY SMTT(20), <1>1, <1>2, <1>3, <1>4, <1>5, StartRemoveStep

LEMMA DropLeaseStep ==
    ASSUME Careful, IInv, NEW l \in Leases, DropLease(l)
    PROVE  IInv'
<1> DEFINE i == lease[l].id
<1>1. /\ Live(l) /\ lease[l].h = h /\ (job.op = "commit" => job.lease # l)
      /\ lease' = [lease EXCEPT ![l] = NoLease] /\ named' = named
      /\ StartRemove(h, i, "lease")
  BY DEF DropLease, Careful, Live
<1>2. /\ HeldOK(l) /\ DOMAIN lease' = Leases /\ lease'[l] = NoLease
      /\ \A j \in Leases : j # l => lease'[j] = lease[j]
  BY <1>1 DEF IInv, LeaseInv
<1>3. h > 0
  <2>1. h \in 1 .. h
    BY <1>1, <1>2 DEF HeldOK
  <2> QED BY SMTT(20), <2>1
<1>4. \/ lease[l].kind = "snap" /\ Owned(i)
      \/ i \in DOMAIN rs[h].eph
  BY <1>1, <1>2 DEF HeldOK, Owned
<1>5. ASSUME NEW j \in Leases, Live(j)', lease[j].id = i
      PROVE  lease[j].kind # "snap" /\ lease[j].h # h
  <2>1. j # l /\ Live(j)
    BY <1>2, <1>5 DEF Live
  <2> QED BY <1>1, <1>5, <2>1 DEF IInv, LeaseInv
<1>6. \A j \in DOMAIN named' : j \in DOMAIN named /\ named'[j] = named[j] /\ j # i
  BY <1>1, <1>3, <1>4, IdFacts DEF IInv, NamedInv
<1>7. (job.op = "retain" /\ Publishing) => i \notin Holds(job.commit)
  BY <1>3, <1>4, IdFacts DEF Publishing, Holds
<1>8. job.op = "commit" => lease'[job.lease] = lease[job.lease]
  <2>1. job.op = "commit" => job.lease \in Leases
    <3>1. job.op = "commit" => job # NoJob
      BY SMTT(20) DEF NoJob
    <3> QED BY <3>1 DEF IInv, JobInv, Publishing, Registering
  <2> QED BY <1>1, <1>2, <2>1
<1>9. \A j \in Leases : lease'[j] \in {lease[j], NoLease}
  BY <1>2
<1> HIDE DEF i
<1> QED BY SMTT(20), <1>1, <1>2, <1>3, <1>5, <1>6, <1>7, <1>8, <1>9, StartRemoveStep

\* What renaming seerdb.tmp does to the registry.
LEMMA RemovedRegistry ==
    ASSUME IInv, rel # NoRel, NEW r, \/ r = Empty /\ rel.step = "unlink"
                                     \/ r = WithoutRoot(Registry(h), rel.id)
    PROVE  /\ DOMAIN r = {"next", "roots"} /\ r.next \in Nat \ {0}
           /\ \A i \in DOMAIN r.roots : i \in DOMAIN rs[h].roots /\ i # rel.id
                                        /\ r.roots[i] = rs[h].roots[i] /\ i \in 1 .. r.next - 1
           /\ \A i \in DOMAIN rs[h].roots : i # rel.id => i \in DOMAIN r.roots
<1>1. h > 0 /\ (rel.step = "unlink" => DOMAIN rs[h].roots \subseteq {rel.id})
  BY DEF IInv, RelInv
<1>2. StateOK(rs[h])
  BY <1>1, IdFacts
<1>3. CASE r = Empty /\ rel.step = "unlink"
  <2>1. DOMAIN r = {"next", "roots"} /\ r.next = 1 /\ DOMAIN r.roots = {}
    BY SMTT(20), <1>3 DEF Empty
  <2> QED BY SMTT(20), <1>1, <1>3, <2>1
<1>4. CASE r = WithoutRoot(Registry(h), rel.id)
  <2>1. /\ DOMAIN r = {"next", "roots"} /\ r.next = rs[h].next
        /\ r.roots = Without(rs[h].roots, rel.id)
    BY SMTT(20), <1>4 DEF WithoutRoot, Registry
  <2>2. /\ DOMAIN r.roots = DOMAIN rs[h].roots \ {rel.id}
        /\ \A i \in DOMAIN r.roots : r.roots[i] = rs[h].roots[i]
    BY <2>1 DEF Without
  <2> QED BY <1>2, <2>1, <2>2 DEF StateOK
<1> QED BY <1>3, <1>4

\* The registry file loses the root being removed.
LEMMA RegistryReplaced ==
    ASSUME IInv, rel # NoRel, h' = h, db' = db, side' = side, lease' = lease, named' = named,
           \A k \in 1 .. h : rs'[k].eph = rs[k].eph, rel' = NoRel \/ rel'.id = rel.id,
           \/ reg' = reg
           \/ reg' = Empty /\ rel.step = "unlink"
           \/ reg' = WithoutRoot(Registry(h), rel.id)
    PROVE  /\ FileInv' /\ NamedInv' /\ LeaseInv'
           /\ \A i \in DOMAIN reg'.roots : /\ i \in DOMAIN rs[h].roots
                                           /\ reg'.roots[i] = rs[h].roots[i]
                                           /\ (reg' = reg \/ i # rel.id)
           /\ \A i \in DOMAIN reg.roots : i # rel.id => i \in DOMAIN reg'.roots
<1>1. h > 0
  BY DEF IInv, RelInv
<1>2. /\ DOMAIN reg' = {"next", "roots"} /\ reg'.next \in Nat \ {0}
      /\ \A i \in DOMAIN reg'.roots : /\ i \in DOMAIN rs[h].roots
                                      /\ reg'.roots[i] = rs[h].roots[i]
                                      /\ (reg' = reg \/ i # rel.id)
                                      /\ i \in 1 .. reg'.next - 1
      /\ \A i \in DOMAIN reg.roots : i # rel.id => i \in DOMAIN reg'.roots
  <2>1. CASE reg' = reg
    BY <1>1, <2>1 DEF IInv, FileInv, MemoryInv
  <2>2. CASE \/ reg' = Empty /\ rel.step = "unlink"
             \/ reg' = WithoutRoot(Registry(h), rel.id)
    <3>1. \A i \in DOMAIN reg.roots : i \in DOMAIN rs[h].roots
      BY <1>1 DEF IInv, MemoryInv
    <3> QED BY <2>2, <3>1, RemovedRegistry
  <2> QED BY <2>1, <2>2
<1>3. \A i \in DOMAIN reg.roots : i # rel.id =>
         i \in DOMAIN reg'.roots /\ reg'.roots[i] = reg.roots[i]
  BY <1>1, <1>2 DEF IInv, MemoryInv
<1>4. FileInv'
  BY <1>1, <1>2 DEF IInv, FileInv, MemoryInv, Covered
<1>5. \A i : Removing(i) <=> i = rel.id
  BY DEF Removing
<1>6. \A i : Removing(i)' => i = rel.id
  BY DEF Removing
<1>7. NamedInv'
  BY <1>3, <1>5, <1>6 DEF IInv, NamedInv, Owned
<1>8. LeaseInv'
  <2>1. ASSUME NEW l \in Leases, Live(l) PROVE HeldOK(l)'
    <3>1. HeldOK(l)
      BY <2>1 DEF IInv, LeaseInv
    <3> QED BY <1>3, <1>5, <1>6, <3>1 DEF HeldOK
  <2> QED BY SMTT(20), <2>1 DEF IInv, LeaseInv, Live
<1> QED BY <1>2, <1>4, <1>7, <1>8

\* A removal is over, or comes to the sidecar: what a call in progress needs
\* stays.
LEMMA RemovalKeepsJob ==
    ASSUME IInv, rel # NoRel, h' = h, st' = st, db' = db, side' = side, lease' = lease, job' = job,
           rs'[h].next = rs[h].next, rs'[h].nextEph = rs[h].nextEph,
           \A i \in DOMAIN rs'[h].roots : i \in DOMAIN rs[h].roots
                                          /\ rs'[h].roots[i] = rs[h].roots[i],
           rel' = NoRel \/ rel'.id = rel.id, tmp' = tmp \/ job.step # "blob_rename",
           \A i \in DOMAIN reg.roots : i # rel.id => i \in DOMAIN reg'.roots
    PROVE  JobInv'
<1> SUFFICES ASSUME job # NoJob PROVE JobInv'
  BY DEF JobInv
<1>1. Publishing => Publishing'
  <2> SUFFICES ASSUME Publishing PROVE Publishing'
    OBVIOUS
  <2>1. Covered(rs'[h].roots, job.to.log)
    BY DEF Publishing, Covered
  <2>2. \A i \in Holds(job.commit)' : i \in Holds(job.commit)
    BY DEF Holds
  <2>3. job.op = "retain" => \A i \in Holds(job.commit)' : ~HalfRemoved(i)' /\ ~Owned(i)'
    BY <2>2 DEF Publishing, HalfRemoved, Owned
  <2> QED BY <2>1, <2>3 DEF Publishing
<1>2. Registering => Registering'
  <2>1. Registering => job.step # "rename"
    BY DEF Registering
  <2> QED BY <2>1 DEF Registering
<1> QED BY <1>1, <1>2 DEF IInv, JobInv

\* What is in seerdb.tmp is of one kind; nothing is of none.
LEMMA Kinds ==
    /\ NoTmp.kind = "none" /\ \A r : [kind |-> "registry", reg |-> r].kind = "registry"
    /\ \A r : [kind |-> "registry", reg |-> r].reg = r
    /\ [kind |-> "blobs"].kind = "blobs"
    /\ NoLease.kind = "none" /\ NoRel.step = "none" /\ NoJob.step = "none" /\ NoJob.op = "none"
BY SMTT(20) DEF NoTmp, NoLease, NoRel, NoJob

LEMMA RemoveRootStep ==
    ASSUME IInv, RemoveRoot
    PROVE  IInv'
<1>1. /\ rel.step \in {"unlink", "persist"} /\ st' = st /\ db' = db /\ job' = job
      /\ lease' = lease /\ named' = named /\ side' = side /\ blobFile' = blobFile
  BY DEF RemoveRoot, handleVars
<1>2. rel # NoRel
  BY SMTT(20), <1>1 DEF NoRel
<1>3. /\ h > 0 /\ rel.h = h /\ DOMAIN rel = RelFields
      /\ rel.id \in 1 .. rs[h].next - 1 \/ rel.id \in rs[h].nextEph + 1 .. -1
      /\ rel.step = "persist" => tmp = [kind |-> "registry", reg |-> WithoutRoot(Registry(h), rel.id)]
  BY <1>1, <1>2 DEF IInv, RelInv
<1>4. rel.step = "persist" => /\ tmp # NoTmp /\ tmp.kind = "registry"
                              /\ tmp.reg = WithoutRoot(Registry(h), rel.id)
  BY <1>3, Kinds
<1>5. /\ rs' = [rs EXCEPT ![h].roots = Without(rs[h].roots, rel.id)]
      /\ rel' = [rel EXCEPT !.step = "unside"]
      /\ \/ reg' = Empty /\ rel.step = "unlink" /\ tmp' = tmp
         \/ reg' = WithoutRoot(Registry(h), rel.id) /\ rel.step = "persist"
  BY <1>1, <1>3, <1>4 DEF RemoveRoot, Renamed
<1> DEFINE x == Without(rs[h].roots, rel.id)
<1>6. /\ DOMAIN x = DOMAIN rs[h].roots \ {rel.id}
      /\ \A i \in DOMAIN x : x[i] = rs[h].roots[i]
  BY DEF Without
<1>7. h \in 1 .. h /\ StateOK(rs[h])
  BY <1>3, IdFacts
<1>8. /\ Only(h) /\ DOMAIN rs'[h] = StateFields
      /\ rs'[h].eph = rs[h].eph /\ rs'[h].nextEph = rs[h].nextEph
      /\ rs'[h].roots = x /\ rs'[h].next = rs[h].next
  BY <1>5, <1>7, SetRoots DEF IInv
<1> HIDE DEF x
<1>9. DOMAIN rel' = RelFields /\ rel'.h = h /\ rel'.id = rel.id /\ rel'.step = "unside"
  BY <1>3, <1>5 DEF RelFields
<1>10. h' = h /\ RsSeq' /\ \A k \in 1 .. h : rs'[k].eph = rs[k].eph
  BY <1>8 DEF Only
<1>11. /\ FileInv' /\ NamedInv' /\ LeaseInv'
       /\ \A i \in DOMAIN reg'.roots : /\ i \in DOMAIN rs[h].roots
                                       /\ reg'.roots[i] = rs[h].roots[i]
                                       /\ (reg' = reg \/ i # rel.id)
       /\ \A i \in DOMAIN reg.roots : i # rel.id => i \in DOMAIN reg'.roots
  BY <1>1, <1>2, <1>5, <1>9, <1>10, RegistryReplaced
<1>12. \A i \in DOMAIN reg'.roots : i # rel.id
  BY <1>2, <1>5, RemovedRegistry
<1>13. HandleInv'
  <2>1. StateOK(rs'[h])
    BY <1>6, <1>7, <1>8 DEF StateOK
  <2> QED BY <1>1, <1>8, <2>1 DEF IInv, HandleInv, Only
<1>14. MemoryInv'
  BY <1>1, <1>3, <1>6, <1>8, <1>9, <1>10, <1>11, <1>12 DEF IInv, MemoryInv, Covered
<1>15. RelInv'
  <2>1. rel.id \notin DOMAIN rs[h].eph
    BY <1>1, <1>2, <1>3, <1>6, <1>8, IdFacts DEF IInv, RelInv
  <2> QED BY <1>3, <1>6, <1>8, <1>9, <1>10, <2>1 DEF RelInv
<1>16. JobInv'
  <2>1. tmp' = tmp \/ job.step # "blob_rename"
    <3>1. rel.step = "persist" => job.step # "blob_rename"
      <4>1. job.step = "blob_rename" => job # NoJob
        BY SMTT(20) DEF NoJob
      <4> QED BY <1>4, <4>1, Kinds DEF IInv, JobInv, Publishing
    <3> QED BY <1>5, <3>1
  <2> QED BY <1>1, <1>2, <1>6, <1>8, <1>9, <1>10, <1>11, <2>1, RemovalKeepsJob
<1> QED BY <1>10, <1>11, <1>13, <1>14, <1>15, <1>16 DEF IInv

\* A step that leaves the states, the handles and the registry alone.
LEMMA Rest ==
    ASSUME IInv, rs' = rs, lease' = lease, named' = named, reg' = reg, db' = db,
           rel' = rel \/ rel' = NoRel, st' = st, blobFile' = "blobs"
    PROVE  /\ h' = h /\ RsSeq' /\ HandleInv' /\ NamedInv' /\ LeaseInv'
           /\ (DOMAIN reg.roots \subseteq DOMAIN side' => FileInv')
<1>1. h' = h /\ RsSeq'
  BY DEF IInv, RsSeq, h
<1>2. HandleInv'
  BY <1>1 DEF IInv, HandleInv
<1>3. \A i : Removing(i)' => Removing(i)
  BY DEF Removing
<1>4. NamedInv'
  BY <1>3 DEF IInv, NamedInv, Owned
<1>5. LeaseInv'
  <2>1. ASSUME NEW l \in Leases, Live(l) PROVE HeldOK(l)'
    <3>1. HeldOK(l)
      BY <2>1 DEF IInv, LeaseInv
    <3> QED BY <1>1, <1>3, <3>1 DEF HeldOK
  <2> QED BY SMTT(20), <2>1 DEF IInv, LeaseInv, Live
<1>6. DOMAIN reg.roots \subseteq DOMAIN side' => FileInv'
  BY DEF IInv, FileInv
<1> QED BY <1>1, <1>2, <1>4, <1>5, <1>6

LEMMA RemoveSidecarStep ==
    ASSUME IInv, RemoveSidecar
    PROVE  IInv'
<1>1. /\ rel.step = "unside" /\ side' = Without(side, rel.id) /\ rel' = NoRel
      /\ rs' = rs /\ job' = job /\ lease' = lease /\ named' = named /\ reg' = reg /\ tmp' = tmp
      /\ st' = st /\ db' = db /\ blobFile' = "blobs"
  BY DEF RemoveSidecar, handleVars, IInv, HandleInv
<1>2. rel # NoRel
  BY SMTT(20), <1>1 DEF NoRel
<1>3. /\ h > 0 /\ rel.id \notin DOMAIN rs[h].roots \cup DOMAIN rs[h].eph
      /\ rel.id \in 1 .. rs[h].next - 1 \/ rel.id \in rs[h].nextEph + 1 .. -1
  BY <1>1, <1>2 DEF IInv, RelInv
<1>4. DOMAIN side' = DOMAIN side \ {rel.id}
  BY <1>1 DEF Without
<1>5. DOMAIN reg.roots \subseteq DOMAIN side'
  BY <1>3, <1>4 DEF IInv, MemoryInv
<1>6. h' = h /\ RsSeq' /\ HandleInv' /\ NamedInv' /\ LeaseInv' /\ FileInv'
  BY <1>1, <1>5, Rest
<1>7. MemoryInv'
  BY <1>1, <1>3, <1>4, <1>6 DEF IInv, MemoryInv
<1>8. JobInv'
  <2> SUFFICES ASSUME job # NoJob PROVE JobInv'
    BY <1>1 DEF JobInv
  <2>1. Publishing => Publishing'
    <3>1. Holds(job.commit)' = Holds(job.commit)
      BY <1>1, <1>6 DEF Holds
    <3>2. \A i : HalfRemoved(i)' => HalfRemoved(i)
      BY <1>1 DEF HalfRemoved
    <3>3. \A i : Owned(i)' => Owned(i)
      BY <1>1 DEF Owned
    <3> QED BY <1>1, <1>6, <3>1, <3>2, <3>3 DEF Publishing
  <2>2. Registering => Registering'
    <3>1. Registering => job.step # "rename"
      BY <1>2 DEF Registering
    <3>2. rel.id # rs[h].next /\ rel.id # rs[h].nextEph
      <4>1. StateOK(rs[h])
        BY <1>3, IdFacts
      <4> QED BY SMTT(20), <1>3, <4>1 DEF StateOK
    <3> QED BY <1>1, <1>4, <1>6, <3>1, <3>2 DEF Registering
  <2> QED BY <1>1, <2>1, <2>2 DEF IInv, JobInv
<1>9. RelInv'
  BY <1>1 DEF RelInv
<1> QED BY <1>6, <1>7, <1>8, <1>9 DEF IInv

-----------------------------------------------------------------------------
(* The steps of a call. *)

\* Of a call in progress: what its step says of it.
LEMMA JobFacts ==
    ASSUME IInv, job.step # "none"
    PROVE  /\ job # NoJob /\ st = "open" /\ h > 0 /\ DOMAIN job = JobFields
           /\ job.op \in {"publish", "vacuum", "commit", "retain", "snap", "tx"}
           /\ job.op \in {"snap", "tx"} => job.lease \in Leases /\ lease[job.lease] = NoLease
           /\ job.step \in {"blob_tmp", "blob_rename", "install"} => Publishing
           /\ job.step \in {"side", "check", "rename"} => Registering
<1>1. job # NoJob
  BY SMTT(20) DEF NoJob
<1>2. st = "open" => h > 0
  BY DEF IInv, HandleInv
<1> QED BY <1>1, <1>2 DEF IInv, JobInv

LEMMA JobAt ==
    ASSUME NEW s, DOMAIN job = JobFields, job' = [job EXCEPT !.step = s]
    PROVE  /\ DOMAIN job' = JobFields /\ job'.step = s /\ job'.op = job.op
           /\ job'.lease = job.lease /\ job'.commit = job.commit /\ job'.to = job.to
           /\ job'.id = job.id /\ job'.man = job.man
BY DEF JobFields

\* A registration gives up and takes its sidecar back.
LEMMA Abandon ==
    ASSUME IInv, job.step \in {"side", "check", "rename"}, rel = NoRel \/ tmp' = tmp,
           job' = NoJob, side' = Without(side, job.id),
           rs' = rs, lease' = lease, named' = named, reg' = reg, db' = db,
           rel' = rel, st' = st, blobFile' = blobFile
    PROVE  IInv'
<1>1. Registering /\ h > 0
  BY JobFacts
<1>2. DOMAIN side' = DOMAIN side \ {job.id}
  BY DEF Without
<1>3. job.id \notin DOMAIN rs[h].roots
  BY <1>1, IdFacts DEF Registering
<1>4. DOMAIN reg.roots \subseteq DOMAIN side'
  BY <1>1, <1>2, <1>3 DEF IInv, MemoryInv
<1>5. blobFile' = "blobs"
  BY DEF IInv, HandleInv
<1>6. h' = h /\ RsSeq' /\ HandleInv' /\ NamedInv' /\ LeaseInv' /\ FileInv'
  BY <1>4, <1>5, Rest
<1>7. MemoryInv'
  BY <1>1, <1>2, <1>3, <1>6 DEF IInv, MemoryInv
<1>8. RelInv'
  <2>1. Registry(h)' = Registry(h)
    BY <1>6 DEF Registry
  <2> QED BY <1>6, <2>1 DEF IInv, RelInv
<1> QED BY <1>6, <1>7, <1>8 DEF IInv, JobInv

LEMMA PersistFailsStep ==
    ASSUME Careful, IInv, NEW after \in BOOLEAN, PersistFails(after)
    PROVE  IInv'
<1>1. /\ rs' = rs /\ lease' = lease /\ named' = named /\ st' = st /\ db' = db
      /\ blobFile' = blobFile
  BY DEF PersistFails, handleVars
<1>2. CASE job.step = "rename" /\ side' = Without(side, job.id) /\ job' = NoJob /\ rel' = rel
           /\ reg' = reg
  <2>2. rel = NoRel
    BY <1>2, JobFacts DEF Registering
  <2> QED BY <1>1, <1>2, <2>2, Abandon
<1>3. CASE /\ rel' = NoRel /\ side' = side /\ job' = job
           /\ \/ rel.step = "unlink" /\ (reg' = reg \/ reg' = Empty) /\ tmp' = tmp
              \/ rel.step = "persist" /\ tmp # NoTmp /\ (reg' = reg \/ Renamed)
  <2>1. rel # NoRel
    BY SMTT(20), <1>3 DEF NoRel
  <2>2. h > 0 /\ (rel.step = "persist" =>
                   tmp = [kind |-> "registry", reg |-> WithoutRoot(Registry(h), rel.id)])
    BY <1>3, <2>1 DEF IInv, RelInv
  <2>3. \/ reg' = reg
        \/ reg' = Empty /\ rel.step = "unlink"
        \/ reg' = WithoutRoot(Registry(h), rel.id)
    BY <1>3, <2>2, Kinds DEF Renamed
  <2>4. h' = h /\ RsSeq' /\ HandleInv'
    BY <1>1 DEF IInv, h, RsSeq, HandleInv
  <2>5. /\ FileInv' /\ NamedInv' /\ LeaseInv'
        /\ \A i \in DOMAIN reg'.roots : /\ i \in DOMAIN rs[h].roots
                                        /\ reg'.roots[i] = rs[h].roots[i]
                                        /\ (reg' = reg \/ i # rel.id)
        /\ \A i \in DOMAIN reg.roots : i # rel.id => i \in DOMAIN reg'.roots
    BY <1>1, <1>3, <2>1, <2>3, <2>4, RegistryReplaced
  <2>6. MemoryInv'
    BY <1>1, <1>3, <2>2, <2>4, <2>5 DEF IInv, MemoryInv
  <2>7. tmp' = tmp \/ job.step # "blob_rename"
    <3>1. job.step = "blob_rename" => tmp = [kind |-> "blobs"]
      BY JobFacts DEF Publishing
    <3> QED BY <1>3, <2>2, <3>1, Kinds
  <2>8. JobInv'
    BY <1>1, <1>3, <2>1, <2>4, <2>5, <2>7, RemovalKeepsJob
  <2>9. RelInv'
    BY <1>3 DEF RelInv
  <2> QED BY <2>4, <2>5, <2>6, <2>8, <2>9 DEF IInv
<1> QED BY <1>2, <1>3 DEF PersistFails, Careful

LEMMA SidecarFailsStep ==
    ASSUME IInv, SidecarFails
    PROVE  IInv'
BY Abandon DEF SidecarFails, handleVars

LEMMA WriteBlobTmpStep ==
    ASSUME Careful, IInv, WriteBlobTmp
    PROVE  IInv'
<1>1. /\ job.step = "blob_tmp" /\ rel.step # "persist" /\ tmp' = [kind |-> "blobs"]
      /\ job' = [job EXCEPT !.step = "blob_rename"]
      /\ st' = st /\ db' = db /\ rs' = rs /\ rel' = rel /\ lease' = lease /\ named' = named
      /\ reg' = reg /\ side' = side /\ blobFile' = "blobs"
  BY DEF WriteBlobTmp, handleVars, Careful, IInv, HandleInv
<1>2. /\ st = "open" /\ DOMAIN job = JobFields /\ Publishing
      /\ job.op \in {"publish", "vacuum", "commit", "retain", "snap", "tx"}
      /\ job.op \in {"snap", "tx"} => job.lease \in Leases /\ lease[job.lease] = NoLease
  BY <1>1, JobFacts
<1>3. /\ DOMAIN job' = JobFields /\ job'.step = "blob_rename" /\ job'.op = job.op
      /\ job'.lease = job.lease /\ job'.commit = job.commit /\ job'.to = job.to
  BY <1>1, <1>2, JobAt
<1>4. DOMAIN reg.roots \subseteq DOMAIN side'
  BY <1>1 DEF IInv, FileInv
<1>5. h' = h /\ RsSeq' /\ HandleInv' /\ NamedInv' /\ LeaseInv' /\ FileInv'
  BY <1>1, <1>4, Rest
<1>6. MemoryInv'
  BY <1>1, <1>5 DEF IInv, MemoryInv
<1>7. RelInv'
  BY <1>1, <1>5 DEF IInv, RelInv
<1>8. Publishing'
  <2>1. Holds(job.commit)' = Holds(job.commit) /\ \A i : HalfRemoved(i)' => HalfRemoved(i)
    BY <1>1, <1>3, <1>5 DEF Holds, HalfRemoved
  <2>2. \A i : Owned(i)' => Owned(i)
    BY <1>1 DEF Owned
  <2> QED BY <1>1, <1>2, <1>3, <1>5, <2>1, <2>2 DEF Publishing
<1>9. JobInv'
  BY <1>1, <1>2, <1>3, <1>8 DEF JobInv
<1> QED BY <1>5, <1>6, <1>7, <1>9 DEF IInv

LEMMA RenameBlobTmpStep ==
    ASSUME IInv, RenameBlobTmp
    PROVE  IInv'
<1>1. job.step = "blob_rename" /\ Publishing
  <2>1. job.step = "blob_rename"
    BY DEF RenameBlobTmp
  <2> QED BY <2>1, JobFacts
<1>2. tmp = [kind |-> "blobs"] /\ tmp # NoTmp /\ tmp.kind = "blobs"
  BY <1>1, Kinds DEF Publishing
<1>3. /\ blobFile' = "blobs" /\ job' = [job EXCEPT !.step = "install"]
      /\ st' = st /\ db' = db /\ rs' = rs /\ rel' = rel /\ lease' = lease /\ named' = named
      /\ reg' = reg /\ side' = side
  BY <1>2 DEF RenameBlobTmp
<1>4. /\ st = "open" /\ DOMAIN job = JobFields
      /\ job.op \in {"publish", "vacuum", "commit", "retain", "snap", "tx"}
      /\ job.op \in {"snap", "tx"} => job.lease \in Leases /\ lease[job.lease] = NoLease
  BY <1>1, JobFacts
<1>5. /\ DOMAIN job' = JobFields /\ job'.step = "install" /\ job'.op = job.op
      /\ job'.lease = job.lease /\ job'.commit = job.commit /\ job'.to = job.to
  BY <1>3, <1>4, JobAt
<1>6. DOMAIN reg.roots \subseteq DOMAIN side'
  BY <1>3 DEF IInv, FileInv
<1>7. h' = h /\ RsSeq' /\ HandleInv' /\ NamedInv' /\ LeaseInv' /\ FileInv'
  BY <1>3, <1>6, Rest
<1>8. MemoryInv'
  BY <1>1, <1>3, <1>7 DEF IInv, MemoryInv
<1>9. RelInv'
  <2>1. rel # NoRel => rel.step # "persist"
    BY <1>2, Kinds DEF IInv, RelInv
  <2> QED BY <1>3, <1>7, <2>1 DEF IInv, RelInv
<1>10. Publishing'
  <2>1. Holds(job.commit)' = Holds(job.commit) /\ \A i : HalfRemoved(i)' => HalfRemoved(i)
    BY <1>3, <1>5, <1>7 DEF Holds, HalfRemoved
  <2>2. \A i : Owned(i)' => Owned(i)
    BY <1>3 DEF Owned
  <2> QED BY <1>1, <1>3, <1>5, <1>7, <2>1, <2>2 DEF Publishing
<1>11. JobInv'
  BY <1>3, <1>4, <1>5, <1>10 DEF JobInv
<1> QED BY <1>7, <1>8, <1>9, <1>11 DEF IInv

LEMMA WriteSidecarStep ==
    ASSUME IInv, WriteSidecar
    PROVE  IInv'
<1>1. /\ job.step = "side" /\ side' = Merge(Single(job.id, db.blobs), side)
      /\ job' = [job EXCEPT !.step = "check"]
      /\ st' = st /\ db' = db /\ rs' = rs /\ rel' = rel /\ lease' = lease /\ named' = named
      /\ reg' = reg /\ tmp' = tmp /\ blobFile' = "blobs"
  BY DEF WriteSidecar, handleVars, IInv, HandleInv
<1>2. /\ st = "open" /\ DOMAIN job = JobFields /\ Registering
      /\ job.op \in {"publish", "vacuum", "commit", "retain", "snap", "tx"}
      /\ job.op \in {"snap", "tx"} => job.lease \in Leases /\ lease[job.lease] = NoLease
  BY <1>1, JobFacts
<1>3. /\ DOMAIN job' = JobFields /\ job'.step = "check" /\ job'.op = job.op
      /\ job'.lease = job.lease /\ job'.commit = job.commit
      /\ job'.id = job.id /\ job'.man = job.man
  BY <1>1, <1>2, JobAt
<1>4. DOMAIN side' = DOMAIN side \cup {job.id}
  BY <1>1 DEF Merge, Single
<1>5. DOMAIN reg.roots \subseteq DOMAIN side'
  BY <1>4 DEF IInv, FileInv
<1>6. h' = h /\ RsSeq' /\ HandleInv' /\ NamedInv' /\ LeaseInv' /\ FileInv'
  BY <1>1, <1>5, Rest
<1>7. MemoryInv'
  BY <1>1, <1>3, <1>4, <1>6 DEF IInv, MemoryInv
<1>8. RelInv'
  <2>1. Registry(h)' = Registry(h)
    BY <1>1, <1>6 DEF Registry
  <2> QED BY <1>1, <1>6, <2>1 DEF IInv, RelInv, WithoutRoot
<1>9. Registering'
  BY <1>1, <1>2, <1>3, <1>4, <1>6 DEF Registering
<1>10. JobInv'
  BY <1>1, <1>2, <1>3, <1>9 DEF JobInv
<1> QED BY <1>6, <1>7, <1>8, <1>10 DEF IInv

LEMMA CheckRootStep ==
    ASSUME IInv, CheckRoot
    PROVE  IInv'
<1>1. /\ job.step = "check" /\ ~Locked(h) /\ st' = st /\ db' = db
      /\ rel' = rel /\ named' = named /\ reg' = reg /\ blobFile' = "blobs" /\ blobFile' = blobFile
  BY DEF CheckRoot, handleVars, IInv, HandleInv
<1>2. /\ st = "open" /\ h > 0 /\ DOMAIN job = JobFields /\ Registering
      /\ job.op \in {"snap", "tx"} => job.lease \in Leases /\ lease[job.lease] = NoLease
  BY <1>1, JobFacts
<1>3. rel = NoRel
  BY <1>1 DEF Locked, IInv, RelInv
<1>4. CASE /\ side' = Without(side, job.id) /\ job' = NoJob
           /\ rs' = rs /\ lease' = lease
  BY <1>1, <1>3, <1>4, Abandon
<1>5. CASE /\ job.op = "tx"
           /\ rs' = [rs EXCEPT ![h].eph = Merge(@, Single(job.id, job.man)), ![h].nextEph = @ - 1]
           /\ lease' = [lease EXCEPT ![job.lease] = Holding("tx")]
           /\ job' = NoJob /\ side' = side
  <2> DEFINE v == Holding("tx")
  <2>1. job.id = rs[h].nextEph /\ job.lease \in Leases
    BY <1>2, <1>5 DEF Registering
  <2>2. AddsLease(job.lease, v, job.man)
    BY <1>5, <2>1 DEF AddsLease
  <2>3. v.kind \in {"tx", "view"} /\ v.h = h /\ v.id = rs[h].nextEph /\ v.man = job.man
    BY <2>1 DEF Holding
  <2> HIDE DEF v
  <2>4. /\ RsSeq' /\ h' = h /\ \A k \in 1 .. h : StateOK(rs'[k])
        /\ rs'[h].roots = rs[h].roots
        /\ DOMAIN rs'[h].eph = DOMAIN rs[h].eph \cup {rs[h].nextEph}
        /\ \A i : Owned(i)' => Owned(i)
        /\ LeaseInv'
    BY SMTT(20), <1>1, <1>2, <2>1, <2>2, <2>3, NewLease
  <2>5. HandleInv'
    BY <1>1, <2>4 DEF IInv, HandleInv
  <2>6. FileInv'
    BY <1>1, <1>5 DEF IInv, FileInv
  <2>7. MemoryInv'
    BY <1>1, <1>3, <1>5, <2>1, <2>4 DEF IInv, MemoryInv
  <2>8. NamedInv'
    BY <1>1, <1>3, <2>4 DEF IInv, NamedInv, Removing
  <2>9. RelInv' /\ JobInv'
    BY <1>1, <1>3, <1>5 DEF RelInv, JobInv
  <2> QED BY <2>4, <2>5, <2>6, <2>7, <2>8, <2>9 DEF IInv
<1>6. CASE /\ job.op # "tx"
           /\ tmp' = [kind |-> "registry", reg |-> WithRoot(Registry(h), job.man)]
           /\ job' = [job EXCEPT !.step = "rename"]
           /\ rs' = rs /\ lease' = lease /\ side' = side
  <2>1. /\ DOMAIN job' = JobFields /\ job'.step = "rename" /\ job'.op = job.op
        /\ job'.lease = job.lease /\ job'.commit = job.commit
        /\ job'.id = job.id /\ job'.man = job.man
    BY <1>2, <1>6, JobAt
  <2>2. DOMAIN reg.roots \subseteq DOMAIN side'
    BY <1>6 DEF IInv, FileInv
  <2>3. h' = h /\ RsSeq' /\ HandleInv' /\ NamedInv' /\ LeaseInv' /\ FileInv'
    BY <1>1, <1>6, <2>2, Rest
  <2>4. MemoryInv'
    BY <1>1, <1>6, <2>1, <2>3 DEF IInv, MemoryInv
  <2>5. RelInv'
    BY <1>1, <1>3 DEF RelInv
  <2>6. Registering'
    <3>1. WithRoot(Registry(h), job.man)' = WithRoot(Registry(h), job.man)
      BY <1>6, <2>1, <2>3 DEF WithRoot, Registry
    <3> QED BY <1>1, <1>2, <1>3, <1>6, <2>1, <2>3, <3>1 DEF Registering
  <2>7. JobInv'
    BY <1>1, <1>2, <1>6, <2>1, <2>6 DEF JobInv, Registering
  <2> QED BY <2>3, <2>4, <2>5, <2>7 DEF IInv
<1> QED BY <1>4, <1>5, <1>6 DEF CheckRoot


\* The registry with the new root: in the file and in memory.
LEMMA InsertedRoot ==
    ASSUME IInv, InsertRoot
    PROVE  /\ job' = NoJob /\ rel = NoRel /\ rel' = rel /\ st = "open" /\ st' = st /\ db' = db
           /\ side' = side /\ blobFile' = blobFile /\ h > 0 /\ Registering /\ job.op # "tx"
           /\ job.op = "snap" => /\ job.lease \in Leases /\ lease[job.lease] = NoLease
                                 /\ lease' = [lease EXCEPT ![job.lease] = Holding("snap")]
                                 /\ named' = named
           /\ job.op # "snap" => /\ named' = Merge(Single(job.id, job.commit), named)
                                 /\ lease' = lease
           /\ reg' = WithRoot(Registry(h), job.man)
           /\ rs' = [rs EXCEPT ![h].next = reg'.next, ![h].roots = reg'.roots]
<1>1. job.step = "rename" /\ job' = NoJob /\ rel' = rel /\ st' = st /\ db' = db
      /\ blobFile' = blobFile
  BY DEF InsertRoot, handleVars
<1>2. /\ st = "open" /\ h > 0 /\ Registering
      /\ job.op \in {"snap", "tx"} => job.lease \in Leases /\ lease[job.lease] = NoLease
  BY <1>1, JobFacts
<1>3. /\ job.op # "tx" /\ rel = NoRel
      /\ tmp = [kind |-> "registry", reg |-> WithRoot(Registry(h), job.man)]
  BY <1>1, <1>2 DEF Registering
<1>4. tmp # NoTmp /\ tmp.kind = "registry" /\ tmp.reg = WithRoot(Registry(h), job.man)
  BY <1>3, Kinds
<1> QED BY <1>1, <1>2, <1>3, <1>4 DEF InsertRoot, Renamed

LEMMA InsertRootStep ==
    ASSUME IInv, InsertRoot
    PROVE  IInv'
<1>1. /\ job' = NoJob /\ rel = NoRel /\ rel' = rel /\ st = "open" /\ st' = st /\ db' = db
      /\ side' = side /\ blobFile' = blobFile /\ h > 0 /\ Registering /\ job.op # "tx"
      /\ job.op = "snap" => /\ job.lease \in Leases /\ lease[job.lease] = NoLease
                            /\ lease' = [lease EXCEPT ![job.lease] = Holding("snap")]
                            /\ named' = named
      /\ job.op # "snap" => /\ named' = Merge(Single(job.id, job.commit), named)
                            /\ lease' = lease
      /\ reg' = WithRoot(Registry(h), job.man)
      /\ rs' = [rs EXCEPT ![h].next = reg'.next, ![h].roots = reg'.roots]
  BY InsertedRoot
<1> DEFINE n == rs[h].next
<1>2. /\ n = job.id /\ n \in DOMAIN side /\ job.man \in db.log
      /\ job.op = "retain" => job.man.commit = job.commit
      /\ job.op \in {"retain", "snap"}
  <2>1. job.step = "rename"
    BY DEF InsertRoot
  <2> QED BY <1>1, <2>1 DEF Registering
<1>3. /\ n \notin DOMAIN rs[h].roots /\ n \notin DOMAIN reg.roots
      /\ h \in 1 .. h /\ StateOK(rs[h]) /\ n \in Nat \ {0}
  BY <1>1, IdFacts DEF StateOK
<1>4. /\ DOMAIN reg' = {"next", "roots"} /\ reg'.next = n + 1
      /\ reg'.roots = Merge(rs[h].roots, Single(n, job.man))
  BY SMTT(20), <1>1 DEF WithRoot, Registry
<1>5. /\ DOMAIN reg'.roots = DOMAIN rs[h].roots \cup {n} /\ reg'.roots[n] = job.man
      /\ \A i \in DOMAIN rs[h].roots : reg'.roots[i] = rs[h].roots[i]
  BY <1>3, <1>4 DEF Merge, Single
<1>6. /\ Only(h) /\ DOMAIN rs'[h] = StateFields
      /\ rs'[h].eph = rs[h].eph /\ rs'[h].nextEph = rs[h].nextEph
      /\ rs'[h].roots = reg'.roots /\ rs'[h].next = reg'.next
  BY <1>1, <1>3, AddRoot DEF IInv
<1>7. /\ reg'.next \in Nat \ {0} /\ n \in 1 .. reg'.next - 1
      /\ \A i \in DOMAIN reg'.roots : i \in 1 .. reg'.next - 1
  <2>1. DOMAIN rs[h].roots \subseteq 1 .. n - 1
    BY <1>3 DEF StateOK
  <2> QED BY SMTT(20), <1>3, <1>4, <1>5, <2>1
<1>8. StateOK(rs'[h])
  BY <1>3, <1>6, <1>7 DEF StateOK
<1>9. h' = h /\ RsSeq' /\ HandleInv'
  BY <1>1, <1>6, <1>8 DEF IInv, HandleInv, Only
<1>10. Covered(reg'.roots, db'.log)
  BY <1>1, <1>2, <1>5 DEF IInv, MemoryInv, Covered
<1>11. FileInv'
  BY <1>1, <1>2, <1>4, <1>5, <1>7, <1>10 DEF IInv, FileInv, MemoryInv
<1>12. MemoryInv'
  <2>1. DOMAIN rs'[h].roots \subseteq DOMAIN side'
    BY <1>1, <1>2, <1>5, <1>6 DEF IInv, MemoryInv
  <2>2. \A i \in DOMAIN side' : i \in DOMAIN rs'[h].roots \/ i \in DOMAIN rs'[h].eph
    <3>1. rel.step # "unside"
      BY <1>1, Kinds
    <3> QED BY <1>1, <1>2, <1>5, <1>6, <3>1 DEF IInv, MemoryInv
  <2> QED BY <1>6, <1>9, <1>10, <2>1, <2>2 DEF MemoryInv
<1>13. \A i \in DOMAIN reg.roots : i \in DOMAIN reg'.roots /\ reg'.roots[i] = reg.roots[i] /\ i # n
  BY <1>1, <1>3, <1>5 DEF IInv, MemoryInv
<1>14. \A i : ~Removing(i)'
  BY <1>1 DEF Removing
<1>15. ASSUME NEW l \in Leases, Live(l)
       PROVE  HeldOK(l) /\ lease[l].id # n
  <2>1. HeldOK(l) /\ lease[l].h \in 1 .. h
    BY <1>15 DEF IInv, LeaseInv, HeldOK
  <2>2. lease[l].id \in DOMAIN rs[lease[l].h].eph => lease[l].id # n
    <3>1. StateOK(rs[lease[l].h])
      BY <2>1 DEF IInv, HandleInv
    <3>2. lease[l].id \in DOMAIN rs[lease[l].h].eph =>
             rs[lease[l].h].nextEph \in Int /\ lease[l].id \in rs[lease[l].h].nextEph + 1 .. -1
      BY <3>1 DEF StateOK
    <3> QED BY SMTT(20), <1>3, <3>2
  <2> QED BY <1>3, <2>1, <2>2 DEF HeldOK
<1>16. ASSUME NEW l \in Leases, Live(l), lease'[l] = lease[l]
       PROVE  HeldOK(l)'
  <2>1. HeldOK(l) /\ lease[l].h \in 1 .. h
    BY <1>15, <1>16 DEF HeldOK
  <2>2. rs'[lease[l].h].eph = rs[lease[l].h].eph
    BY <1>6, <2>1 DEF Only
  <2> QED BY <1>9, <1>13, <1>14, <1>16, <2>1, <2>2 DEF HeldOK
<1>17. CASE job.op = "snap"
  <2> PICK l \in Leases : l = job.lease
    BY <1>1, <1>17
  <2> DEFINE v == Holding("snap")
  <2>1. v.kind = "snap" /\ v.h = h /\ v.id = n /\ v.man = job.man
    BY <1>2 DEF Holding
  <2>2. /\ l \in Leases /\ DOMAIN lease' = Leases /\ lease'[l] = v /\ ~Live(l)
        /\ \A j \in Leases : j # l => lease'[j] = lease[j]
    BY <1>1, <1>17 DEF IInv, LeaseInv, Live
  <2> HIDE DEF v
  <2>3. HeldOK(l)'
    BY <1>3, <1>5, <1>9, <1>14, <2>1, <2>2 DEF HeldOK
  <2>4. ASSUME NEW j \in Leases, Live(j)' PROVE HeldOK(j)'
    <3>1. j # l => Live(j) /\ lease'[j] = lease[j]
      BY <2>2, <2>4 DEF Live
    <3> QED BY <1>16, <2>3, <3>1
  <2>5. ASSUME NEW i \in Leases, NEW j \in Leases, Live(i)', Live(j)', i # j,
               lease'[i].id = lease'[j].id
        PROVE  lease'[i].kind # "snap" /\ lease'[i].h # lease'[j].h
    <3>1. \A k \in Leases : (k # l /\ Live(k)') => Live(k) /\ lease'[k] = lease[k] /\ lease'[k].id # n
      BY <1>15, <2>2 DEF Live
    <3>2. i # l /\ j # l
      BY <2>1, <2>2, <2>5, <3>1
    <3> QED BY <2>5, <3>1, <3>2 DEF IInv, LeaseInv
  <2>6. LeaseInv'
    BY SMTT(20), <2>2, <2>4, <2>5 DEF LeaseInv
  <2>7. NamedInv'
    <3>1. \A i : Owned(i)' => Owned(i) \/ i = n
      BY <2>1, <2>2 DEF Owned
    <3> QED BY <1>1, <1>13, <1>14, <1>17, <3>1 DEF IInv, NamedInv
  <2> QED BY <1>1, <1>9, <1>11, <1>12, <2>6, <2>7 DEF IInv, RelInv, JobInv
<1>18. CASE job.op = "retain"
  <2>1. lease' = lease /\ named' = Merge(Single(n, job.commit), named)
    BY <1>1, <1>2, <1>18
  <2>2. DOMAIN named' = DOMAIN named \cup {n} /\ named'[n] = job.commit
        /\ \A i \in DOMAIN named : i # n => named'[i] = named[i]
    BY <2>1 DEF Merge, Single
  <2>3. LeaseInv'
    BY SMTT(20), <1>16, <2>1 DEF IInv, LeaseInv, Live
  <2>4. ~Owned(n)
    <3>1. \A l \in Leases : lease[l].kind = "snap" => Live(l)
      BY Kinds DEF Live
    <3> QED BY <1>15, <3>1 DEF Owned
  <2>5. NamedInv'
    <3>1. \A i : Owned(i)' => Owned(i)
      BY <2>1 DEF Owned
    <3> QED BY <1>2, <1>5, <1>13, <1>14, <1>18, <2>2, <2>4, <3>1 DEF IInv, NamedInv
  <2> QED BY <1>1, <1>9, <1>11, <1>12, <2>3, <2>5 DEF IInv, RelInv, JobInv
<1> QED BY <1>2, <1>17, <1>18

\* What every call has in common when its publication is complete.
LEMMA Installed ==
    ASSUME IInv, Install
    PROVE  /\ st = "open" /\ st' = st /\ h > 0 /\ h \in 1 .. h /\ Publishing
           /\ DOMAIN job = JobFields /\ job.step = "install"
           /\ job.op \in {"publish", "vacuum", "commit", "retain", "snap", "tx"}
           /\ job.op \in {"snap", "tx"} => job.lease \in Leases /\ lease[job.lease] = NoLease
           /\ db' = job.to /\ DbOK(db') /\ Covered(rs[h].roots, db'.log)
           /\ reg' = reg /\ side' = side /\ tmp' = tmp /\ blobFile' = "blobs" /\ FileInv'
<1>1. /\ job.step = "install" /\ db' = job.to /\ st' = st
      /\ reg' = reg /\ side' = side /\ tmp' = tmp /\ blobFile' = "blobs"
  BY DEF Install, fileVars, IInv, HandleInv
<1>2. /\ st = "open" /\ h > 0 /\ DOMAIN job = JobFields /\ Publishing
      /\ job.op \in {"publish", "vacuum", "commit", "retain", "snap", "tx"}
      /\ job.op \in {"snap", "tx"} => job.lease \in Leases /\ lease[job.lease] = NoLease
  BY <1>1, JobFacts
<1>3. DbOK(db') /\ Covered(rs[h].roots, db'.log) /\ h \in 1 .. h
  BY <1>1, <1>2, IdFacts DEF Publishing
<1>4. Covered(reg.roots, db'.log)
  BY <1>2, <1>3 DEF IInv, MemoryInv, Covered
<1>5. FileInv'
  BY <1>1, <1>4 DEF IInv, FileInv
<1> QED BY <1>1, <1>2, <1>3, <1>5

LEMMA InstalledQuietly ==
    ASSUME IInv, Install, rs' = rs, rel' = rel, lease' = lease
    PROVE  /\ h' = h /\ RsSeq' /\ HandleInv' /\ FileInv' /\ LeaseInv' /\ RelInv' /\ MemoryInv'
           /\ \A i : (Owned(i)' => Owned(i)) /\ (Removing(i)' => Removing(i))
<1>1. /\ st = "open" /\ st' = st /\ h > 0 /\ job.step = "install"
      /\ DbOK(db') /\ Covered(rs[h].roots, db'.log)
      /\ reg' = reg /\ side' = side /\ tmp' = tmp /\ blobFile' = "blobs" /\ FileInv'
  BY Installed
<1>2. h' = h /\ RsSeq'
  BY DEF IInv, RsSeq, h
<1>3. HandleInv'
  BY <1>1, <1>2 DEF IInv, HandleInv
<1>4. \A i : (Owned(i)' => Owned(i)) /\ (Removing(i)' => Removing(i))
  BY DEF Owned, Removing
<1>5. LeaseInv'
  <2>1. ASSUME NEW l \in Leases, Live(l) PROVE HeldOK(l)'
    <3>1. HeldOK(l)
      BY <2>1 DEF IInv, LeaseInv
    <3> QED BY <1>1, <1>2, <1>4, <3>1 DEF HeldOK
  <2> QED BY SMTT(20), <2>1 DEF IInv, LeaseInv, Live
<1>6. RelInv'
  <2>1. WithoutRoot(Registry(h), rel.id)' = WithoutRoot(Registry(h), rel.id)
    BY <1>2 DEF WithoutRoot, Registry
  <2> QED BY <1>1, <1>2, <2>1 DEF IInv, RelInv
<1>7. MemoryInv'
  BY <1>1, <1>2 DEF IInv, MemoryInv
<1> QED BY <1>1, <1>2, <1>3, <1>4, <1>5, <1>6, <1>7

\* BatchTransaction::commit gives its root back.
LEMMA InstallCommit ==
    ASSUME IInv, Install, job.op = "commit"
    PROVE  IInv'
<1>1. /\ st = "open" /\ st' = st /\ h > 0 /\ h \in 1 .. h /\ Publishing /\ job.step = "install"
      /\ DbOK(db') /\ Covered(rs[h].roots, db'.log)
      /\ reg' = reg /\ side' = side /\ tmp' = tmp /\ blobFile' = "blobs" /\ FileInv'
  BY Installed
<1> PICK l \in Leases : l = job.lease /\ lease[l].kind = "tx" /\ lease[l].h = h
  BY <1>1 DEF Publishing
<1> PICK i : i = lease[l].id
  OBVIOUS
<1> DEFINE x == Without(rs[h].eph, i)
           r == [by |-> "writer", h |-> h, id |-> i, step |-> "unside"]
<1>2. /\ ~Locked(h) /\ rs' = [rs EXCEPT ![h].eph = x] /\ rel' = r
      /\ lease' = [lease EXCEPT ![l] = NoLease] /\ job' = NoJob /\ named' = named
  BY DEF Install
<1>3. rel = NoRel
  BY <1>2 DEF Locked, IInv, RelInv
<1>4. Live(l) /\ HeldOK(l) /\ i \in DOMAIN rs[h].eph
  <2>1. Live(l)
    BY Kinds DEF Live
  <2> QED BY <2>1 DEF IInv, LeaseInv, HeldOK
<1>5. i \notin DOMAIN reg.roots /\ i \notin DOMAIN rs[h].roots /\ StateOK(rs[h])
  BY <1>1, <1>4, IdFacts
<1>6. DOMAIN x = DOMAIN rs[h].eph \ {i} /\ \A j \in DOMAIN rs[h].eph : j # i => x[j] = rs[h].eph[j]
  BY DEF Without
<1>7. /\ Only(h) /\ DOMAIN rs'[h] = StateFields
      /\ rs'[h].eph = x /\ rs'[h].nextEph = rs[h].nextEph
      /\ rs'[h].roots = rs[h].roots /\ rs'[h].next = rs[h].next
  BY <1>1, <1>2, SetEph DEF IInv
<1> HIDE DEF x
<1>8. DOMAIN r = RelFields /\ r.h = h /\ r.id = i /\ r.step = "unside"
  BY SMTT(20) DEF RelFields
<1> HIDE DEF r
<1>9. h' = h /\ RsSeq' /\ HandleInv'
  <2>1. StateOK(rs'[h])
    BY <1>5, <1>6, <1>7 DEF StateOK
  <2> QED BY <1>1, <1>7, <2>1 DEF IInv, HandleInv, Only
<1>10. MemoryInv'
  <2>1. \A j \in DOMAIN side' : \/ j \in DOMAIN rs'[h].roots \/ j \in DOMAIN rs'[h].eph
                                \/ rel'.step = "unside" /\ j = rel'.id
    <3>1. rel.step # "unside"
      BY <1>3, Kinds
    <3> QED BY <1>1, <1>2, <1>6, <1>7, <1>8, <3>1 DEF IInv, MemoryInv
  <2> QED BY <1>1, <1>7, <1>9, <2>1 DEF IInv, MemoryInv
<1>11. \A j : Removing(j)' => j = i
  BY <1>2, <1>8 DEF Removing
<1>12. /\ DOMAIN lease' = Leases /\ lease'[l] = NoLease
       /\ \A j \in Leases : j # l => lease'[j] = lease[j]
  BY <1>2 DEF IInv, LeaseInv
<1>13. NamedInv'
  <2>1. \A j : Owned(j)' => Owned(j)
    BY <1>12, Kinds DEF Owned
  <2> QED BY <1>1, <1>2, <1>5, <1>11, <2>1 DEF IInv, NamedInv
<1>14. LeaseInv'
  <2>1. ASSUME NEW j \in Leases, Live(j)' PROVE HeldOK(j)'
    <3>1. j # l /\ Live(j) /\ lease'[j] = lease[j]
      BY <1>12, <2>1 DEF Live
    <3>2. /\ HeldOK(j) /\ lease[j].h \in 1 .. h
          /\ lease[j].id = i => lease[j].kind # "snap" /\ lease[j].h # h
      BY <1>4, <3>1 DEF IInv, LeaseInv, HeldOK
    <3>3. \A k \in DOMAIN rs[lease[j].h].eph : (lease[j].h # h \/ k # i) =>
             k \in DOMAIN rs'[lease[j].h].eph /\ rs'[lease[j].h].eph[k] = rs[lease[j].h].eph[k]
      BY <1>6, <1>7, <3>2 DEF Only
    <3> QED BY <1>1, <1>9, <1>11, <3>1, <3>2, <3>3 DEF HeldOK
  <2>2. \A k, j \in Leases : (Live(k)' /\ Live(j)') =>
           /\ Live(k) /\ Live(j) /\ lease'[k] = lease[k] /\ lease'[j] = lease[j]
    BY <1>12 DEF Live
  <2> QED BY SMTT(20), <1>12, <2>1, <2>2 DEF IInv, LeaseInv
<1>15. RelInv'
  <2>1. i \in rs[h].nextEph + 1 .. -1
    BY <1>4, <1>5 DEF StateOK
  <2> QED BY <1>1, <1>2, <1>5, <1>6, <1>7, <1>8, <1>9, <2>1 DEF RelInv
<1> QED BY <1>1, <1>2, <1>9, <1>10, <1>13, <1>14, <1>15 DEF IInv, JobInv

LEMMA InstallStep ==
    ASSUME IInv, Install
    PROVE  IInv'
<1>1. /\ st = "open" /\ st' = st /\ h > 0 /\ Publishing /\ DOMAIN job = JobFields
      /\ job.op \in {"publish", "vacuum", "commit", "retain", "snap", "tx"}
      /\ job.op \in {"snap", "tx"} => job.lease \in Leases /\ lease[job.lease] = NoLease
      /\ db' = job.to /\ DbOK(db') /\ reg' = reg
  BY Installed
<1>2. CASE job' = NoJob /\ rs' = rs /\ rel' = rel /\ lease' = lease /\ named' = named
  BY <1>1, <1>2, InstalledQuietly DEF IInv, NamedInv, JobInv
<1>3. CASE /\ job.op = "retain" /\ job' = NoJob /\ rs' = rs /\ rel' = rel /\ lease' = lease
           /\ \E i \in Holds(job.commit) : named' = Merge(Single(i, job.commit), named)
  <2> PICK i \in Holds(job.commit) : named' = Merge(Single(i, job.commit), named)
    BY <1>3
  <2>1. DOMAIN named' = DOMAIN named \cup {i} /\ named'[i] = job.commit
        /\ \A j \in DOMAIN named : j # i => named'[j] = named[j]
    BY DEF Merge, Single
  <2>2. ~HalfRemoved(i) /\ ~Owned(i) /\ i \in DOMAIN rs[h].roots
        /\ rs[h].roots[i].commit = job.commit
    BY <1>1, <1>3 DEF Publishing, Holds
  <2>3. i \in DOMAIN reg.roots /\ ~Removing(i) /\ reg.roots[i].commit = job.commit
    BY <1>1, <2>2 DEF HalfRemoved, Removing, IInv, MemoryInv
  <2>4. NamedInv'
    BY <1>1, <1>3, <2>1, <2>2, <2>3, InstalledQuietly DEF IInv, NamedInv
  <2> QED BY <1>3, <2>4, InstalledQuietly DEF IInv, JobInv
<1>4. ASSUME job.op \in {"retain", "snap", "tx"}, rs' = rs, rel' = rel, lease' = lease,
             named' = named,
             NEW m \in Target(job.to),
             job' = [job EXCEPT !.step = "side", !.man = m, !.id =
                       IF job.op = "tx" THEN rs[h].nextEph ELSE rs[h].next]
      PROVE  IInv'
  <2>1. /\ DOMAIN job' = JobFields /\ job'.step = "side" /\ job'.op = job.op
        /\ job'.lease = job.lease /\ job'.commit = job.commit /\ job'.man = m
        /\ job'.id = IF job.op = "tx" THEN rs[h].nextEph ELSE rs[h].next
    BY <1>1, <1>4 DEF JobFields
  <2>2. m \in db'.log /\ (job.op = "retain" => m.commit = job.commit)
    BY <1>1, <1>4, LatestFacts DEF Target, DbOK
  <2>3. Registering'
    BY <1>4, <2>1, <2>2, InstalledQuietly DEF Registering
  <2>4. JobInv'
    BY <1>1, <1>4, <2>1, <2>3 DEF JobInv
  <2>5. NamedInv'
    BY <1>1, <1>4, InstalledQuietly DEF IInv, NamedInv
  <2> QED BY <1>4, <2>4, <2>5, InstalledQuietly DEF IInv
<1>5. CASE job.op = "commit"
  BY <1>5, InstallCommit
<1>6. CASE job.op \in {"publish", "vacuum"}
  BY <1>2, <1>6 DEF Install
<1>7. CASE job.op = "retain" /\ Holds(job.commit) # {}
  BY <1>3, <1>7 DEF Install
<1>8. CASE job.op \in {"snap", "tx"} \/ (job.op = "retain" /\ Holds(job.commit) = {})
  <2>1. /\ rs' = rs /\ rel' = rel /\ lease' = lease /\ named' = named
        /\ job' = NoJob \/ \E m \in Target(job.to) :
              job' = [job EXCEPT !.step = "side", !.man = m, !.id =
                        IF job.op = "tx" THEN rs[h].nextEph ELSE rs[h].next]
    BY <1>8 DEF Install
  <2> QED BY <1>2, <1>4, <1>8, <2>1
<1> QED BY <1>1, <1>5, <1>6, <1>7, <1>8

-----------------------------------------------------------------------------
(* The life of the handle and of the process. *)

LEMMA CrashStep ==
    ASSUME IInv, Crash
    PROVE  IInv'
<1>1. /\ st' = "closed" /\ rs' = <<>> /\ job' = NoJob /\ rel' = NoRel
      /\ lease' = [l \in Leases |-> NoLease] /\ db' = db /\ named' = named
      /\ reg' = reg /\ side' = side /\ blobFile' = blobFile
  BY DEF Crash, fileVars
<1>2. RsSeq' /\ h' = 0
  BY SMTT(20), <1>1 DEF RsSeq, h
<1>3. HandleInv'
  <2>1. 0 \in Nat /\ \A k \in 1 .. 0 : FALSE
    BY SMTT(20)
  <2> QED BY <1>1, <1>2, <2>1 DEF IInv, HandleInv
<1>4. FileInv'
  BY <1>1 DEF IInv, FileInv
<1>5. MemoryInv'
  <2>1. ~(0 > 0)
    BY SMTT(20)
  <2> QED BY <1>2, <2>1 DEF MemoryInv
<1>6. (\A i : ~Owned(i)' /\ ~Removing(i)') /\ \A l \in Leases : ~Live(l)'
  BY <1>1, Kinds DEF Owned, Removing, Live
<1>7. NamedInv'
  BY <1>1, <1>6 DEF IInv, NamedInv
<1>8. LeaseInv'
  BY <1>1, <1>6 DEF LeaseInv
<1> QED BY <1>1, <1>2, <1>3, <1>4, <1>5, <1>7, <1>8 DEF IInv, RelInv, JobInv

\* The states open() leaves: its own last, before it those a lease refers to.
LEMMA OpenedStates ==
    ASSUME IInv, Open
    PROVE  /\ RsSeq' /\ h' \in Nat /\ h' > 0 /\ rs'[h'] = Loaded
           /\ \A k \in 1 .. h' : (k \in 1 .. h /\ rs'[k] = rs[k]) \/ k = h'
           /\ \A l \in Leases : Live(l) => lease[l].h \in 1 .. h'
                                         /\ rs'[lease[l].h] = rs[lease[l].h]
<1>1. rs' = Append(Referenced, Loaded)
  BY DEF Open
<1>2. \A l \in Leases : Live(l) => lease[l].h \in 1 .. h
  BY DEF IInv, LeaseInv, HeldOK
<1>3. Referenced = rs \/ (Referenced = <<>> /\ \A l \in Leases : ~Live(l))
  BY DEF Referenced, Live
<1>4. PICK S : rs \in Seq(S)
  BY DEF IInv, RsSeq
<1>5. /\ rs \in Seq(S \cup {Loaded}) /\ <<>> \in Seq(S \cup {Loaded})
      /\ Loaded \in S \cup {Loaded}
  BY SMTT(20), <1>4
<1> HIDE DEF Loaded
<1>6. CASE Referenced = rs
  <2>1. /\ rs' \in Seq(S \cup {Loaded}) /\ Len(rs') = Len(rs) + 1 /\ rs'[Len(rs) + 1] = Loaded
        /\ \A k \in 1 .. Len(rs) : rs'[k] = rs[k]
        /\ Len(rs) \in Nat
    BY SMTT(20), <1>1, <1>5, <1>6
  <2>2. RsSeq' /\ h' = h + 1 /\ rs'[h'] = Loaded /\ h \in Nat /\ \A k \in 1 .. h : rs'[k] = rs[k]
    BY <2>1 DEF RsSeq, h
  <2>3. /\ h' \in Nat /\ h' > 0 /\ \A k \in 1 .. h : k \in 1 .. h'
        /\ \A k \in 1 .. h' : k \in 1 .. h \/ k = h'
    BY SMTT(20), <2>2
  <2> QED BY <1>2, <2>2, <2>3
<1>7. CASE Referenced = <<>> /\ \A l \in Leases : ~Live(l)
  <2>1. rs' \in Seq(S \cup {Loaded}) /\ Len(rs') = 1 /\ rs'[1] = Loaded
    BY SMTT(20), <1>1, <1>5, <1>7
  <2>2. RsSeq' /\ h' = 1 /\ rs'[h'] = Loaded
    BY <2>1 DEF RsSeq, h
  <2>3. h' \in Nat /\ h' > 0 /\ \A k \in 1 .. h' : k = h'
    BY SMTT(20), <2>2
  <2> QED BY <1>7, <2>2, <2>3
<1> QED BY <1>3, <1>6, <1>7

LEMMA OpenStep ==
    ASSUME Careful, IInv, Open
    PROVE  IInv'
<1>1. /\ st = "closed" /\ st' = "open" /\ rel = NoRel
      /\ side' = OwnedSidecars /\ db' = Recovered
      /\ job' = job /\ rel' = rel /\ lease' = lease /\ named' = named /\ reg' = reg
      /\ blobFile' = "blobs"
  BY DEF Open, Careful, IInv, HandleInv
<1>2. job = NoJob
  BY <1>1 DEF IInv, JobInv
<1>3. /\ RsSeq' /\ h' \in Nat /\ h' > 0 /\ rs'[h'] = Loaded
      /\ \A k \in 1 .. h' : (k \in 1 .. h /\ rs'[k] = rs[k]) \/ k = h'
      /\ \A l \in Leases : Live(l) => lease[l].h \in 1 .. h'
                                    /\ rs'[lease[l].h] = rs[lease[l].h]
  BY OpenedStates
<1>4. /\ DOMAIN Loaded = StateFields /\ Loaded.next = reg.next /\ Loaded.roots = reg.roots
      /\ DOMAIN Loaded.eph = {} /\ Loaded.nextEph = -1
  BY SMTT(20) DEF Loaded, StateFields
<1>5. StateOK(rs'[h'])
  <2>1. /\ reg.next \in Nat \ {0} /\ DOMAIN reg.roots \subseteq 1 .. reg.next - 1
    BY DEF IInv, FileInv
  <2>2. -1 \in Int /\ -1 < 0
    BY SMTT(20)
  <2> QED BY <1>3, <1>4, <2>1, <2>2 DEF StateOK
<1>6. DbOK(db') /\ \A m \in db.log : m.gen = 0 \/ m \in db'.log
  BY <1>1, RecoveredKeeps DEF IInv, HandleInv
<1>7. Covered(reg.roots, db'.log)
  BY <1>6, CoveredKept DEF IInv, FileInv
<1>8. DOMAIN side' = DOMAIN reg.roots
  BY <1>1 DEF OwnedSidecars, IInv, FileInv
<1>9. HandleInv'
  BY <1>1, <1>3, <1>5, <1>6 DEF IInv, HandleInv
<1>10. FileInv'
  BY <1>1, <1>7, <1>8 DEF IInv, FileInv
<1>11. MemoryInv'
  BY <1>1, <1>3, <1>4, <1>7, <1>8 DEF MemoryInv
<1>12. \A i : (Owned(i)' => Owned(i)) /\ ~Removing(i)'
  BY <1>1 DEF Owned, Removing
<1>13. NamedInv'
  BY <1>1, <1>12 DEF IInv, NamedInv
<1>14. LeaseInv'
  <2>1. ASSUME NEW l \in Leases, Live(l) PROVE HeldOK(l)'
    <3>1. HeldOK(l)
      BY <2>1 DEF IInv, LeaseInv
    <3>2. rs'[lease[l].h] = rs[lease[l].h] /\ lease[l].h \in 1 .. h'
      BY <1>3, <2>1
    <3> QED BY <1>1, <1>12, <3>1, <3>2 DEF HeldOK
  <2> QED BY SMTT(20), <1>1, <2>1 DEF IInv, LeaseInv, Live
<1> QED BY <1>1, <1>2, <1>3, <1>9, <1>10, <1>11, <1>13, <1>14 DEF IInv, RelInv, JobInv

LEMMA InitStep ==
    ASSUME Init
    PROVE  IInv
<1>1. /\ st = "open" /\ rs = <<Loaded>> /\ job = NoJob /\ rel = NoRel /\ reg = Empty
      /\ side = <<>> /\ blobFile = "blobs" /\ lease = [l \in Leases |-> NoLease] /\ named = <<>>
  BY DEF Init
<1>2. /\ DOMAIN reg = {"next", "roots"} /\ reg.next = 1 /\ DOMAIN reg.roots = {}
      /\ DOMAIN Loaded = StateFields /\ Loaded.next = 1 /\ Loaded.roots = reg.roots
      /\ DOMAIN Loaded.eph = {} /\ Loaded.nextEph = -1
      /\ DOMAIN side = {} /\ DOMAIN named = {}
  BY SMTT(20), <1>1 DEF Empty, Loaded, StateFields
<1>3. RsSeq /\ h = 1 /\ rs[1] = Loaded
  <2> HIDE DEF Loaded
  <2>1. rs \in Seq({Loaded}) /\ Len(rs) = 1 /\ rs[1] = Loaded
    BY SMTT(20), <1>1
  <2> QED BY <2>1 DEF RsSeq, h
<1>4. DbOK(db)
  <2>1. /\ DOMAIN db = DbFields /\ db.boot = TRUE
        /\ db.log = {[gen |-> 0, commit |-> 0, val |-> 0, ptr |-> None]}
    BY SMTT(20) DEF Init, DbFields
  <2>2. \A m \in db.log : m.gen = 0
    BY SMTT(20), <2>1
  <2>3. LogOK(db.log)
    BY SMTT(20), <2>1, <2>2 DEF LogOK
  <2> QED BY <2>1, <2>3 DEF DbOK
<1>5. StateOK(rs[1])
  <2>1. 1 \in Nat \ {0} /\ -1 \in Int /\ -1 < 0
    BY SMTT(20)
  <2> QED BY <1>2, <1>3, <2>1 DEF StateOK
<1>6. HandleInv
  <2>1. 1 \in Nat /\ 1 > 0 /\ \A k \in 1 .. 1 : k = 1
    BY SMTT(20)
  <2> QED BY <1>1, <1>3, <1>4, <1>5, <2>1 DEF HandleInv
<1>7. FileInv
  <2>1. 1 \in Nat \ {0}
    BY SMTT(20)
  <2> QED BY <1>2, <2>1 DEF FileInv, Covered
<1>8. MemoryInv
  BY <1>2, <1>3 DEF MemoryInv, Covered
<1>9. NamedInv /\ LeaseInv
  BY <1>1, <1>2, Kinds DEF NamedInv, LeaseInv, Live
<1> QED BY <1>1, <1>3, <1>6, <1>7, <1>8, <1>9 DEF IInv, RelInv, JobInv

LEMMA StutterStep ==
    ASSUME IInv, UNCHANGED vars
    PROVE  IInv'
<1>1. /\ rs' = rs /\ st' = st /\ db' = db /\ job' = job /\ rel' = rel /\ lease' = lease
      /\ named' = named /\ reg' = reg /\ side' = side /\ tmp' = tmp /\ blobFile' = "blobs"
  BY DEF vars, handleVars, fileVars, IInv, HandleInv
<1>2. DOMAIN reg.roots \subseteq DOMAIN side'
  BY <1>1 DEF IInv, FileInv
<1>3. h' = h /\ RsSeq' /\ HandleInv' /\ NamedInv' /\ LeaseInv' /\ FileInv'
  BY <1>1, <1>2, Rest
<1>4. MemoryInv'
  BY <1>1, <1>3 DEF IInv, MemoryInv
<1>5. RelInv'
  <2>1. WithoutRoot(Registry(h), rel.id)' = WithoutRoot(Registry(h), rel.id)
    BY <1>1, <1>3 DEF WithoutRoot, Registry
  <2> QED BY <1>1, <1>3, <2>1 DEF IInv, RelInv
<1>6. JobInv'
  <2>1. Publishing => Publishing'
    <3>1. /\ Holds(job.commit)' = Holds(job.commit)
          /\ \A i : (HalfRemoved(i)' => HalfRemoved(i)) /\ (Owned(i)' => Owned(i))
      BY <1>1, <1>3 DEF Holds, HalfRemoved, Owned
    <3> QED BY <1>1, <1>3, <3>1 DEF Publishing
  <2>2. Registering => Registering'
    <3>1. WithRoot(Registry(h), job.man)' = WithRoot(Registry(h), job.man)
      BY <1>1, <1>3 DEF WithRoot, Registry
    <3> QED BY <1>1, <1>3, <3>1 DEF Registering
  <2> QED BY <1>1, <2>1, <2>2 DEF IInv, JobInv
<1> QED BY <1>3, <1>4, <1>5, <1>6 DEF IInv

-----------------------------------------------------------------------------
(* The theorems. *)

LEMMA NextStep ==
    ASSUME Careful, IInv, Next
    PROVE  IInv'
<1>1. ASSUME CommitBatch \/ Stage \/ Flush \/ Gc \/ Vacuum \/ Prune PROVE IInv'
  BY <1>1, CommitBatchStep, StageStep, FlushStep, GcStep, VacuumStep, PruneStep
<1>2. ASSUME NEW c \in 0 .. MaxCommit, RetainCommit(c) PROVE IInv'
  BY <1>2, RetainCommitStep
<1>3. ASSUME NEW l \in Leases, RetainCurrent(l) \/ BeginTransaction(l) \/ BeginView(l)
                               \/ CommitTransaction(l) \/ DropLease(l)
      PROVE  IInv'
  BY <1>3, RetainCurrentStep, BeginTransactionStep, BeginViewStep, CommitTransactionStep,
     DropLeaseStep
<1>4. ASSUME NEW i \in DOMAIN named, ReleaseSnapshot(i) PROVE IInv'
  BY <1>4, ReleaseSnapshotStep
<1>5. ASSUME WriteBlobTmp \/ RenameBlobTmp \/ Install \/ WriteSidecar \/ CheckRoot
             \/ InsertRoot \/ RemoveRoot \/ RemoveSidecar \/ SidecarFails
      PROVE  IInv'
  BY <1>5, WriteBlobTmpStep, RenameBlobTmpStep, InstallStep, WriteSidecarStep, CheckRootStep,
     InsertRootStep, RemoveRootStep, RemoveSidecarStep, SidecarFailsStep
<1>6. ASSUME NEW after \in BOOLEAN, PersistFails(after) PROVE IInv'
  BY <1>6, PersistFailsStep
<1>7. ASSUME NEW flush \in BOOLEAN, Close(flush) PROVE IInv'
  BY <1>7, CloseStep
<1>8. ASSUME Crash \/ Open PROVE IInv'
  BY <1>8, CrashStep, OpenStep
<1> QED BY <1>1, <1>2, <1>3, <1>4, <1>5, <1>6, <1>7, <1>8 DEF Next

\* The invariant holds in every reachable state.
THEOREM Invariant ==
    ASSUME Careful
    PROVE  Spec => []IInv
<1>1. Init => IInv
  BY InitStep
<1>2. IInv /\ [Next]_vars => IInv'
  BY NextStep, StutterStep
<1> QED BY <1>1, <1>2, PTL DEF Spec

\* An id that retain_commit returned names its commit in the registry file
\* until release_snapshot, across failing registry writes, crashes and opens;
\* the root of a RetainedSnapshot stays in the file and that of a transaction
\* or a view in memory until the handle goes, on whatever thread; and the id
\* counters stay ahead of the ids in use, so that none is given out twice.
THEOREM RootsAlwaysStay ==
    ASSUME Careful
    PROVE  Spec => []RootsStay
<1>1. IInv => RootsStay
  <2> SUFFICES ASSUME IInv PROVE RootsStay
    OBVIOUS
  <2>1. \A k \in 1 .. h : /\ DOMAIN rs[k].roots \subseteq 1 .. rs[k].next - 1
                          /\ DOMAIN rs[k].eph \subseteq rs[k].nextEph + 1 .. -1
    BY DEF IInv, HandleInv, StateOK
  <2>2. \A i \in DOMAIN named : i \in DOMAIN reg.roots /\ reg.roots[i].commit = named[i]
    BY DEF IInv, NamedInv
  <2>3. ASSUME NEW l \in Leases, Live(l)
        PROVE  LET held == IF lease[l].kind = "snap" THEN reg.roots ELSE rs[lease[l].h].eph
               IN  lease[l].id \in DOMAIN held /\ held[lease[l].id] = lease[l].man
    <3>1. HeldOK(l)
      BY <2>3 DEF IInv, LeaseInv
    <3> QED BY <3>1 DEF HeldOK
  <2> QED BY <2>1, <2>2, <2>3 DEF RootsStay
<1> QED BY <1>1, Invariant, PTL

\* open() finds, after a crash at any step of a registration, a removal or a
\* publication, a registry whose every root has its sidecar and its
\* checkpoint, and a blob catalog in the blob catalog's place.
THEOREM OpenAlwaysAccepts ==
    ASSUME Careful
    PROVE  Spec => []OpenAccepts
<1>1. IInv => OpenAccepts
  <2> SUFFICES ASSUME IInv PROVE OpenAccepts
    OBVIOUS
  <2>1. blobFile = "blobs" /\ reg.next \in Nat \ {0}
    BY DEF IInv, HandleInv, FileInv
  <2>2. \A i \in DOMAIN reg.roots : /\ i \in DOMAIN side /\ i \in 1 .. reg.next - 1
                                    /\ reg.roots[i].gen = 0 \/ reg.roots[i] \in db.log
    BY DEF IInv, FileInv, Covered
  <2>3. reg.next # 0 /\ \A i \in 1 .. reg.next - 1 : i < reg.next
    BY SMTT(20), <2>1
  <2> QED BY <2>1, <2>2, <2>3 DEF OpenAccepts, Loadable
<1> QED BY <1>1, Invariant, PTL

\* Between calls every sidecar has a root and every named root its sidecar,
\* whatever failed or was given up before.
THEOREM SidecarsAlwaysOwned ==
    ASSUME Careful
    PROVE  Spec => []SidecarsOwned
<1>1. IInv => SidecarsOwned
  <2> SUFFICES ASSUME IInv, st = "open", job = NoJob, rel = NoRel
               PROVE  DOMAIN side \subseteq DOMAIN AllRoots
                      /\ DOMAIN rs[h].roots \subseteq DOMAIN side
    BY DEF SidecarsOwned
  <2>1. h > 0
    BY DEF IInv, HandleInv
  <2>2. job.step = "none" /\ rel.step = "none"
    BY Kinds
  <2>3. DOMAIN AllRoots = DOMAIN rs[h].roots \cup DOMAIN rs[h].eph
    BY DEF AllRoots, Merge
  <2> QED BY <2>1, <2>2, <2>3 DEF IInv, MemoryInv
<1> QED BY <1>1, Invariant, PTL
=============================================================================
