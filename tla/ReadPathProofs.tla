--------------------------- MODULE ReadPathProofs ---------------------------
(***************************************************************************)
(* The buffer pool's ownership contract, for any number of frames, pages,  *)
(* versions and clients, and any interleaving of guard drops with a sweep. *)
(* The engine is a well-behaved client of the pool, so what is proved of   *)
(* the pool holds in the engine; no read returns another page's bytes; and *)
(* the pool has a frame for whoever needs one, for any pool, readers,      *)
(* pages, generations and faults.                                          *)
(***************************************************************************)
EXTENDS ReadPath, FiniteSetTheorems, TLAPS

\* The leaves are Zenon's, unless they cite the SMT solver.
USE ZenonT(40)

(***************************************************************************)
(* The pool alone.                                                         *)
(***************************************************************************)
\* A running sweep works for a client that holds no guard, on a key that is
\* still absent, in a pool without a free frame.
SweepInv ==
  sweep # NoSweep =>
    /\ sweep.by \in Clients /\ sweep.key \in Keys
    /\ map[sweep.key] = NoFrame
    /\ guard[sweep.by] = NoGuard
    /\ \A f \in Frames : state[f] # "free"

BufInv == BufTypeOK /\ MapAgrees /\ GuardStable /\ SweepInv

\* Facts about the constants that every step needs.
LEMMA Constants ==
  /\ NumFrames \in Nat /\ NumFrames > 0
  /\ NoFrame \notin Frames
  /\ \A k \in Keys : k # None /\ k[1] \in Pages /\ k[2] \in 0 .. MaxVersion
  /\ \A k, j \in Keys : k[1] = j[1] /\ k[2] = j[2] => k = j
  /\ \A p \in Pages, v \in 0 .. MaxVersion : <<p, v>> \in Keys /\ <<p, v>>[1] = p
  /\ None \notin Clients
  /\ Zero \in Images
  /\ NoSweep \in SweepType /\ NoGuard \in GuardType
  /\ \A h \in Frames : (h + 1) % NumFrames \in Frames
<1>1. \A h \in Frames : (h + 1) % NumFrames \in Frames
  BY SMTT(20), PoolAssumption DEF Frames
<1>2. NoSweep \in SweepType /\ NoGuard \in GuardType
  BY SMTT(20), PoolAssumption DEF NoSweep, SweepType, NoGuard, GuardType
<1> QED
  BY SMTT(20), <1>1, <1>2, PoolAssumption DEF Frames, Keys, NoFrame

\* The empty pool satisfies the contract.
LEMMA InitInv == BufInit => BufInv
BY SMTT(20), PoolAssumption, Constants
DEF BufInit, BufInv, BufTypeOK, MapAgrees, GuardStable, SweepInv, IsResident, Frames, NoFrame,
    NoGuard, NoSweep, GuardType, TokenType, SweepType

LEMMA DropGuardInv ==
  ASSUME BufInv, NEW c \in Clients, DropGuard(c)
  PROVE  BufInv'
<1>1. BufTypeOK'
  BY Constants DEF DropGuard, BufInv, BufTypeOK
<1>2. MapAgrees'
  BY DEF DropGuard, BufInv, MapAgrees, IsResident
<1>3. GuardStable' /\ SweepInv'
  BY Constants DEF DropGuard, BufInv, BufTypeOK, GuardStable, SweepInv
<1> QED
  BY <1>1, <1>2, <1>3 DEF BufInv

LEMMA WriteFrameInv ==
  ASSUME BufInv, NEW c \in Clients, NEW d \in Images, WriteFrame(c, d)
  PROVE  BufInv'
BY Constants DEF WriteFrame, BufInv, BufTypeOK, MapAgrees, GuardStable, SweepInv, IsResident, NoGuard, GuardType

LEMMA FetchHitInv ==
  ASSUME BufInv, NEW c \in Clients, NEW k \in Keys, NEW w \in BOOLEAN, FetchHit(c, k, w)
  PROVE  BufInv'
<1>1. BufTypeOK'
  BY Constants DEF FetchHit, Grant, Idle, BufInv, BufTypeOK, MapAgrees, IsResident, GuardType, SweepInv
<1>2. MapAgrees'
  BY SMTT(20), Constants DEF FetchHit, Grant, Idle, BufInv, BufTypeOK, MapAgrees, IsResident, SweepInv
<1>3. GuardStable'
  <2> SUFFICES ASSUME NEW x \in Clients, guard'[x] # NoGuard
               PROVE  /\ guard'[x].frame \in Frames
                      /\ key'[guard'[x].frame] # None /\ key'[guard'[x].frame][1] = guard'[x].page
                      /\ guard'[x].write => state'[guard'[x].frame] = "dirty"
    BY DEF GuardStable
  <2>1. CASE x = c
    BY <2>1, Constants DEF FetchHit, Grant, Idle, BufInv, BufTypeOK, MapAgrees, IsResident, SweepInv
  <2>2. CASE x # c
    BY <2>2, Constants DEF FetchHit, Grant, Idle, Pinned, BufInv, BufTypeOK, MapAgrees, IsResident, GuardStable, SweepInv, GuardType, NoGuard
  <2> QED
    BY <2>1, <2>2
<1>4. SweepInv'
  BY Constants DEF FetchHit, Grant, Idle, BufInv, BufTypeOK, MapAgrees, IsResident, SweepInv, GuardType, NoGuard
<1> QED
  BY <1>1, <1>2, <1>3, <1>4 DEF BufInv

LEMMA FetchFreeInv ==
  ASSUME BufInv, NEW c \in Clients, NEW k \in Keys, NEW d \in Images, NEW w \in BOOLEAN,
         FetchFree(c, k, d, w)
  PROVE  BufInv'
<1>1. BufTypeOK'
  BY SMTT(20), Constants DEF FetchFree, LoadInto, Grant, Idle, FreeFrames, BufInv, BufTypeOK, MapAgrees, IsResident, GuardType, SweepInv
<1>2. MapAgrees'
  BY SMTT(20), Constants DEF FetchFree, LoadInto, Grant, Idle, FreeFrames, BufInv, BufTypeOK, MapAgrees, IsResident, SweepInv
<1>3. GuardStable'
  <2> SUFFICES ASSUME NEW x \in Clients, guard'[x] # NoGuard
               PROVE  /\ guard'[x].frame \in Frames
                      /\ key'[guard'[x].frame] # None /\ key'[guard'[x].frame][1] = guard'[x].page
                      /\ guard'[x].write => state'[guard'[x].frame] = "dirty"
    BY DEF GuardStable
  <2>1. CASE x = c
    BY SMTT(20), <2>1, Constants DEF FetchFree, LoadInto, Grant, Idle, FreeFrames, BufInv, BufTypeOK, MapAgrees, IsResident, SweepInv
  <2>2. CASE x # c
    BY SMTT(20), <2>2, Constants DEF FetchFree, LoadInto, Grant, Idle, FreeFrames, Pinned, BufInv, BufTypeOK, MapAgrees, IsResident, GuardStable, SweepInv, GuardType, NoGuard
  <2> QED
    BY <2>1, <2>2
<1>4. SweepInv'
  BY Constants DEF FetchFree, LoadInto, Grant, Idle, FreeFrames, BufInv, BufTypeOK, MapAgrees, IsResident, SweepInv, GuardType, NoGuard
<1> QED
  BY <1>1, <1>2, <1>3, <1>4 DEF BufInv

LEMMA FetchSweepInv ==
  ASSUME BufInv, NEW c \in Clients, NEW k \in Keys, NEW d \in Images, NEW w \in BOOLEAN,
         FetchSweep(c, k, d, w)
  PROVE  BufInv'
<1>1. BufTypeOK'
  BY SMTT(20), Constants DEF FetchSweep, Idle, FreeFrames, BufInv, BufTypeOK, MapAgrees, IsResident, GuardType, SweepInv, SweepType
<1>2. MapAgrees'
  BY Constants DEF FetchSweep, Idle, FreeFrames, BufInv, BufTypeOK, MapAgrees, IsResident, SweepInv
<1>3. GuardStable'
  BY Constants DEF FetchSweep, Idle, FreeFrames, BufInv, BufTypeOK, MapAgrees, IsResident, GuardStable, SweepInv, GuardType, NoGuard
<1>4. SweepInv'
  BY Constants DEF FetchSweep, Idle, FreeFrames, BufInv, BufTypeOK, MapAgrees, IsResident, SweepInv, GuardType, NoGuard
<1> QED
  BY <1>1, <1>2, <1>3, <1>4 DEF BufInv

\* What a sweeping client may rely on.
LEMMA SweepFacts ==
  ASSUME BufInv, NEW c \in Clients, sweep.by = c
  PROVE  /\ sweep # NoSweep
         /\ sweep.key \in Keys /\ sweep.data \in Images /\ sweep.write \in BOOLEAN
         /\ sweep.left \in 0 .. 2 * NumFrames
         /\ map[sweep.key] = NoFrame
         /\ guard[c] = NoGuard
         /\ hand \in Frames /\ key[hand] \in Keys /\ map[key[hand]] = hand
         /\ key[hand] # sweep.key
         /\ \A f \in Frames : key[f] \in Keys
<1>1. sweep # NoSweep
  BY SMTT(20), Constants DEF NoSweep
<1>2. /\ sweep.key \in Keys /\ sweep.data \in Images /\ sweep.write \in BOOLEAN
      /\ sweep.left \in 0 .. 2 * NumFrames
  BY <1>1 DEF BufInv, BufTypeOK, SweepType, SweepInv
<1>3. \A f \in Frames : key[f] \in Keys /\ map[key[f]] = f
  BY SMTT(20), <1>1 DEF BufInv, BufTypeOK, SweepInv, MapAgrees
<1> QED
  BY SMTT(20), <1>1, <1>2, <1>3, Constants DEF BufInv, BufTypeOK, SweepInv

LEMMA SweepSkipInv ==
  ASSUME BufInv, NEW c \in Clients, SweepSkip(c)
  PROVE  BufInv'
<1>0. sweep.by = c
  BY DEF SweepSkip
<1>1. BufTypeOK'
  <2>1. hand' \in Frames
    BY Constants DEF SweepSkip, Advance, BufInv, BufTypeOK
  <2>2. sweep' \in SweepType
    BY SMTT(20), Constants DEF SweepSkip, BufInv, BufTypeOK, SweepType
  <2> QED
    BY <2>1, <2>2 DEF SweepSkip, BufInv, BufTypeOK
<1>2. MapAgrees'
  BY DEF SweepSkip, BufInv, MapAgrees, IsResident
<1>3. GuardStable'
  BY DEF SweepSkip, BufInv, GuardStable
<1>4. SweepInv'
  <2>1. sweep'.by = sweep.by /\ sweep'.key = sweep.key
    BY DEF SweepSkip, BufInv, BufTypeOK, SweepType
  <2> QED
    BY <2>1, <1>0, SweepFacts DEF SweepSkip, BufInv, SweepInv
<1> QED
  BY <1>1, <1>2, <1>3, <1>4 DEF BufInv

LEMMA SweepEvictInv ==
  ASSUME BufInv, NEW c \in Clients, SweepEvict(c)
  PROVE  BufInv'
<1> DEFINE k == sweep.key
           old == key[hand]
<1>0. sweep.by = c
  BY DEF SweepEvict
<1>1. /\ k \in Keys /\ old \in Keys /\ old # k /\ hand \in Frames
      /\ map[k] = NoFrame /\ map[old] = hand /\ guard[c] = NoGuard
      /\ sweep.data \in Images /\ sweep.write \in BOOLEAN
  BY <1>0, SweepFacts
<1>2. /\ key' = [key EXCEPT ![hand] = k]
      /\ data' = [data EXCEPT ![hand] = sweep.data]
      /\ state' = [state EXCEPT ![hand] = IF sweep.write THEN "dirty" ELSE "clean"]
      /\ ref' = [ref EXCEPT ![hand] = TRUE]
      /\ guard' = [guard EXCEPT ![c] = [frame |-> hand, page |-> k[1], write |-> sweep.write]]
      /\ map' = [map EXCEPT ![old] = NoFrame, ![k] = hand]
      /\ hand' = (hand + 1) % NumFrames
      /\ sweep' = NoSweep /\ UNCHANGED <<free, tokens>>
      /\ ~Pinned(hand) /\ state[hand] # "dirty"
  BY DEF SweepEvict, LoadInto, Grant, Advance
<1> HIDE DEF k, old
<1>3. BufTypeOK'
  <2>1. guard' \in [Clients -> GuardType]
    BY <1>1, <1>2, Constants DEF BufInv, BufTypeOK, GuardType
  <2>2. map' \in [Keys -> Frames \cup {NoFrame}]
    BY <1>1, <1>2 DEF BufInv, BufTypeOK
  <2>3. hand' \in Frames /\ sweep' \in SweepType
    BY <1>1, <1>2, Constants
  <2> QED
    BY <1>1, <1>2, <2>1, <2>2, <2>3 DEF BufInv, BufTypeOK
<1>4. MapAgrees'
  <2>1. ASSUME NEW j \in Keys, map'[j] # NoFrame PROVE key'[map'[j]] = j
    BY SMTT(20), <2>1, <1>1, <1>2, Constants DEF BufInv, BufTypeOK, MapAgrees, IsResident
  <2>2. ASSUME NEW f \in Frames
        PROVE  (key'[f] = None <=> state'[f] = "free") /\ (key'[f] # None => map'[key'[f]] = f)
    BY SMTT(20), <2>2, <1>1, <1>2, Constants DEF BufInv, BufTypeOK, MapAgrees, IsResident
  <2> QED
    BY <2>1, <2>2 DEF MapAgrees, IsResident
<1>5. GuardStable'
  <2> SUFFICES ASSUME NEW x \in Clients, guard'[x] # NoGuard
               PROVE  /\ guard'[x].frame \in Frames
                      /\ key'[guard'[x].frame] # None /\ key'[guard'[x].frame][1] = guard'[x].page
                      /\ guard'[x].write => state'[guard'[x].frame] = "dirty"
    BY DEF GuardStable
  <2>1. CASE x = c
    BY <2>1, <1>1, <1>2, Constants DEF BufInv, BufTypeOK
  <2>2. CASE x # c
    <3>1. guard'[x] = guard[x] /\ guard[x].frame # hand
      BY <2>2, <1>2 DEF BufInv, BufTypeOK, Pinned
    <3> QED
      BY <3>1, <1>2 DEF BufInv, BufTypeOK, GuardStable
  <2> QED
    BY <2>1, <2>2
<1>6. SweepInv'
  BY <1>2 DEF SweepInv, NoSweep
<1> QED
  BY <1>3, <1>4, <1>5, <1>6 DEF BufInv

LEMMA SweepFailInv ==
  ASSUME BufInv, NEW c \in Clients, SweepFail(c)
  PROVE  BufInv'
<1>1. BufTypeOK'
  BY Constants DEF SweepFail, BufInv, BufTypeOK, MapAgrees, IsResident, GuardType, SweepInv
<1>2. MapAgrees'
  BY Constants DEF SweepFail, BufInv, BufTypeOK, MapAgrees, IsResident, SweepInv
<1>3. GuardStable'
  BY Constants DEF SweepFail, BufInv, BufTypeOK, MapAgrees, IsResident, GuardStable, SweepInv, GuardType, NoGuard
<1>4. SweepInv'
  BY Constants DEF SweepFail, BufInv, BufTypeOK, MapAgrees, IsResident, SweepInv, GuardType, NoGuard
<1> QED
  BY <1>1, <1>2, <1>3, <1>4 DEF BufInv

LEMMA BeginWritebackInv ==
  ASSUME BufInv, NEW k \in Keys, BeginWriteback(k)
  PROVE  BufInv'
<1>1. BufTypeOK'
  BY SMTT(20), Constants DEF BeginWriteback, BufInv, BufTypeOK, MapAgrees, IsResident, GuardType, SweepInv, TokenType
<1>2. MapAgrees'
  BY Constants DEF BeginWriteback, BufInv, BufTypeOK, MapAgrees, IsResident, SweepInv
<1>3. GuardStable'
  BY Constants DEF BeginWriteback, BufInv, BufTypeOK, MapAgrees, IsResident, GuardStable, SweepInv, GuardType, NoGuard
<1>4. SweepInv'
  BY Constants DEF BeginWriteback, BufInv, BufTypeOK, MapAgrees, IsResident, SweepInv, GuardType, NoGuard
<1> QED
  BY <1>1, <1>2, <1>3, <1>4 DEF BufInv

LEMMA CompleteWritebackInv ==
  ASSUME BufInv, NEW t \in tokens, CompleteWriteback(t)
  PROVE  BufInv'
<1>1. BufTypeOK'
  BY Constants DEF CompleteWriteback, Current, Pinned, Idle, BufInv, BufTypeOK, MapAgrees, IsResident, GuardType, SweepInv, TokenType
<1>2. MapAgrees'
  BY Constants DEF CompleteWriteback, Current, Pinned, Idle, BufInv, BufTypeOK, MapAgrees, IsResident, SweepInv, TokenType
<1>3. GuardStable'
  BY Constants DEF CompleteWriteback, Current, Pinned, Idle, BufInv, BufTypeOK, MapAgrees, IsResident, GuardStable, SweepInv, GuardType, NoGuard, TokenType
<1>4. SweepInv'
  BY Constants DEF CompleteWriteback, Current, Pinned, Idle, BufInv, BufTypeOK, MapAgrees, IsResident, SweepInv, GuardType, NoGuard, TokenType
<1> QED
  BY <1>1, <1>2, <1>3, <1>4 DEF BufInv

LEMMA DiscardWritebackInv ==
  ASSUME BufInv, NEW t \in tokens, DiscardWriteback(t)
  PROVE  BufInv'
<1>1. BufTypeOK'
  BY SMTT(20), Constants DEF DiscardWriteback, Remove, Current, Pinned, Idle, BufInv, BufTypeOK, MapAgrees, IsResident, GuardType, SweepInv, TokenType
<1>2. MapAgrees'
  BY SMTT(20), Constants DEF DiscardWriteback, Remove, Current, Pinned, Idle, BufInv, BufTypeOK, MapAgrees, IsResident, SweepInv, TokenType
<1>3. GuardStable'
  BY Constants DEF DiscardWriteback, Remove, Current, Pinned, Idle, BufInv, BufTypeOK, MapAgrees, IsResident, GuardStable, SweepInv, GuardType, NoGuard, TokenType
<1>4. SweepInv'
  BY Constants DEF DiscardWriteback, Remove, Current, Pinned, Idle, BufInv, BufTypeOK, MapAgrees, IsResident, SweepInv, GuardType, NoGuard, TokenType
<1> QED
  BY <1>1, <1>2, <1>3, <1>4 DEF BufInv

LEMMA DropTokensInv ==
  ASSUME BufInv, NEW ts \in SUBSET tokens, DropTokens(ts)
  PROVE  BufInv'
<1>1. BufTypeOK'
  BY Constants DEF DropTokens, BufInv, BufTypeOK, MapAgrees, IsResident, GuardType, SweepInv
<1>2. MapAgrees'
  BY Constants DEF DropTokens, BufInv, BufTypeOK, MapAgrees, IsResident, SweepInv
<1>3. GuardStable'
  BY Constants DEF DropTokens, BufInv, BufTypeOK, MapAgrees, IsResident, GuardStable, SweepInv, GuardType, NoGuard
<1>4. SweepInv'
  BY Constants DEF DropTokens, BufInv, BufTypeOK, MapAgrees, IsResident, SweepInv, GuardType, NoGuard
<1> QED
  BY <1>1, <1>2, <1>3, <1>4 DEF BufInv

LEMMA EvictKeyInv ==
  ASSUME BufInv, NEW k \in Keys, EvictKey(k)
  PROVE  BufInv'
<1>1. BufTypeOK'
  BY SMTT(20), Constants DEF EvictKey, Remove, Pinned, Idle, BufInv, BufTypeOK, MapAgrees, IsResident, GuardType, SweepInv
<1>2. MapAgrees'
  BY SMTT(20), Constants DEF EvictKey, Remove, Pinned, Idle, BufInv, BufTypeOK, MapAgrees, IsResident, SweepInv
<1>3. GuardStable'
  BY Constants DEF EvictKey, Remove, Pinned, Idle, BufInv, BufTypeOK, MapAgrees, IsResident, GuardStable, SweepInv, GuardType, NoGuard
<1>4. SweepInv'
  BY Constants DEF EvictKey, Remove, Pinned, Idle, BufInv, BufTypeOK, MapAgrees, IsResident, SweepInv, GuardType, NoGuard
<1> QED
  BY <1>1, <1>2, <1>3, <1>4 DEF BufInv

LEMMA RekeyInv ==
  ASSUME BufInv, NEW p \in Pages, NEW v \in 1 .. MaxVersion, Rekey(p, v)
  PROVE  BufInv'
<1> DEFINE old == <<p, 0>>
           new == <<p, v>>
           g == map[old]
<1>1. old \in Keys /\ new \in Keys /\ old # new /\ old[1] = p /\ new[1] = p
  BY SMTT(20), PoolAssumption DEF Keys
<1>2. /\ key' = [key EXCEPT ![g] = new]
      /\ map' = [map EXCEPT ![old] = NoFrame, ![new] = g]
      /\ map[old] # NoFrame /\ map[new] = NoFrame
      /\ UNCHANGED <<state, data, ref, hand, free, guard, tokens, sweep>>
      /\ sweep = NoSweep
  BY DEF Rekey, IsResident, Idle
<1>3. g \in Frames /\ key[g] = old
  BY <1>1, <1>2 DEF BufInv, BufTypeOK, MapAgrees, IsResident
<1> HIDE DEF old, new, g
<1>4. BufTypeOK'
  BY <1>1, <1>2, <1>3 DEF BufInv, BufTypeOK
<1>5. MapAgrees'
  <2>1. ASSUME NEW j \in Keys, map'[j] # NoFrame PROVE key'[map'[j]] = j
    BY <2>1, <1>1, <1>2, <1>3, Constants DEF BufInv, BufTypeOK, MapAgrees, IsResident
  <2>2. ASSUME NEW f \in Frames
        PROVE  (key'[f] = None <=> state'[f] = "free") /\ (key'[f] # None => map'[key'[f]] = f)
    BY SMTT(20), <2>2, <1>1, <1>2, <1>3, Constants DEF BufInv, BufTypeOK, MapAgrees, IsResident
  <2> QED
    BY <2>1, <2>2 DEF MapAgrees, IsResident
<1>6. GuardStable'
  BY <1>1, <1>2, <1>3, Constants DEF BufInv, BufTypeOK, GuardStable
<1>7. SweepInv'
  BY <1>2 DEF SweepInv, NoSweep
<1> QED
  BY <1>4, <1>5, <1>6, <1>7 DEF BufInv

LEMMA MarkDirtyInv ==
  ASSUME BufInv, NEW k \in Keys, MarkDirty(k)
  PROVE  BufInv'
<1>1. BufTypeOK'
  BY Constants DEF MarkDirty, Idle, BufInv, BufTypeOK, MapAgrees, IsResident, GuardType, SweepInv
<1>2. MapAgrees'
  BY SMTT(20), Constants DEF MarkDirty, Idle, BufInv, BufTypeOK, MapAgrees, IsResident, SweepInv
<1>3. GuardStable'
  BY Constants DEF MarkDirty, Idle, BufInv, BufTypeOK, MapAgrees, IsResident, GuardStable, SweepInv, GuardType, NoGuard
<1>4. SweepInv'
  BY Constants DEF MarkDirty, Idle, BufInv, BufTypeOK, MapAgrees, IsResident, SweepInv, GuardType, NoGuard
<1> QED
  BY <1>1, <1>2, <1>3, <1>4 DEF BufInv

\* Every step of every client keeps the contract.
LEMMA StepInv == BufInv /\ [BufNext]_bufVars => BufInv'
<1> SUFFICES ASSUME BufInv, [BufNext]_bufVars PROVE BufInv'
  OBVIOUS
<1>1. CASE UNCHANGED bufVars
  BY <1>1 DEF bufVars, BufInv, BufTypeOK, MapAgrees, IsResident, GuardStable, SweepInv
<1>2. CASE BufNext
  BY <1>2, DropGuardInv, WriteFrameInv, FetchHitInv, FetchFreeInv, FetchSweepInv, SweepSkipInv,
     SweepEvictInv, SweepFailInv, BeginWritebackInv, CompleteWritebackInv, DiscardWritebackInv,
     DropTokensInv, EvictKeyInv, RekeyInv, MarkDirtyInv
  DEF BufNext
<1> QED
  BY <1>1, <1>2

\* The pool keeps its ownership contract (MapAgrees, the relation
\* validate_invariants checks) and never frees, reuses or cleans a frame under
\* a live guard (GuardStable), whatever the clients do.
THEOREM PoolSafe == BufSpec => [](BufTypeOK /\ MapAgrees /\ GuardStable)
<1>1. BufInv => BufTypeOK /\ MapAgrees /\ GuardStable
  BY DEF BufInv
<1> QED
  BY <1>1, InitInv, StepInv, PTL DEF BufSpec

(***************************************************************************)
(* The free-frame count.                                                   *)
(***************************************************************************)
LEMMA FreeFinite == IsFiniteSet(FreeFrames) /\ Cardinality(FreeFrames) \in Nat
<1>1. IsFiniteSet(Frames)
  BY SMTT(20), FS_Interval, PoolAssumption DEF Frames
<1> QED
  BY <1>1, FS_Subset, FS_CardinalityType DEF FreeFrames

\* A removal frees one occupied frame and counts it.
LEMMA RemoveCounts ==
  ASSUME BufInv, FreeCounted, NEW k \in Keys, IsResident(k), Remove(k)
  PROVE  FreeCounted'
<1>1. map[k] \in Frames /\ map[k] \notin FreeFrames
  BY Constants DEF BufInv, BufTypeOK, MapAgrees, IsResident, FreeFrames
<1>2. FreeFrames' = FreeFrames \cup {map[k]}
  BY <1>1 DEF Remove, FreeFrames, BufInv, BufTypeOK
<1> QED
  BY <1>1, <1>2, FreeFinite, FS_AddElement DEF FreeCounted, Remove

\* A step that neither frees nor takes a frame leaves the count right.
LEMMA SameCount ==
  ASSUME FreeCounted, free' = free,
         \A f \in Frames : state'[f] = "free" <=> state[f] = "free"
  PROVE  FreeCounted'
<1>1. FreeFrames' = FreeFrames
  BY DEF FreeFrames
<1> QED
  BY <1>1 DEF FreeCounted

LEMMA StepCounts == BufInv /\ FreeCounted /\ [BufNext]_bufVars => FreeCounted'
<1> SUFFICES ASSUME BufInv, FreeCounted, [BufNext]_bufVars PROVE FreeCounted'
  OBVIOUS
<1>1. ASSUME free' = free, state' = state PROVE FreeCounted'
  BY <1>1, SameCount
<1>2. ASSUME NEW c \in Clients, NEW k \in Keys, NEW w \in BOOLEAN, FetchHit(c, k, w)
      PROVE  FreeCounted'
  <2>1. map[k] \in Frames /\ state[map[k]] # "free"
    BY <1>2, Constants DEF FetchHit, BufInv, BufTypeOK, MapAgrees, IsResident
  <2> QED
    BY <1>2, <2>1, SameCount DEF FetchHit, BufInv, BufTypeOK
<1>3. ASSUME NEW c \in Clients, NEW k \in Keys, NEW d \in Images, NEW w \in BOOLEAN,
             FetchFree(c, k, d, w)
      PROVE  FreeCounted'
  <2>1. PICK f \in FreeFrames : state' = [state EXCEPT ![f] = IF w THEN "dirty" ELSE "clean"]
    BY <1>3 DEF FetchFree, LoadInto
  <2>2. FreeFrames' = FreeFrames \ {f}
    BY <2>1 DEF FreeFrames, BufInv, BufTypeOK
  <2> QED
    BY <2>2, <1>3, FreeFinite, FS_RemoveElement DEF FreeCounted, FetchFree
<1>4. ASSUME NEW c \in Clients, SweepEvict(c) PROVE FreeCounted'
  <2>1. hand \in Frames /\ state[hand] # "free"
    BY <1>4, SweepFacts, Constants DEF SweepEvict, BufInv, BufTypeOK, SweepInv
  <2> QED
    BY <1>4, <2>1, SameCount DEF SweepEvict, LoadInto, BufInv, BufTypeOK
<1>5. ASSUME NEW t \in tokens, CompleteWriteback(t) PROVE FreeCounted'
  <2>1. t.key \in Keys
    BY DEF BufInv, BufTypeOK, TokenType
  <2>2. map[t.key] \in Frames /\ state[map[t.key]] # "free"
    BY <1>5, <2>1 DEF CompleteWriteback, Current, BufInv, BufTypeOK, IsResident
  <2> QED
    BY <1>5, <2>2, SameCount DEF CompleteWriteback, BufInv, BufTypeOK
<1>6. ASSUME NEW t \in tokens, DiscardWriteback(t) PROVE FreeCounted'
  <2>1. t.key \in Keys
    BY DEF BufInv, BufTypeOK, TokenType
  <2> QED
    BY <1>6, <2>1, RemoveCounts DEF DiscardWriteback, Current
<1>7. ASSUME NEW k \in Keys, EvictKey(k) PROVE FreeCounted'
  BY <1>7, RemoveCounts DEF EvictKey
<1>8. ASSUME NEW k \in Keys, MarkDirty(k) PROVE FreeCounted'
  <2>1. map[k] \in Frames /\ state[map[k]] # "free"
    BY <1>8, Constants DEF MarkDirty, BufInv, BufTypeOK, MapAgrees, IsResident
  <2> QED
    BY <1>8, <2>1, SameCount DEF MarkDirty, BufInv, BufTypeOK
<1> QED
  BY <1>1, <1>2, <1>3, <1>4, <1>5, <1>6, <1>7, <1>8
  DEF BufNext, bufVars, DropGuard, WriteFrame, FetchSweep, SweepSkip, SweepFail, BeginWriteback,
      DropTokens, Rekey

\* stats.free_frames is the number of free frames after any sequence of
\* fetches, evictions, completions and discards.
THEOREM FreeAlwaysCounted == BufSpec => []FreeCounted
<1>1. BufInit => FreeCounted
  <2> SUFFICES ASSUME BufInit PROVE FreeCounted
    OBVIOUS
  <2>1. FreeFrames = 0 .. NumFrames - 1
    BY DEF BufInit, FreeFrames, Frames
  <2> QED
    BY SMTT(20), <2>1, FS_Interval, PoolAssumption DEF BufInit, FreeCounted
<1> QED
  BY <1>1, InitInv, StepInv, StepCounts, PTL DEF BufSpec

(***************************************************************************)
(* What a step may never do.                                               *)
(***************************************************************************)
LEMMA StepKeepsDirty ==
  ASSUME BufInv, [BufNext]_bufVars, NEW f \in Frames, state[f] = "dirty",
         state'[f] # "dirty" \/ key'[f][1] # key[f][1]
  PROVE  ~Pinned(f) /\ [key |-> key[f], data |-> data[f]] \in tokens
<1>1. ASSUME NEW t \in tokens, Current(t), map[t.key] = f
      PROVE  ~Pinned(f) /\ [key |-> key[f], data |-> data[f]] \in tokens
  <2>1. t = [key |-> t.key, data |-> t.data] /\ t.key \in Keys
    BY DEF BufInv, BufTypeOK, TokenType
  <2>2. key[f] = t.key /\ data[f] = t.data
    BY <1>1, <2>1 DEF Current, BufInv, MapAgrees, IsResident
  <2> QED
    BY <1>1, <2>1, <2>2 DEF Current
<1>2. ASSUME NEW t \in tokens, CompleteWriteback(t) \/ DiscardWriteback(t)
      PROVE  Current(t) /\ map[t.key] = f
  BY <1>2 DEF CompleteWriteback, DiscardWriteback, Remove, BufInv, BufTypeOK
<1>3. ASSUME NEW c \in Clients, NEW k \in Keys, NEW d \in Images, NEW w \in BOOLEAN,
             FetchFree(c, k, d, w)
      PROVE  FALSE
  BY <1>3 DEF FetchFree, LoadInto, FreeFrames, BufInv, BufTypeOK
<1>4. ASSUME NEW c \in Clients, NEW k \in Keys, NEW w \in BOOLEAN, FetchHit(c, k, w)
      PROVE  FALSE
  BY <1>4 DEF FetchHit, BufInv, BufTypeOK
<1>5. ASSUME NEW c \in Clients, SweepEvict(c) PROVE FALSE
  BY <1>5 DEF SweepEvict, LoadInto, BufInv, BufTypeOK
<1>6. ASSUME NEW k \in Keys, EvictKey(k) \/ MarkDirty(k) PROVE FALSE
  BY <1>6 DEF EvictKey, MarkDirty, Remove, BufInv, BufTypeOK
<1>7. ASSUME NEW p \in Pages, NEW v \in 1 .. MaxVersion, Rekey(p, v) PROVE FALSE
  <2>1. <<p, 0>> \in Keys /\ map[<<p, 0>>] \in Frames /\ key[map[<<p, 0>>]] = <<p, 0>>
    <3>1. <<p, 0>> \in Keys /\ IsResident(<<p, 0>>)
      BY SMTT(20), <1>7, PoolAssumption DEF Rekey, Keys
    <3> QED
      BY <3>1 DEF IsResident, BufInv, BufTypeOK, MapAgrees
  <2>2. state' = state /\ key' = [key EXCEPT ![map[<<p, 0>>]] = <<p, v>>]
    BY <1>7 DEF Rekey
  <2>3. key'[f][1] = key[f][1]
    <3>1. <<p, 0>>[1] = p /\ <<p, v>>[1] = p
      OBVIOUS
    <3>2. CASE f = map[<<p, 0>>]
      BY <2>1, <2>2, <3>1, <3>2 DEF BufInv, BufTypeOK
    <3>3. CASE f # map[<<p, 0>>]
      BY <2>1, <2>2, <3>3 DEF BufInv, BufTypeOK
    <3> QED
      BY <3>2, <3>3
  <2> QED
    BY <2>2, <2>3
<1> QED
  BY <1>1, <1>2, <1>3, <1>4, <1>5, <1>6, <1>7
  DEF BufNext, bufVars, DropGuard, WriteFrame, FetchSweep, SweepSkip, SweepFail, BeginWriteback,
      DropTokens

\* No dirty page is ever dropped, replaced or declared clean without the
\* write-back of its exact bytes, for any pool and any clients.
THEOREM NoDirtyLoss == BufSpec => DirtyKept
<1>1. BufInv /\ [BufNext]_bufVars =>
        [\A f \in Frames :
           state[f] = "dirty" /\ (state'[f] # "dirty" \/ key'[f][1] # key[f][1]) =>
             /\ ~Pinned(f)
             /\ [key |-> key[f], data |-> data[f]] \in tokens]_bufVars
  BY StepKeepsDirty
<1> QED
  BY <1>1, InitInv, StepInv, PTL DEF BufSpec, DirtyKept

LEMMA StepKeepsBytes ==
  ASSUME BufInv, [BufNext]_bufVars, NEW f \in Frames, Pinned(f), data'[f] # data[f]
  PROVE  \E c \in Clients : guard[c].frame = f /\ guard[c].write
<1>1. ASSUME NEW c \in Clients, NEW d \in Images, WriteFrame(c, d)
      PROVE  guard[c].frame = f /\ guard[c].write
  BY <1>1 DEF WriteFrame, BufInv, BufTypeOK
<1>2. key[f] # None /\ state[f] # "free"
  <2>1. PICK c \in Clients : guard[c].frame = f
    BY DEF Pinned
  <2>2. guard[c] # NoGuard
    BY SMTT(20), <2>1, Constants DEF NoGuard
  <2> QED
    BY <2>1, <2>2 DEF BufInv, GuardStable, MapAgrees
<1>3. ASSUME NEW c \in Clients, NEW k \in Keys, NEW d \in Images, NEW w \in BOOLEAN,
             FetchFree(c, k, d, w)
      PROVE  FALSE
  BY <1>2, <1>3 DEF FetchFree, LoadInto, FreeFrames, BufInv, BufTypeOK
<1>4. ASSUME NEW c \in Clients, SweepEvict(c) PROVE FALSE
  BY <1>4 DEF SweepEvict, LoadInto, BufInv, BufTypeOK
<1>5. ASSUME NEW t \in tokens, DiscardWriteback(t) PROVE FALSE
  BY <1>5 DEF DiscardWriteback, Current, Remove, BufInv, BufTypeOK
<1>6. ASSUME NEW k \in Keys, EvictKey(k) PROVE FALSE
  BY <1>6 DEF EvictKey, Remove, BufInv, BufTypeOK
<1> QED
  BY <1>1, <1>3, <1>4, <1>5, <1>6
  DEF BufNext, bufVars, DropGuard, FetchHit, FetchSweep, SweepSkip, SweepFail, BeginWriteback,
      CompleteWriteback, DropTokens, Rekey, MarkDirty

\* The bytes a guard looks at change only through a live write guard on the
\* same frame: no eviction, load or discard reaches them.
THEOREM GuardedBytesKept == BufSpec => GuardedBytesStable
<1>1. BufInv /\ [BufNext]_bufVars =>
        [\A f \in Frames : Pinned(f) /\ data'[f] # data[f] =>
           \E c \in Clients : guard[c].frame = f /\ guard[c].write]_bufVars
  BY StepKeepsBytes
<1> QED
  BY <1>1, InitInv, StepInv, PTL DEF BufSpec, GuardedBytesStable

(***************************************************************************)
(* The engine: the inductive invariant.                                    *)
(***************************************************************************)
\* A reader under way asks for a version of a page; a flush runs alone.
ReadersInv ==
  /\ \A r \in Readers : rd[r].pc # "idle" => rd[r].key \in Pages \X (1 .. MaxVersion)
  /\ fl.pc \notin {"idle", "failed"} => \A r \in Readers : rd[r].pc = "idle"

\* A sweep, and a guard, serve the fetch its owner is at.
SweepServes ==
  sweep # NoSweep =>
    \/ /\ sweep.by \in Readers /\ rd[sweep.by].pc = "copy" /\ sweep.key = rd[sweep.by].key
       /\ sweep.data \in {sweep.key, Zero}
    \/ sweep.by = Writer /\ fl.pc = "fill" /\ sweep.key = <<fl.cur, 0>>

GuardServes ==
  \A c \in Clients : guard[c] # NoGuard =>
    \/ c \in Readers /\ rd[c].pc = "copy" /\ key[guard[c].frame] = rd[c].key
    \/ c = Writer /\ fl.pc \in {"fill", "drop"} /\ key[guard[c].frame] = <<fl.cur, 0>>

\* The frame of page p's staging key holds its version v.
Staged(p, v) == IsResident(<<p, 0>>) /\ data[map[<<p, 0>>]] = <<p, v>>
StagedDirty(p) == state[map[<<p, 0>>]] = "dirty"

\* Where the flush stands: the page in hand and the staged pages keep the
\* bytes the device got, in frames no sweep takes before the sync.
FlushInv ==
  /\ \A p \in fl.todo : ver[p] < MaxVersion /\ p \notin fl.staged
  /\ fl.pc \in {"fill", "drop", "begin", "device"} =>
       fl.cur \in Pages /\ fl.cur \notin fl.todo \cup fl.staged /\ ver[fl.cur] < MaxVersion
  /\ fl.pc \in {"drop", "begin", "device"} =>
       Staged(fl.cur, ver[fl.cur] + 1) /\ StagedDirty(fl.cur)
  /\ \A p \in fl.staged : Staged(p, ver[p]) /\ (fl.pc # "complete" => StagedDirty(p))
  /\ fl.stream \/ fl.pc \in {"idle", "failed"} => fl.staged = {}
  /\ \A t \in tokens : t.key[2] = 0

EngineInv == EngineTypeOK /\ NoWrongPage /\ ReadersInv /\ SweepServes /\ GuardServes /\ FlushInv

\* Facts about the constants.
LEMMA EngineConstants ==
  /\ MaxVersion \in Nat
  /\ \A p \in Pages, v \in 1 .. MaxVersion :
       /\ <<p, v>> \in Keys /\ <<p, v>> \in Images /\ <<p, v>> # Zero
       /\ <<p, v>>[1] = p /\ <<p, v>>[2] = v
  /\ \A p \in Pages : <<p, 0>> \in Keys /\ <<p, 0>>[1] = p /\ <<p, 0>>[2] = 0
  /\ \A k \in Pages \X (1 .. MaxVersion) : k \in Keys /\ k \in Images /\ k[2] > 0
  /\ \A p, q \in Pages : <<p, 0>> = <<q, 0>> => p = q
  /\ Zero \in Images
  /\ Writer \in Clients /\ Writer \notin Readers /\ Readers \subseteq Clients
  /\ Clients = Readers \cup {Writer}
BY SMTT(20), PoolAssumption, ReadPathAssumption DEF Keys, Readers

(***************************************************************************)
(* Every engine step is a pool step.                                       *)
(***************************************************************************)
LEMMA EngineStepIsPoolStep ==
  ASSUME BufInv, EngineInv, Next
  PROVE  [BufNext]_bufVars
<1>1. ASSUME NEW c \in Clients, NEW k \in Keys, NEW d \in Images, NEW w \in BOOLEAN,
             PoolFetch(c, k, d, w)
      PROVE  BufNext
  BY <1>1 DEF PoolFetch, BufNext
<1>2. ASSUME NEW r \in Readers, ReaderStep(r) PROVE [BufNext]_bufVars
  <2>1. CASE FetchPage(r)
    <3>1. rd[r].key \in Keys /\ rd[r].buf \in Images
      BY <2>1, EngineConstants DEF FetchPage, At, EngineInv, EngineTypeOK, ReadType, ReadersInv
    <3> QED
      BY <2>1, <3>1, <1>1, EngineConstants DEF FetchPage
  <2>2. CASE Sweeping(r)
    BY <2>2, EngineConstants DEF Sweeping, BufNext
  <2>3. CASE CopyPage(r)
    BY <2>3, EngineConstants DEF CopyPage, BufNext
  <2>4. CASE RefuseRead(r)
    BY <2>4, EngineConstants DEF RefuseRead, BufNext
  <2> QED
    BY <1>2, <2>1, <2>2, <2>3, <2>4 DEF ReaderStep, StartRead, CheckResident, ReadDevice, ParsePage
<1>3. ASSUME NEW S \in DirtySets, StartFlush(S) PROVE [BufNext]_bufVars
  BY <1>3 DEF StartFlush
<1>4. ASSUME FlushStep PROVE [BufNext]_bufVars
  <2>1. CASE StagePage
    <3>1. PICK p \in fl.todo : PoolFetch(Writer, <<p, 0>>, <<p, ver[p] + 1>>, TRUE)
      BY <2>1 DEF StagePage
    <3>2. p \in Pages /\ ver[p] + 1 \in 1 .. MaxVersion
      BY SMTT(20), EngineConstants DEF EngineInv, EngineTypeOK, FlushType, FlushInv
    <3> QED
      BY <3>1, <3>2, <1>1, EngineConstants
  <2>2. CASE Sweeping(Writer) \/ RefuseFlush
    BY <2>2, EngineConstants DEF Sweeping, RefuseFlush, BufNext
  <2>3. CASE FillPage
    <3>1. <<fl.cur, ver[fl.cur] + 1>> \in Images
      BY SMTT(20), <2>3, EngineConstants DEF FillPage, EngineInv, EngineTypeOK, FlushInv
    <3> QED
      BY <2>3, <3>1, EngineConstants DEF FillPage, BufNext
  <2>4. CASE DropPage
    BY <2>4, EngineConstants DEF DropPage, BufNext
  <2>5. CASE BeginPage
    BY <2>5, EngineConstants DEF BeginPage, BufNext, EngineInv, FlushInv
  <2>6. CASE WriteDevice \/ CompletePage
    BY <2>6 DEF WriteDevice, CompletePage, BufNext
  <2>7. CASE FlushFails
    <3>1. CASE tokens = {}
      BY <2>7, <3>1 DEF FlushFails, bufVars
    <3>2. CASE tokens # {}
      BY <2>7, <3>2 DEF FlushFails, BufNext, DropTokens
    <3> QED
      BY <3>1, <3>2
  <2>8. CASE RekeyPage
    <3>1. \A p \in fl.staged : p \in Pages /\ ver[p] \in 1 .. MaxVersion
      BY DEF EngineInv, EngineTypeOK, FlushType
    <3> QED
      BY <2>8, <3>1 DEF RekeyPage, BufNext
  <2>9. CASE RetirePage
    <3>1. fl.retired \subseteq Keys
      BY DEF EngineInv, EngineTypeOK, FlushType
    <3> QED
      BY <2>9, <3>1 DEF RetirePage, BufNext
  <2> QED
    BY <1>4, <2>1, <2>2, <2>3, <2>4, <2>5, <2>6, <2>7, <2>8, <2>9
    DEF FlushStep, SyncDevice, FinishFlush
<1> QED
  BY <1>2, <1>3, <1>4 DEF Next

(***************************************************************************)
(* The invariant, action by action.                                        *)
(***************************************************************************)
LEMMA StartReadInv ==
  ASSUME BufInv, BufInv', EngineInv, NEW r \in Readers, NEW p \in Pages, NEW v \in 1 .. MaxVersion, StartRead(r, p, v)
  PROVE  EngineInv'
<1>1. EngineTypeOK'
  BY EngineConstants DEF StartRead, At, bufVars, EngineInv, EngineTypeOK, ReadType, FlushType
<1>2. NoWrongPage'
  BY EngineConstants DEF StartRead, At, bufVars, EngineInv, EngineTypeOK, ReadType, NoWrongPage, ReadersInv
<1>3. ReadersInv'
  BY SMTT(20), EngineConstants DEF StartRead, At, bufVars, EngineInv, EngineTypeOK, ReadType, FlushType, ReadersInv
<1>4. SweepServes'
  BY SMTT(20), EngineConstants DEF StartRead, At, bufVars, EngineInv, EngineTypeOK, ReadType, FlushType, ReadersInv, SweepServes
<1>5. GuardServes'
  BY EngineConstants DEF StartRead, At, bufVars, EngineInv, EngineTypeOK, ReadType, FlushType, ReadersInv, GuardServes
<1>6. FlushInv'
  BY EngineConstants DEF StartRead, At, bufVars, EngineInv, EngineTypeOK, FlushType, FlushInv, Staged, StagedDirty, IsResident
<1> QED
  BY <1>1, <1>2, <1>3, <1>4, <1>5, <1>6 DEF EngineInv

LEMMA CheckResidentInv ==
  ASSUME BufInv, BufInv', EngineInv, NEW r \in Readers, CheckResident(r)
  PROVE  EngineInv'
<1>1. EngineTypeOK'
  BY SMTT(20), EngineConstants DEF CheckResident, At, bufVars, EngineInv, EngineTypeOK, ReadType, FlushType
<1>2. NoWrongPage'
  BY SMTT(20), EngineConstants DEF CheckResident, At, bufVars, EngineInv, EngineTypeOK, ReadType, NoWrongPage, ReadersInv
<1>3. ReadersInv'
  BY SMTT(20), EngineConstants DEF CheckResident, At, bufVars, EngineInv, EngineTypeOK, ReadType, FlushType, ReadersInv
<1>4. SweepServes'
  BY SMTT(20), EngineConstants DEF CheckResident, At, bufVars, EngineInv, EngineTypeOK, ReadType, FlushType, ReadersInv, SweepServes
<1>5. GuardServes'
  BY EngineConstants DEF CheckResident, At, bufVars, EngineInv, EngineTypeOK, ReadType, FlushType, ReadersInv, GuardServes
<1>6. FlushInv'
  BY EngineConstants DEF CheckResident, At, bufVars, EngineInv, EngineTypeOK, FlushType, FlushInv, Staged, StagedDirty, IsResident
<1> QED
  BY <1>1, <1>2, <1>3, <1>4, <1>5, <1>6 DEF EngineInv

LEMMA ReadDeviceInv ==
  ASSUME BufInv, BufInv', EngineInv, NEW r \in Readers, ReadDevice(r)
  PROVE  EngineInv'
<1>1. EngineTypeOK'
  BY SMTT(20), EngineConstants DEF ReadDevice, NoRead, At, bufVars, EngineInv, EngineTypeOK, ReadType, FlushType
<1>2. NoWrongPage'
  BY SMTT(20), EngineConstants DEF ReadDevice, NoRead, At, bufVars, EngineInv, EngineTypeOK, ReadType, NoWrongPage, ReadersInv
<1>3. ReadersInv'
  BY SMTT(20), EngineConstants DEF ReadDevice, NoRead, At, bufVars, EngineInv, EngineTypeOK, ReadType, FlushType, ReadersInv
<1>4. SweepServes'
  BY SMTT(20), EngineConstants DEF ReadDevice, NoRead, At, bufVars, EngineInv, EngineTypeOK, ReadType, FlushType, ReadersInv, SweepServes
<1>5. GuardServes'
  <2>1. \A x \in Readers : rd[x].pc = "copy" => rd'[x] = rd[x]
    BY DEF ReadDevice, At, EngineInv, EngineTypeOK
  <2> QED
    BY <2>1 DEF ReadDevice, bufVars, EngineInv, GuardServes
<1>6. FlushInv'
  BY EngineConstants DEF ReadDevice, NoRead, At, bufVars, EngineInv, EngineTypeOK, FlushType, FlushInv, Staged, StagedDirty, IsResident
<1> QED
  BY <1>1, <1>2, <1>3, <1>4, <1>5, <1>6 DEF EngineInv

LEMMA ParsePageInv ==
  ASSUME BufInv, BufInv', EngineInv, NEW r \in Readers, ParsePage(r)
  PROVE  EngineInv'
<1>1. EngineTypeOK'
  BY EngineConstants DEF ParsePage, At, bufVars, Remember, NoRead, EngineInv, EngineTypeOK, ReadType, FlushType
<1>2. NoWrongPage'
  BY SMTT(20), EngineConstants DEF ParsePage, At, bufVars, Remember, NoRead, EngineInv, EngineTypeOK, ReadType, NoWrongPage, ReadersInv
<1>3. ReadersInv'
  BY SMTT(20), EngineConstants DEF ParsePage, At, bufVars, Remember, NoRead, EngineInv, EngineTypeOK, ReadType, FlushType, ReadersInv
<1>4. SweepServes'
  BY SMTT(20), EngineConstants DEF ParsePage, At, bufVars, Remember, NoRead, EngineInv, EngineTypeOK, ReadType, FlushType, ReadersInv, SweepServes
<1>5. GuardServes'
  BY EngineConstants DEF ParsePage, At, bufVars, Remember, NoRead, EngineInv, EngineTypeOK, ReadType, FlushType, ReadersInv, GuardServes
<1>6. FlushInv'
  BY EngineConstants DEF ParsePage, At, bufVars, Remember, NoRead, EngineInv, EngineTypeOK, FlushType, FlushInv, Staged, StagedDirty, IsResident
<1> QED
  BY <1>1, <1>2, <1>3, <1>4, <1>5, <1>6 DEF EngineInv

LEMMA StartFlushInv ==
  ASSUME BufInv, BufInv', EngineInv, NEW S \in DirtySets, StartFlush(S)
  PROVE  EngineInv'
<1>1. EngineTypeOK'
  <2>1. S \in SUBSET Pages /\ fl' \in FlushType
    <3>1. S \in SUBSET Pages
      BY ReadPathAssumption
    <3>2. (Cardinality(S) > NumFrames) \in BOOLEAN
      BY SMTT(20)
    <3> QED
      BY <3>1, <3>2 DEF StartFlush, NoFlush, FlushType
  <2> QED
    BY <2>1 DEF StartFlush, EngineInv, EngineTypeOK
<1>2. NoWrongPage'
  BY EngineConstants, ReadPathAssumption DEF StartFlush, At, bufVars, NoFlush, EngineInv, EngineTypeOK, ReadType, NoWrongPage, ReadersInv
<1>3. ReadersInv'
  BY EngineConstants, ReadPathAssumption DEF StartFlush, At, bufVars, NoFlush, EngineInv, EngineTypeOK, ReadType, FlushType, ReadersInv
<1>4. SweepServes'
  BY EngineConstants, ReadPathAssumption DEF StartFlush, At, bufVars, NoFlush, EngineInv, EngineTypeOK, ReadType, FlushType, ReadersInv, SweepServes
<1>5. GuardServes'
  BY EngineConstants, ReadPathAssumption DEF StartFlush, At, bufVars, NoFlush, EngineInv, EngineTypeOK, ReadType, FlushType, ReadersInv, GuardServes
<1>6. FlushInv'
  BY SMTT(20), EngineConstants, ReadPathAssumption DEF StartFlush, At, bufVars, NoFlush, EngineInv, EngineTypeOK, FlushType, FlushInv, Staged, StagedDirty, IsResident
<1> QED
  BY <1>1, <1>2, <1>3, <1>4, <1>5, <1>6 DEF EngineInv

LEMMA SyncDeviceInv ==
  ASSUME BufInv, BufInv', EngineInv, SyncDevice
  PROVE  EngineInv'
<1>1. EngineTypeOK'
  BY EngineConstants DEF SyncDevice, bufVars, EngineInv, EngineTypeOK, ReadType, FlushType
<1>2. NoWrongPage'
  BY EngineConstants DEF SyncDevice, bufVars, EngineInv, EngineTypeOK, ReadType, NoWrongPage, ReadersInv
<1>3. ReadersInv'
  BY EngineConstants DEF SyncDevice, bufVars, EngineInv, EngineTypeOK, ReadType, FlushType, ReadersInv
<1>4. SweepServes'
  BY EngineConstants DEF SyncDevice, bufVars, EngineInv, EngineTypeOK, ReadType, FlushType, ReadersInv, SweepServes
<1>5. GuardServes'
  BY EngineConstants DEF SyncDevice, bufVars, EngineInv, EngineTypeOK, ReadType, FlushType, ReadersInv, GuardServes
<1>6. FlushInv'
  BY EngineConstants DEF SyncDevice, bufVars, EngineInv, EngineTypeOK, FlushType, FlushInv, Staged, StagedDirty, IsResident
<1> QED
  BY <1>1, <1>2, <1>3, <1>4, <1>5, <1>6 DEF EngineInv

LEMMA FinishFlushInv ==
  ASSUME BufInv, BufInv', EngineInv, FinishFlush
  PROVE  EngineInv'
<1>1. EngineTypeOK'
  BY SMTT(20), EngineConstants DEF FinishFlush, bufVars, NoFlush, EngineInv, EngineTypeOK, ReadType, FlushType
<1>2. NoWrongPage'
  BY EngineConstants DEF FinishFlush, bufVars, NoFlush, EngineInv, EngineTypeOK, ReadType, NoWrongPage, ReadersInv
<1>3. ReadersInv'
  BY EngineConstants DEF FinishFlush, bufVars, NoFlush, EngineInv, EngineTypeOK, ReadType, FlushType, ReadersInv
<1>4. SweepServes'
  BY EngineConstants DEF FinishFlush, bufVars, NoFlush, EngineInv, EngineTypeOK, ReadType, FlushType, ReadersInv, SweepServes
<1>5. GuardServes'
  BY EngineConstants DEF FinishFlush, bufVars, NoFlush, EngineInv, EngineTypeOK, ReadType, FlushType, ReadersInv, GuardServes
<1>6. FlushInv'
  BY EngineConstants DEF FinishFlush, bufVars, NoFlush, EngineInv, EngineTypeOK, FlushType, FlushInv, Staged, StagedDirty, IsResident
<1> QED
  BY <1>1, <1>2, <1>3, <1>4, <1>5, <1>6 DEF EngineInv

LEMMA FlushFailsInv ==
  ASSUME BufInv, BufInv', EngineInv, FlushFails
  PROVE  EngineInv'
<1>1. EngineTypeOK'
  <2>1. fl' \in FlushType
    BY DEF FlushFails, NoFlush, FlushType, EngineInv, EngineTypeOK
  <2>2. faults' \in 0 .. MaxFaults
    BY SMTT(20), ReadPathAssumption DEF FlushFails, EngineInv, EngineTypeOK
  <2> QED
    BY <2>1, <2>2 DEF FlushFails, EngineInv, EngineTypeOK
<1>2. NoWrongPage'
  BY EngineConstants, ReadPathAssumption DEF FlushFails, NoFlush, EngineInv, EngineTypeOK, ReadType, NoWrongPage, ReadersInv
<1>3. ReadersInv'
  BY EngineConstants, ReadPathAssumption DEF FlushFails, NoFlush, EngineInv, EngineTypeOK, ReadType, FlushType, ReadersInv
<1>4. SweepServes'
  BY EngineConstants, ReadPathAssumption DEF FlushFails, NoFlush, EngineInv, EngineTypeOK, ReadType, FlushType, ReadersInv, SweepServes
<1>5. GuardServes'
  BY EngineConstants, ReadPathAssumption DEF FlushFails, NoFlush, EngineInv, EngineTypeOK, ReadType, FlushType, ReadersInv, GuardServes
<1>6. FlushInv'
  BY EngineConstants, ReadPathAssumption DEF FlushFails, NoFlush, EngineInv, EngineTypeOK, FlushType, FlushInv, Staged, StagedDirty, IsResident
<1> QED
  BY <1>1, <1>2, <1>3, <1>4, <1>5, <1>6 DEF EngineInv

LEMMA RefuseReadInv ==
  ASSUME BufInv, BufInv', EngineInv, NEW r \in Readers, RefuseRead(r)
  PROVE  EngineInv'
<1>0. /\ guard[r] = NoGuard /\ sweep' = NoSweep
      /\ UNCHANGED <<key, state, data, map, guard, tokens, parsed, ver, pub, fl, faults>>
      /\ rd' = [rd EXCEPT ![r] = NoRead] /\ mutex' = None
  BY SweepFacts, EngineConstants DEF RefuseRead, SweepFail
<1>1. EngineTypeOK'
  BY EngineConstants, <1>0 DEF NoRead, EngineInv, EngineTypeOK, ReadType
<1>2. NoWrongPage'
  BY EngineConstants, <1>0 DEF NoRead, EngineInv, EngineTypeOK, NoWrongPage
<1>3. ReadersInv'
  BY EngineConstants, <1>0 DEF NoRead, EngineInv, EngineTypeOK, ReadersInv
<1>4. SweepServes'
  BY <1>0 DEF SweepServes
<1>5. GuardServes'
  BY EngineConstants, <1>0 DEF EngineInv, EngineTypeOK, GuardServes
<1>6. FlushInv'
  BY <1>0 DEF EngineInv, FlushInv, Staged, StagedDirty, IsResident
<1> QED
  BY <1>1, <1>2, <1>3, <1>4, <1>5, <1>6 DEF EngineInv

LEMMA RefuseFlushInv ==
  ASSUME BufInv, BufInv', EngineInv, RefuseFlush
  PROVE  EngineInv'
<1>0. fl.pc = "fill" /\ guard[Writer] = NoGuard /\ sweep' = NoSweep
  BY SweepFacts, EngineConstants DEF RefuseFlush, SweepFail, EngineInv, SweepServes
<1>1. EngineTypeOK'
  BY EngineConstants, <1>0 DEF RefuseFlush, SweepFail, EngineInv, EngineTypeOK, ReadType, FlushType
<1>2. NoWrongPage'
  BY EngineConstants, <1>0 DEF RefuseFlush, SweepFail, EngineInv, EngineTypeOK, ReadType, NoWrongPage, ReadersInv
<1>3. ReadersInv'
  BY EngineConstants, <1>0 DEF RefuseFlush, SweepFail, EngineInv, EngineTypeOK, ReadType, FlushType, ReadersInv
<1>4. SweepServes'
  BY EngineConstants, <1>0 DEF RefuseFlush, SweepFail, EngineInv, EngineTypeOK, ReadType, FlushType, ReadersInv, SweepServes
<1>5. GuardServes'
  BY EngineConstants, <1>0 DEF RefuseFlush, SweepFail, EngineInv, EngineTypeOK, ReadType, FlushType, ReadersInv, GuardServes
<1>6. FlushInv'
  BY EngineConstants, <1>0 DEF RefuseFlush, SweepFail, EngineInv, EngineTypeOK, FlushType, FlushInv, Staged, StagedDirty, IsResident
<1> QED
  BY <1>1, <1>2, <1>3, <1>4, <1>5, <1>6 DEF EngineInv

\* What fetch_key and the sweep leave behind: the frames stay honest if the
\* image offered for a versioned key is that version or zeros, other clients'
\* guards keep their pages, and the caller gets its key's frame.
FramesHonest ==
  \A f \in Frames : key[f] # None /\ key[f][2] > 0 => data[f] \in {key[f], Zero}

OthersKeep(c) ==
  \A x \in Clients \ {c} :
    guard'[x] = guard[x] /\ (guard[x] # NoGuard => key'[guard[x].frame] = key[guard[x].frame])

LEMMA LoadOutcome ==
  ASSUME BufInv, NEW c \in Clients, NEW f \in Frames, NEW k \in Keys, NEW d \in Images,
         NEW w \in BOOLEAN, ~Pinned(f), guard[c] = NoGuard,
         LoadInto(c, f, k, d, w)
  PROVE  /\ OthersKeep(c)
         /\ guard'[c].frame = f /\ key'[f] = k
         /\ FramesHonest /\ (k[2] > 0 => d \in {k, Zero}) => FramesHonest'
<1>1. OthersKeep(c)
  <2> SUFFICES ASSUME NEW x \in Clients, x # c
               PROVE  /\ guard'[x] = guard[x]
                      /\ guard[x] # NoGuard => key'[guard[x].frame] = key[guard[x].frame]
    BY DEF OthersKeep
  <2>1. guard'[x] = guard[x]
    BY DEF LoadInto, Grant, BufInv, BufTypeOK
  <2>2. guard[x].frame # f
    BY DEF Pinned
  <2>3. guard[x] # NoGuard => guard[x].frame \in Frames
    BY DEF BufInv, GuardStable
  <2> QED
    BY <2>1, <2>2, <2>3 DEF LoadInto, BufInv, BufTypeOK
<1>2. guard'[c].frame = f /\ key'[f] = k
  BY DEF LoadInto, Grant, BufInv, BufTypeOK
<1>3. FramesHonest /\ (k[2] > 0 => d \in {k, Zero}) => FramesHonest'
  BY Constants DEF LoadInto, FramesHonest, BufInv, BufTypeOK
<1> QED
  BY <1>1, <1>2, <1>3

LEMMA FreeNotPinned ==
  ASSUME BufInv, NEW f \in Frames, state[f] = "free"
  PROVE  ~Pinned(f)
<1> SUFFICES ASSUME NEW c \in Clients, guard[c].frame = f PROVE FALSE
  BY DEF Pinned
<1>1. guard[c] # NoGuard
  BY SMTT(20), Constants DEF NoGuard
<1> QED
  BY <1>1 DEF BufInv, GuardStable, MapAgrees

LEMMA FetchOutcome ==
  ASSUME BufInv, NEW c \in Clients, NEW k \in Keys, NEW d \in Images, NEW w \in BOOLEAN,
         PoolFetch(c, k, d, w)
  PROVE  /\ OthersKeep(c)
         /\ guard'[c] # NoGuard => key'[guard'[c].frame] = k
         /\ sweep' # NoSweep => sweep'.by = c /\ sweep'.key = k /\ sweep'.data = d
         /\ tokens' = tokens
         /\ FramesHonest /\ (k[2] > 0 => d \in {k, Zero}) => FramesHonest'
<1>1. CASE FetchHit(c, k, w)
  <2>1. key[map[k]] = k /\ guard'[c].frame = map[k]
    BY <1>1 DEF FetchHit, Grant, BufInv, BufTypeOK, MapAgrees
  <2> QED
    BY <1>1, <2>1 DEF FetchHit, Grant, Idle, OthersKeep, FramesHonest, BufInv, BufTypeOK
<1>2. CASE FetchFree(c, k, d, w)
  <2>1. PICK f \in FreeFrames : LoadInto(c, f, k, d, w)
    BY <1>2 DEF FetchFree
  <2>2. f \in Frames /\ ~Pinned(f)
    BY FreeNotPinned DEF FreeFrames
  <2>3. guard[c] = NoGuard /\ sweep' = NoSweep /\ tokens' = tokens
    BY <1>2 DEF FetchFree, Idle
  <2> QED
    BY SMTT(20), <2>1, <2>2, <2>3, LoadOutcome
<1>3. CASE FetchSweep(c, k, d, w)
  BY <1>3 DEF FetchSweep, OthersKeep, FramesHonest
<1> QED
  BY <1>1, <1>2, <1>3 DEF PoolFetch

LEMMA EvictOutcome ==
  ASSUME BufInv, NEW c \in Clients, SweepEvict(c)
  PROVE  /\ OthersKeep(c)
         /\ key'[guard'[c].frame] = sweep.key
         /\ sweep' = NoSweep /\ tokens' = tokens
         /\ FramesHonest /\ (sweep.key[2] > 0 => sweep.data \in {sweep.key, Zero}) => FramesHonest'
BY SMTT(20), SweepFacts, LoadOutcome DEF SweepEvict

\* A staged dirty frame survives the fetch of another key.
LEMMA FetchKeepsStaged ==
  ASSUME BufInv, NEW c \in Clients, NEW k \in Keys, NEW d \in Images, NEW w \in BOOLEAN,
         PoolFetch(c, k, d, w), NEW j \in Keys, j # k, IsResident(j), state[map[j]] = "dirty"
  PROVE  map'[j] = map[j] /\ data'[map[j]] = data[map[j]] /\ state'[map[j]] = "dirty"
<1>1. map[j] \in Frames
  BY DEF BufInv, BufTypeOK, IsResident
<1>2. CASE FetchHit(c, k, w)
  BY <1>1, <1>2 DEF FetchHit, IsResident, BufInv, BufTypeOK
<1>3. CASE FetchFree(c, k, d, w)
  <2>1. PICK f \in FreeFrames : LoadInto(c, f, k, d, w) /\ map' = [map EXCEPT ![k] = f]
    BY <1>3 DEF FetchFree
  <2>2. f # map[j]
    BY DEF FreeFrames
  <2> QED
    BY <1>1, <2>1, <2>2 DEF LoadInto, BufInv, BufTypeOK
<1>4. CASE FetchSweep(c, k, d, w)
  BY <1>4 DEF FetchSweep
<1> QED
  BY <1>2, <1>3, <1>4 DEF PoolFetch

LEMMA EvictKeepsStaged ==
  ASSUME BufInv, NEW c \in Clients, SweepEvict(c), NEW j \in Keys, j # sweep.key,
         IsResident(j), state[map[j]] = "dirty"
  PROVE  map'[j] = map[j] /\ data'[map[j]] = data[map[j]] /\ state'[map[j]] = "dirty"
<1>1. map[j] \in Frames /\ key[map[j]] = j
  BY DEF BufInv, BufTypeOK, MapAgrees, IsResident
<1>2. hand # map[j] /\ key[hand] # j /\ hand \in Frames /\ key[hand] \in Keys /\ sweep.key \in Keys
  BY SweepFacts DEF SweepEvict
<1> QED
  BY <1>1, <1>2 DEF SweepEvict, LoadInto, BufInv, BufTypeOK

LEMMA FetchPageInv ==
  ASSUME BufInv, BufInv', EngineInv, NEW r \in Readers, FetchPage(r)
  PROVE  EngineInv'
<1> DEFINE k == rd[r].key
           d == rd[r].buf
<1>0. /\ r \in Clients /\ r # Writer /\ k \in Keys /\ d \in Images /\ d \in {k, Zero}
      /\ fl.pc \in {"idle", "failed"} /\ PoolFetch(r, k, d, FALSE) /\ rd[r].pc = "fetch"
  BY EngineConstants DEF FetchPage, At, EngineInv, EngineTypeOK, ReadType, ReadersInv, NoWrongPage
<1>a. /\ OthersKeep(r)
      /\ guard'[r] # NoGuard => key'[guard'[r].frame] = k
      /\ sweep' # NoSweep => sweep'.by = r /\ sweep'.key = k /\ sweep'.data = d
      /\ tokens' = tokens
      /\ FramesHonest => FramesHonest'
  BY <1>0, FetchOutcome
<1>1. EngineTypeOK'
  BY SMTT(20), EngineConstants, <1>0 DEF FetchPage, At, EngineInv, EngineTypeOK, ReadType, FlushType
<1>2. NoWrongPage'
  <2>1. FramesHonest'
    BY <1>a DEF EngineInv, NoWrongPage, FramesHonest
  <2> QED
    BY SMTT(20), <2>1, EngineConstants DEF FramesHonest, FetchPage, At, EngineInv, NoWrongPage, EngineTypeOK, ReadType, ReadersInv
<1>3. ReadersInv'
  BY SMTT(20), EngineConstants, <1>0 DEF FetchPage, At, EngineInv, EngineTypeOK, ReadType, FlushType, ReadersInv
<1>4. SweepServes'
  BY SMTT(20), <1>0, <1>a, EngineConstants
  DEF FetchPage, EngineInv, EngineTypeOK, ReadType, SweepServes
<1>5. GuardServes'
  <2> SUFFICES ASSUME NEW x \in Clients, guard'[x] # NoGuard
               PROVE  \/ x \in Readers /\ rd'[x].pc = "copy" /\ key'[guard'[x].frame] = rd'[x].key
                      \/ x = Writer /\ fl'.pc \in {"fill", "drop"} /\ key'[guard'[x].frame] = <<fl'.cur, 0>>
    BY DEF GuardServes
  <2>1. CASE x = r
    BY <2>1, <1>0, <1>a DEF FetchPage, EngineInv, EngineTypeOK, ReadType
  <2>2. CASE x # r
    BY <2>2, <1>0, <1>a DEF FetchPage, OthersKeep, EngineInv, EngineTypeOK, ReadType, GuardServes
  <2> QED
    BY <2>1, <2>2
<1>6. FlushInv'
  BY <1>0, <1>a DEF FetchPage, EngineInv, FlushInv
<1> QED
  BY <1>1, <1>2, <1>3, <1>4, <1>5, <1>6 DEF EngineInv

LEMMA CopyPageInv ==
  ASSUME BufInv, BufInv', EngineInv, NEW r \in Readers, CopyPage(r)
  PROVE  EngineInv'
<1>0. /\ r \in Clients /\ r # Writer /\ fl.pc \in {"idle", "failed"} /\ rd[r].pc = "copy"
      /\ guard[r].frame \in Frames /\ key[guard[r].frame] = rd[r].key
      /\ rd[r].key \in Keys /\ rd[r].key # None /\ rd[r].key[2] > 0
  BY EngineConstants, Constants DEF CopyPage, At, EngineInv, EngineTypeOK, ReadersInv, GuardServes, BufInv, GuardStable
<1>a. data[guard[r].frame] \in {rd[r].key, Zero} /\ data[guard[r].frame] \in Images
  BY <1>0 DEF EngineInv, NoWrongPage, BufInv, BufTypeOK
<1>1. EngineTypeOK'
  BY <1>0, <1>a DEF CopyPage, DropGuard, EngineInv, EngineTypeOK, ReadType
<1>2. NoWrongPage'
  BY <1>0, <1>a DEF CopyPage, DropGuard, EngineInv, EngineTypeOK, ReadType, NoWrongPage
<1>3. ReadersInv'
  BY SMTT(20), EngineConstants, <1>0 DEF CopyPage, At, DropGuard, EngineInv, EngineTypeOK, ReadType, FlushType, ReadersInv
<1>4. SweepServes'
  <2>1. sweep # NoSweep => sweep.by # r
    BY SweepFacts, <1>0 DEF CopyPage, BufInv, SweepInv
  <2> QED
    BY <2>1, <1>0 DEF CopyPage, DropGuard, EngineInv, EngineTypeOK, ReadType, SweepServes
<1>5. GuardServes'
  BY <1>0 DEF CopyPage, DropGuard, EngineInv, EngineTypeOK, ReadType, GuardServes, BufInv, BufTypeOK
<1>6. FlushInv'
  BY EngineConstants, <1>0 DEF CopyPage, At, DropGuard, EngineInv, EngineTypeOK, FlushType, FlushInv, Staged, StagedDirty, IsResident
<1> QED
  BY <1>1, <1>2, <1>3, <1>4, <1>5, <1>6 DEF EngineInv

LEMMA SweepingInv ==
  ASSUME BufInv, BufInv', EngineInv, NEW c \in Clients, Sweeping(c)
  PROVE  EngineInv'
<1>0. /\ sweep.by = c /\ sweep # NoSweep /\ sweep.key \in Keys /\ sweep.data \in Images
      /\ guard[c] = NoGuard
      /\ UNCHANGED engineVars /\ tokens' = tokens
  BY SweepFacts DEF Sweeping, SweepSkip, SweepEvict
<1>a. sweep.key[2] > 0 => sweep.data \in {sweep.key, Zero}
  BY SMTT(20), <1>0, EngineConstants DEF EngineInv, SweepServes, FlushInv
<1>b. CASE SweepSkip(c)
  <2>1. sweep'.by = sweep.by /\ sweep'.key = sweep.key /\ sweep'.data = sweep.data
    BY <1>b DEF SweepSkip, BufInv, BufTypeOK, SweepType
  <2> QED
    BY <1>b, <1>0, <2>1 DEF engineVars, SweepSkip, EngineInv, EngineTypeOK, NoWrongPage, ReadersInv,
       SweepServes, GuardServes, FlushInv, Staged, StagedDirty, IsResident
<1>c. CASE SweepEvict(c)
  <2>1. /\ OthersKeep(c) /\ key'[guard'[c].frame] = sweep.key
        /\ sweep' = NoSweep
        /\ FramesHonest => FramesHonest'
    BY <1>a, <1>c, EvictOutcome
  <2>2. EngineTypeOK' /\ ReadersInv' /\ SweepServes'
    BY <1>0, <2>1 DEF engineVars, EngineInv, EngineTypeOK, ReadersInv, SweepServes
  <2>3. NoWrongPage'
    BY <1>0, <2>1 DEF engineVars, EngineInv, NoWrongPage, FramesHonest
  <2>4. GuardServes'
    <3> SUFFICES ASSUME NEW x \in Clients, guard'[x] # NoGuard
                 PROVE  \/ x \in Readers /\ rd'[x].pc = "copy" /\ key'[guard'[x].frame] = rd'[x].key
                        \/ x = Writer /\ fl'.pc \in {"fill", "drop"} /\ key'[guard'[x].frame] = <<fl'.cur, 0>>
      BY DEF GuardServes
    <3>1. CASE x = c
      BY <3>1, <1>0, <2>1 DEF engineVars, EngineInv, SweepServes
    <3>2. CASE x # c
      BY <3>2, <1>0, <2>1 DEF engineVars, OthersKeep, EngineInv, GuardServes
    <3> QED
      BY <3>1, <3>2
  <2>5. FlushInv'
    <3>1. fl.pc \notin {"drop", "begin", "device", "complete"}
      BY <1>0, EngineConstants DEF EngineInv, SweepServes, ReadersInv
    <3>2. ASSUME NEW p \in fl.staged PROVE Staged(p, ver[p])' /\ StagedDirty(p)'
      <4>1. p \in Pages /\ <<p, 0>> \in Keys /\ Staged(p, ver[p]) /\ StagedDirty(p)
        BY <3>1, EngineConstants DEF EngineInv, EngineTypeOK, FlushType, FlushInv
      <4>2. sweep.key # <<p, 0>>
        BY SMTT(20), <1>0, <4>1, EngineConstants DEF EngineInv, SweepServes, FlushInv, ReadersInv
      <4> QED
        BY <1>0, <1>c, <4>1, <4>2, EvictKeepsStaged DEF engineVars, Staged, StagedDirty, IsResident
    <3> QED
      BY <1>0, <3>1, <3>2 DEF engineVars, EngineInv, FlushInv
  <2> QED
    BY <2>2, <2>3, <2>4, <2>5 DEF EngineInv
<1> QED
  BY <1>b, <1>c DEF Sweeping

LEMMA StagePageInv ==
  ASSUME BufInv, BufInv', EngineInv, StagePage
  PROVE  EngineInv'
<1>0. PICK p \in fl.todo :
        /\ fl.pc = "stage"
        /\ PoolFetch(Writer, <<p, 0>>, <<p, ver[p] + 1>>, TRUE)
        /\ fl' = [fl EXCEPT !.pc = "fill", !.cur = p, !.todo = @ \ {p},
                           !.retired = @ \cup {<<p, ver[p]>>}]
        /\ UNCHANGED <<mutex, parsed, ver, pub, rd, faults>>
  BY DEF StagePage
<1>a. /\ p \in Pages /\ ver[p] + 1 \in 1 .. MaxVersion /\ p \notin fl.staged
      /\ <<p, 0>> \in Keys /\ <<p, 0>>[2] = 0 /\ <<p, ver[p]>> \in Keys
      /\ <<p, ver[p] + 1>> \in Images /\ Writer \in Clients
  BY SMTT(20), <1>0, EngineConstants DEF EngineInv, EngineTypeOK, FlushType, FlushInv
<1>b. /\ OthersKeep(Writer)
      /\ guard'[Writer] # NoGuard => key'[guard'[Writer].frame] = <<p, 0>>
      /\ sweep' # NoSweep => sweep'.by = Writer /\ sweep'.key = <<p, 0>>
      /\ tokens' = tokens
      /\ FramesHonest => FramesHonest'
  <2> DEFINE k == <<p, 0>>
             d == <<p, ver[p] + 1>>
             w == TRUE
  <2>1. /\ k \in Keys /\ d \in Images /\ w \in BOOLEAN /\ Writer \in Clients
        /\ PoolFetch(Writer, k, d, w)
    BY <1>0, <1>a
  <2>3. ~(k[2] > 0)
    BY SMTT(20), <1>a
  <2> HIDE DEF k, d, w
  <2>2. /\ OthersKeep(Writer)
        /\ guard'[Writer] # NoGuard => key'[guard'[Writer].frame] = k
        /\ sweep' # NoSweep => sweep'.by = Writer /\ sweep'.key = k
        /\ tokens' = tokens
        /\ FramesHonest => FramesHonest'
    BY SMTT(20), <2>1, <2>3, FetchOutcome
  <2> QED
    BY <2>2 DEF k
<1>c. fl'.pc = "fill" /\ fl'.cur = p /\ fl'.todo = fl.todo \ {p} /\ fl'.staged = fl.staged
      /\ fl'.stream = fl.stream
  BY <1>0 DEF EngineInv, EngineTypeOK, FlushType
<1>1. EngineTypeOK'
  BY <1>0, <1>a DEF EngineInv, EngineTypeOK, FlushType
<1>2. NoWrongPage'
  BY <1>0, <1>b DEF EngineInv, NoWrongPage, FramesHonest
<1>3. ReadersInv'
  BY <1>0, <1>c DEF EngineInv, ReadersInv
<1>4. SweepServes'
  BY <1>b, <1>c DEF SweepServes
<1>5. GuardServes'
  BY SMTT(20), <1>0, <1>b, <1>c, EngineConstants DEF OthersKeep, EngineInv, ReadersInv, GuardServes
<1>6. FlushInv'
  <2>1. ASSUME NEW q \in fl.staged PROVE Staged(q, ver[q])' /\ StagedDirty(q)'
    <3>1. q \in Pages /\ <<q, 0>> \in Keys /\ <<q, 0>> # <<p, 0>> /\ Staged(q, ver[q]) /\ StagedDirty(q)
      BY <1>0, <1>a, EngineConstants DEF EngineInv, EngineTypeOK, FlushType, FlushInv
    <3> QED
      BY <1>0, <1>a, <3>1, FetchKeepsStaged DEF Staged, StagedDirty, IsResident
  <2> QED
    BY <1>0, <1>a, <1>b, <1>c, <2>1, EngineConstants DEF EngineInv, EngineTypeOK, FlushInv
<1> QED
  BY <1>1, <1>2, <1>3, <1>4, <1>5, <1>6 DEF EngineInv

LEMMA FillPageInv ==
  ASSUME BufInv, BufInv', EngineInv, FillPage
  PROVE  EngineInv'
<1> DEFINE f == guard[Writer].frame
<1>0. /\ fl.pc = "fill" /\ fl' = [fl EXCEPT !.pc = "drop"]
      /\ data' = [data EXCEPT ![f] = <<fl.cur, ver[fl.cur] + 1>>]
      /\ UNCHANGED <<key, state, ref, map, hand, free, guard, tokens, sweep>>
      /\ UNCHANGED <<mutex, parsed, ver, pub, rd, faults>>
      /\ guard[Writer] # NoGuard /\ guard[Writer].write
      /\ sweep = NoSweep
  BY DEF FillPage, WriteFrame, Idle
<1>a. /\ f \in Frames /\ key[f] = <<fl.cur, 0>> /\ fl.cur \in Pages /\ fl.cur \notin fl.staged
      /\ state[f] = "dirty" /\ <<fl.cur, 0>> \in Keys /\ <<fl.cur, 0>>[2] = 0
  BY <1>0, EngineConstants DEF EngineInv, GuardServes, FlushInv, BufInv, GuardStable
<1>b. map[<<fl.cur, 0>>] = f /\ f # NoFrame
  BY <1>a, Constants DEF BufInv, MapAgrees
<1>c. fl'.pc = "drop" /\ fl'.cur = fl.cur /\ fl'.todo = fl.todo /\ fl'.staged = fl.staged
      /\ fl'.stream = fl.stream
  BY <1>0 DEF EngineInv, EngineTypeOK, FlushType
<1> HIDE DEF f
<1>1. EngineTypeOK'
  BY <1>0 DEF EngineInv, EngineTypeOK, FlushType
<1>2. NoWrongPage'
  BY SMTT(20), <1>0, <1>a DEF EngineInv, NoWrongPage, BufInv, BufTypeOK
<1>3. ReadersInv'
  BY <1>0, <1>c DEF EngineInv, ReadersInv
<1>4. SweepServes'
  BY <1>0 DEF SweepServes
<1>5. GuardServes'
  BY <1>0, <1>c DEF EngineInv, GuardServes
<1>6. FlushInv'
  <2>1. Staged(fl.cur, ver[fl.cur] + 1)' /\ StagedDirty(fl.cur)'
    BY <1>0, <1>a, <1>b, <1>c DEF Staged, StagedDirty, IsResident, BufInv, BufTypeOK
  <2>2. ASSUME NEW q \in fl.staged PROVE Staged(q, ver[q])' /\ StagedDirty(q)'
    <3>1. q \in Pages /\ <<q, 0>> \in Keys /\ <<q, 0>> # <<fl.cur, 0>> /\ Staged(q, ver[q]) /\ StagedDirty(q)
      BY <1>0, <1>a, EngineConstants DEF EngineInv, EngineTypeOK, FlushType, FlushInv
    <3>2. map[<<q, 0>>] # f /\ map[<<q, 0>>] \in Frames
      BY <1>a, <3>1 DEF Staged, IsResident, BufInv, BufTypeOK, MapAgrees
    <3> QED
      BY <1>0, <3>1, <3>2 DEF Staged, StagedDirty, IsResident, BufInv, BufTypeOK
  <2> QED
    BY <1>0, <1>c, <2>1, <2>2 DEF EngineInv, FlushInv
<1> QED
  BY <1>1, <1>2, <1>3, <1>4, <1>5, <1>6 DEF EngineInv

LEMMA DropPageInv ==
  ASSUME BufInv, BufInv', EngineInv, DropPage
  PROVE  EngineInv'
<1>1. EngineTypeOK'
  BY EngineConstants DEF DropPage, DropGuard, EngineInv, EngineTypeOK, ReadType, FlushType
<1>2. NoWrongPage'
  BY EngineConstants DEF DropPage, DropGuard, EngineInv, EngineTypeOK, ReadType, NoWrongPage, ReadersInv
<1>3. ReadersInv'
  BY EngineConstants DEF DropPage, DropGuard, EngineInv, EngineTypeOK, ReadType, FlushType, ReadersInv
<1>4. SweepServes'
  BY EngineConstants DEF DropPage, DropGuard, EngineInv, EngineTypeOK, ReadType, FlushType, ReadersInv, SweepServes
<1>5. GuardServes'
  BY EngineConstants DEF DropPage, DropGuard, EngineInv, EngineTypeOK, FlushType, ReadersInv, GuardServes, BufInv, BufTypeOK
<1>6. FlushInv'
  BY EngineConstants DEF DropPage, DropGuard, EngineInv, EngineTypeOK, FlushType, FlushInv, Staged, StagedDirty, IsResident
<1> QED
  BY <1>1, <1>2, <1>3, <1>4, <1>5, <1>6 DEF EngineInv

LEMMA BeginPageInv ==
  ASSUME BufInv, BufInv', EngineInv, BeginPage
  PROVE  EngineInv'
<1>1. EngineTypeOK'
  BY EngineConstants DEF BeginPage, BeginWriteback, Idle, EngineInv, EngineTypeOK, ReadType, FlushType
<1>2. NoWrongPage'
  BY EngineConstants DEF BeginPage, BeginWriteback, Idle, EngineInv, EngineTypeOK, ReadType, NoWrongPage, ReadersInv
<1>3. ReadersInv'
  BY EngineConstants DEF BeginPage, BeginWriteback, Idle, EngineInv, EngineTypeOK, ReadType, FlushType, ReadersInv
<1>4. SweepServes'
  BY DEF BeginPage, BeginWriteback, Idle, SweepServes
<1>5. GuardServes'
  BY DEF BeginPage, BeginWriteback, EngineInv, EngineTypeOK, FlushType, ReadersInv, GuardServes
<1>6. FlushInv'
  <2>1. /\ fl.pc = "begin" /\ fl' = [fl EXCEPT !.pc = "device"] /\ ver' = ver
        /\ tokens' = tokens \cup {[key |-> <<fl.cur, 0>>, data |-> data[map[<<fl.cur, 0>>]]]}
        /\ UNCHANGED <<state, data, map>>
    BY DEF BeginPage, BeginWriteback
  <2>2. /\ fl'.pc = "device" /\ fl'.cur = fl.cur /\ fl'.todo = fl.todo /\ fl'.staged = fl.staged
        /\ fl'.stream = fl.stream
    BY <2>1 DEF EngineInv, EngineTypeOK, FlushType
  <2>3. \A t \in tokens' : t.key[2] = 0
    BY SMTT(20), <2>1 DEF EngineInv, FlushInv
  <2> QED
    BY <2>1, <2>2, <2>3 DEF EngineInv, FlushInv, Staged, StagedDirty, IsResident
<1> QED
  BY <1>1, <1>2, <1>3, <1>4, <1>5, <1>6 DEF EngineInv

LEMMA CompletePageInv ==
  ASSUME BufInv, BufInv', EngineInv, CompletePage
  PROVE  EngineInv'
<1>1. EngineTypeOK'
  BY EngineConstants DEF CompletePage, CompleteWriteback, Idle, engineVars, EngineInv, EngineTypeOK, ReadType, FlushType
<1>2. NoWrongPage'
  BY EngineConstants DEF CompletePage, CompleteWriteback, Idle, engineVars, EngineInv, EngineTypeOK, ReadType, NoWrongPage, ReadersInv
<1>3. ReadersInv'
  BY EngineConstants DEF CompletePage, CompleteWriteback, Idle, engineVars, EngineInv, EngineTypeOK, ReadType, FlushType, ReadersInv
<1>4. SweepServes'
  BY EngineConstants DEF CompletePage, CompleteWriteback, Idle, engineVars, EngineInv, EngineTypeOK, ReadType, FlushType, ReadersInv, SweepServes
<1>5. GuardServes'
  BY EngineConstants DEF CompletePage, CompleteWriteback, Idle, engineVars, EngineInv, EngineTypeOK, ReadType, FlushType, ReadersInv, GuardServes
<1>6. FlushInv'
  <2>1. PICK t \in tokens : CompleteWriteback(t)
    BY DEF CompletePage
  <2>2. fl' = fl /\ ver' = ver /\ fl.pc = "complete" /\ tokens' = tokens \ {t} /\ map' = map /\ data' = data
    BY <2>1 DEF CompletePage, CompleteWriteback, engineVars
  <2> QED
    BY <2>2 DEF EngineInv, FlushInv, Staged, IsResident
<1> QED
  BY <1>1, <1>2, <1>3, <1>4, <1>5, <1>6 DEF EngineInv

LEMMA WriteDeviceInv ==
  ASSUME BufInv, BufInv', EngineInv, WriteDevice
  PROVE  EngineInv'
<1>0. /\ fl.pc = "device" /\ fl.cur \in Pages /\ fl.cur \notin fl.todo \cup fl.staged
      /\ ver' = [ver EXCEPT ![fl.cur] = @ + 1] /\ ver[fl.cur] + 1 \in 1 .. MaxVersion
      /\ UNCHANGED <<mutex, parsed, pub, rd, faults>>
  BY SMTT(20), EngineConstants DEF WriteDevice, EngineInv, EngineTypeOK, FlushInv
<1>a. /\ fl'.pc \in {"sync", "stage"} /\ fl'.cur = fl.cur /\ fl'.todo = fl.todo /\ fl'.stream = fl.stream
      /\ fl'.staged = (IF fl.stream THEN fl.staged ELSE fl.staged \cup {fl.cur})
      /\ fl'.dirty = fl.dirty /\ fl'.retired = fl.retired /\ fl' \in FlushType
  BY <1>0 DEF WriteDevice, EngineInv, EngineTypeOK, FlushType
<1>b. /\ sweep' = sweep /\ guard' = guard /\ tokens' \subseteq tokens
      /\ ~fl.stream => UNCHANGED <<key, data, state, map>>
      /\ fl.stream => fl.staged = {} /\ \E t \in tokens : DiscardWriteback(t)
  BY DEF WriteDevice, DiscardWriteback, bufVars, EngineInv, FlushInv
<1>c. sweep = NoSweep /\ \A c \in Clients : guard[c] = NoGuard
  BY <1>0, EngineConstants DEF EngineInv, SweepServes, GuardServes, ReadersInv
<1>1. EngineTypeOK'
  BY <1>0, <1>a DEF EngineInv, EngineTypeOK
<1>2. NoWrongPage'
  <2>1. FramesHonest'
    <3>1. CASE fl.stream
      <4>1. PICK t \in tokens : DiscardWriteback(t)
        BY <1>b, <3>1
      <4> QED
        BY <4>1 DEF DiscardWriteback, Remove, FramesHonest, EngineInv, NoWrongPage, BufInv, BufTypeOK
    <3>2. CASE ~fl.stream
      BY <1>b, <3>2 DEF FramesHonest, EngineInv, NoWrongPage
    <3> QED
      BY <3>1, <3>2
  <2> QED
    BY <1>0, <2>1 DEF FramesHonest, EngineInv, NoWrongPage
<1>3. ReadersInv'
  BY <1>0, <1>a DEF EngineInv, ReadersInv
<1>4. SweepServes'
  BY <1>b, <1>c DEF SweepServes
<1>5. GuardServes'
  BY <1>b, <1>c DEF GuardServes
<1>6. FlushInv'
  <2>1. ASSUME NEW q \in fl'.staged PROVE Staged(q, ver[q])' /\ StagedDirty(q)'
    <3>1. ~fl.stream /\ UNCHANGED <<key, data, state, map>>
      BY <1>a, <1>b
    <3>2. CASE q = fl.cur
      BY <1>0, <3>1, <3>2 DEF EngineInv, EngineTypeOK, FlushInv, Staged, StagedDirty, IsResident
    <3>3. CASE q # fl.cur
      <4>1. q \in fl.staged /\ q \in Pages /\ ver'[q] = ver[q]
        BY <1>0, <1>a, <3>1, <3>3 DEF EngineInv, EngineTypeOK, FlushType
      <4> QED
        BY <1>0, <3>1, <4>1 DEF EngineInv, FlushInv, Staged, StagedDirty, IsResident
    <3> QED
      BY <3>2, <3>3
  <2>2. \A q \in fl'.todo : ver'[q] < MaxVersion /\ q \notin fl'.staged
    BY <1>0, <1>a DEF EngineInv, EngineTypeOK, FlushType, FlushInv
  <2> QED
    BY <1>a, <1>b, <2>1, <2>2 DEF EngineInv, FlushInv, Staged
<1> QED
  BY <1>1, <1>2, <1>3, <1>4, <1>5, <1>6 DEF EngineInv

LEMMA RekeyPageInv ==
  ASSUME BufInv, BufInv', EngineInv, RekeyPage
  PROVE  EngineInv'
<1>0. PICK p \in fl.staged : fl.pc = "complete" /\ Rekey(p, ver[p]) /\ fl' = [fl EXCEPT !.staged = @ \ {p}]
  BY DEF RekeyPage
<1> DEFINE old == <<p, 0>>
           new == <<p, ver[p]>>
           g == map[old]
<1>a. /\ p \in Pages /\ old \in Keys /\ new \in Keys /\ old # new /\ new[2] > 0
      /\ g \in Frames /\ key[g] = old /\ data[g] = new
  BY SMTT(20), <1>0, EngineConstants DEF EngineInv, EngineTypeOK, FlushType, FlushInv, Staged, IsResident,
     BufInv, BufTypeOK, MapAgrees
<1>b. /\ key' = [key EXCEPT ![g] = new]
      /\ map' = [map EXCEPT ![old] = NoFrame, ![new] = g]
      /\ UNCHANGED <<state, data, guard, tokens, sweep>> /\ sweep = NoSweep
      /\ UNCHANGED <<mutex, parsed, ver, pub, rd, faults>>
  BY <1>0 DEF RekeyPage, Rekey, Idle
<1>c. /\ fl'.pc = "complete" /\ fl'.cur = fl.cur /\ fl'.todo = fl.todo /\ fl'.staged = fl.staged \ {p}
      /\ fl'.stream = fl.stream /\ fl' \in FlushType
  BY <1>0 DEF EngineInv, EngineTypeOK, FlushType
<1>d. \A c \in Clients : guard[c] = NoGuard
  BY <1>0, EngineConstants DEF EngineInv, GuardServes, ReadersInv
<1> HIDE DEF old, new, g
<1>1. EngineTypeOK'
  BY <1>b, <1>c DEF EngineInv, EngineTypeOK
<1>2. NoWrongPage'
  BY <1>a, <1>b DEF EngineInv, NoWrongPage, BufInv, BufTypeOK
<1>3. ReadersInv'
  BY <1>0, <1>b, <1>c DEF EngineInv, ReadersInv
<1>4. SweepServes'
  BY <1>b DEF SweepServes
<1>5. GuardServes'
  BY <1>b, <1>d DEF GuardServes
<1>6. FlushInv'
  <2>1. ASSUME NEW q \in fl'.staged PROVE Staged(q, ver[q])'
    <3>1. q \in fl.staged /\ q # p /\ q \in Pages /\ <<q, 0>> \in Keys /\ Staged(q, ver[q])
      BY <1>c, EngineConstants DEF EngineInv, EngineTypeOK, FlushType, FlushInv
    <3>2. <<q, 0>> # old /\ <<q, 0>> # new
      BY SMTT(20), <1>a, <3>1, EngineConstants DEF old
    <3> QED
      BY <1>a, <1>b, <3>1, <3>2 DEF Staged, IsResident, BufInv, BufTypeOK
  <2> QED
    BY <1>b, <1>c, <2>1 DEF EngineInv, FlushInv
<1> QED
  BY <1>1, <1>2, <1>3, <1>4, <1>5, <1>6 DEF EngineInv

LEMMA RetirePageInv ==
  ASSUME BufInv, BufInv', EngineInv, RetirePage
  PROVE  EngineInv'
<1>0. PICK k \in fl.retired :
        /\ fl.pc = "complete" /\ fl.staged = {} /\ fl' = [fl EXCEPT !.retired = @ \ {k}]
        /\ EvictKey(k) \/ UNCHANGED bufVars
        /\ UNCHANGED <<mutex, parsed, ver, pub, rd, faults>>
  BY DEF RetirePage
<1>a. /\ fl'.pc = "complete" /\ fl'.todo = fl.todo /\ fl'.staged = {} /\ fl' \in FlushType
      /\ k \in Keys
  BY <1>0 DEF EngineInv, EngineTypeOK, FlushType
<1>b. UNCHANGED <<guard, tokens, sweep>>
  BY <1>0 DEF EvictKey, bufVars
<1>c. sweep = NoSweep /\ \A c \in Clients : guard[c] = NoGuard
  BY <1>0, EngineConstants DEF EngineInv, SweepServes, GuardServes, ReadersInv
<1>1. EngineTypeOK'
  BY <1>0, <1>a DEF EngineInv, EngineTypeOK
<1>2. NoWrongPage'
  <2>1. FramesHonest'
    BY <1>0, <1>a DEF EvictKey, Remove, bufVars, FramesHonest, EngineInv, NoWrongPage, BufInv, BufTypeOK, IsResident
  <2> QED
    BY <1>0, <2>1 DEF FramesHonest, EngineInv, NoWrongPage
<1>3. ReadersInv'
  BY <1>0, <1>a DEF EngineInv, ReadersInv
<1>4. SweepServes'
  BY <1>b, <1>c DEF SweepServes
<1>5. GuardServes'
  BY <1>b, <1>c DEF GuardServes
<1>6. FlushInv'
  BY <1>0, <1>a, <1>b DEF EngineInv, FlushInv
<1> QED
  BY <1>1, <1>2, <1>3, <1>4, <1>5, <1>6 DEF EngineInv

(***************************************************************************)
(* The theorems.                                                           *)
(***************************************************************************)
LEMMA EngineInit == Init => BufInv /\ EngineInv
<1> SUFFICES ASSUME Init PROVE BufInv /\ EngineInv
  OBVIOUS
<1>1. BufInv
  BY InitInv DEF Init
<1>2. EngineTypeOK
  BY SMTT(20), EngineConstants, ReadPathAssumption DEF Init, EngineTypeOK, ReadType, FlushType, NoRead, NoFlush
<1>3. NoWrongPage /\ ReadersInv /\ SweepServes /\ GuardServes /\ FlushInv
  BY DEF Init, BufInit, NoWrongPage, ReadersInv, SweepServes, GuardServes, FlushInv, NoRead, NoFlush
<1> QED
  BY <1>1, <1>2, <1>3 DEF EngineInv

LEMMA EngineStep == BufInv /\ EngineInv /\ [Next]_vars => BufInv' /\ EngineInv' /\ [BufNext]_bufVars
<1> SUFFICES ASSUME BufInv, EngineInv, [Next]_vars PROVE BufInv' /\ EngineInv' /\ [BufNext]_bufVars
  OBVIOUS
<1>1. CASE UNCHANGED vars
  <2>1. UNCHANGED bufVars /\ UNCHANGED engineVars
    BY <1>1 DEF vars
  <2>2. BufInv'
    BY <2>1, StepInv
  <2>3. EngineInv'
    BY <2>1 DEF bufVars, engineVars, EngineInv, EngineTypeOK, NoWrongPage, ReadersInv, SweepServes,
       GuardServes, FlushInv, Staged, StagedDirty, IsResident
  <2> QED
    BY <2>1, <2>2, <2>3
<1>2. CASE Next
  <2>1. [BufNext]_bufVars
    BY <1>2, EngineStepIsPoolStep
  <2>2. BufInv'
    BY <2>1, StepInv
  <2>3. ASSUME NEW r \in Readers, ReaderStep(r) PROVE EngineInv'
    BY <2>2, <2>3, EngineConstants, StartReadInv, CheckResidentInv, ReadDeviceInv, FetchPageInv,
       SweepingInv, RefuseReadInv, CopyPageInv, ParsePageInv DEF ReaderStep
  <2>4. ASSUME FlushStep PROVE EngineInv'
    BY <2>2, <2>4, EngineConstants, StagePageInv, SweepingInv, RefuseFlushInv, FillPageInv,
       DropPageInv, BeginPageInv, WriteDeviceInv, SyncDeviceInv, FlushFailsInv, CompletePageInv,
       RekeyPageInv, RetirePageInv, FinishFlushInv DEF FlushStep
  <2>5. ASSUME NEW S \in DirtySets, StartFlush(S) PROVE EngineInv'
    BY <2>2, <2>5, StartFlushInv
  <2> QED
    BY <1>2, <2>1, <2>2, <2>3, <2>4, <2>5 DEF Next
<1> QED
  BY <1>1, <1>2

\* The read path and the flush use the pool only through its operations: every
\* behaviour of the engine is one of the pool with some clients, so what is
\* proved of the pool (PoolSafe, FreeAlwaysCounted, NoDirtyLoss) holds in it.
THEOREM EngineUsesPool == Spec => BufSpec
<1>1. Init => BufInit
  BY DEF Init
<1> QED
  BY <1>1, EngineInit, EngineStep, PTL DEF Spec, BufSpec

\* The engine and its pool keep their shape.
THEOREM EngineTyped == Spec => []TypeOK
<1>1. BufInv /\ EngineInv => TypeOK
  BY DEF BufInv, EngineInv, TypeOK
<1> QED
  BY <1>1, EngineInit, EngineStep, PTL DEF Spec

\* However many readers share the handle, and through staging, streaming,
\* failed and repeated flushes, rekeying and eviction: no read returns the
\* bytes of another page or version.
THEOREM ReadsHonest == Spec => []NoWrongPage
<1>1. EngineInv => NoWrongPage
  BY DEF EngineInv
<1> QED
  BY <1>1, EngineInit, EngineStep, PTL DEF Spec

\* In the engine a dirty frame is never dropped or declared clean without the
\* write-back of its bytes.
THEOREM EngineKeepsDirty == Spec => DirtyKept
BY EngineUsesPool, NoDirtyLoss, PTL

\* In the engine the page map and the frames stay one relation, the free-frame
\* statistic is exact, and no frame is reused, freed or cleaned under a guard.
THEOREM EngineFramesOwned == Spec => []FramesOwned
<1>1. MapAgrees /\ FreeCounted /\ GuardStable => FramesOwned
  BY DEF FramesOwned
<1>2. QED
  BY <1>1, EngineUsesPool, PoolSafe, FreeAlwaysCounted, PTL

(***************************************************************************)
(* The pool has a frame for whoever needs one, and the sync finds what the *)
(* flush staged: the inductive invariant.                                  *)
(***************************************************************************)
\* One reader at a time is between fetch and copy, and fetches to read.
ReadersTakeTurns ==
  /\ \A r \in Readers : rd[r].pc = "copy" => mutex = r
  /\ sweep.by \in Readers => ~sweep.write

InHand == fl.pc \in {"fill", "drop", "begin"}

\* The pages of a flush: those left, the one in hand, and all of them, which
\* fit in the pool unless the flush streams.
FlushPlan ==
  /\ fl.pc = "idle" => fl.dirty = {}
  /\ fl.todo \subseteq fl.dirty
  /\ InHand \/ fl.pc = "device" => fl.cur \in fl.dirty
  /\ fl.pc \in {"idle", "failed", "sync", "complete"} => fl.todo = {}
  /\ IsFiniteSet(fl.dirty)
  /\ fl.pc \notin {"idle", "failed"} /\ ~fl.stream => Cardinality(fl.dirty) <= NumFrames
  /\ fl.pc \in {"refused", "failed"} => faults > 0

\* The bytes d were handed out for the dirty frame of key k, and are still its.
Handed(k, d) == IsResident(k) /\ state[map[k]] = "dirty" /\ data[map[k]] = d

\* A token is the image of a dirty frame that nobody stages again; a streaming
\* flush has at most the one of the page at the device.
TokensCurrent ==
  /\ fl.pc \in {"idle", "failed"} => tokens = {}
  /\ \A t \in tokens :
       /\ Handed(t.key, t.data)
       /\ t.key[1] \notin fl.todo
       /\ InHand => t.key[1] # fl.cur
       /\ fl.stream => fl.pc = "device" /\ t.key = <<fl.cur, 0>>

\* Why a frame is dirty: left by a failed flush, in hand, or handed out.
DirtyExplained ==
  \A f \in Frames : state[f] = "dirty" =>
    /\ key[f][2] = 0 /\ key[f][1] \in fl.dirty
    /\ \/ faults > 0 /\ (fl.pc \in {"refused", "failed"} \/ key[f][1] \in fl.todo)
       \/ InHand /\ key[f][1] = fl.cur
       \/ \E t \in tokens : t.key = key[f]

\* No frame carries a version the page table has not reached.
VersionsFresh ==
  /\ \A k \in Keys : IsResident(k) /\ k[2] > 0 =>
       k[2] <= ver[k[1]] /\ (k[1] \in fl.staged => k[2] < ver[k[1]])
  /\ \A p \in Pages : \A v \in pub[p] : v <= ver[p]
  /\ \A r \in Readers : rd[r].pc # "idle" => rd[r].key[2] <= ver[rd[r].key[1]]

\* How far the clock is from a frame.
Ahead(f) == IF f >= hand THEN f - hand ELSE f - hand + NumFrames

\* The sweep still passes every frame it may clear a reference bit of, and
\* then every frame it may evict.
ClockInv ==
  sweep # NoSweep =>
    \A f \in Frames :
      /\ ref[f] => Ahead(f) < sweep.left - NumFrames
      /\ state[f] # "dirty" => Ahead(f) < sweep.left

AdmissionInv ==
  ReadersTakeTurns /\ FlushPlan /\ TokensCurrent /\ DirtyExplained /\ VersionsFresh /\ ClockInv

(***************************************************************************)
(* Facts the steps share.                                                  *)
(***************************************************************************)
\* The clock moves on by one frame.
LEMMA ClockMoves ==
  ASSUME NEW h \in Frames
  PROVE  (h + 1) % NumFrames = IF h + 1 = NumFrames THEN 0 ELSE h + 1
<1>1. h \in Nat /\ h + 1 <= NumFrames /\ NumFrames \in Nat /\ NumFrames > 0
  BY SMTT(20), Constants DEF Frames
<1>2. CASE h + 1 = NumFrames
  <2>1. NumFrames % NumFrames = 0
    BY SMTT(20), <1>1
  <2> QED
    BY <1>2, <2>1
<1>3. CASE h + 1 < NumFrames
  BY SMTT(20), <1>1, <1>3
<1> QED
  BY SMTT(20), <1>1, <1>2, <1>3

\* No frame is pinned while the clock runs: the mutex keeps the other readers
\* out, and a flush has the handle to itself.
LEMMA SweptUnpinned ==
  ASSUME BufInv, EngineInv, ReadersTakeTurns, sweep # NoSweep, NEW f \in Frames
  PROVE  ~Pinned(f)
<1> SUFFICES ASSUME NEW c \in Clients, guard[c].frame = f PROVE FALSE
  BY DEF Pinned
<1>1. guard[c] # NoGuard
  BY SMTT(20), Constants DEF NoGuard
<1>2. sweep.by # c
  BY <1>1 DEF BufInv, SweepInv
<1> QED
  BY SMTT(20), <1>1, <1>2, EngineConstants
  DEF EngineInv, ReadersInv, SweepServes, GuardServes, ReadersTakeTurns

\* What a fetch of k, at once or at the end of a sweep, may do to the frames.
Fetched(k, w) ==
  /\ tokens' = tokens
  /\ \A j \in Keys : map'[j] # NoFrame => map[j] # NoFrame \/ j = k
  /\ \A f \in Frames : state'[f] = "dirty" =>
       \/ state[f] = "dirty" /\ key'[f] = key[f]
       \/ w /\ key'[f] = k
  /\ \A j \in Keys : j # k /\ IsResident(j) /\ state[map[j]] = "dirty" =>
       map'[j] = map[j] /\ data'[map[j]] = data[map[j]] /\ state'[map[j]] = "dirty"

LEMMA FetchIsFetched ==
  ASSUME BufInv, NEW c \in Clients, NEW k \in Keys, NEW d \in Images, NEW w \in BOOLEAN,
         PoolFetch(c, k, d, w)
  PROVE  /\ Fetched(k, w)
         /\ sweep' # NoSweep =>
              /\ sweep'.by = c /\ sweep'.write = w /\ sweep'.left = 2 * NumFrames
              /\ UNCHANGED <<hand, ref, state>>
<1>1. \A j \in Keys : j # k /\ IsResident(j) /\ state[map[j]] = "dirty" =>
        map'[j] = map[j] /\ data'[map[j]] = data[map[j]] /\ state'[map[j]] = "dirty"
  BY FetchKeepsStaged
<1>2. CASE FetchHit(c, k, w)
  <2>1. key[map[k]] = k
    BY <1>2 DEF FetchHit, BufInv, MapAgrees
  <2> QED
    BY <1>1, <1>2, <2>1 DEF FetchHit, Idle, Fetched, BufInv, BufTypeOK
<1>3. CASE FetchFree(c, k, d, w)
  <2>1. PICK f \in FreeFrames : LoadInto(c, f, k, d, w) /\ map' = [map EXCEPT ![k] = f]
    BY <1>3 DEF FetchFree
  <2>2. f \in Frames
    BY DEF FreeFrames
  <2>3. sweep' = NoSweep /\ tokens' = tokens
    BY <1>3 DEF FetchFree, Idle
  <2>4. \A j \in Keys : map'[j] # NoFrame => map[j] # NoFrame \/ j = k
    BY <2>1 DEF BufInv, BufTypeOK
  <2>5. \A g \in Frames : state'[g] = "dirty" =>
          (state[g] = "dirty" /\ key'[g] = key[g]) \/ (w /\ key'[g] = k)
    BY <2>1, <2>2 DEF LoadInto, BufInv, BufTypeOK
  <2> QED
    BY <1>1, <2>3, <2>4, <2>5 DEF Fetched
<1>4. CASE FetchSweep(c, k, d, w)
  BY <1>1, <1>4 DEF FetchSweep, Fetched
<1> QED
  BY <1>2, <1>3, <1>4 DEF PoolFetch

LEMMA EvictIsFetched ==
  ASSUME BufInv, NEW c \in Clients, SweepEvict(c)
  PROVE  Fetched(sweep.key, sweep.write) /\ sweep' = NoSweep
<1>1. \A j \in Keys : j # sweep.key /\ IsResident(j) /\ state[map[j]] = "dirty" =>
        map'[j] = map[j] /\ data'[map[j]] = data[map[j]] /\ state'[map[j]] = "dirty"
  BY EvictKeepsStaged
<1>2. sweep.key \in Keys /\ hand \in Frames /\ key[hand] \in Keys /\ sweep.write \in BOOLEAN
  BY SweepFacts DEF SweepEvict
<1>3. \A j \in Keys : map'[j] # NoFrame => map[j] # NoFrame \/ j = sweep.key
  BY <1>2 DEF SweepEvict, BufInv, BufTypeOK
<1>4. \A g \in Frames : state'[g] = "dirty" =>
        (state[g] = "dirty" /\ key'[g] = key[g]) \/ (sweep.write /\ key'[g] = sweep.key)
  BY <1>2 DEF SweepEvict, LoadInto, BufInv, BufTypeOK
<1> QED
  BY <1>1, <1>3, <1>4 DEF SweepEvict, Fetched

\* A pass of the clock brings every frame one step nearer, and the frame it
\* leaves has lost its reference bit.
LEMMA SkipKeepsClock ==
  ASSUME BufInv, EngineInv, ReadersTakeTurns, ClockInv, NEW c \in Clients, SweepSkip(c)
  PROVE  ClockInv'
<1>1. /\ sweep # NoSweep /\ sweep.left \in 0 .. 2 * NumFrames /\ hand \in Frames
      /\ ~Pinned(hand)
  BY SweepFacts, SweptUnpinned DEF SweepSkip
<1>2. /\ sweep'.left = sweep.left - 1
      /\ ref' = [ref EXCEPT ![hand] = FALSE] /\ state' = state
      /\ ref[hand] \/ state[hand] = "dirty"
  BY <1>1 DEF SweepSkip, BufInv, BufTypeOK, SweepType
<1>3. hand' = IF hand + 1 = NumFrames THEN 0 ELSE hand + 1
  BY <1>1, ClockMoves DEF SweepSkip, Advance
<1>4. ASSUME NEW f \in Frames
      PROVE  /\ ref'[f] => Ahead(f)' < sweep'.left - NumFrames
             /\ state'[f] # "dirty" => Ahead(f)' < sweep'.left
  <2>1. /\ ref[f] => Ahead(f) < sweep.left - NumFrames
        /\ state[f] # "dirty" => Ahead(f) < sweep.left
    BY <1>1 DEF ClockInv
  <2>2. CASE f = hand
    <3>1. Ahead(f) = 0 /\ Ahead(f)' = NumFrames - 1 /\ ~ref'[f]
      BY SMTT(20), <1>1, <1>2, <1>3, <2>2, Constants DEF Ahead, Frames, BufInv, BufTypeOK
    <3> QED
      BY SMTT(20), <1>1, <1>2, <2>1, <2>2, <3>1, Constants
  <2>3. CASE f # hand
    <3>1. Ahead(f)' = Ahead(f) - 1 /\ Ahead(f) \in Nat /\ ref'[f] = ref[f]
      BY SMTT(20), <1>1, <1>2, <1>3, <2>3, Constants DEF Ahead, Frames, BufInv, BufTypeOK
    <3> QED
      BY SMTT(20), <1>1, <1>2, <2>1, <3>1, Constants
  <2> QED
    BY <2>2, <2>3
<1> QED
  BY <1>4 DEF ClockInv

(***************************************************************************)
(* The readers' steps.                                                     *)
(***************************************************************************)
\* A reader's step outside the pool.
LEMMA ReaderLocal ==
  ASSUME EngineInv, AdmissionInv, NEW r \in Readers,
         UNCHANGED <<bufVars, mutex, ver, pub, fl, faults>>,
         \A x \in Readers \ {r} : rd'[x] = rd[x],
         rd'[r].pc # "copy",
         rd'[r].pc # "idle" => rd'[r].key[2] <= ver[rd'[r].key[1]]
  PROVE  AdmissionInv'
<1>1. ReadersTakeTurns'
  BY DEF bufVars, AdmissionInv, ReadersTakeTurns
<1>2. FlushPlan' /\ TokensCurrent' /\ DirtyExplained' /\ ClockInv'
  BY DEF bufVars, AdmissionInv, FlushPlan, TokensCurrent, DirtyExplained, ClockInv, InHand,
         Handed, IsResident, Ahead
<1>3. VersionsFresh'
  BY DEF bufVars, AdmissionInv, VersionsFresh, IsResident
<1> QED
  BY <1>1, <1>2, <1>3 DEF AdmissionInv

LEMMA ReadersOutsidePool ==
  ASSUME EngineInv, AdmissionInv, NEW r \in Readers,
         \/ \E p \in Pages, v \in 1 .. MaxVersion : StartRead(r, p, v)
         \/ CheckResident(r) \/ ReadDevice(r) \/ ParsePage(r)
  PROVE  AdmissionInv'
<1>1. ASSUME NEW p \in Pages, NEW v \in 1 .. MaxVersion, StartRead(r, p, v) PROVE AdmissionInv'
  <2>1. v <= ver[p]
    BY SMTT(20), <1>1 DEF StartRead, AdmissionInv, VersionsFresh
  <2>2. rd'[r].key = <<p, v>> /\ rd'[r].pc = "check" /\ \A x \in Readers \ {r} : rd'[x] = rd[x]
    BY <1>1 DEF StartRead, EngineInv, EngineTypeOK
  <2> QED
    BY SMTT(20), <1>1, <2>1, <2>2, ReaderLocal DEF StartRead
<1>2. CASE CheckResident(r) \/ ReadDevice(r)
  <2>1. /\ rd'[r].pc # "copy" /\ rd[r].pc # "idle"
        /\ rd'[r].pc # "idle" => rd'[r].key = rd[r].key
        /\ \A x \in Readers \ {r} : rd'[x] = rd[x]
    <3>1. CASE CheckResident(r)
      BY <3>1 DEF CheckResident, At, EngineInv, EngineTypeOK, ReadType
    <3>2. CASE ReadDevice(r)
      BY SMTT(20), <3>2 DEF ReadDevice, NoRead, At, EngineInv, EngineTypeOK, ReadType
    <3> QED
      BY <1>2, <3>1, <3>2
  <2>2. rd[r].key[2] <= ver[rd[r].key[1]]
    BY <2>1 DEF AdmissionInv, VersionsFresh
  <2> QED
    BY <1>2, <2>1, <2>2, ReaderLocal DEF CheckResident, ReadDevice
<1>3. CASE ParsePage(r)
  <2>1. rd'[r].pc = "idle" /\ \A x \in Readers \ {r} : rd'[x] = rd[x]
    BY <1>3 DEF ParsePage, NoRead, EngineInv, EngineTypeOK
  <2> QED
    BY <1>3, <2>1, ReaderLocal DEF ParsePage
<1> QED
  BY <1>1, <1>2, <1>3

\* While readers are under way there is no flush; nothing has been handed out,
\* and unless the last flush failed nothing is dirty.
LEMMA NothingStaged ==
  ASSUME EngineInv, AdmissionInv, fl.pc \in {"idle", "failed"}
  PROVE  tokens = {} /\ fl.staged = {}
BY DEF EngineInv, FlushInv, AdmissionInv, TokensCurrent

LEMMA NothingDirty ==
  ASSUME BufInv, EngineInv, AdmissionInv, fl.pc = "idle"
  PROVE  tokens = {} /\ fl.staged = {} /\ \A f \in Frames : state[f] # "dirty"
BY DEF EngineInv, FlushInv, AdmissionInv, FlushPlan, TokensCurrent, DirtyExplained

\* A reader's fetch, or the end of its sweep, brings in a clean frame.
LEMMA ReaderFetched ==
  ASSUME BufInv, EngineInv, AdmissionInv, NEW r \in Readers, fl.pc \in {"idle", "failed"},
         NEW k \in Keys, k[2] <= ver[k[1]], Fetched(k, FALSE),
         UNCHANGED <<ver, pub, fl, faults>>,
         \A x \in Readers : rd'[x].key = rd[x].key /\ (rd'[x].pc # "idle" => rd[x].pc # "idle")
  PROVE  FlushPlan' /\ TokensCurrent' /\ DirtyExplained' /\ VersionsFresh'
<1>1. FlushPlan'
  BY DEF AdmissionInv, FlushPlan, InHand
<1>2. TokensCurrent' /\ DirtyExplained'
  BY NothingStaged DEF Fetched, AdmissionInv, TokensCurrent, DirtyExplained, InHand
<1>3. VersionsFresh'
  BY NothingStaged DEF Fetched, AdmissionInv, VersionsFresh, IsResident
<1> QED
  BY <1>1, <1>2, <1>3

LEMMA FetchPageAdm ==
  ASSUME BufInv, EngineInv, AdmissionInv, NEW r \in Readers, FetchPage(r)
  PROVE  AdmissionInv'
<1>1. /\ r \in Clients /\ rd[r].key \in Keys /\ rd[r].buf \in Images
      /\ fl.pc \in {"idle", "failed"}
      /\ PoolFetch(r, rd[r].key, rd[r].buf, FALSE) /\ rd[r].pc = "fetch" /\ mutex = None
      /\ mutex' = r /\ UNCHANGED <<ver, pub, fl, faults>>
  BY EngineConstants DEF FetchPage, At, EngineInv, EngineTypeOK, ReadType, ReadersInv
<1>2. \A x \in Readers : rd'[x].key = rd[x].key /\ (x # r => rd'[x] = rd[x]) /\ rd'[r].pc = "copy"
  BY DEF FetchPage, EngineInv, EngineTypeOK, ReadType
<1>3. /\ Fetched(rd[r].key, FALSE)
      /\ sweep' # NoSweep => /\ sweep'.left = 2 * NumFrames /\ ~sweep'.write
                             /\ UNCHANGED <<hand, ref, state>>
  BY <1>1, FetchIsFetched
<1>4. rd[r].key[2] <= ver[rd[r].key[1]]
  BY <1>1 DEF AdmissionInv, VersionsFresh
<1>5. ReadersTakeTurns'
  <2>1. \A x \in Readers : rd[x].pc # "copy"
    BY <1>1, Constants DEF AdmissionInv, ReadersTakeTurns, Readers
  <2>2. sweep' = NoSweep => sweep'.by \notin Readers
    BY SMTT(20), Constants DEF NoSweep, Readers
  <2> QED
    BY <1>1, <1>2, <1>3, <2>1, <2>2 DEF ReadersTakeTurns
<1>6. FlushPlan' /\ TokensCurrent' /\ DirtyExplained' /\ VersionsFresh'
  BY <1>1, <1>2, <1>3, <1>4, ReaderFetched
<1>7. ClockInv'
  BY SMTT(20), <1>3, Constants DEF ClockInv, Ahead, Frames, BufInv, BufTypeOK
<1> QED
  BY <1>5, <1>6, <1>7 DEF AdmissionInv

LEMMA RefuseReadAdm ==
  ASSUME EngineInv, AdmissionInv, NEW r \in Readers, RefuseRead(r)
  PROVE  AdmissionInv'
<1>1. /\ UNCHANGED <<key, state, data, map, tokens, ver, pub, fl, faults>>
      /\ mutex = r /\ rd[r].pc = "copy" /\ sweep' = NoSweep
  BY DEF RefuseRead, At, SweepFail, AdmissionInv, ReadersTakeTurns
<1>2. rd'[r].pc = "idle" /\ \A x \in Readers \ {r} : rd'[x] = rd[x]
  BY DEF RefuseRead, NoRead, EngineInv, EngineTypeOK
<1>3. ReadersTakeTurns'
  BY <1>1, <1>2, Constants DEF AdmissionInv, ReadersTakeTurns, NoSweep, Readers
<1>4. FlushPlan' /\ TokensCurrent' /\ DirtyExplained' /\ ClockInv'
  BY <1>1 DEF AdmissionInv, FlushPlan, TokensCurrent, DirtyExplained, ClockInv, InHand, Handed,
              IsResident
<1>5. VersionsFresh'
  BY <1>1, <1>2 DEF AdmissionInv, VersionsFresh, IsResident
<1> QED
  BY <1>3, <1>4, <1>5 DEF AdmissionInv

LEMMA CopyPageAdm ==
  ASSUME BufInv, EngineInv, AdmissionInv, NEW r \in Readers, CopyPage(r)
  PROVE  AdmissionInv'
<1>1. /\ UNCHANGED <<key, state, data, ref, map, hand, tokens, sweep, ver, pub, fl, faults>>
      /\ mutex = r /\ rd[r].pc = "copy" /\ mutex' = None
  BY DEF CopyPage, At, DropGuard, AdmissionInv, ReadersTakeTurns
<1>2. /\ \A x \in Readers \ {r} : rd'[x] = rd[x]
      /\ rd'[r].pc = "parse" /\ rd'[r].key = rd[r].key
  BY DEF CopyPage, EngineInv, EngineTypeOK, ReadType
<1>3. ReadersTakeTurns'
  BY <1>1, <1>2 DEF AdmissionInv, ReadersTakeTurns
<1>4. FlushPlan' /\ TokensCurrent' /\ DirtyExplained' /\ ClockInv'
  BY <1>1 DEF AdmissionInv, FlushPlan, TokensCurrent, DirtyExplained, ClockInv, InHand, Handed,
              IsResident, Ahead
<1>5. VersionsFresh'
  BY <1>1, <1>2 DEF AdmissionInv, VersionsFresh, IsResident
<1> QED
  BY <1>3, <1>4, <1>5 DEF AdmissionInv

(***************************************************************************)
(* The clock.                                                              *)
(***************************************************************************)
\* The writer's fetch, or the end of its sweep, brings in the page in hand and
\* leaves the frames of the tokens alone.
LEMMA WriterFetched ==
  ASSUME BufInv, EngineInv, AdmissionInv, NEW p \in fl.dirty, Fetched(<<p, 0>>, TRUE),
         fl'.pc = "fill", fl'.cur = p, fl'.dirty = fl.dirty, fl'.stream = fl.stream,
         fl'.staged = fl.staged, fl'.todo = fl.todo \ {p},
         fl.stream => tokens = {},
         \A t \in tokens : t.key[1] # p,
         fl.pc \in {"stage", "fill"}, fl.pc = "fill" => fl.cur = p,
         UNCHANGED <<ver, pub, rd, faults>>
  PROVE  FlushPlan' /\ TokensCurrent' /\ DirtyExplained' /\ VersionsFresh'
<1>1. p \in Pages /\ <<p, 0>> \in Keys /\ <<p, 0>>[1] = p /\ <<p, 0>>[2] = 0
  BY EngineConstants DEF EngineInv, EngineTypeOK, FlushType
<1>2. FlushPlan'
  BY DEF AdmissionInv, FlushPlan, InHand
<1>3. TokensCurrent'
  <2>1. \A t \in tokens : t.key \in Keys /\ t.key # <<p, 0>>
    BY <1>1 DEF BufInv, BufTypeOK, TokenType
  <2>2. \A t \in tokens : Handed(t.key, t.data)'
    BY <2>1 DEF Fetched, AdmissionInv, TokensCurrent, Handed, IsResident
  <2> QED
    BY <2>2 DEF Fetched, AdmissionInv, TokensCurrent, InHand
<1>4. DirtyExplained'
  BY SMTT(20), <1>1 DEF Fetched, AdmissionInv, DirtyExplained, InHand
<1>5. VersionsFresh'
  BY SMTT(20), <1>1 DEF Fetched, AdmissionInv, VersionsFresh, IsResident
<1> QED
  BY <1>2, <1>3, <1>4, <1>5

LEMMA SweepingAdm ==
  ASSUME BufInv, EngineInv, AdmissionInv, NEW c \in Clients, Sweeping(c)
  PROVE  AdmissionInv'
<1>1. /\ sweep.by = c /\ sweep # NoSweep /\ sweep.key \in Keys /\ sweep.write \in BOOLEAN
      /\ map[sweep.key] = NoFrame /\ UNCHANGED engineVars
  BY SweepFacts DEF Sweeping, SweepSkip, SweepEvict
<1>2. CASE SweepSkip(c)
  <2>1. /\ sweep'.by = sweep.by /\ sweep'.write = sweep.write
        /\ UNCHANGED <<key, state, data, map, tokens>>
    BY <1>2 DEF SweepSkip, BufInv, BufTypeOK, SweepType
  <2>2. ReadersTakeTurns' /\ FlushPlan' /\ TokensCurrent' /\ DirtyExplained' /\ VersionsFresh'
    BY <1>1, <2>1 DEF engineVars, AdmissionInv, ReadersTakeTurns, FlushPlan, TokensCurrent,
       DirtyExplained, VersionsFresh, InHand, Handed, IsResident
  <2>3. ClockInv'
    BY <1>2, SkipKeepsClock DEF AdmissionInv
  <2> QED
    BY <2>2, <2>3 DEF AdmissionInv
<1>3. CASE SweepEvict(c)
  <2>1. Fetched(sweep.key, sweep.write) /\ sweep' = NoSweep
    BY <1>3, EvictIsFetched
  <2>2. ClockInv'
    BY <2>1 DEF ClockInv
  <2>3. ReadersTakeTurns'
    BY <1>1, <2>1, Constants DEF engineVars, AdmissionInv, ReadersTakeTurns, NoSweep, Readers
  <2>4. CASE c \in Readers
    <3>1. sweep.key = rd[c].key /\ rd[c].pc = "copy" /\ fl.pc \in {"idle", "failed"}
      BY <1>1, <2>4, EngineConstants DEF EngineInv, SweepServes, ReadersInv
    <3>2. sweep.key[2] <= ver[sweep.key[1]]
      BY <2>4, <3>1 DEF AdmissionInv, VersionsFresh
    <3>3. sweep.write = FALSE
      BY <1>1, <2>4 DEF AdmissionInv, ReadersTakeTurns
    <3>4. Fetched(sweep.key, FALSE)
      BY <2>1, <3>3
    <3>5. UNCHANGED <<ver, pub, fl, faults, rd>>
      BY <1>1 DEF engineVars
    <3>6. FlushPlan' /\ TokensCurrent' /\ DirtyExplained' /\ VersionsFresh'
      BY <1>1, <2>4, <3>1, <3>2, <3>4, <3>5, ReaderFetched
    <3> QED
      BY <2>2, <2>3, <3>6 DEF AdmissionInv
  <2>5. CASE c = Writer
    <3>1. sweep.key = <<fl.cur, 0>> /\ fl.pc = "fill" /\ fl.cur \notin fl.todo
      BY SMTT(20), <1>1, <2>5, EngineConstants DEF EngineInv, SweepServes, FlushInv
    <3>2. UNCHANGED <<ver, pub, fl, faults, rd>>
      BY <1>1 DEF engineVars
    <3>3. /\ fl.cur \in fl.dirty /\ (fl.stream => tokens = {})
          /\ \A t \in tokens : t.key[1] # fl.cur
      BY <3>1 DEF AdmissionInv, FlushPlan, TokensCurrent, InHand
    <3>4. fl'.todo = fl.todo \ {fl.cur}
      BY <3>1, <3>2
    <3>5. Fetched(<<fl.cur, 0>>, TRUE)
      BY <2>1, <3>1 DEF Fetched
    <3>6. FlushPlan' /\ TokensCurrent' /\ DirtyExplained' /\ VersionsFresh'
      BY <3>1, <3>2, <3>3, <3>4, <3>5, WriterFetched
    <3> QED
      BY <2>2, <2>3, <3>6 DEF AdmissionInv
  <2> QED
    BY <2>4, <2>5, EngineConstants
<1> QED
  BY <1>2, <1>3 DEF Sweeping

LEMMA StagePageAdm ==
  ASSUME BufInv, EngineInv, AdmissionInv, StagePage
  PROVE  AdmissionInv'
<1>1. PICK p \in fl.todo :
        /\ fl.pc = "stage"
        /\ PoolFetch(Writer, <<p, 0>>, <<p, ver[p] + 1>>, TRUE)
        /\ fl' = [fl EXCEPT !.pc = "fill", !.cur = p, !.todo = @ \ {p},
                           !.retired = @ \cup {<<p, ver[p]>>}]
        /\ UNCHANGED <<mutex, ver, pub, rd, faults>>
  BY DEF StagePage
<1>2. /\ p \in Pages /\ <<p, 0>> \in Keys /\ <<p, ver[p] + 1>> \in Images /\ Writer \in Clients
  BY SMTT(20), <1>1, EngineConstants DEF EngineInv, EngineTypeOK, FlushType, FlushInv
<1>3. /\ Fetched(<<p, 0>>, TRUE)
      /\ sweep' # NoSweep => /\ sweep'.left = 2 * NumFrames /\ sweep'.by = Writer
                             /\ UNCHANGED <<hand, ref, state>>
  BY <1>1, <1>2, FetchIsFetched
<1>4. /\ fl'.pc = "fill" /\ fl'.cur = p /\ fl'.dirty = fl.dirty /\ fl'.stream = fl.stream
      /\ fl'.staged = fl.staged /\ fl'.todo = fl.todo \ {p}
  BY <1>1 DEF EngineInv, EngineTypeOK, FlushType
<1>5. p \in fl.dirty /\ (fl.stream => tokens = {}) /\ \A t \in tokens : t.key[1] # p
  BY <1>1 DEF AdmissionInv, FlushPlan, TokensCurrent
<1>6. FlushPlan' /\ TokensCurrent' /\ DirtyExplained' /\ VersionsFresh'
  BY <1>1, <1>3, <1>4, <1>5, WriterFetched
<1>7. ReadersTakeTurns'
  BY SMTT(20), <1>1, <1>3, EngineConstants, Constants DEF AdmissionInv, ReadersTakeTurns, NoSweep, Readers
<1>8. ClockInv'
  BY SMTT(20), <1>3, Constants DEF ClockInv, Ahead, Frames, BufInv, BufTypeOK
<1> QED
  BY <1>6, <1>7, <1>8 DEF AdmissionInv

(***************************************************************************)
(* The flush.                                                              *)
(***************************************************************************)
LEMMA StartFlushAdm ==
  ASSUME BufInv, EngineInv, AdmissionInv, NEW S \in DirtySets, StartFlush(S)
  PROVE  AdmissionInv'
<1>1. /\ fl'.pc = "stage" /\ fl'.dirty = S /\ fl'.todo = S /\ fl'.staged = {}
      /\ fl'.stream = (Cardinality(S) > NumFrames)
      /\ fl.dirty \subseteq S /\ fl.pc \in {"idle", "failed"}
      /\ UNCHANGED <<bufVars, mutex, ver, pub, rd, faults>>
  BY DEF StartFlush, NoFlush
<1>2. FlushPlan'
  <2>1. IsFiniteSet(S) /\ Cardinality(S) \in Nat
    BY ReadPathAssumption, FS_CardinalityType
  <2>2. ~fl'.stream => ~(Cardinality(S) > NumFrames)
    BY <1>1
  <2>3. ~(Cardinality(S) > NumFrames) => Cardinality(S) <= NumFrames
    BY SMTT(20), <2>1, Constants
  <2> QED
    BY <1>1, <2>1, <2>2, <2>3 DEF FlushPlan, InHand
<1>3. tokens = {} /\ tokens' = {}
  BY <1>1 DEF bufVars, AdmissionInv, TokensCurrent
<1>4. TokensCurrent'
  BY <1>3 DEF TokensCurrent
<1>5. DirtyExplained'
  BY <1>1, <1>3 DEF bufVars, AdmissionInv, FlushPlan, DirtyExplained, InHand
<1>6. VersionsFresh'
  BY <1>1 DEF bufVars, AdmissionInv, VersionsFresh, IsResident
<1>7. ReadersTakeTurns' /\ ClockInv'
  BY <1>1 DEF bufVars, AdmissionInv, ReadersTakeTurns, ClockInv, Ahead
<1> QED
  BY <1>2, <1>4, <1>5, <1>6, <1>7 DEF AdmissionInv

\* Every frame dirty, none of them explained by a failure, and one more page to
\* stage: the generation would not have fitted.
LEMMA FullOfTokens ==
  ASSUME BufInv, EngineInv, AdmissionInv, sweep.by = Writer, sweep.left = 0
  PROVE  faults > 0
<1> SUFFICES ASSUME ~(faults > 0) PROVE FALSE
  OBVIOUS
<1>1. /\ sweep # NoSweep /\ fl.pc = "fill" /\ sweep.key = <<fl.cur, 0>>
      /\ map[sweep.key] = NoFrame /\ \A f \in Frames : key[f] \in Keys
  BY SweepFacts, EngineConstants DEF EngineInv, SweepServes
<1>2. \A f \in Frames : state[f] = "dirty"
  BY SMTT(20), <1>1, Constants DEF AdmissionInv, ClockInv, Ahead, Frames, BufInv, BufTypeOK
<1>3. fl.cur \in fl.dirty /\ fl.cur \in Pages
  BY <1>1 DEF AdmissionInv, FlushPlan, InHand, EngineInv, FlushInv
<1>4. \A f \in Frames : /\ key[f][2] = 0 /\ key[f][1] \in fl.dirty \ {fl.cur}
                        /\ \E t \in tokens : t.key = key[f]
  <2> SUFFICES ASSUME NEW f \in Frames
               PROVE  /\ key[f][2] = 0 /\ key[f][1] \in fl.dirty \ {fl.cur}
                      /\ \E t \in tokens : t.key = key[f]
    OBVIOUS
  <2>1. key[f][2] = 0 /\ key[f][1] \in fl.dirty
    BY <1>2 DEF AdmissionInv, DirtyExplained
  <2>2. key[f][1] # fl.cur
    <3>1. map[key[f]] # NoFrame
      BY SMTT(20), <1>1, Constants DEF BufInv, MapAgrees
    <3> QED
      BY SMTT(20), <1>1, <1>3, <2>1, <3>1, Constants, EngineConstants
  <2> QED
    BY <1>2, <2>1, <2>2 DEF AdmissionInv, DirtyExplained
<1>5. ~fl.stream
  BY SMTT(20), <1>1, <1>4, Constants DEF AdmissionInv, TokensCurrent, Frames
<1>6. IsFiniteSet(fl.dirty) /\ Cardinality(fl.dirty) <= NumFrames
  BY <1>1, <1>5 DEF AdmissionInv, FlushPlan
<1>7. /\ IsFiniteSet(fl.dirty \ {fl.cur})
      /\ Cardinality(fl.dirty \ {fl.cur}) = Cardinality(fl.dirty) - 1
  BY <1>3, <1>6, FS_RemoveElement
<1>8. IsFiniteSet(Frames) /\ Cardinality(Frames) = NumFrames
  BY SMTT(20), Constants, FS_Interval DEF Frames
<1>9. Cardinality(Frames) <= Cardinality(fl.dirty \ {fl.cur})
  <2> DEFINE page == [f \in Frames |-> key[f][1]]
  <2>1. page \in [Frames -> fl.dirty \ {fl.cur}]
    BY <1>4
  <2>2. ASSUME NEW f \in Frames, NEW g \in Frames, page[f] = page[g] PROVE f = g
    <3>1. key[f] = key[g]
      BY SMTT(20), <1>1, <1>4, <2>2, Constants
    <3> QED
      BY SMTT(20), <1>1, <3>1, Constants DEF BufInv, MapAgrees
  <2>3. IsInjective(page)
    BY <2>2 DEF IsInjective
  <2>4. page \in Injection(Frames, fl.dirty \ {fl.cur})
    BY <2>1, <2>3 DEF Injection
  <2> QED
    BY <1>7, <1>8, <2>4, FS_Injection
<1> QED
  BY SMTT(20), <1>6, <1>7, <1>8, <1>9, Constants, FS_CardinalityType

LEMMA RefuseFlushAdm ==
  ASSUME BufInv, EngineInv, AdmissionInv, RefuseFlush
  PROVE  AdmissionInv'
<1>1. /\ sweep.by = Writer /\ sweep.left = 0 /\ sweep' = NoSweep
      /\ UNCHANGED <<key, state, data, map, tokens, mutex, ver, pub, rd, faults>>
  BY DEF RefuseFlush, SweepFail
<1>2. faults > 0 /\ fl.pc = "fill"
  BY <1>1, FullOfTokens, SweepFacts, EngineConstants DEF EngineInv, SweepServes
<1>3. /\ fl'.pc = "refused" /\ fl'.dirty = fl.dirty /\ fl'.todo = fl.todo
      /\ fl'.staged = fl.staged /\ fl'.stream = fl.stream
  BY DEF RefuseFlush, EngineInv, EngineTypeOK, FlushType
<1>4. FlushPlan'
  BY <1>1, <1>2, <1>3 DEF AdmissionInv, FlushPlan, InHand
<1>5. TokensCurrent'
  BY <1>1, <1>2, <1>3 DEF AdmissionInv, TokensCurrent, InHand, Handed, IsResident
<1>6. DirtyExplained'
  BY <1>1, <1>2, <1>3 DEF AdmissionInv, DirtyExplained, InHand
<1>7. VersionsFresh'
  BY <1>1, <1>3 DEF AdmissionInv, VersionsFresh, IsResident
<1>8. ReadersTakeTurns' /\ ClockInv'
  BY <1>1, Constants DEF AdmissionInv, ReadersTakeTurns, ClockInv, NoSweep, Readers
<1> QED
  BY <1>4, <1>5, <1>6, <1>7, <1>8 DEF AdmissionInv

\* The page in hand is filled, and its guard dropped.
LEMMA FillDropAdm ==
  ASSUME BufInv, EngineInv, AdmissionInv, FillPage \/ DropPage
  PROVE  AdmissionInv'
<1>1. /\ UNCHANGED <<key, state, ref, map, hand, tokens, sweep, mutex, ver, pub, rd, faults>>
      /\ fl.pc \in {"fill", "drop"} /\ fl'.pc \in {"drop", "begin"}
      /\ fl'.dirty = fl.dirty /\ fl'.todo = fl.todo /\ fl'.cur = fl.cur
      /\ fl'.staged = fl.staged /\ fl'.stream = fl.stream
  BY DEF FillPage, DropPage, WriteFrame, DropGuard, EngineInv, EngineTypeOK, FlushType
<1>2. \A t \in tokens : t.key[1] # fl.cur /\ t.key \in Keys /\ Handed(t.key, t.data)
  BY <1>1 DEF AdmissionInv, TokensCurrent, InHand, BufInv, BufTypeOK, TokenType
<1>3. \A t \in tokens : data'[map[t.key]] = data[map[t.key]]
  <2>1. CASE FillPage
    <3>1. /\ guard[Writer] # NoGuard /\ Writer \in Clients /\ Writer \notin Readers
          /\ data' = [data EXCEPT ![guard[Writer].frame] = <<fl.cur, ver[fl.cur] + 1>>]
      BY <2>1, EngineConstants DEF FillPage, WriteFrame
    <3>2. key[guard[Writer].frame] = <<fl.cur, 0>>
      BY <3>1 DEF EngineInv, GuardServes
    <3>3. \A t \in tokens : key[map[t.key]] = t.key
      BY <1>2 DEF BufInv, MapAgrees, Handed
    <3>4. \A t \in tokens : map[t.key] # guard[Writer].frame
      BY SMTT(20), <1>2, <3>2, <3>3
    <3> QED
      BY SMTT(20), <3>1, <3>4 DEF BufInv, BufTypeOK
  <2>2. CASE DropPage
    BY <2>2 DEF DropPage, DropGuard
  <2> QED
    BY <2>1, <2>2
<1>4. FlushPlan' /\ DirtyExplained'
  BY <1>1 DEF AdmissionInv, FlushPlan, DirtyExplained, InHand
<1>5. TokensCurrent'
  BY <1>1, <1>2, <1>3 DEF AdmissionInv, TokensCurrent, InHand, Handed, IsResident
<1>6. VersionsFresh' /\ ReadersTakeTurns' /\ ClockInv'
  BY <1>1 DEF AdmissionInv, VersionsFresh, IsResident, ReadersTakeTurns, ClockInv, Ahead
<1> QED
  BY <1>4, <1>5, <1>6 DEF AdmissionInv

LEMMA BeginPageAdm ==
  ASSUME BufInv, EngineInv, AdmissionInv, BeginPage
  PROVE  AdmissionInv'
<1> DEFINE k == <<fl.cur, 0>>
           new == [key |-> k, data |-> data[map[k]]]
<1>1. /\ UNCHANGED <<key, state, data, ref, map, hand, sweep, mutex, ver, pub, rd, faults>>
      /\ fl.pc = "begin" /\ fl'.pc = "device"
      /\ fl'.dirty = fl.dirty /\ fl'.todo = fl.todo /\ fl'.cur = fl.cur
      /\ fl'.staged = fl.staged /\ fl'.stream = fl.stream
      /\ tokens' = tokens \cup {new} /\ map[k] # NoFrame /\ state[map[k]] = "dirty"
  BY DEF BeginPage, BeginWriteback, IsResident, EngineInv, EngineTypeOK, FlushType
<1>2. fl.cur \in Pages /\ fl.cur \notin fl.todo /\ k[1] = fl.cur /\ new.key = k /\ new.data = data[map[k]]
  BY <1>1 DEF EngineInv, FlushInv
<1> HIDE DEF new
<1>3. FlushPlan'
  BY <1>1 DEF AdmissionInv, FlushPlan, InHand
<1>4. TokensCurrent'
  <2>1. /\ map'[new.key] # NoFrame /\ state'[map'[new.key]] = "dirty"
        /\ data'[map'[new.key]] = new.data
        /\ new.key[1] \notin fl'.todo /\ new.key = <<fl'.cur, 0>>
    BY <1>1, <1>2
  <2>2. fl.stream => tokens = {}
    BY <1>1 DEF AdmissionInv, TokensCurrent
  <2>3. \A t \in tokens : Handed(t.key, t.data)' /\ t.key[1] \notin fl'.todo
    BY <1>1 DEF AdmissionInv, TokensCurrent, Handed, IsResident
  <2> QED
    BY <1>1, <2>1, <2>2, <2>3 DEF TokensCurrent, InHand, Handed, IsResident
<1>5. DirtyExplained'
  <2> SUFFICES ASSUME NEW f \in Frames, state[f] = "dirty"
               PROVE  /\ key[f][2] = 0 /\ key[f][1] \in fl.dirty
                      /\ \/ faults > 0 /\ key[f][1] \in fl.todo
                         \/ \E t \in tokens' : t.key = key[f]
    BY <1>1 DEF DirtyExplained
  <2>1. key[f] \in Keys /\ key[f][2] = 0 /\ key[f][1] \in fl.dirty
    BY SMTT(20), Constants DEF AdmissionInv, DirtyExplained, BufInv, BufTypeOK, MapAgrees
  <2>2. CASE key[f][1] = fl.cur
    <3>1. key[f] = k
      BY SMTT(20), <1>2, <2>1, <2>2, Constants, EngineConstants
    <3> QED
      BY <1>1, <1>2, <2>1, <3>1
  <2>3. CASE key[f][1] # fl.cur
    BY <1>1, <2>1, <2>3 DEF AdmissionInv, DirtyExplained
  <2> QED
    BY <2>2, <2>3
<1>6. VersionsFresh' /\ ReadersTakeTurns' /\ ClockInv'
  BY <1>1 DEF AdmissionInv, VersionsFresh, IsResident, ReadersTakeTurns, ClockInv, Ahead
<1> QED
  BY <1>3, <1>4, <1>5, <1>6 DEF AdmissionInv

\* Two tokens of one key are the same token: both are the frame's bytes.
LEMMA OneTokenPerKey ==
  ASSUME BufInv, AdmissionInv, NEW t \in tokens, NEW u \in tokens, t.key = u.key
  PROVE  t = u
BY SMTT(20) DEF BufInv, BufTypeOK, TokenType, AdmissionInv, TokensCurrent, Handed

LEMMA WriteDeviceAdm ==
  ASSUME BufInv, EngineInv, AdmissionInv, WriteDevice
  PROVE  AdmissionInv'
<1>1. /\ UNCHANGED <<hand, ref, sweep, mutex, pub, rd, faults>>
      /\ fl.pc = "device" /\ fl'.pc \in {"sync", "stage"} /\ (fl'.pc = "sync" => fl.todo = {})
      /\ fl'.dirty = fl.dirty /\ fl'.todo = fl.todo /\ fl'.stream = fl.stream
      /\ fl'.staged = IF fl.stream THEN fl.staged ELSE fl.staged \cup {fl.cur}
      /\ ver' = [ver EXCEPT ![fl.cur] = @ + 1]
      /\ IF fl.stream THEN \E t \in tokens : DiscardWriteback(t) ELSE UNCHANGED bufVars
  BY DEF WriteDevice, DiscardWriteback, Remove, bufVars, EngineInv, EngineTypeOK, FlushType
<1>2. fl.cur \in Pages /\ ver \in [Pages -> 1 .. MaxVersion] /\ fl.staged \subseteq Pages
      /\ \A r \in Readers : rd[r].pc = "idle"
  BY <1>1 DEF EngineInv, EngineTypeOK, FlushType, FlushInv, ReadersInv
<1>3. \A p \in Pages : ver'[p] \in Nat /\ ver[p] \in Nat /\ ver[p] <= ver'[p] /\ (p = fl.cur => ver[p] < ver'[p])
  BY SMTT(20), <1>1, <1>2
<1>4. \A k \in Keys : IsResident(k)' => IsResident(k)
  <2>1. CASE fl.stream
    BY <1>1, <2>1, Constants DEF DiscardWriteback, Remove, IsResident, BufInv, BufTypeOK, TokenType
  <2>2. CASE ~fl.stream
    BY <1>1, <2>2 DEF bufVars, IsResident
  <2> QED
    BY <2>1, <2>2
<1>5. FlushPlan'
  BY <1>1 DEF AdmissionInv, FlushPlan, InHand
<1>6. TokensCurrent' /\ DirtyExplained'
  <2>1. CASE fl.stream
    <3>1. PICK t \in tokens : DiscardWriteback(t)
      BY <1>1, <2>1
    <3>2. \A u \in tokens : u = t
      BY <2>1, OneTokenPerKey DEF AdmissionInv, TokensCurrent
    <3>3. tokens' = {}
      BY <3>1, <3>2 DEF DiscardWriteback
    <3>4. t.key \in Keys /\ map[t.key] \in Frames /\ key[map[t.key]] = t.key
      BY SMTT(20), <3>1 DEF DiscardWriteback, Current, IsResident, BufInv, BufTypeOK, TokenType, MapAgrees
    <3>5. ASSUME NEW f \in Frames, state'[f] = "dirty"
          PROVE  state[f] = "dirty" /\ key'[f] = key[f] /\ key[f] # t.key
      <4>1. f # map[t.key] /\ state[f] = "dirty" /\ key'[f] = key[f]
        BY <3>1, <3>4, <3>5 DEF DiscardWriteback, Remove, BufInv, BufTypeOK
      <4> QED
        BY <4>1 DEF BufInv, MapAgrees
    <3>6. DirtyExplained'
      BY <1>1, <3>2, <3>5 DEF AdmissionInv, DirtyExplained, InHand
    <3> QED
      BY <1>1, <3>3, <3>6 DEF TokensCurrent
  <2>2. CASE ~fl.stream
    BY <1>1, <2>2 DEF bufVars, AdmissionInv, TokensCurrent, DirtyExplained, InHand, Handed, IsResident
  <2> QED
    BY <2>1, <2>2
<1>7. VersionsFresh'
  <2>1. ASSUME NEW k \in Keys, IsResident(k)', k[2] > 0
        PROVE  k[2] <= ver'[k[1]] /\ (k[1] \in fl'.staged => k[2] < ver'[k[1]])
    <3>1. /\ k[1] \in Pages /\ k[2] \in Nat
          /\ k[2] <= ver[k[1]] /\ (k[1] \in fl.staged => k[2] < ver[k[1]])
      BY SMTT(20), <1>4, <2>1, Constants, PoolAssumption DEF AdmissionInv, VersionsFresh
    <3> QED
      BY SMTT(20), <1>1, <1>3, <3>1
  <2>2. ASSUME NEW p \in Pages, NEW v \in pub[p] PROVE v <= ver'[p]
    <3>1. v <= ver[p] /\ v \in Nat
      BY SMTT(20) DEF AdmissionInv, VersionsFresh, EngineInv, EngineTypeOK
    <3> QED
      BY SMTT(20), <1>3, <3>1
  <2> QED
    BY <1>1, <1>2, <2>1, <2>2 DEF VersionsFresh
<1>8. ReadersTakeTurns' /\ ClockInv'
  <2>1. sweep = NoSweep
    BY <1>1, EngineConstants DEF EngineInv, SweepServes, ReadersInv
  <2> QED
    BY <1>1, <2>1 DEF AdmissionInv, ReadersTakeTurns, ClockInv
<1> QED
  BY <1>5, <1>6, <1>7, <1>8 DEF AdmissionInv

LEMMA SyncDeviceAdm ==
  ASSUME EngineInv, AdmissionInv, SyncDevice
  PROVE  AdmissionInv'
<1>1. /\ UNCHANGED <<bufVars, mutex, ver, pub, rd, faults>>
      /\ fl.pc = "sync" /\ fl'.pc = "complete"
      /\ fl'.dirty = fl.dirty /\ fl'.todo = fl.todo /\ fl'.stream = fl.stream
      /\ fl'.staged = fl.staged
  BY DEF SyncDevice, EngineInv, EngineTypeOK, FlushType
<1> QED
  BY <1>1 DEF bufVars, AdmissionInv, ReadersTakeTurns, FlushPlan, TokensCurrent, DirtyExplained,
     VersionsFresh, ClockInv, InHand, Handed, IsResident, Ahead

LEMMA FlushFailsAdm ==
  ASSUME EngineInv, AdmissionInv, FlushFails
  PROVE  AdmissionInv'
<1>1. /\ UNCHANGED <<key, state, data, ref, map, hand, sweep, mutex, ver, pub, rd>>
      /\ tokens' = {} /\ fl'.pc = "failed" /\ fl'.dirty = fl.dirty
      /\ fl'.todo = {} /\ fl'.stream = FALSE /\ fl'.staged = {}
  BY DEF FlushFails, NoFlush
<1>2. faults' > 0
  BY SMTT(20) DEF FlushFails, AdmissionInv, FlushPlan, EngineInv, EngineTypeOK
<1>3. FlushPlan' /\ TokensCurrent' /\ DirtyExplained'
  BY <1>1, <1>2 DEF AdmissionInv, FlushPlan, TokensCurrent, DirtyExplained, InHand
<1>4. VersionsFresh' /\ ReadersTakeTurns' /\ ClockInv'
  BY <1>1 DEF AdmissionInv, VersionsFresh, IsResident, ReadersTakeTurns, ClockInv, Ahead
<1> QED
  BY <1>3, <1>4 DEF AdmissionInv

LEMMA CompletePageAdm ==
  ASSUME BufInv, EngineInv, AdmissionInv, CompletePage
  PROVE  AdmissionInv'
<1>1. PICK t \in tokens : CompleteWriteback(t)
  BY DEF CompletePage
<1>2. /\ fl.pc = "complete" /\ UNCHANGED <<key, data, ref, map, hand, sweep>> /\ sweep = NoSweep
      /\ UNCHANGED <<mutex, ver, pub, rd, fl, faults>> /\ tokens' = tokens \ {t}
      /\ state' = [state EXCEPT ![map[t.key]] = "clean"]
  BY <1>1 DEF CompletePage, CompleteWriteback, Idle, engineVars
<1>3. /\ t.key \in Keys /\ map[t.key] \in Frames /\ key[map[t.key]] = t.key
      /\ \A u \in tokens : u.key \in Keys /\ Handed(u.key, u.data)
  BY <1>1 DEF CompleteWriteback, Current, IsResident, BufInv, BufTypeOK, TokenType, MapAgrees,
              AdmissionInv, TokensCurrent
<1>4. \A u \in tokens' : u.key # t.key
  BY <1>2, OneTokenPerKey
<1>5. TokensCurrent'
  <2>1. ASSUME NEW u \in tokens' PROVE Handed(u.key, u.data)'
    <3>1. map[u.key] # map[t.key] /\ map[u.key] \in Frames
      BY SMTT(20), <1>2, <1>3, <1>4 DEF Handed, IsResident, BufInv, BufTypeOK, MapAgrees
    <3> QED
      BY <1>2, <1>3, <3>1 DEF Handed, IsResident, BufInv, BufTypeOK
  <2> QED
    BY <1>2, <2>1 DEF AdmissionInv, TokensCurrent, InHand
<1>6. DirtyExplained'
  <2>1. ASSUME NEW f \in Frames, state'[f] = "dirty" PROVE state[f] = "dirty" /\ key[f] # t.key
    <3>1. f # map[t.key] /\ state[f] = "dirty"
      BY <1>2, <1>3, <2>1 DEF BufInv, BufTypeOK
    <3> QED
      BY <3>1 DEF BufInv, MapAgrees
  <2> QED
    BY <1>2, <2>1 DEF AdmissionInv, DirtyExplained, InHand
<1>7. FlushPlan' /\ VersionsFresh' /\ ReadersTakeTurns' /\ ClockInv'
  BY <1>2 DEF AdmissionInv, FlushPlan, VersionsFresh, IsResident, ReadersTakeTurns, ClockInv, InHand
<1> QED
  BY <1>5, <1>6, <1>7 DEF AdmissionInv

\* Once the tokens are used up after the sync, no frame is dirty.
LEMMA AllCompleted ==
  ASSUME AdmissionInv, fl.pc = "complete", tokens = {}
  PROVE  \A f \in Frames : state[f] # "dirty"
BY DEF AdmissionInv, FlushPlan, DirtyExplained, InHand

LEMMA RekeyPageAdm ==
  ASSUME BufInv, EngineInv, AdmissionInv, RekeyPage
  PROVE  AdmissionInv'
<1>1. PICK p \in fl.staged : Rekey(p, ver[p]) /\ fl' = [fl EXCEPT !.staged = @ \ {p}]
  BY DEF RekeyPage
<1>2. /\ fl.pc = "complete" /\ tokens = {} /\ tokens' = {} /\ sweep = NoSweep /\ sweep' = NoSweep
      /\ fl'.pc = fl.pc /\ fl'.dirty = fl.dirty /\ fl'.todo = fl.todo /\ fl'.stream = fl.stream
      /\ fl'.staged = fl.staged \ {p} /\ state' = state
      /\ UNCHANGED <<mutex, ver, pub, rd, faults>>
  BY <1>1 DEF RekeyPage, Rekey, Idle, EngineInv, EngineTypeOK, FlushType
<1>3. p \in Pages /\ ver[p] \in 1 .. MaxVersion /\ <<p, 0>> \in Keys /\ <<p, ver[p]>> \in Keys
      /\ <<p, ver[p]>>[1] = p /\ <<p, ver[p]>>[2] = ver[p]
  BY <1>1, EngineConstants DEF EngineInv, EngineTypeOK, FlushType
<1>4. FlushPlan' /\ TokensCurrent' /\ DirtyExplained'
  BY <1>2, AllCompleted DEF AdmissionInv, FlushPlan, TokensCurrent, DirtyExplained, InHand
<1>5. VersionsFresh'
  <2>1. \A k \in Keys : IsResident(k)' => IsResident(k) \/ k = <<p, ver[p]>>
    BY <1>1, <1>3 DEF Rekey, IsResident, BufInv, BufTypeOK
  <2>2. ASSUME NEW k \in Keys, IsResident(k)', k[2] > 0
        PROVE  k[2] <= ver[k[1]] /\ (k[1] \in fl.staged \ {p} => k[2] < ver[k[1]])
    <3>1. CASE k = <<p, ver[p]>>
      <4>1. k[1] = p /\ k[2] = ver[p]
        BY <1>3, <3>1
      <4> QED
        BY SMTT(20), <1>3, <4>1
    <3>2. CASE IsResident(k)
      BY <2>2, <3>2 DEF AdmissionInv, VersionsFresh
    <3> QED
      BY <2>1, <2>2, <3>1, <3>2
  <2>3. /\ \A q \in Pages : \A v \in pub[q] : v <= ver[q]
        /\ \A r \in Readers : rd[r].pc # "idle" => rd[r].key[2] <= ver[rd[r].key[1]]
    BY DEF AdmissionInv, VersionsFresh
  <2> QED
    BY <1>2, <2>2, <2>3 DEF VersionsFresh
<1>6. ReadersTakeTurns' /\ ClockInv'
  BY <1>2 DEF AdmissionInv, ReadersTakeTurns, ClockInv
<1> QED
  BY <1>4, <1>5, <1>6 DEF AdmissionInv

LEMMA RetirePageAdm ==
  ASSUME BufInv, EngineInv, AdmissionInv, RetirePage
  PROVE  AdmissionInv'
<1>1. PICK k \in fl.retired : /\ fl' = [fl EXCEPT !.retired = @ \ {k}]
                              /\ IF IsResident(k) THEN EvictKey(k) ELSE UNCHANGED bufVars
  BY DEF RetirePage
<1>2. /\ fl.pc = "complete" /\ tokens = {} /\ tokens' = {} /\ sweep' = sweep /\ k \in Keys
      /\ fl'.pc = fl.pc /\ fl'.dirty = fl.dirty /\ fl'.todo = fl.todo /\ fl'.stream = fl.stream
      /\ fl'.staged = fl.staged
      /\ UNCHANGED <<mutex, ver, pub, rd, faults>>
  BY <1>1 DEF RetirePage, EvictKey, bufVars, EngineInv, EngineTypeOK, FlushType
<1>3. sweep = NoSweep
  BY <1>2, EngineConstants DEF EngineInv, SweepServes, ReadersInv
<1>4. \A f \in Frames : state'[f] # "dirty"
  BY <1>1, <1>2, AllCompleted DEF EvictKey, Remove, bufVars, BufInv, BufTypeOK
<1>5. \A j \in Keys : IsResident(j)' => IsResident(j)
  BY <1>1, <1>2 DEF EvictKey, Remove, bufVars, IsResident, BufInv, BufTypeOK
<1>6. FlushPlan' /\ TokensCurrent' /\ DirtyExplained'
  BY <1>2, <1>4 DEF AdmissionInv, FlushPlan, TokensCurrent, DirtyExplained, InHand
<1>7. VersionsFresh' /\ ReadersTakeTurns' /\ ClockInv'
  BY <1>2, <1>3, <1>5 DEF AdmissionInv, VersionsFresh, ReadersTakeTurns, ClockInv
<1> QED
  BY <1>6, <1>7 DEF AdmissionInv

LEMMA FinishFlushAdm ==
  ASSUME BufInv, EngineInv, AdmissionInv, FinishFlush
  PROVE  AdmissionInv'
<1>1. /\ UNCHANGED <<bufVars, mutex, ver, rd, faults>>
      /\ fl.pc = "complete" /\ tokens = {}
      /\ fl'.pc = "idle" /\ fl'.dirty = {} /\ fl'.todo = {} /\ fl'.staged = {} /\ fl'.stream = FALSE
  BY DEF FinishFlush, NoFlush
<1>2. FlushPlan'
  BY <1>1, FS_EmptySet DEF FlushPlan, InHand
<1>3. TokensCurrent' /\ DirtyExplained'
  BY <1>1, AllCompleted DEF bufVars, TokensCurrent, DirtyExplained
<1>4. VersionsFresh'
  <2>1. ASSUME NEW p \in Pages, NEW v \in pub'[p] PROVE v <= ver[p]
    <3>1. v \in pub[p] \/ v = ver[p]
      BY <2>1 DEF FinishFlush
    <3> QED
      BY SMTT(20), <3>1 DEF AdmissionInv, VersionsFresh, EngineInv, EngineTypeOK
  <2> QED
    BY <1>1, <2>1 DEF bufVars, AdmissionInv, VersionsFresh, IsResident
<1>5. ReadersTakeTurns' /\ ClockInv'
  BY <1>1 DEF bufVars, AdmissionInv, ReadersTakeTurns, ClockInv, Ahead
<1> QED
  BY <1>2, <1>3, <1>4, <1>5 DEF AdmissionInv

(***************************************************************************)
(* The theorems.                                                           *)
(***************************************************************************)
LEMMA AdmissionInit == Init => AdmissionInv
<1> SUFFICES ASSUME Init PROVE AdmissionInv
  OBVIOUS
<1>1. ReadersTakeTurns
  BY Constants DEF Init, BufInit, NoRead, NoSweep, ReadersTakeTurns, Readers
<1>2. FlushPlan
  BY FS_EmptySet DEF Init, NoFlush, FlushPlan, InHand
<1>3. TokensCurrent /\ DirtyExplained /\ ClockInv
  BY DEF Init, BufInit, TokensCurrent, DirtyExplained, ClockInv
<1>4. VersionsFresh
  <2>1. \A k \in Keys : ~IsResident(k)
    BY DEF Init, BufInit, IsResident
  <2>2. \A p \in Pages : \A v \in pub[p] : v <= ver[p]
    BY SMTT(20) DEF Init
  <2>3. \A r \in Readers : rd[r].pc = "idle"
    BY DEF Init, NoRead
  <2> QED
    BY <2>1, <2>2, <2>3 DEF VersionsFresh
<1> QED
  BY <1>1, <1>2, <1>3, <1>4 DEF AdmissionInv

LEMMA AdmissionStep == BufInv /\ EngineInv /\ AdmissionInv /\ [Next]_vars => AdmissionInv'
<1> SUFFICES ASSUME BufInv, EngineInv, AdmissionInv, [Next]_vars PROVE AdmissionInv'
  OBVIOUS
<1>1. ASSUME NEW r \in Readers, ReaderStep(r) PROVE AdmissionInv'
  BY <1>1, ReadersOutsidePool, FetchPageAdm, SweepingAdm, RefuseReadAdm, CopyPageAdm, EngineConstants
  DEF ReaderStep
<1>2. ASSUME NEW S \in DirtySets, StartFlush(S) PROVE AdmissionInv'
  BY <1>2, StartFlushAdm
<1>3. CASE FlushStep
  BY <1>3, StagePageAdm, SweepingAdm, RefuseFlushAdm, FillDropAdm, BeginPageAdm, WriteDeviceAdm,
     SyncDeviceAdm, FlushFailsAdm, CompletePageAdm, RekeyPageAdm, RetirePageAdm, FinishFlushAdm,
     EngineConstants
  DEF FlushStep
<1>4. CASE UNCHANGED vars
  BY <1>4 DEF vars, bufVars, engineVars, AdmissionInv, ReadersTakeTurns, FlushPlan, TokensCurrent,
     DirtyExplained, VersionsFresh, ClockInv, InHand, Handed, IsResident, Ahead
<1> QED
  BY <1>1, <1>2, <1>3, <1>4 DEF Next

LEMMA AdmissionHolds == BufInv /\ EngineInv /\ AdmissionInv => PoolHasRoom /\ StagedCurrent
<1> SUFFICES ASSUME BufInv, EngineInv, AdmissionInv PROVE PoolHasRoom /\ StagedCurrent
  OBVIOUS
<1>1. PoolHasRoom
  <2>1. ASSUME sweep.by \in Readers, fl.pc # "failed" PROVE sweep.left # 0
    <3>1. sweep # NoSweep /\ sweep.left \in Nat /\ hand \in Frames /\ fl.pc = "idle"
      BY SMTT(20), <2>1, SweepFacts, EngineConstants, Constants DEF EngineInv, SweepServes, ReadersInv
    <3>2. Ahead(hand) < sweep.left /\ Ahead(hand) = 0
      BY SMTT(20), <3>1, NothingDirty, Constants DEF AdmissionInv, ClockInv, Ahead, Frames
    <3> QED
      BY SMTT(20), <3>1, <3>2
  <2> QED
    BY <2>1, NothingDirty DEF PoolHasRoom, AdmissionInv, FlushPlan
<1>2. StagedCurrent
  <2>1. ASSUME fl.pc = "complete", NEW t \in tokens PROVE Current(t)
    <3>1. Handed(t.key, t.data) /\ map[t.key] \in Frames
      BY DEF AdmissionInv, TokensCurrent, Handed, IsResident, BufInv, BufTypeOK, TokenType
    <3>2. \A c \in Clients : guard[c] = NoGuard
      BY <2>1, EngineConstants DEF EngineInv, GuardServes, ReadersInv
    <3> QED
      BY SMTT(20), <3>1, <3>2, Constants DEF Current, Handed, Pinned, NoGuard
  <2>2. ASSUME NEW p \in fl.staged PROVE IsResident(<<p, 0>>) /\ ~IsResident(<<p, ver[p]>>)
    <3>1. p \in Pages /\ ver[p] \in 1 .. MaxVersion /\ IsResident(<<p, 0>>)
      BY DEF EngineInv, EngineTypeOK, FlushType, FlushInv, Staged
    <3>2. <<p, ver[p]>> \in Keys /\ <<p, ver[p]>>[1] = p /\ <<p, ver[p]>>[2] = ver[p]
      BY <3>1, EngineConstants
    <3> QED
      BY SMTT(20), <3>1, <3>2 DEF AdmissionInv, VersionsFresh
  <2> QED
    BY <2>1, <2>2 DEF StagedCurrent
<1> QED
  BY <1>1, <1>2

\* However many readers share the handle, none is refused a frame unless the last
\* flush failed; and a flush that no device error preceded is refused none,
\* whatever its size.
THEOREM RoomForAll == Spec => []PoolHasRoom
<1> QED
  BY AdmissionInit, AdmissionStep, AdmissionHolds, EngineInit, EngineStep, PTL DEF Spec

\* The sync finds every page it has to complete as it was handed out, and every
\* rekey its source and a vacant target, after failed flushes and in retries.
THEOREM SyncFindsStaged == Spec => []StagedCurrent
<1> QED
  BY AdmissionInit, AdmissionStep, AdmissionHolds, EngineInit, EngineStep, PTL DEF Spec
=============================================================================
