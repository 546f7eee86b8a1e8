------------------------- MODULE DurableStoreProofs -------------------------
(***************************************************************************)
(* The promises of DurableStore follow from its three kinds of step, for   *)
(* any number of mutations.  Publication implements DurableStore, so they  *)
(* hold of its commit path wherever that refinement does.                  *)
(***************************************************************************)
EXTENDS DurableStore, TLAPS

\* Contents are sequences of mutations, and there always is an outcome.
Contents == acked \in Seq(Nat) /\ may \subseteq Seq(Nat) /\ may # {}

\* Containing a content, element by element.
LEMMA ContainsElements ==
    ASSUME NEW s \in Seq(Nat), NEW t \in Seq(Nat)
    PROVE  Contains(t, s) <=> /\ Len(s) <= Len(t)
                              /\ \A i \in 1..Len(s) : s[i] = t[i]
  BY DEF Contains

\* A content contains itself.
LEMMA ContainsItself ==
    ASSUME NEW s \in Seq(Nat)
    PROVE  Contains(s, s)
  BY ContainsElements

\* What is contained in a contained content is contained.
LEMMA ContainsTransitive ==
    ASSUME NEW s \in Seq(Nat), NEW t \in Seq(Nat), NEW u \in Seq(Nat),
           Contains(t, s), Contains(u, t)
    PROVE  Contains(u, s)
<1>1. /\ Len(s) <= Len(t) /\ Len(t) <= Len(u)
      /\ \A i \in 1..Len(s) : s[i] = t[i]
      /\ \A i \in 1..Len(t) : t[i] = u[i]
  BY ContainsElements
<1>2. Len(s) \in Nat /\ Len(t) \in Nat /\ Len(u) \in Nat
  OBVIOUS
<1>3. /\ Len(s) <= Len(u)
      /\ \A i \in 1..Len(s) : s[i] = u[i]
  BY <1>1, <1>2
<1> QED
  BY <1>3, ContainsElements

\* The empty store satisfies the promise.
LEMMA StoreStart == Init => Contents /\ AckedKept
<1> SUFFICES ASSUME Init PROVE Contents /\ AckedKept
  OBVIOUS
<1>1. <<>> \in Seq(Nat)
  OBVIOUS
<1> QED
  BY <1>1, ContainsItself DEF Init, Contents, AckedKept

\* No step breaks the promise, and none shrinks what was acknowledged.
LEMMA StoreStep ==
    ASSUME Contents, AckedKept, [Next]_vars
    PROVE  Contents' /\ AckedKept' /\ Contains(acked', acked)
<1>1. CASE Settle
  <2>1. Contents' /\ AckedKept'
    BY <1>1 DEF Settle, Contents, AckedKept
  <2> QED
    BY <1>1, <2>1, ContainsItself DEF Settle, Contents
<1>2. CASE Attempt
  <2>1. PICK c \in may' : /\ may' = may \cup {c}
                          /\ \E m \in may : c # m /\ Contains(c, m)
                          /\ c \in Seq(Nat)
    BY <1>2 DEF Attempt
  <2>2. PICK m \in may : Contains(c, m)
    BY <2>1
  <2>3. acked' = acked
    BY <1>2 DEF Attempt
  <2>4. Contents'
    BY <2>1, <2>3 DEF Contents
  <2>5. Contains(c, acked)
    BY <2>1, <2>2, ContainsTransitive DEF Contents, AckedKept
  <2>6. AckedKept'
    BY <2>1, <2>3, <2>5 DEF AckedKept
  <2> QED
    BY <2>3, <2>4, <2>6, ContainsItself DEF Contents
<1>3. CASE Ack
  <2>1. may' = may /\ may = {acked'} /\ acked' \in Seq(Nat)
    BY <1>3 DEF Ack, Contents
  <2>2. Contents'
    BY <2>1 DEF Contents
  <2>3. AckedKept'
    BY <2>1, ContainsItself DEF AckedKept
  <2> QED
    BY <2>1, <2>2, <2>3 DEF AckedKept
<1>4. CASE UNCHANGED vars
  BY <1>4, ContainsItself DEF vars, Contents, AckedKept
<1> QED
  BY <1>1, <1>2, <1>3, <1>4 DEF Next

\* Every content a crash could reveal contains everything acknowledged.
THEOREM PromiseKept == Spec => []AckedKept
<1>1. Contents /\ AckedKept /\ [Next]_vars => (Contents /\ AckedKept)'
  BY StoreStep
<1> QED
  BY <1>1, StoreStart, PTL DEF Spec

\* What is acknowledged only grows, from one step to the next.
THEOREM AcksOnlyGrow == Spec => AckedGrows
<1>1. Contents /\ AckedKept /\ [Next]_vars => (Contents /\ AckedKept)'
  BY StoreStep
<1>2. Contents /\ AckedKept /\ [Next]_vars => [Contains(acked', acked)]_vars
  BY StoreStep
<1> QED
  BY <1>1, <1>2, StoreStart, PTL DEF Spec, AckedGrows
=============================================================================
