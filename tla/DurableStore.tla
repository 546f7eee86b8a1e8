--------------------------- MODULE DurableStore ---------------------------
(***************************************************************************)
(* What the commit path of a single-writer durable store promises, with no *)
(* files, logs or handles in it. A content is the sequence of mutations a  *)
(* database state results from; a mutation is a number. At any moment a    *)
(* crash and reopen would reveal one of a set of contents; the promise is  *)
(* about that set.                                                         *)
(***************************************************************************)
EXTENDS Naturals, Sequences

VARIABLES
    acked,  \* the content last reported durable to the caller
    may     \* the contents a crash and reopen could reveal now

vars == <<acked, may>>

\* Content c has every mutation of content a, in the same order and at its
\* start.
Contains(c, a) == Len(a) <= Len(c) /\ SubSeq(c, 1, Len(a)) = a

Init == acked = <<>> /\ may = {<<>>}

\* A commit attempt adds one content that extends a possible one.
Attempt ==
    /\ acked' = acked
    /\ \E c \in may' : /\ may' = may \cup {c}
                       /\ \E m \in may : c # m /\ Contains(c, m)
                       /\ c \in Seq(Nat)

\* Forcing a file, or a crash, only rules contents out.
Settle ==
    /\ acked' = acked
    /\ may' \in (SUBSET may) \ {{}}

\* A content is acknowledged when nothing else can be revealed.
Ack ==
    /\ may' = may
    /\ may = {acked'}

Next == Settle \/ Attempt \/ Ack

Spec == Init /\ [][Next]_vars

-----------------------------------------------------------------------------

\* Every content a crash could reveal contains everything acknowledged: an
\* Ok from flush, commit_batch or publication_barrier is never taken back.
AckedKept == \A c \in may : Contains(c, acked)

\* What is reported durable only ever grows: no acknowledgement names a
\* content that lacks something an earlier one contained.
AckedGrows == [][Contains(acked', acked)]_vars
=============================================================================
