---------------------------- MODULE BufferPool ----------------------------
(***************************************************************************)
(* buffer/: the fixed pool of page frames.  Its owner serializes the calls  *)
(* with a mutex; a client keeps a page guard for as long as it likes and    *)
(* drops it without the mutex.  The clock sweep inspects one frame per      *)
(* step, so guards vanish under it.                                         *)
(*                                                                          *)
(* A cache key is <<page, version>>, version 0 being the unversioned        *)
(* staging identity.  Explicit Frame::pin calls are not modelled: nothing   *)
(* in src/ makes one.                                                       *)
(***************************************************************************)
EXTENDS Integers, FiniteSets

CONSTANTS
  NumFrames,   \* capacity in frames
  Pages,       \* logical page ids
  MaxVersion,  \* bound: page-table versions run from 1 to this
  Images,      \* page contents
  Zero,        \* the content of a cleared frame and of a fresh buffer
  Clients,     \* threads
  None         \* no key, no client

ASSUME PoolAssumption ==
  /\ NumFrames \in Nat \ {0}
  /\ MaxVersion \in Nat
  /\ Zero \in Images
  /\ None \notin Clients /\ None \notin Pages \X Nat

Frames == 0 .. NumFrames - 1
Keys == Pages \X (0 .. MaxVersion)
NoFrame == -1

VARIABLES
  key,      \* Frame::page_key
  state,    \* Frame::state: "free", "clean" or "dirty"
  data,     \* Frame::data
  ref,      \* Frame::referenced
  map,      \* page_map, NoFrame where the key has no entry
  hand,     \* clock_hand
  free,     \* stats.free_frames
  guard,    \* the page guard each client holds, NoGuard for none
  tokens,   \* the detached write-back images clients hold
  sweep     \* the fetch that is looking for a victim, NoSweep for none

bufVars == <<key, state, data, ref, map, hand, free, guard, tokens, sweep>>

NoGuard == [frame |-> NoFrame, page |-> None, write |-> FALSE]
NoSweep == [by |-> None, key |-> None, data |-> Zero, write |-> FALSE, left |-> 0]

BufInit ==
  /\ key = [f \in Frames |-> None]
  /\ state = [f \in Frames |-> "free"]
  /\ data = [f \in Frames |-> Zero]
  /\ ref = [f \in Frames |-> FALSE]
  /\ map = [k \in Keys |-> NoFrame]
  /\ hand = 0
  /\ free = NumFrames
  /\ guard = [c \in Clients |-> NoGuard]
  /\ tokens = {}
  /\ sweep = NoSweep

\* is_pinned: a live guard's token is counted on the frame.
Pinned(f) == \E c \in Clients : guard[c].frame = f
IsResident(k) == map[k] # NoFrame
FreeFrames == {f \in Frames : state[f] = "free"}

(***************************************************************************)
(* The mutex and the guards.                                                *)
(***************************************************************************)
\* The mutex serializes the calls; only a sweep spans several steps.
Idle == sweep = NoSweep

\* PageGuard::drop, with or without the mutex.
DropGuard(c) ==
  /\ guard[c] # NoGuard
  /\ guard' = [guard EXCEPT ![c] = NoGuard]
  /\ UNCHANGED <<key, state, data, ref, map, hand, free, tokens, sweep>>

\* frame_data_mut through a write guard.
WriteFrame(c, d) ==
  /\ Idle
  /\ guard[c].write
  /\ data' = [data EXCEPT ![guard[c].frame] = d]
  /\ UNCHANGED <<key, state, ref, map, hand, free, guard, tokens, sweep>>

(***************************************************************************)
(* fetch_key.                                                               *)
(***************************************************************************)
Grant(c, k, f, write) ==
  guard' = [guard EXCEPT ![c] = [frame |-> f, page |-> k[1], write |-> write]]

FetchHit(c, k, write) ==
  /\ Idle /\ guard[c] = NoGuard
  /\ IsResident(k)
  /\ Grant(c, k, map[k], write)
  /\ state' = IF write THEN [state EXCEPT ![map[k]] = "dirty"] ELSE state
  /\ ref' = [ref EXCEPT ![map[k]] = TRUE]
  /\ UNCHANGED <<key, data, map, hand, free, tokens, sweep>>

\* Frame::load, acquire_guard and the map insertion on frame f.
LoadInto(c, f, k, d, write) ==
  /\ key' = [key EXCEPT ![f] = k]
  /\ data' = [data EXCEPT ![f] = d]
  /\ state' = [state EXCEPT ![f] = IF write THEN "dirty" ELSE "clean"]
  /\ ref' = [ref EXCEPT ![f] = TRUE]
  /\ Grant(c, k, f, write)

\* A miss takes the first free frame.
FetchFree(c, k, d, write) ==
  /\ Idle /\ guard[c] = NoGuard
  /\ ~IsResident(k)
  /\ \E f \in FreeFrames :
       /\ \A g \in FreeFrames : f <= g
       /\ LoadInto(c, f, k, d, write)
       /\ map' = [map EXCEPT ![k] = f]
  /\ free' = free - 1
  /\ UNCHANGED <<hand, tokens, sweep>>

\* Mutant of FetchSweep: the clock makes one pass.
FetchSweepOnePass(c, k, d, write) ==
  /\ Idle /\ guard[c] = NoGuard
  /\ ~IsResident(k)
  /\ FreeFrames = {}
  /\ sweep' = [by |-> c, key |-> k, data |-> d, write |-> write, left |-> NumFrames]
  /\ UNCHANGED <<key, state, data, ref, map, hand, free, guard, tokens>>

\* A miss in a full pool starts the clock: two passes over the frames.
FetchSweep(c, k, d, write) ==
  /\ Idle /\ guard[c] = NoGuard
  /\ ~IsResident(k)
  /\ FreeFrames = {}
  /\ sweep' = [by |-> c, key |-> k, data |-> d, write |-> write, left |-> 2 * NumFrames]
  /\ UNCHANGED <<key, state, data, ref, map, hand, free, guard, tokens>>

Advance == hand' = (hand + 1) % NumFrames

\* One iteration of clock_evict that passes its frame over: pinned, referenced
\* (the bit is cleared) or dirty.
SweepSkip(c) ==
  /\ sweep.by = c /\ sweep.left > 0
  /\ Advance
  /\ sweep' = [sweep EXCEPT !.left = @ - 1]
  /\ Pinned(hand) \/ ref[hand] \/ state[hand] = "dirty"
  /\ ref' = IF Pinned(hand) THEN ref ELSE [ref EXCEPT ![hand] = FALSE]
  /\ UNCHANGED <<key, state, data, map, free, guard, tokens>>

\* Mutant of SweepEvict: a dirty frame is a victim too.
SweepEvictDirty(c) ==
  /\ sweep.by = c /\ sweep.left > 0
  /\ ~Pinned(hand) /\ ~ref[hand]
  /\ Advance
  /\ map' = [map EXCEPT ![key[hand]] = NoFrame, ![sweep.key] = hand]
  /\ LoadInto(c, hand, sweep.key, sweep.data, sweep.write)
  /\ sweep' = NoSweep
  /\ UNCHANGED <<free, tokens>>

\* The iteration that evicts a clean victim, and the fetch it completes.
SweepEvict(c) ==
  /\ sweep.by = c /\ sweep.left > 0
  /\ ~Pinned(hand) /\ ~ref[hand] /\ state[hand] # "dirty"
  /\ Advance
  /\ map' = [map EXCEPT ![key[hand]] = NoFrame, ![sweep.key] = hand]
  /\ LoadInto(c, hand, sweep.key, sweep.data, sweep.write)
  /\ sweep' = NoSweep
  /\ UNCHANGED <<free, tokens>>

\* Two passes without a victim: the fetch is refused (DirtyPage if a dirty
\* frame was met, else AllFramesPinned).
SweepFail(c) ==
  /\ sweep.by = c /\ sweep.left = 0
  /\ sweep' = NoSweep
  /\ UNCHANGED <<key, state, data, ref, map, hand, free, guard, tokens>>

\* A refused call (pinned, clean, absent, stale) changes nothing; only its
\* error is left out.  begin_writeback_key hands out a detached copy of the
\* bytes of a dirty, unpinned page.
BeginWriteback(k) ==
  /\ Idle
  /\ IsResident(k) /\ state[map[k]] = "dirty" /\ ~Pinned(map[k])
  /\ tokens' = tokens \cup {[key |-> k, data |-> data[map[k]]]}
  /\ UNCHANGED <<key, state, data, ref, map, hand, free, guard, sweep>>

\* The checks complete_writeback and discard_writeback share.
Current(t) ==
  /\ IsResident(t.key) /\ ~Pinned(map[t.key])
  /\ state[map[t.key]] = "dirty" /\ data[map[t.key]] = t.data

CompleteWriteback(t) ==
  /\ Idle /\ Current(t)
  /\ state' = [state EXCEPT ![map[t.key]] = "clean"]
  /\ tokens' = tokens \ {t}
  /\ UNCHANGED <<key, data, ref, map, hand, free, guard, sweep>>

\* Frame::clear and the removal from the map; the reference bit survives it.
Remove(k) ==
  /\ key' = [key EXCEPT ![map[k]] = None]
  /\ state' = [state EXCEPT ![map[k]] = "free"]
  /\ data' = [data EXCEPT ![map[k]] = Zero]
  /\ map' = [map EXCEPT ![k] = NoFrame]
  /\ free' = free + 1

DiscardWriteback(t) ==
  /\ Idle /\ Current(t)
  /\ Remove(t.key)
  /\ tokens' = tokens \ {t}
  /\ UNCHANGED <<ref, hand, guard, sweep>>

\* Tokens go unused when a device write or sync fails, or their completion is
\* refused; their frames stay dirty.
DropTokens(ts) ==
  /\ ts # {}
  /\ tokens' = tokens \ ts
  /\ UNCHANGED <<key, state, data, ref, map, hand, free, guard, sweep>>

EvictKey(k) ==
  /\ Idle
  /\ IsResident(k) /\ ~Pinned(map[k]) /\ state[map[k]] # "dirty"
  /\ Remove(k)
  /\ UNCHANGED <<ref, hand, guard, tokens, sweep>>

\* Mutant of Rekey: the frame keeps its old identity.
RekeyMapOnly(p, v) ==
  /\ Idle /\ v # 0
  /\ IsResident(<<p, 0>>) /\ ~IsResident(<<p, v>>)
  /\ map' = [map EXCEPT ![<<p, 0>>] = NoFrame, ![<<p, v>>] = map[<<p, 0>>]]
  /\ UNCHANGED <<key, state, data, ref, hand, free, guard, tokens, sweep>>

\* Give a page's staged frame the version that now names it; nothing happens
\* when the source is absent or the target taken.
Rekey(p, v) ==
  /\ Idle /\ v # 0
  /\ IsResident(<<p, 0>>) /\ ~IsResident(<<p, v>>)
  /\ key' = [key EXCEPT ![map[<<p, 0>>]] = <<p, v>>]
  /\ map' = [map EXCEPT ![<<p, 0>>] = NoFrame, ![<<p, v>>] = map[<<p, 0>>]]
  /\ UNCHANGED <<state, data, ref, hand, free, guard, tokens, sweep>>

MarkDirty(k) ==
  /\ Idle /\ IsResident(k)
  /\ state' = [state EXCEPT ![map[k]] = "dirty"]
  /\ UNCHANGED <<key, data, ref, map, hand, free, guard, tokens, sweep>>

BufNext ==
  \/ \E c \in Clients :
       \/ DropGuard(c)
       \/ \E d \in Images : WriteFrame(c, d)
       \/ \E k \in Keys, w \in BOOLEAN :
            \/ FetchHit(c, k, w)
            \/ \E d \in Images : FetchFree(c, k, d, w) \/ FetchSweep(c, k, d, w)
       \/ SweepSkip(c) \/ SweepEvict(c) \/ SweepFail(c)
  \/ \E t \in tokens : CompleteWriteback(t) \/ DiscardWriteback(t)
  \/ \E ts \in SUBSET tokens : DropTokens(ts)
  \/ \E k \in Keys : BeginWriteback(k) \/ EvictKey(k) \/ MarkDirty(k)
  \/ \E p \in Pages, v \in 1 .. MaxVersion : Rekey(p, v)

BufSpec == BufInit /\ [][BufNext]_bufVars

(***************************************************************************)
(* Properties.                                                              *)
(***************************************************************************)
GuardType == [frame : Frames \cup {NoFrame}, page : Pages \cup {None}, write : BOOLEAN]
TokenType == [key : Keys, data : Images]
SweepType == [by : Clients \cup {None}, key : Keys \cup {None}, data : Images, write : BOOLEAN,
              left : 0 .. 2 * NumFrames]

\* The shape of the pool: frames, map, hand, guards, tokens and the sweep.
BufTypeOK ==
  /\ key \in [Frames -> Keys \cup {None}]
  /\ state \in [Frames -> {"free", "clean", "dirty"}]
  /\ data \in [Frames -> Images]
  /\ ref \in [Frames -> BOOLEAN]
  /\ map \in [Keys -> Frames \cup {NoFrame}]
  /\ hand \in Frames
  /\ free \in Int
  /\ guard \in [Clients -> GuardType]
  /\ tokens \subseteq TokenType
  /\ sweep \in SweepType

\* The page map and the frames are one relation: a mapped key's frame carries
\* that key, and a frame is free exactly when it carries none and no key maps
\* to it (the ownership contract validate_invariants checks).
MapAgrees ==
  /\ \A k \in Keys : IsResident(k) => key[map[k]] = k
  /\ \A f \in Frames : /\ key[f] = None <=> state[f] = "free"
                       /\ key[f] # None => map[key[f]] = f

\* The free-frame statistic, decremented by fetch_key and incremented by three
\* different removal paths, is the number of free frames.
FreeCounted == free = Cardinality(FreeFrames)

\* A live guard's frame is never freed, reused for another page or cleaned
\* under it: it still holds the guard's page, and is dirty if the guard may
\* write (clock_evict, evict_key and both write-back completions skip pins).
GuardStable ==
  \A c \in Clients : guard[c] # NoGuard =>
    /\ guard[c].frame \in Frames
    /\ key[guard[c].frame] # None /\ key[guard[c].frame][1] = guard[c].page
    /\ guard[c].write => state[guard[c].frame] = "dirty"

\* The ownership contract of the pool: map, frames, statistic and guards tell
\* the same story in every state.
FramesOwned == MapAgrees /\ FreeCounted /\ GuardStable

\* A dirty frame is cleaned, freed or given to another page only when a client
\* returns the write-back token of exactly its identity and bytes, and never
\* under a live guard (clock_evict, evict_key and the write-back completions).
DirtyKept ==
  [][\A f \in Frames :
       state[f] = "dirty" /\ (state'[f] # "dirty" \/ key'[f][1] # key[f][1]) =>
         /\ ~Pinned(f)
         /\ [key |-> key[f], data |-> data[f]] \in tokens]_bufVars

\* The bytes under a live guard change only if some live write guard on that
\* frame is held by a client.
GuardedBytesStable ==
  [][\A f \in Frames :
       Pinned(f) /\ data'[f] # data[f] =>
         \E c \in Clients : guard[c].frame = f /\ guard[c].write]_bufVars
============================================================================
