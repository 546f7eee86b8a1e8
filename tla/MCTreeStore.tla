---------------------------- MODULE MCTreeStore ----------------------------
(* Instances of TreeStore.  With keys of 1900 bytes two entries fill a leaf *)
(* and two separators an internal page, so seven keys make a tree of three  *)
(* levels whose root has split.                                             *)
EXTENDS TreeStore

SevenKeys == 1 .. 7
WideLen == [k \in SevenKeys |-> 1900]
small == Inline(1, 1)
large == Inline(2, 225)
pointer == Blob(3)

\* Single puts: a small and a large entry fill a leaf to the last byte; key 2 is
\* overwritten, and outgrows a leaf it shares with key 3.
WideVals == [k \in SevenKeys |-> CASE k = 2 -> {small, large}
                                   [] k = 3 -> {large}
                                   [] k = 7 -> {pointer}
                                   [] OTHER -> {}]
\* The batch builds <<1, 2>>, <<4>>, <<5, 6>> under one root.
WideBatches == {<<Put(1, small), Put(4, small), Put(5, small), Put(6, small), Put(2, small)>>}

\* Keys of 8 bytes: empty values below key 4, values of 1 KiB, the largest the
\* default blob threshold keeps inline, from there on.
ShortLen == [k \in SevenKeys |-> 8]
ShortVals == [k \in SevenKeys |-> {IF k < 4 THEN Inline(1, 0) ELSE Inline(1, 1024)}]
============================================================================
