------------------------------- MODULE BTree -------------------------------
(***************************************************************************)
(* The copy-on-write B-tree of btree/ as pure operators: slotted-page       *)
(* space accounting to the byte, descent, count-based splits, parent hints  *)
(* and their structural fallback, and the forward cursor.                   *)
(*                                                                          *)
(* A tree is [nodes, root, dirty, next]: nodes is a function whose domain   *)
(* is the set of resident pages, so a page outside it is the code's None    *)
(* slot of a sparse view; next is the page allocator's frontier (nothing in *)
(* src/ ever frees a logical page).  Keys are naturals in byte order, with  *)
(* their byte lengths in KeyLen.                                            *)
(***************************************************************************)
EXTENDS Integers, Sequences, FiniteSets, SequencesExt, FiniteSetsExt

CONSTANTS
  Keys,     \* the keys in use, a finite set of naturals
  KeyLen    \* [Keys -> Nat]: their lengths in bytes

ASSUME KeysAssumption == Keys \subseteq Nat /\ IsFiniteSet(Keys)

PAGE_SIZE == 4096
HEADER_SIZE == 48
SLOT_SIZE == 4
BLOB_POINTER_SIZE == 16

\* The longest key the write path admits.
MAX_KEY_SIZE == PAGE_SIZE - HEADER_SIZE - 4 - 4 - 8

ASSUME KeyLenAssumption == \A k \in Keys : KeyLen[k] \in 0 .. MAX_KEY_SIZE

Inline(id, len) == [tag |-> "inline", id |-> id, len |-> len]
Blob(id) == [tag |-> "blob", id |-> id, len |-> BLOB_POINTER_SIZE]
Tombstone == [tag |-> "tombstone", id |-> 0, len |-> 0]
NotFound == [tag |-> "absent", id |-> 0, len |-> 0]

(***************************************************************************)
(* Nodes.  Entries are packed from the end of the page without holes (every *)
(* removal and split rebuilds the page), so the lowest entry offset is      *)
(* PAGE_SIZE minus the sum of the entry sizes.                              *)
(***************************************************************************)
Leaf(ents, parent) ==
  [leaf |-> TRUE, ents |-> ents, leftmost |-> 0, parent |-> parent]
Internal(leftmost, ents, parent) ==
  [leaf |-> FALSE, ents |-> ents, leftmost |-> leftmost, parent |-> parent]

LeafEntrySize(e) == 4 + KeyLen[e.key] + 1 + e.val.len
ChildEntrySize(e) == 4 + KeyLen[e.key] + 8
EntrySize(n, e) == IF n.leaf THEN LeafEntrySize(e) ELSE ChildEntrySize(e)
UsedBytes(n) == FoldLeft(LAMBDA a, e : a + EntrySize(n, e), 0, n.ents)

\* The slot of the first entry whose key is not below k (search).
Search(n, k) == 1 + Cardinality({i \in DOMAIN n.ents : n.ents[i].key < k})
Holds(n, k) == \E i \in DOMAIN n.ents : n.ents[i].key = k

\* Upper-bound routing: a key equal to a separator belongs to its right.
ChildForKey(n, k) ==
  LET below == {i \in DOMAIN n.ents : n.ents[i].key <= k}
  IN IF below = {} THEN n.leftmost ELSE n.ents[Max(below)].child

Children(n) == <<n.leftmost>> \o [i \in DOMAIN n.ents |-> n.ents[i].child]
ReferencesChild(n, p) == ~n.leaf /\ p \in Range(Children(n))

\* What placing entry e costs: one page-sized entry must fit at all, and the
\* slot array keeps one spare slot below the lowest entry.
Placement(n, e) ==
  LET size == EntrySize(n, e)
      slots == HEADER_SIZE + (Len(n.ents) + 1) * SLOT_SIZE
  IN CASE size > PAGE_SIZE - HEADER_SIZE - SLOT_SIZE -> "EntryTooLarge"
       [] slots + SLOT_SIZE > PAGE_SIZE - UsedBytes(n) - size -> "PageFull"
       [] OTHER -> "ok"

Placed(n, e) == [n EXCEPT !.ents = InsertAt(@, Search(n, e.key), e)]
Removed(n, k) == [n EXCEPT !.ents = SelectSeq(@, LAMBDA e : e.key # k)]

\* Mutant of Split: an internal page's right half keeps the median.
SplitKeepingMedian(n) ==
  LET mid == Len(n.ents) \div 2 + 1
      left == [n EXCEPT !.ents = SubSeq(@, 1, mid - 1)]
      upper == SubSeq(n.ents, mid, Len(n.ents))
  IN [median |-> n.ents[mid].key, left |-> left,
      right |-> IF n.leaf THEN Leaf(upper, 0) ELSE Internal(n.ents[mid].child, upper, 0)]

\* The median separator and both halves; mid is by count, never by bytes.
Split(n) ==
  LET mid == Len(n.ents) \div 2 + 1
      left == [n EXCEPT !.ents = SubSeq(@, 1, mid - 1)]
  IN [median |-> n.ents[mid].key, left |-> left,
      right |-> IF n.leaf
                THEN Leaf(SubSeq(n.ents, mid, Len(n.ents)), 0)
                ELSE Internal(n.ents[mid].child, SubSeq(n.ents, mid + 1, Len(n.ents)), 0)]

(***************************************************************************)
(* Trees.                                                                   *)
(***************************************************************************)
NewTree ==
  [nodes |-> [p \in {0} |-> Leaf(<<>>, 0)], root |-> 0, dirty |-> {0}, next |-> 1]
SparseTree(root, next) ==
  [nodes |-> <<>>, root |-> root, dirty |-> {}, next |-> next]

Resident(t, p) == p \in DOMAIN t.nodes

AddNode(t, p, n) ==
  [t EXCEPT !.nodes = [q \in DOMAIN @ \cup {p} |-> IF q = p THEN n ELSE @[q]],
            !.dirty = @ \ {p}]
\* Mutant of SetNode: a mutable borrow that does not mark the page.
SetNodeUnmarked(t, p, n) == [t EXCEPT !.nodes[p] = n]

\* node_mut: every mutable borrow of a page makes it dirty.
SetNode(t, p, n) == [t EXCEPT !.nodes[p] = n, !.dirty = @ \cup {p}]
Touch(t, p) == [t EXCEPT !.dirty = @ \cup {p}]
SetParent(t, p, parent) ==
  IF Resident(t, p) THEN SetNode(t, p, [t.nodes[p] EXCEPT !.parent = parent]) ELSE t
AllocNode(t, n) ==
  [t EXCEPT !.nodes = [q \in DOMAIN @ \cup {t.next} |-> IF q = t.next THEN n ELSE @[q]],
            !.dirty = @ \cup {t.next}, !.next = @ + 1]

Done(t) == [err |-> "ok", tree |-> t]
Failed(err, t) == [err |-> err, tree |-> t]

(***************************************************************************)
(* Routing.  Absent pages surface as the MissingPage answer, -1.            *)
(***************************************************************************)
Missing == -1

RECURSIVE Descend(_, _, _)
Descend(t, p, k) ==
  CASE ~Resident(t, p) -> Missing
    [] t.nodes[p].leaf -> p
    [] OTHER -> Descend(t, ChildForKey(t.nodes[p], k), k)
FindLeaf(t, k) == Descend(t, t.root, k)

Lookup(t, k) ==
  LET n == t.nodes[FindLeaf(t, k)]
  IN IF Holds(n, k) THEN n.ents[Search(n, k)].val ELSE NotFound

RECURSIVE LeftmostLeaf(_, _)
LeftmostLeaf(t, p) ==
  CASE ~Resident(t, p) -> Missing
    [] t.nodes[p].leaf -> p
    [] OTHER -> LeftmostLeaf(t, t.nodes[p].leftmost)

\* The answers of a next-leaf question other than a page.
EndOfTree == -2
NoAnswer == -3

\* The child of n that follows child p, or EndOfTree.
RightSibling(n, p) ==
  LET at == Min({i \in DOMAIN Children(n) : Children(n)[i] = p})
  IN IF at = Len(Children(n)) THEN EndOfTree ELSE Children(n)[at + 1]

\* Climb the parent hints from page p, validating each edge; a hint that does
\* not check out answers nothing.
RECURSIVE NextLeafFromHint(_, _)
NextLeafFromHint(t, p) ==
  LET up == t.nodes[p].parent
  IN CASE up = 0 -> IF p = t.root THEN EndOfTree ELSE NoAnswer
       [] up # 0 /\ (~Resident(t, up) \/ ~ReferencesChild(t.nodes[up], p)) -> NoAnswer
       [] OTHER ->
            LET s == RightSibling(t.nodes[up], p)
            IN IF s # EndOfTree
               THEN LET q == LeftmostLeaf(t, s) IN IF q = Missing THEN NoAnswer ELSE q
               ELSE NextLeafFromHint(t, up)

\* The leaves below page p from left to right; absent pages end in Missing.
RECURSIVE LeavesBelow(_, _)
LeavesBelow(t, p) ==
  CASE ~Resident(t, p) -> <<Missing>>
    [] t.nodes[p].leaf -> <<p>>
    [] OTHER -> FlattenSeq([i \in DOMAIN Children(t.nodes[p]) |->
                              LeavesBelow(t, Children(t.nodes[p])[i])])

\* The structural fallback: locate the leaf from the root and step right.
NextLeafByPath(t, p) ==
  LET leaves == LeavesBelow(t, t.root)
      at == Min({i \in DOMAIN leaves : leaves[i] = p})
  IN IF at = Len(leaves) THEN EndOfTree ELSE leaves[at + 1]

NextLeaf(t, p) ==
  LET hinted == NextLeafFromHint(t, p)
  IN IF hinted = NoAnswer THEN NextLeafByPath(t, p) ELSE hinted

(***************************************************************************)
(* Parent discovery and split propagation.                                  *)
(***************************************************************************)
Parent(p) == [st |-> "found", page |-> p]
NoParent == [st |-> "Corruption", page |-> 0]
ParentMissing == [st |-> "MissingPage", page |-> 0]

\* Depth-first from the leftmost child; an unloaded page on the way is an
\* error even when it is a leaf.
RECURSIVE FindParent(_, _, _)
FindParent(t, p, target) ==
  CASE p = target -> NoParent
    [] p # target /\ ~Resident(t, p) -> ParentMissing
    [] p # target /\ Resident(t, p) /\ t.nodes[p].leaf -> NoParent
    [] OTHER ->
         LET kids == Children(t.nodes[p])
             answer == [i \in DOMAIN kids |->
                          IF kids[i] = target THEN Parent(p) ELSE FindParent(t, kids[i], target)]
             final == {i \in DOMAIN kids : answer[i] # NoParent}
         IN IF final = {} THEN NoParent ELSE answer[Min(final)]

ParentOf(t, p) ==
  LET hint == t.nodes[p].parent
  IN IF hint # 0 /\ Resident(t, hint) /\ ReferencesChild(t.nodes[hint], p)
     THEN Parent(hint)
     ELSE FindParent(t, t.root, p)

CreateNewRoot(t, left, k, right) ==
  LET bare == Internal(left, <<>>, 0)
      e == [key |-> k, child |-> right]
      fit == Placement(bare, e)
      grown == AllocNode(t, Placed(bare, e))
  IN IF fit # "ok" THEN Failed(fit, t)
     ELSE Done([SetParent(SetParent(grown, left, t.next), right, t.next)
                  EXCEPT !.root = t.next])

\* set_direct_children_parent: only the resident children learn their parent.
RECURSIVE Reparent(_, _, _)
Reparent(t, kids, parent) ==
  IF kids = {} THEN t
  ELSE LET p == CHOOSE q \in kids : TRUE
       IN Reparent(SetParent(t, p, parent), kids \ {p}, parent)

RECURSIVE InsertIntoInternal(_, _, _, _), SplitInternal(_, _, _), Promote(_, _, _, _)

\* The end both splits share: hang the right half beside page p.
Promote(t, p, median, right) ==
  IF p = t.root THEN CreateNewRoot(t, p, median, right)
  ELSE LET up == ParentOf(t, p)
       IN IF up.st # "found" THEN Failed(up.st, t)
          ELSE InsertIntoInternal(SetParent(t, right, up.page), up.page, median, right)

InsertIntoInternal(t, p, k, child) ==
  LET e == [key |-> k, child |-> child]
      fit == Placement(t.nodes[p], e)
  IN CASE fit = "ok" -> Done(SetNode(t, p, Placed(t.nodes[p], e)))
       [] fit = "PageFull" -> SplitInternal(t, p, e)
       [] OTHER -> Failed(fit, t)

SplitInternal(t, p, e) ==
  IF Len(t.nodes[p].ents) < 2 THEN Failed("TooFewKeys", t)
  ELSE LET halves == Split(t.nodes[p])
           right == t.next
           split == Reparent(AllocNode(SetNode(t, p, halves.left), halves.right),
                             Range(Children(halves.right)), right)
           target == IF e.key >= halves.median THEN right ELSE p
           fit == Placement(split.nodes[target], e)
       IN IF fit # "ok" THEN Failed(fit, t)
          ELSE Promote(SetParent(SetNode(split, target, Placed(split.nodes[target], e)),
                                 e.child, target),
                       p, halves.median, right)

SplitAndInsertLeaf(t, p, e) ==
  IF Len(t.nodes[p].ents) < 2 THEN Failed("TooFewKeys", t)
  ELSE LET halves == Split(t.nodes[p])
           right == t.next
           split == AllocNode(SetNode(t, p, halves.left), halves.right)
           target == IF e.key >= halves.median THEN right ELSE p
           fit == Placement(split.nodes[target], e)
       IN IF fit # "ok" THEN Failed(fit, t)
          ELSE Promote(SetNode(split, target, Placed(split.nodes[target], e)),
                       p, halves.median, right)

(***************************************************************************)
(* Mutations.  A failed split restores the tree it started from.            *)
(***************************************************************************)
PlaceOrSplit(t, p, e) ==
  LET fit == Placement(t.nodes[p], e)
  IN CASE fit = "ok" -> Done(SetNode(t, p, Placed(t.nodes[p], e)))
       [] fit = "PageFull" -> SplitAndInsertLeaf(t, p, e)
       [] OTHER -> Failed(fit, t)

\* insert and insert_blob of an absent key: the leaf is dirty either way.
Insert(t, p, e) ==
  LET r == PlaceOrSplit(Touch(t, p), p, e)
  IN IF r.err = "ok" THEN r ELSE Failed(r.err, Touch(t, p))

\* Mutant of Replace: a failed replacement leaves the entry removed.
ReplaceUnrestored(t, p, e) == PlaceOrSplit(SetNode(t, p, Removed(t.nodes[p], e.key)), p, e)

\* A present entry, its tombstone included, is removed and placed anew.
Replace(t, p, e) ==
  LET r == PlaceOrSplit(SetNode(t, p, Removed(t.nodes[p], e.key)), p, e)
  IN IF r.err = "ok" THEN r ELSE Failed(r.err, t)

Upsert(t, k, v) ==
  LET p == FindLeaf(t, k)
      e == [key |-> k, val |-> v]
  IN CASE p = Missing -> Failed("MissingPage", t)
       [] p # Missing /\ Holds(t.nodes[p], k) -> Replace(t, p, e)
       [] OTHER -> Insert(t, p, e)

\* Deleting leaves a tombstone; the leaf is borrowed mutably before the key is
\* looked for, so an absent key dirties it too.
Delete(t, k) ==
  LET p == FindLeaf(t, k)
      n == t.nodes[p]
      e == [key |-> k, val |-> Tombstone]
  IN CASE p = Missing -> Failed("MissingPage", t)
       [] p # Missing /\ (~Holds(n, k) \/ n.ents[Search(n, k)].val = Tombstone) ->
            Done(Touch(t, p))
       [] OTHER -> Done(SetNode(t, p, Placed(Removed(n, k), e)))

(***************************************************************************)
(* The forward cursor over [start, end).                                    *)
(***************************************************************************)
CursorAt(t, start, end) ==
  LET p == FindLeaf(t, start)
  IN [start |-> start, end |-> end, page |-> p, done |-> FALSE,
      index |-> Search(t.nodes[p], start)]

\* One call of next: the row it yields, or NoRow, and the cursor it leaves.
NoRow == [key |-> -1, val |-> NotFound]
RECURSIVE CursorNext(_, _)
CursorNext(t, c) ==
  LET n == t.nodes[c.page]
      e == n.ents[c.index]
      stepped == [c EXCEPT !.index = @ + 1]
      q == NextLeaf(t, c.page)
  IN CASE c.done -> [row |-> NoRow, cursor |-> c]
       [] ~c.done /\ c.index <= Len(n.ents) ->
            CASE e.key >= c.end -> [row |-> NoRow, cursor |-> [c EXCEPT !.done = TRUE]]
              [] e.key < c.end /\ (e.val = Tombstone \/ e.key < c.start) -> CursorNext(t, stepped)
              [] OTHER -> [row |-> e, cursor |-> stepped]
       [] OTHER ->
            IF q = EndOfTree THEN [row |-> NoRow, cursor |-> [c EXCEPT !.done = TRUE]]
            ELSE CursorNext(t, [c EXCEPT !.page = q, !.index = 1])

RECURSIVE Drain(_, _)
Drain(t, c) ==
  LET r == CursorNext(t, c)
  IN IF r.row = NoRow THEN <<>> ELSE <<r.row>> \o Drain(t, r.cursor)
RangeScan(t, start, end) == Drain(t, CursorAt(t, start, end))

(***************************************************************************)
(* Verification.                                                            *)
(***************************************************************************)
\* validate_layout, which every page read from the device passes through.
ValidLayout(n) ==
  /\ HEADER_SIZE + Len(n.ents) * SLOT_SIZE <= PAGE_SIZE - UsedBytes(n)
  /\ \A i \in 1 .. Len(n.ents) - 1 : n.ents[i].key <= n.ents[i + 1].key

\* verify_tree_node: the pages visited once the subtree at p, with keys in
\* [lo, hi), is done; Corrupt at the first fault.
Corrupt == {Missing}
RECURSIVE VerifyNode(_, _, _, _, _)
VerifyNode(t, p, lo, hi, visited) ==
  IF p \in visited \/ ~Resident(t, p) THEN Corrupt
  ELSE LET n == t.nodes[p]
           bounds == <<lo>> \o [i \in DOMAIN n.ents |-> n.ents[i].key] \o <<hi>>
           kids == Children(n)
       IN CASE ~ValidLayout(n) \/ \E e \in Range(n.ents) : e.key < lo \/ e.key >= hi -> Corrupt
            [] n.leaf -> visited \cup {p}
            [] OTHER -> FoldLeft(LAMBDA seen, i :
                                   IF seen = Corrupt THEN Corrupt
                                   ELSE VerifyNode(t, kids[i], bounds[i], bounds[i + 1], seen),
                                 visited \cup {p}, [i \in DOMAIN kids |-> i])

\* verify_tree: no fault, and no page is left over.
VerifyTree(t) == VerifyNode(t, t.root, 0, Max(Keys) + 1, {}) = DOMAIN t.nodes

\* The blob pointers it hands to the database's own check.
BlobPointers(t) ==
  UNION {{e.val : e \in {x \in Range(t.nodes[p].ents) : x.val.tag = "blob"}} :
           p \in {q \in DOMAIN t.nodes : t.nodes[q].leaf}}

\* The entries of the dirty leaves in the range, tombstones included.
DirtyLeafEntries(t, start, end) ==
  UNION {{e \in Range(t.nodes[p].ents) : start <= e.key /\ e.key < end} :
           p \in {q \in t.dirty : t.nodes[q].leaf}}
============================================================================
