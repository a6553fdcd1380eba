------------------------------ MODULE BTreeNode ------------------------------
(***************************************************************************)
(* The nodes of the B+tree (src/btree/leaf.rs, branch.rs, node.rs) as the  *)
(* sequences of pairs that their slotted pages hold.  Keys are numbers in  *)
(* the order of their bytes; a pair of a leaf is its key, whose value goes *)
(* wherever the key goes.  What a page has room for is counted in bytes.   *)
(***************************************************************************)
EXTENDS Integers, Sequences, FiniteSets, SequencesExt

PAGE_SIZE == 4096
INVALID_PAGE_ID == -1
PointerSize == 4

\* A page less the headers of the node (8 bytes), of the leaf (16) or of the
\* branch (8), and of the slotted page (8).
LeafCapacity == PAGE_SIZE - 32
BranchCapacity == PAGE_SIZE - 24

\* The bytes of a length as bincode writes it, and of a pair.
VarintLen(n) == IF n <= 250 THEN 1 ELSE 3
PairSize(key_len, value_len) ==
    VarintLen(key_len) + key_len + VarintLen(value_len) + value_len

PageIdLen == 8

MaxPairSize(capacity) == capacity \div 2 - PointerSize

Leaf(prev, next, keys) ==
    [node_type |-> "LEAF", prev_page_id |-> prev, next_page_id |-> next,
     keys |-> keys]

\* The child of pair i is children[i], and right_child is the last one.
Branch(keys, children) ==
    [node_type |-> "BRANCH", keys |-> keys, children |-> children]

-----------------------------------------------------------------------------
(* Searching and inserting; slots are counted from 0, as in the code.      *)

\* The order of the pairs on a page.
Sorted(keys) == \A i, j \in DOMAIN keys : i < j => keys[i] < keys[j]

\* What binary_search_by returns on sorted keys: the slot of the key, or the
\* slot where it would be inserted.
SlotOf(keys, key) == Cardinality({i \in DOMAIN keys : keys[i] < key})
Holds(keys, key) == \E i \in DOMAIN keys : keys[i] = key

\* Mutant of SearchChildIdx: a separator's own key goes to the left.
SearchChildIdxLeft(node, key) == SlotOf(node.keys, key)

SearchChildIdx(node, key) ==
    SlotOf(node.keys, key) + (IF Holds(node.keys, key) THEN 1 ELSE 0)

ChildAt(node, child_idx) == node.children[child_idx + 1]

SearchChild(node, key) == ChildAt(node, SearchChildIdx(node, key))

\* size[k] is the length of the pair of key k.
Used(keys, size) ==
    LET upto[i \in 0 .. Len(keys)] ==
          IF i = 0 THEN 0 ELSE upto[i - 1] + PointerSize + size[keys[i]]
    IN  upto[Len(keys)]

FreeSpace(keys, size, capacity) == capacity - Used(keys, size)

\* Mutant of HasRoom: the pointer of the new pair is not counted.
HasRoomForPair(keys, key, size, capacity) ==
    FreeSpace(keys, size, capacity) >= size[key]

HasRoom(keys, key, size, capacity) ==
    FreeSpace(keys, size, capacity) >= PointerSize + size[key]

\* Mutant of HalfFull: one pair is enough.
HalfFullAtOnce(keys, size, capacity) == keys # <<>>

HalfFull(keys, size, capacity) ==
    2 * FreeSpace(keys, size, capacity) < capacity

InsertKey(keys, key) == InsertAt(keys, SlotOf(keys, key) + 1, key)

LeafInsert(leaf, key) == [leaf EXCEPT !.keys = InsertKey(@, key)]

BranchInsert(branch, child_idx, key, page_id) ==
    [branch EXCEPT !.keys = InsertAt(@, child_idx + 1, key),
                   !.children = InsertAt(@, child_idx + 1, page_id)]

-----------------------------------------------------------------------------
(* Splitting.  split_insert moves pairs in order, the new one at its       *)
(* place, to the new node until that is half full; the rest stays.  (That  *)
(* its loop does this, and without a panic, is checked in NodeSplit.)      *)

\* The number of pairs that the new node gets.
SplitPoint(keys, key, size, capacity) ==
    LET all == InsertKey(keys, key) IN
    CHOOSE n \in 1 .. Len(all) :
        /\ HalfFull(SubSeq(all, 1, n), size, capacity)
        /\ ~HalfFull(SubSeq(all, 1, n - 1), size, capacity)

Lower(s, n) == SubSeq(s, 1, n)
Upper(s, n) == SubSeq(s, n + 1, Len(s))

\* Mutant of LeafSplit: the first key of the new leaf goes up.
LeafSplitSendsLower(leaf, key, size) ==
    LET n   == SplitPoint(leaf.keys, key, size, LeafCapacity)
        all == InsertKey(leaf.keys, key)
    IN  [new |-> Lower(all, n), old |-> Upper(all, n),
         overflow_key |-> Lower(all, n)[1]]

\* The two leaves, and the first key of the one that stays, which goes up.
LeafSplit(leaf, key, size) ==
    LET n   == SplitPoint(leaf.keys, key, size, LeafCapacity)
        all == InsertKey(leaf.keys, key)
    IN  [new |-> Lower(all, n), old |-> Upper(all, n),
         overflow_key |-> Upper(all, n)[1]]

\* Mutant of BranchSplit: fill_right_child is not called.
BranchSplitUnfilled(branch, key, page_id, size) ==
    LET n    == SplitPoint(branch.keys, key, size, BranchCapacity)
        both == BranchInsert(branch, SlotOf(branch.keys, key), key, page_id)
    IN  [new |-> Branch(Lower(both.keys, n), Lower(both.children, n)),
         old |-> Branch(Upper(both.keys, n), Upper(both.children, n)),
         overflow_key |-> both.keys[n]]

\* The two branches, and the last key of the new one, which goes up while its
\* child becomes the right child (fill_right_child).
BranchSplit(branch, key, page_id, size) ==
    LET n    == SplitPoint(branch.keys, key, size, BranchCapacity)
        both == BranchInsert(branch, SlotOf(branch.keys, key), key, page_id)
    IN  [new |-> Branch(Lower(both.keys, n - 1), Lower(both.children, n)),
         old |-> Branch(Upper(both.keys, n), Upper(both.children, n)),
         overflow_key |-> both.keys[n]]

=============================================================================
