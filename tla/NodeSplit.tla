------------------------------ MODULE NodeSplit ------------------------------
(***************************************************************************)
(* The loop of split_insert (the same text in src/btree/leaf.rs and        *)
(* branch.rs) step by step, on any node that has no room for the new pair. *)
(* An expect, assert or index of the code that fails is a panic: no step   *)
(* follows, and Panics names the states where that happens.                *)
(***************************************************************************)
EXTENDS BTreeNode

CONSTANTS
    Keys,       \* keys, as numbers
    Sizes,      \* lengths of pairs
    Capacities  \* capacities of the node

ASSUME NodeSplitAssumption ==
    /\ Keys \subseteq Nat /\ IsFiniteSet(Keys)
    /\ Sizes \subseteq Nat /\ Capacities \subseteq Nat

VARIABLES
    old,       \* the pairs of the node that is split
    new,       \* the pairs of the new node
    key,       \* the key of the pair to insert
    size,      \* the length of each pair
    capacity,  \* of the two nodes
    given,     \* the pairs of the node before the split
    pc         \* "loop", "fill" once the new pair is in the new node, "done"

vars == <<old, new, key, size, capacity, given, pc>>

SortedNodes == {keys \in SeqOf(Keys, Cardinality(Keys)) : Sorted(keys)}

\* insert was called with a pair that is not too long, and returned None.
Init ==
    /\ old \in SortedNodes
    /\ capacity \in Capacities
    /\ size \in [Keys -> {s \in Sizes : s <= MaxPairSize(capacity)}]
    /\ key \in Keys /\ ~Holds(old, key)
    /\ Used(old, size) <= capacity
    /\ ~HasRoom(old, key, size, capacity)
    /\ given = old
    /\ new = <<>>
    /\ pc = "loop"

\* Mutant of NewHalfFull: one pair is enough.
NewNotEmpty == Len(new) > 0

NewHalfFull == HalfFull(new, size, capacity)
Fits(keys, k) == HasRoom(keys, k, size, capacity)

Unchanged == UNCHANGED <<key, size, capacity, given>>

\* transfer: the first pair of the old node goes to the end of the new one.
Transfer ==
    /\ old # <<>>
    /\ Fits(new, Head(old))
    /\ new' = Append(new, Head(old))
    /\ old' = Tail(old)

\* The new node is half full: the new pair goes to the old one.
InsertIntoOld ==
    /\ pc = "loop"
    /\ NewHalfFull
    /\ ~Holds(old, key)
    /\ Fits(old, key)
    /\ old' = InsertKey(old, key)
    /\ pc' = "done"
    /\ UNCHANGED new
    /\ Unchanged

TransferSmaller ==
    /\ pc = "loop"
    /\ ~NewHalfFull
    /\ old # <<>> /\ Head(old) < key
    /\ Transfer
    /\ UNCHANGED pc
    /\ Unchanged

InsertIntoNew ==
    /\ pc = "loop"
    /\ ~NewHalfFull
    /\ old # <<>> /\ Head(old) >= key
    /\ Fits(new, key)
    /\ new' = Append(new, key)
    /\ pc' = "fill"
    /\ UNCHANGED old
    /\ Unchanged

\* Mutant of TransferMore: the outer loop goes on (its break is missing).
TransferWithoutBreak ==
    /\ pc = "fill"
    /\ ~NewHalfFull
    /\ Transfer
    /\ pc' = "loop"
    /\ Unchanged

TransferMore ==
    /\ pc = "fill"
    /\ ~NewHalfFull
    /\ Transfer
    /\ UNCHANGED pc
    /\ Unchanged

StopFilling ==
    /\ pc = "fill"
    /\ NewHalfFull
    /\ pc' = "done"
    /\ UNCHANGED <<old, new>>
    /\ Unchanged

Next ==
    \/ InsertIntoOld \/ TransferSmaller \/ InsertIntoNew
    \/ TransferMore \/ StopFilling

Spec == Init /\ [][Next]_vars /\ WF_vars(Next)

-----------------------------------------------------------------------------
TransferPanics == old = <<>> \/ ~Fits(new, Head(old))

Panics ==
    CASE pc = "loop" /\ NewHalfFull -> Holds(old, key) \/ ~Fits(old, key)
      [] pc = "loop" /\ ~NewHalfFull ->
            IF old # <<>> /\ Head(old) >= key THEN ~Fits(new, key)
                                              ELSE TransferPanics
      [] pc = "fill" -> ~NewHalfFull /\ TransferPanics
      [] pc = "done" -> FALSE

\* No expect, assert or index of split_insert fails, whatever the lengths of
\* the pairs.
NeverPanics == ~Panics

\* The loop puts into the new node what SplitPoint says, the whole is as before
\* with the new pair at its place, and both nodes can be used: the old one has
\* a first key to send up, the new one a last pair for fill_right_child and a
\* pair besides.
SplitsAsStated ==
    pc = "done" =>
        LET all == InsertKey(given, key)
            n   == SplitPoint(given, key, size, capacity)
        IN  /\ new = Lower(all, n) /\ old = Upper(all, n)
            /\ old # <<>> /\ Len(new) >= 2
            /\ Used(new, size) <= capacity /\ Used(old, size) <= capacity

\* The loop ends.
SplitEnds == <>(pc = "done")

=============================================================================
