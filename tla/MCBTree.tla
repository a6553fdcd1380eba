------------------------------ MODULE MCBTree -------------------------------
(* Instances of BTree.  A key of 2020 bytes is the longest that fits into  *)
(* a branch: two such pairs fill a leaf, and two fill a branch.  One of    *)
(* 2024 bytes is the longest that fits into a leaf.                        *)
EXTENDS BTree

\* All keys but one long, so that splits go up as far as possible; what is
\* free beside two long pairs is as long as the short pair.  The least key is
\* too long for a branch: it must never be sent up.
LongKeys == [k \in Keys |-> CASE k = 1 -> 2024 [] k = 4 -> 6 [] OTHER -> 2020]
NoValues == [k \in Keys |-> 0]

\* Keys that a leaf accepts and a branch does not.
BigKeys == [k \in Keys |-> 2022]

=============================================================================
