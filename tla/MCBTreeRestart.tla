---------------------------- MODULE MCBTreeRestart ----------------------------
(* BTreeRestart with keys of which two fill a node.                        *)
EXTENDS BTreeRestart

LongKeys == [k \in Keys |-> 2020]
NoValues == [k \in Keys |-> 0]

=============================================================================
