------------------------------ MODULE TupleOrder ------------------------------
(* The order of byte strings and of tuples, which Ord gives to slices.      *)
EXTENDS Integers, Sequences, FiniteSets

\* s comes before t where elements compare as Less says; a prefix comes first.
Precedes(s, t, Less(_, _)) ==
    \E i \in 1 .. Len(t) :
        /\ \A j \in 1 .. i - 1 : j <= Len(s) /\ s[j] = t[j]
        /\ i > Len(s) \/ Less(s[i], t[i])

NumbersLess(s, t) == Precedes(s, t, LAMBDA x, y : x < y)

\* The elements of S, which Less orders, in ascending order.
Ascending(S, Less(_, _)) ==
    [i \in 1 .. Cardinality(S) |->
        CHOOSE a \in S : Cardinality({b \in S : Less(b, a)}) = i - 1]

=============================================================================
