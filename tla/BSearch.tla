------------------------------- MODULE BSearch -------------------------------
(***************************************************************************)
(* binary_search_by (src/bsearch.rs), with which leaves and branches find  *)
(* a key among their sorted pairs: one step per turn of its loop.  f(i)    *)
(* compares element i with the target; elements are counted from 0.        *)
(***************************************************************************)
EXTENDS Integers

CONSTANT Sizes  \* numbers of elements

ASSUME BSearchAssumption == Sizes \subseteq Nat

\* Elements ascend: first those less than the target, then at most one that is
\* equal to it, then those greater.
Comparisons(m) ==
    {c \in [0 .. m - 1 -> {"Less", "Equal", "Greater"}] :
        \A i, j \in 0 .. m - 1 : i < j => c[i] = "Less" \/ c[j] = "Greater"}

VARIABLES
    n,      \* the number of elements
    f,      \* the comparisons
    left,
    right,
    size,
    result  \* <<"Ok", index>>, <<"Err", index>>, or <<"none", 0>> while it runs

vars == <<n, f, left, right, size, result>>

Indices == 0 .. n - 1

Running == result[1] = "none"

Init ==
    /\ n \in Sizes
    /\ f \in Comparisons(n)
    /\ left = 0
    /\ right = n
    /\ size = n
    /\ result = <<"none", 0>>

\* Mutant of Mid: half of the size is rounded up.
MidRoundedUp == left + (size + 1) \div 2

Mid == left + size \div 2

GoRight ==
    /\ Running /\ left < right
    /\ f[Mid] = "Less"
    /\ left' = Mid + 1
    /\ size' = right - left'
    /\ UNCHANGED <<n, f, right, result>>

\* Mutant of GoLeft: the element before the middle is left out.
GoLeftTooFar ==
    /\ Running /\ left < right
    /\ f[Mid] = "Greater"
    /\ right' = IF Mid > left THEN Mid - 1 ELSE Mid
    /\ size' = right' - left
    /\ UNCHANGED <<n, f, left, result>>

GoLeft ==
    /\ Running /\ left < right
    /\ f[Mid] = "Greater"
    /\ right' = Mid
    /\ size' = right' - left
    /\ UNCHANGED <<n, f, left, result>>

Found ==
    /\ Running /\ left < right
    /\ f[Mid] = "Equal"
    /\ result' = <<"Ok", Mid>>
    /\ UNCHANGED <<n, f, left, right, size>>

NotFound ==
    /\ Running /\ ~(left < right)
    /\ result' = <<"Err", left>>
    /\ UNCHANGED <<n, f, left, right, size>>

Next == GoRight \/ GoLeft \/ Found \/ NotFound

Spec == Init /\ [][Next]_vars /\ WF_vars(Next)

-----------------------------------------------------------------------------
\* Ok is the index of the equal element; Err is where the target belongs: all
\* elements before it are less, all from it on are greater.
ResultIsRight ==
    /\ result[1] = "Ok" =>
         result[2] \in Indices /\ f[result[2]] = "Equal"
    /\ result[1] = "Err" =>
         /\ result[2] \in 0 .. n
         /\ \A i \in Indices : f[i] = IF i < result[2] THEN "Less" ELSE "Greater"

\* f is called with an index of an element only (pair_at would panic).
MidIsIndex == Running /\ left < right => Mid \in Indices

\* What is left of the search.
SearchInv ==
    /\ n \in Nat /\ f \in Comparisons(n)
    /\ left \in 0 .. n /\ right \in 0 .. n /\ left <= right
    /\ size = right - left
    /\ \A i \in Indices : i < left => f[i] = "Less"
    /\ \A i \in Indices : i >= right => f[i] = "Greater"
    /\ ResultIsRight

=============================================================================
