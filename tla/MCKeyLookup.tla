----------------------------- MODULE MCKeyLookup -----------------------------
(* Strings around the lengths of one and two blocks of two bytes, tuples   *)
(* of them, and leaves: every pair of tuples, and fuller ones.             *)
EXTENDS KeyLookup

Strings(len) == UNION {[1 .. m -> {0, 3, 255}] : m \in 0 .. len}

Singles == {<<s>> : s \in Strings(2)} \union
           {<<s>> : s \in {<<0, 0, 0>>, <<0, 0, 255>>, <<0, 255, 0>>, <<255, 255, 1>>,
                           <<0, 0, 0, 0>>, <<0, 0, 0, 2>>, <<0, 0, 0, 0, 0>>}}
Pairs == {<<s, t>> : s \in {<<>>, <<0>>, <<0, 0>>, <<0, 0, 0>>}, t \in {<<>>, <<0>>, <<255, 255>>}}

LookupTargets == {<<>>} \union Singles \union Pairs
LookupStores == {{s, t} : s, t \in LookupTargets} \union {{}, Singles, Pairs}

=============================================================================
