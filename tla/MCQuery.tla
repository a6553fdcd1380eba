------------------------------- MODULE MCQuery -------------------------------
(* A primary key of two columns, an index on two columns and one on a      *)
(* single column, so that a record can pass one index and not the other.   *)
EXTENDS Query

TableRecords == {<<1, 1, 1>>, <<1, 1, 2>>, <<1, 2, 1>>, <<1, 2, 3>>, <<2, 2, 1>>}
TableSkeys == <<<<3, 1>>, <<3>>>>

AllTuples == [1 .. 3 -> 1 .. 3] \union [1 .. 4 -> 1 .. 3]
AllKeys == [1 .. 1 -> 1 .. 3] \union [1 .. 2 -> 1 .. 3]

QueryPlans == {
    [kind |-> "SeqScan", tree |-> 0, from |-> <<>>, while |-> AllKeys, cond |-> AllTuples],
    [kind |-> "SeqScan", tree |-> 0, from |-> <<1>>,
     while |-> {k \in AllKeys : k[1] = 1}, cond |-> {t \in AllTuples : t[3] # 1}],
    [kind |-> "SeqScan", tree |-> 0, from |-> <<1, 2>>,
     while |-> {k \in AllKeys : k # <<1, 2>>}, cond |-> AllTuples],
    [kind |-> "IndexScan", tree |-> 2, from |-> <<>>,
     while |-> AllKeys, cond |-> {t \in AllTuples : t[2] = 2}],
    [kind |-> "IndexScan", tree |-> 1, from |-> <<2>>,
     while |-> {k \in AllKeys : k[1] = 2}, cond |-> AllTuples],
    [kind |-> "IndexOnlyScan", tree |-> 1, from |-> <<1, 2>>,
     while |-> {k \in AllKeys : k[1] < 3}, cond |-> AllTuples]}

=============================================================================
