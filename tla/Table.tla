------------------------------- MODULE Table --------------------------------
(***************************************************************************)
(* A table (src/table.rs): its own tree, from primary key to the other     *)
(* columns, and the tree of each unique index, from the index's columns to *)
(* the primary key.  A call goes from tree to tree, and each call of a     *)
(* tree does all or nothing, as OrderedIndex promises.  Keys are tuples of *)
(* column values; KeyLookup shows that their encodings keep their order.   *)
(* A SimpleTable is one without indices.                                   *)
(***************************************************************************)
EXTENDS TupleOrder

CONSTANTS
    Records,      \* what callers insert: sequences of column values
    NumKeyElems,  \* how many of the first columns make the primary key
    Skeys         \* the columns, counted from 1, of each unique index

Trees == 0 .. Len(Skeys)
Indices == 1 .. Len(Skeys)

ASSUME TableAssumption ==
    /\ Records \subseteq Seq(Nat)
    /\ NumKeyElems \in Nat
    /\ Skeys \in Seq(Seq(Nat))
    /\ \A r \in Records : /\ NumKeyElems <= Len(r)
                          /\ \A i \in Indices : \A c \in DOMAIN Skeys[i] :
                               Skeys[i][c] \in DOMAIN r

VARIABLES
    trees,   \* the table's tree (0) and the indices', as functions of their keys
    pc,      \* the running call, "none" before there is a table, "idle"
    at,      \* create, insert: the tree that comes next
    record,  \* insert: its argument
    result,  \* of the last call, "none" while it runs
    acked    \* history: the records whose insert returned Ok

NoRecord == <<>>
EmptyTree == <<>>  \* the function of no keys
tableVars == <<trees, at, record, acked>>

Key(r) == SubSeq(r, 1, NumKeyElems)
Value(r) == SubSeq(r, NumKeyElems + 1, Len(r))
Skey(i, r) == [c \in DOMAIN Skeys[i] |-> r[Skeys[i][c]]]

\* What tree t gets for record r.
EntryKey(t, r) == IF t = 0 THEN Key(r) ELSE Skey(t, r)
EntryValue(t, r) == IF t = 0 THEN Value(r) ELSE Key(r)

With(tree, k, v) == [x \in DOMAIN tree \union {k} |-> IF x = k THEN v ELSE tree[x]]

TableInit ==
    /\ trees = [t \in Trees |-> EmptyTree]
    /\ pc = "none" /\ at = 0 /\ record = NoRecord
    /\ result = "none" /\ acked = {}

Return(res) ==
    /\ pc' = "idle" /\ result' = res
    /\ at' = 0 /\ record' = NoRecord

\* On to the next tree, or the end.
Proceed ==
    IF at = Len(Skeys) THEN Return("Ok")
    ELSE at' = at + 1 /\ UNCHANGED <<pc, record, result>>

Acknowledge ==
    acked' = IF at = Len(Skeys) THEN acked \union {record} ELSE acked

-----------------------------------------------------------------------------
(* create, and insert                                                      *)

BeginCreate ==
    /\ pc = "none"
    /\ pc' = "create" /\ result' = "none"
    /\ UNCHANGED tableVars

CreateTree ==
    /\ pc = "create"
    /\ trees' = [trees EXCEPT ![at] = EmptyTree]
    /\ Proceed
    /\ UNCHANGED acked

\* The trees made so far are lost; calling again makes all of them anew.
CreateFails ==
    /\ pc = "create"
    /\ pc' = "none" /\ result' = "Error"
    /\ at' = 0
    /\ UNCHANGED <<trees, record, acked>>

BeginInsert ==
    /\ pc = "idle"
    /\ pc' = "insert" /\ result' = "none"
    /\ record' \in Records
    /\ UNCHANGED <<trees, at, acked>>

IsDuplicate == EntryKey(at, record) \in DOMAIN trees[at]

\* Mutant of InsertEntry: an index goes from the primary key to its columns.
InsertEntrySwapped ==
    /\ pc = "insert"
    /\ ~IsDuplicate
    /\ trees' = [trees EXCEPT ![at] =
                   IF at = 0 THEN With(@, Key(record), Value(record))
                   ELSE With(@, EntryValue(at, record), EntryKey(at, record))]
    /\ Proceed /\ Acknowledge

InsertEntry ==
    /\ pc = "insert"
    /\ ~IsDuplicate
    /\ trees' = [trees EXCEPT ![at] =
                   With(@, EntryKey(at, record), EntryValue(at, record))]
    /\ Proceed /\ Acknowledge

\* Mutant of RejectDuplicate: what an index has already is passed over.
RejectDuplicateOfTable ==
    /\ pc = "insert"
    /\ IsDuplicate
    /\ UNCHANGED trees
    /\ IF at = 0 THEN Return("DuplicateKey") /\ UNCHANGED acked
                 ELSE Proceed /\ Acknowledge

\* Mutant of RejectDuplicate: a row that the table has already goes on to the
\* indices.
RejectDuplicateOfIndex ==
    /\ pc = "insert"
    /\ IsDuplicate
    /\ UNCHANGED trees
    /\ IF at # 0 THEN Return("DuplicateKey") /\ UNCHANGED acked
                 ELSE Proceed /\ Acknowledge

\* The trees before this one keep what they got.
RejectDuplicate ==
    /\ pc = "insert"
    /\ IsDuplicate
    /\ Return("DuplicateKey")
    /\ UNCHANGED <<trees, acked>>

\* A tree that has no frame, or whose page cannot be written back.
InsertFails ==
    /\ pc = "insert"
    /\ Return("Error")
    /\ UNCHANGED <<trees, acked>>

-----------------------------------------------------------------------------
\* The rows in the table's tree, and whether tree t has the entry of row r.
Rows == {k \o trees[0][k] : k \in DOMAIN trees[0]}
HasEntry(t, r) ==
    /\ EntryKey(t, r) \in DOMAIN trees[t]
    /\ trees[t][EntryKey(t, r)] = EntryValue(t, r)
Complete(r) == \A t \in Trees : HasEntry(t, r)

\* An entry of an index leads to a row with its columns, also where an insert
\* failed or was rejected between two trees: IndexScan unwraps what it finds.
EntriesPointToRows ==
    \A i \in Indices : \A k \in DOMAIN trees[i] :
        \E r \in Rows : Key(r) = trees[i][k] /\ Skey(i, r) = k

\* insert has returned Ok for the rows that are in every tree, and for no other:
\* no later insert takes an entry away, and none that was refused is complete.
AckedIffComplete == acked = {r \in Rows : Complete(r)}

\* The constraint of the indexes, among the records whose insert returned Ok: no
\* two of them have the same columns of an index (UniqueIndex::insert).
AckedUnique ==
    \A r, s \in acked : (\E i \in Indices : Skey(i, r) = Skey(i, s)) => r = s

\* The constraint as table.rs states it: an insert that meets a duplicate in any
\* tree is called off (lines 123-125), and an index prevents a second row with
\* the same columns (line 157).  So, where a duplicate was just refused, no row
\* has the columns of a record whose insert returned Ok.
SkeysUnique ==
    result = "DuplicateKey" =>
        \A r \in Rows, s \in acked : (\E i \in Indices : Skey(i, r) = Skey(i, s)) => r = s

=============================================================================
