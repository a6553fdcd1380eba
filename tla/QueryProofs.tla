----------------------------- MODULE QueryProofs -----------------------------
(***************************************************************************)
(* An inductive invariant of a table under inserts and queries, the proofs *)
(* of what its indexes and its callers rely on, and the proof that every   *)
(* row an executor returns qualifies.                                      *)
(***************************************************************************)
EXTENDS Query, SequenceTheorems, TLAPS

\* A key in the table's tree, and an entry of an index, are those of a record
\* that the table's tree holds.
TreesInv ==
    /\ DOMAIN trees = Trees
    /\ \A k \in DOMAIN trees[0] : \E r \in Records : k = Key(r) /\ HasEntry(0, r)
    /\ \A i \in Indices : \A k \in DOMAIN trees[i] :
          \E r \in Records : /\ HasEntry(0, r)
                             /\ k = Skey(i, r) /\ trees[i][k] = Key(r)

\* What holds where a call is: the trees before the one that comes next have
\* the entry of the record, the others have not, once the table's tree has it.
CallInv ==
    /\ at \in Trees
    /\ pc \notin {"create", "insert"} => at = 0
    /\ pc \in {"none", "create"} => /\ \A t \in Trees : DOMAIN trees[t] = {}
                                    /\ acked = {}
    /\ pc = "insert" => /\ record \in Records
                        /\ \A t \in Trees : t < at => HasEntry(t, record)
    /\ pc = "insert" /\ at > 0 => \A t \in Trees : t >= at => ~HasEntry(t, record)

\* The records that are acknowledged are those that are complete.
HistoryInv ==
    /\ \A r \in acked : r \in Records /\ Complete(r)
    /\ \A r \in Records : Complete(r) => r \in acked

TableInv == TreesInv /\ CallInv /\ HistoryInv

-----------------------------------------------------------------------------
(* Records and their entries.                                              *)

\* A record is its primary key followed by its other columns.
LEMMA RecordSplits ==
    ASSUME NEW r \in Records
    PROVE  Key(r) \o Value(r) = r
<1>1. r \in Seq(Nat) /\ NumKeyElems \in Nat /\ NumKeyElems <= Len(r)
  BY TableAssumption
<1>2. Len(r) \in Nat
  BY <1>1, LenProperties
<1>3. Key(r) \o Value(r) = SubSeq(r, 1, Len(r))
  <2>1. /\ 1 \in 1 .. Len(r) + 1 /\ NumKeyElems \in 1 - 1 .. Len(r)
        /\ Len(r) \in NumKeyElems .. Len(r)
    BY <1>1, <1>2
  <2>2. QED
    BY <1>1, <2>1, ConcatAdjacentSubSeq DEF Key, Value
<1>4. QED
  BY <1>1, <1>3, SubSeqFull

\* 0 and the indexes are the trees.
LEMMA TreesAre ==
    /\ Len(Skeys) \in Nat
    /\ 0 \in Trees
    /\ \A t \in Trees : t \in Nat /\ (t # 0 => t \in Indices)
    /\ \A i \in Indices : i \in Trees /\ i \in Nat /\ i # 0
BY TableAssumption, LenProperties DEF Trees, Indices

\* Two records in the table's tree with one primary key are the same.
LEMMA KeyDetermines ==
    ASSUME NEW r \in Records, NEW s \in Records,
           HasEntry(0, r), HasEntry(0, s), Key(r) = Key(s)
    PROVE  r = s
<1>1. Value(r) = Value(s)
  BY DEF HasEntry, EntryKey, EntryValue
<1>2. QED
  BY <1>1, RecordSplits

\* The rows are the records in the table's tree.
LEMMA RowsAreRecords ==
    ASSUME TreesInv
    PROVE  Rows = {r \in Records : HasEntry(0, r)}
<1>1. ASSUME NEW k \in DOMAIN trees[0]
      PROVE  \E r \in Records : HasEntry(0, r) /\ k \o trees[0][k] = r
  <2>1. PICK r \in Records : k = Key(r) /\ HasEntry(0, r)
    BY DEF TreesInv
  <2>2. trees[0][k] = Value(r)
    BY <2>1 DEF HasEntry, EntryKey, EntryValue
  <2>3. QED
    BY <2>1, <2>2, RecordSplits
<1>2. ASSUME NEW r \in Records, HasEntry(0, r)
      PROVE  r \in Rows
  <2>1. Key(r) \in DOMAIN trees[0] /\ trees[0][Key(r)] = Value(r)
    BY <1>2 DEF HasEntry, EntryKey, EntryValue
  <2>2. r = Key(r) \o trees[0][Key(r)]
    BY <2>1, RecordSplits
  <2>3. QED
    BY <2>1, <2>2 DEF Rows
<1>3. QED
  BY <1>1, <1>2 DEF Rows

-----------------------------------------------------------------------------
(* Each step preserves the invariant.                                      *)

\* Where trees and acked stay, and no insert or create runs before or after.
LEMMA QuietPreserves ==
    ASSUME TableInv, UNCHANGED <<trees, acked>>,
           pc \notin {"none", "create", "insert"},
           pc' \notin {"none", "create", "insert"}, at' = 0
    PROVE  TableInv'
<1>1. acked' = acked /\ trees' = trees
  OBVIOUS
<1>2. TreesInv'
  BY <1>1 DEF TableInv, TreesInv, HasEntry
<1>3. CallInv'
  BY TreesAre DEF CallInv
<1>4. HistoryInv'
  BY <1>1 DEF TableInv, HistoryInv, Complete, HasEntry
<1>5. QED
  BY <1>2, <1>3, <1>4 DEF TableInv

LEMMA BeginCreatePreserves == TableInv /\ BeginCreate => TableInv'
<1> SUFFICES ASSUME TableInv, BeginCreate PROVE TableInv'
  OBVIOUS
<1>1. /\ acked' = acked /\ trees' = trees /\ at' = at
      /\ pc = "none" /\ pc' = "create"
  BY DEF BeginCreate, tableVars
<1>2. TreesInv'
  BY <1>1 DEF TableInv, TreesInv, HasEntry
<1>3. CallInv'
  BY <1>1 DEF TableInv, CallInv
<1>4. HistoryInv'
  BY <1>1 DEF TableInv, HistoryInv, Complete, HasEntry
<1>5. QED
  BY <1>2, <1>3, <1>4 DEF TableInv

LEMMA CreateTreePreserves == TableInv /\ CreateTree => TableInv'
<1> SUFFICES ASSUME TableInv, CreateTree PROVE TableInv'
  OBVIOUS
<1>1. acked' = {}
  BY DEF CreateTree, TableInv, CallInv
<1>2. DOMAIN trees' = Trees /\ \A t \in Trees : DOMAIN trees'[t] = {}
  <2>1. DOMAIN EmptyTree = {}
    BY DEF EmptyTree
  <2>2. DOMAIN trees = Trees /\ \A t \in Trees : DOMAIN trees[t] = {}
    BY DEF CreateTree, TableInv, CallInv, TreesInv
  <2>3. trees' = [trees EXCEPT ![at] = EmptyTree]
    BY DEF CreateTree
  <2>4. QED
    BY <2>1, <2>2, <2>3
<1>3. /\ at' \in Trees /\ pc' \in {"create", "idle"}
      /\ pc' = "idle" => at' = 0
  <2>1. at \in Trees /\ pc = "create" /\ Proceed
    BY DEF CreateTree, TableInv, CallInv
  <2>2. CASE at = Len(Skeys)
    BY <2>1, <2>2, TreesAre DEF Proceed, Return
  <2>3. CASE at # Len(Skeys)
    <3>1. at' = at + 1 /\ pc' = pc
      BY <2>1, <2>3 DEF Proceed
    <3>2. QED
      BY <2>1, <2>3, <3>1, TreesAre DEF Trees
  <2>4. QED
    BY <2>2, <2>3
<1>4. TreesInv'
  BY <1>2, TreesAre DEF TreesInv
<1>5. CallInv'
  BY <1>1, <1>2, <1>3 DEF CallInv
<1>6. HistoryInv'
  BY <1>1, <1>2, TreesAre DEF HistoryInv, HasEntry
<1>7. QED
  BY <1>4, <1>5, <1>6 DEF TableInv

LEMMA CreateFailsPreserves == TableInv /\ CreateFails => TableInv'
<1> SUFFICES ASSUME TableInv, CreateFails PROVE TableInv'
  OBVIOUS
<1>1. /\ acked' = acked /\ trees' = trees /\ at' = 0
      /\ pc = "create" /\ pc' = "none"
  BY DEF CreateFails
<1>2. TreesInv'
  BY <1>1 DEF TableInv, TreesInv, HasEntry
<1>3. CallInv'
  BY <1>1, TreesAre DEF TableInv, CallInv
<1>4. HistoryInv'
  BY <1>1 DEF TableInv, HistoryInv, Complete, HasEntry
<1>5. QED
  BY <1>2, <1>3, <1>4 DEF TableInv

LEMMA BeginInsertPreserves == TableInv /\ BeginInsert => TableInv'
<1> SUFFICES ASSUME TableInv, BeginInsert PROVE TableInv'
  OBVIOUS
<1>1. /\ acked' = acked /\ trees' = trees /\ at' = at
      /\ pc = "idle" /\ pc' = "insert" /\ record' \in Records
  BY DEF BeginInsert
<1>2. at' = 0
  BY <1>1 DEF TableInv, CallInv
<1>3. TreesInv'
  BY <1>1 DEF TableInv, TreesInv, HasEntry
<1>4. CallInv'
  BY <1>1, <1>2, TreesAre DEF CallInv
<1>5. HistoryInv'
  BY <1>1 DEF TableInv, HistoryInv, Complete, HasEntry
<1>6. QED
  BY <1>3, <1>4, <1>5 DEF TableInv

\* An insert that a tree refuses: the record has not become complete.
LEMMA RefusedPreserves == TableInv /\ (RejectDuplicate \/ InsertFails) => TableInv'
<1> SUFFICES ASSUME TableInv, RejectDuplicate \/ InsertFails PROVE TableInv'
  OBVIOUS
<1>1. pc' = "idle" /\ at' = 0 /\ acked' = acked /\ trees' = trees
  BY DEF RejectDuplicate, InsertFails, Return
<1>2. TreesInv'
  BY <1>1 DEF TableInv, TreesInv, HasEntry
<1>3. CallInv'
  BY <1>1, TreesAre DEF CallInv
<1>4. HistoryInv'
  BY <1>1 DEF TableInv, HistoryInv, Complete, HasEntry
<1>5. QED
  BY <1>2, <1>3, <1>4 DEF TableInv

\* What an entry that is added to a tree changes.
LEMMA EntryAdded ==
    ASSUME TableInv, InsertEntry
    PROVE  /\ DOMAIN trees' = Trees
           /\ \A t \in Trees : t # at => trees'[t] = trees[t]
           /\ DOMAIN trees'[at] = DOMAIN trees[at] \union {EntryKey(at, record)}
           /\ \A k \in DOMAIN trees[at] : trees'[at][k] = trees[at][k]
           /\ trees'[at][EntryKey(at, record)] = EntryValue(at, record)
           /\ EntryKey(at, record) \notin DOMAIN trees[at]
<1>1. DOMAIN trees = Trees /\ at \in Trees
  BY DEF TableInv, TreesInv, CallInv
<1>2. /\ trees' = [trees EXCEPT ![at] =
                     With(trees[at], EntryKey(at, record), EntryValue(at, record))]
      /\ EntryKey(at, record) \notin DOMAIN trees[at]
  BY DEF InsertEntry, IsDuplicate
<1>3. trees'[at] = With(trees[at], EntryKey(at, record), EntryValue(at, record))
  BY <1>1, <1>2
<1>4. QED
  BY <1>1, <1>2, <1>3 DEF With

\* The record gets its entry, others keep theirs, and no other row gets one.
LEMMA OnlyRecordGetsEntry ==
    ASSUME TableInv, InsertEntry
    PROVE  /\ ~HasEntry(at, record)
           /\ \A t \in Trees, r \in Records :
                 HasEntry(t, r) \/ (t = at /\ r = record) => HasEntry(t, r)'
           /\ \A t \in Trees, r \in Records :
                 HasEntry(t, r)' /\ (t = 0 \/ HasEntry(0, r))
                 => HasEntry(t, r) \/ (t = at /\ r = record)
<1>1. /\ at \in Trees /\ record \in Records
      /\ at # 0 => HasEntry(0, record)
  <2>1. pc = "insert" /\ CallInv
    BY DEF InsertEntry, TableInv
  <2>2. QED
    BY <2>1, TreesAre DEF CallInv, Trees
<1>2. ~HasEntry(at, record)
  BY EntryAdded DEF HasEntry
<1>3. ASSUME NEW t \in Trees, NEW r \in Records, HasEntry(t, r)
      PROVE  HasEntry(t, r)'
  <2>1. EntryKey(t, r) \in DOMAIN trees[t] /\ trees[t][EntryKey(t, r)] = EntryValue(t, r)
    BY <1>3 DEF HasEntry
  <2>2. EntryKey(t, r) \in DOMAIN trees'[t] /\ trees'[t][EntryKey(t, r)] = EntryValue(t, r)
    BY <2>1, EntryAdded
  <2>3. QED
    BY <2>2 DEF HasEntry, EntryKey, EntryValue
<1>4. ASSUME NEW t \in Trees, NEW r \in Records, t = at, r = record
      PROVE  HasEntry(t, r)'
  BY <1>4, EntryAdded DEF HasEntry, EntryKey, EntryValue
<1>5. ASSUME NEW t \in Trees, NEW r \in Records, HasEntry(t, r)', ~HasEntry(t, r),
             t = 0 \/ HasEntry(0, r)
      PROVE  t = at /\ r = record
  <2>1. EntryKey(t, r) \in DOMAIN trees'[t] /\ trees'[t][EntryKey(t, r)] = EntryValue(t, r)
    BY <1>5 DEF HasEntry, EntryKey, EntryValue
  <2>2. /\ t = at
        /\ EntryKey(t, r) = EntryKey(t, record) /\ EntryValue(t, r) = EntryValue(t, record)
    BY <1>5, <2>1, EntryAdded DEF HasEntry
  <2>3. CASE t = 0
    <3>1. Key(r) = Key(record) /\ Value(r) = Value(record)
      BY <2>2, <2>3 DEF EntryKey, EntryValue
    <3>2. QED
      BY <1>1, <2>2, <3>1, RecordSplits
  <2>4. CASE t # 0
    <3>1. Key(r) = Key(record)
      BY <2>2, <2>4 DEF EntryValue
    <3>2. HasEntry(0, r) /\ HasEntry(0, record)
      BY <1>1, <1>5, <2>2, <2>4
    <3>3. QED
      BY <1>1, <2>2, <3>1, <3>2, KeyDetermines
  <2>5. QED
    BY <2>3, <2>4
<1>6. QED
  BY <1>2, <1>3, <1>4, <1>5

LEMMA InsertEntryPreserves == TableInv /\ InsertEntry => TableInv'
<1> SUFFICES ASSUME TableInv, InsertEntry PROVE TableInv'
  OBVIOUS
<1>1. /\ at \in Trees /\ at \in Nat /\ record \in Records /\ pc = "insert"
      /\ \A t \in Trees : t < at => HasEntry(t, record)
      /\ at > 0 => \A t \in Trees : t >= at => ~HasEntry(t, record)
  BY TreesAre DEF InsertEntry, TableInv, CallInv
<1>2. /\ acked' = IF at = Len(Skeys) THEN acked \union {record} ELSE acked
      /\ at = Len(Skeys) => pc' = "idle" /\ at' = 0
      /\ at # Len(Skeys) => pc' = "insert" /\ at' = at + 1 /\ record' = record
  BY <1>1 DEF InsertEntry, Proceed, Return, Acknowledge
<1>3. \A t \in Trees, r \in Records : HasEntry(t, r) => HasEntry(t, r)'
  BY OnlyRecordGetsEntry
<1>4. \A t \in Trees, r \in Records : t = at /\ r = record => HasEntry(t, r)'
  BY OnlyRecordGetsEntry
<1>5. \A t \in Trees, r \in Records :
         /\ HasEntry(t, r)' /\ ~HasEntry(t, r)
         /\ t = 0 \/ HasEntry(0, r)
         => t = at /\ r = record
  BY OnlyRecordGetsEntry
<1>6. \A t \in Trees : t >= at => ~HasEntry(t, record)
  <2>1. CASE at > 0
    BY <1>1, <2>1
  <2>2. CASE at = 0
    <3>1. Key(record) \notin DOMAIN trees[0]
      BY <2>2, EntryAdded DEF EntryKey
    <3>2. ASSUME NEW t \in Indices, HasEntry(t, record) PROVE FALSE
      <4>1. /\ Skey(t, record) \in DOMAIN trees[t]
            /\ trees[t][Skey(t, record)] = Key(record)
        BY <3>2, TreesAre DEF HasEntry, EntryKey, EntryValue
      <4>2. PICK r \in Records : HasEntry(0, r) /\ Key(record) = Key(r)
        BY <4>1 DEF TableInv, TreesInv
      <4>3. QED
        BY <3>1, <4>2 DEF HasEntry, EntryKey
    <3>3. QED
      BY <2>2, <3>2, OnlyRecordGetsEntry, TreesAre
  <2>3. QED
    BY <1>1, <2>1, <2>2
<1>7. \A t \in Trees, r \in Records : t > at /\ r = record => ~HasEntry(t, r)'
  <2> SUFFICES ASSUME NEW t \in Trees, NEW r \in Records,
                      t > at, r = record, HasEntry(t, r)'
               PROVE  FALSE
    OBVIOUS
  <2>1. t \in Nat /\ t # 0 /\ t # at /\ t >= at
    BY <1>1, TreesAre
  <2>2. trees'[t] = trees[t]
    BY <2>1, EntryAdded
  <2>3. HasEntry(t, r)
    BY <2>2 DEF HasEntry
  <2>4. QED
    BY <1>6, <2>1, <2>3
<1>8. TreesInv'
  <2>1. ASSUME NEW k \in DOMAIN trees'[0]
        PROVE  \E r \in Records : k = Key(r) /\ HasEntry(0, r)'
    <3>1. CASE k \in DOMAIN trees[0]
      BY <1>3, <3>1, TreesAre DEF TableInv, TreesInv
    <3>2. CASE k \notin DOMAIN trees[0]
      <4>1. at = 0 /\ k = Key(record)
        BY <2>1, <3>2, EntryAdded, TreesAre DEF EntryKey
      <4>2. QED
        BY <1>1, <1>4, <4>1
    <3>3. QED
      BY <3>1, <3>2
  <2>2. ASSUME NEW i \in Indices, NEW k \in DOMAIN trees'[i]
        PROVE  \E r \in Records : /\ HasEntry(0, r)'
                                  /\ k = Skey(i, r) /\ trees'[i][k] = Key(r)
    <3>1. CASE k \in DOMAIN trees[i]
      <4>1. trees'[i][k] = trees[i][k]
        BY <3>1, EntryAdded, TreesAre
      <4>2. QED
        BY <1>3, <3>1, <4>1, TreesAre DEF TableInv, TreesInv
    <3>2. CASE k \notin DOMAIN trees[i]
      <4>1. i = at /\ k = EntryKey(at, record) /\ trees'[i][k] = EntryValue(at, record)
        BY <2>2, <3>2, EntryAdded, TreesAre
      <4>2. k = Skey(i, record) /\ trees'[i][k] = Key(record)
        BY <4>1, TreesAre DEF EntryKey, EntryValue
      <4>3. HasEntry(0, record)
        BY <1>1, <4>1, TreesAre DEF Trees
      <4>4. QED
        BY <1>1, <1>3, <4>2, <4>3, TreesAre
    <3>3. QED
      BY <3>1, <3>2
  <2>3. QED
    BY <2>1, <2>2, EntryAdded DEF TreesInv
<1>9. CallInv'
  <2>1. CASE at = Len(Skeys)
    BY <1>2, <2>1, TreesAre DEF CallInv
  <2>2. CASE at # Len(Skeys)
    <3>1. at' \in Trees /\ at' > 0
      BY <1>1, <1>2, <2>2, TreesAre DEF Trees
    <3>2. \A t \in Trees, r \in Records : t < at + 1 /\ r = record => HasEntry(t, r)'
      BY <1>1, <1>3, <1>4, TreesAre
    <3>3. \A t \in Trees, r \in Records : t >= at + 1 /\ r = record => ~HasEntry(t, r)'
      BY <1>1, <1>7, TreesAre
    <3>4. QED
      BY <1>1, <1>2, <2>2, <3>1, <3>2, <3>3 DEF CallInv
  <2>3. QED
    BY <2>1, <2>2
<1>10. HistoryInv'
  <2>1. ASSUME NEW r \in acked' PROVE r \in Records /\ Complete(r)'
    <3>1. CASE r \in acked
      BY <1>3, <3>1 DEF TableInv, HistoryInv, Complete
    <3>2. CASE r \notin acked
      <4>1. r = record /\ at = Len(Skeys)
        BY <1>2, <3>2
      <4>2. \A t \in Trees : HasEntry(t, r)'
        BY <1>1, <1>3, <1>4, <4>1, TreesAre DEF Trees
      <4>3. QED
        BY <1>1, <4>1, <4>2 DEF Complete
    <3>3. QED
      BY <3>1, <3>2
  <2>2. ASSUME NEW r \in Records, Complete(r)' PROVE r \in acked'
    <3>1. \A t \in Trees : HasEntry(t, r)'
      BY <2>2 DEF Complete
    <3>2. CASE Complete(r)
      BY <1>2, <3>2 DEF TableInv, HistoryInv
    <3>3. CASE ~Complete(r)
      <4>1. r = record
        <5>1. CASE HasEntry(0, r)
          BY <1>5, <3>1, <3>3, <5>1 DEF Complete
        <5>2. CASE ~HasEntry(0, r)
          BY <1>5, <3>1, <5>2, TreesAre
        <5>3. QED
          BY <5>1, <5>2
      <4>2. at = Len(Skeys)
        BY <1>1, <1>7, <3>1, <4>1, TreesAre DEF Trees
      <4>3. QED
        BY <1>2, <4>1, <4>2
    <3>4. QED
      BY <3>2, <3>3
  <2>3. QED
    BY <2>1, <2>2 DEF HistoryInv
<1>11. QED
  BY <1>8, <1>9, <1>10 DEF TableInv

-----------------------------------------------------------------------------
(* The theorems.                                                           *)

\* The steps of the executors.
ExecutorStep ==
    \/ AtEnd \/ IterNextFails \/ LookupFails
    \/ \E k \in left : WhileEnds(k) \/ ScanTuple(k) \/ ScanEntry(k)
    \/ \E k \in DOMAIN trees[0] : LookupRow(k)

\* Executors read trees only.
LEMMA ExecutorsPreserve == TableInv /\ ExecutorStep => TableInv'
<1> SUFFICES ASSUME TableInv, ExecutorStep PROVE TableInv'
  OBVIOUS
<1>1. UNCHANGED <<trees, acked>> /\ pc \in {"next", "lookup"}
  BY DEF ExecutorStep, AtEnd, WhileEnds, ScanTuple, ScanEntry, IterNextFails, LookupRow,
         LookupFails, IterNext, tableVars
<1>2. at = 0
  BY <1>1 DEF TableInv, CallInv
<1>3. at' = 0 /\ pc' \in {"idle", "next", "lookup"}
  <2>1. ASSUME NEW tuple, Yield(tuple) PROVE at' = 0 /\ pc' \in {"idle", "next"}
    BY <1>2, <2>1 DEF Yield, ReturnRow, Return
  <2>2. CASE AtEnd \/ IterNextFails \/ LookupFails
    BY <2>2 DEF AtEnd, IterNextFails, LookupFails, ReturnNone, Return
  <2>3. ASSUME NEW k, WhileEnds(k) PROVE at' = 0 /\ pc' \in {"idle", "next"}
    BY <2>3 DEF WhileEnds, ReturnNone, Return
  <2>4. ASSUME NEW k, ScanTuple(k) \/ LookupRow(k) PROVE at' = 0 /\ pc' \in {"idle", "next"}
    BY <2>1, <2>4 DEF ScanTuple, LookupRow
  <2>5. ASSUME NEW k, ScanEntry(k) PROVE at' = 0 /\ pc' = "lookup"
    BY <1>2, <2>5 DEF ScanEntry, tableVars
  <2>6. QED
    BY <2>2, <2>3, <2>4, <2>5 DEF ExecutorStep
<1>4. QED
  BY <1>1, <1>3, QuietPreserves

LEMMA TableInvPreserved == TableInv /\ [QueryNext]_vars => TableInv'
<1> SUFFICES ASSUME TableInv, [QueryNext]_vars PROVE TableInv'
  OBVIOUS
<1>1. CASE CreateTree \/ CreateFails \/ InsertEntry
  BY <1>1, CreateTreePreserves, CreateFailsPreserves, InsertEntryPreserves
<1>2. CASE RejectDuplicate \/ InsertFails
  BY <1>2, RefusedPreserves
<1>3. CASE ExecutorStep
  BY <1>3, ExecutorsPreserve
<1>4. CASE BeginCreate \/ BeginInsert
  BY <1>4, BeginCreatePreserves, BeginInsertPreserves
<1>5. CASE (\E p \in Plans : Start(p)) \/ StartFails \/ Close \/ BeginNext
  <2>1. UNCHANGED tableVars /\ pc = "idle" /\ pc' \in {"idle", "next"}
    BY <1>5 DEF Start, StartFails, Close, BeginNext
  <2>2. UNCHANGED <<trees, acked>> /\ at' = 0
    BY <2>1 DEF tableVars, TableInv, CallInv
  <2>3. QED
    BY <2>1, <2>2, QuietPreserves
<1>6. CASE UNCHANGED vars
  <2>1. /\ trees' = trees /\ at' = at /\ record' = record /\ pc' = pc
        /\ acked' = acked
    BY <1>6 DEF vars, tableVars
  <2>2. QED
    BY <2>1 DEF TableInv, TreesInv, CallInv, HistoryInv, Complete, HasEntry
<1>7. QED
  BY <1>1, <1>2, <1>3, <1>4, <1>5, <1>6 DEF QueryNext, CallStep, ExecutorStep

LEMMA TableInvInitially == QueryInit => TableInv
<1> SUFFICES ASSUME TableInit PROVE TableInv
  BY DEF QueryInit
<1>1. DOMAIN EmptyTree = {}
  BY DEF EmptyTree
<1>2. DOMAIN trees = Trees /\ \A t \in Trees : DOMAIN trees[t] = {}
  BY <1>1 DEF TableInit
<1>3. TreesInv
  BY <1>2, TreesAre DEF TreesInv
<1>4. CallInv
  BY <1>2, TreesAre DEF TableInit, CallInv
<1>5. HistoryInv
  BY <1>2, TreesAre DEF TableInit, HistoryInv, HasEntry
<1>6. QED
  BY <1>3, <1>4, <1>5 DEF TableInv

LEMMA TableInvariant == QuerySpec => []TableInv
BY TableInvInitially, TableInvPreserved, PTL DEF QuerySpec

\* IndexScan finds the row that an entry of an index refers to, for any
\* records, indexes and plans, whatever inserts were rejected or failed.
THEOREM EntriesAlwaysPointToRows == QuerySpec => []EntriesPointToRows
<1>1. TableInv => EntriesPointToRows
  BY RowsAreRecords DEF TableInv, TreesInv, EntriesPointToRows
<1>2. QED
  BY <1>1, TableInvariant, PTL

\* An insert has returned Ok for exactly the rows that are in every tree.
THEOREM AckedAreComplete == QuerySpec => []AckedIffComplete
<1>1. TableInv => AckedIffComplete
  <2> SUFFICES ASSUME TableInv
               PROVE  acked = {r \in Rows : Complete(r)}
    BY DEF AckedIffComplete
  <2>1. Rows = {r \in Records : HasEntry(0, r)}
    BY RowsAreRecords DEF TableInv
  <2>2. ASSUME NEW r \in acked PROVE r \in Rows /\ Complete(r)
    BY <2>1, TreesAre DEF TableInv, HistoryInv, Complete
  <2>3. ASSUME NEW r \in Rows, Complete(r) PROVE r \in acked
    BY <2>1, <2>3 DEF TableInv, HistoryInv
  <2>4. QED
    BY <2>2, <2>3
<1>2. QED
  BY <1>1, TableInvariant, PTL

\* The columns of each index are unique among the records whose insert returned
\* Ok, whatever inserts were rejected or failed between.
THEOREM AckedAreUnique == QuerySpec => []AckedUnique
<1>1. TableInv => AckedUnique
  <2> SUFFICES ASSUME TableInv, NEW r \in acked, NEW s \in acked,
                      NEW i \in Indices, Skey(i, r) = Skey(i, s)
               PROVE  r = s
    BY DEF AckedUnique
  <2>1. /\ r \in Records /\ HasEntry(0, r) /\ HasEntry(i, r)
        /\ s \in Records /\ HasEntry(0, s) /\ HasEntry(i, s)
    BY TreesAre DEF TableInv, HistoryInv, Complete
  <2>2. Key(r) = Key(s)
    BY <2>1, TreesAre DEF HasEntry, EntryKey, EntryValue
  <2>3. QED
    BY <2>1, <2>2, KeyDetermines
<1>2. QED
  BY <1>1, TableInvariant, PTL


-----------------------------------------------------------------------------
(* The executors.                                                          *)

\* An iterator has keys of its tree left, an entry that is looked up is one of
\* the index and passes while_cond, and rows are given up before trees change.
ExecutorInv ==
    /\ plan \in Plans \/ plan = NoPlan
    /\ pc \in {"none", "create"} => plan = NoPlan
    /\ plan = NoPlan => row = NoRow /\ pc \notin {"next", "lookup"}
    /\ pc \in {"insert", "next", "lookup"} => row = NoRow
    /\ left \subseteq DOMAIN Scanned
    /\ pc = "lookup" => /\ entry \in DOMAIN Scanned /\ entry \in plan.while
                        /\ plan.kind = "IndexScan"
    /\ RowsQualify

-----------------------------------------------------------------------------
\* No key comes before itself.
LEMMA NotBeforeItself ==
    ASSUME NEW s \in Seq(Nat)
    PROVE  ~NumbersLess(s, s)
<1>1. Len(s) \in Nat /\ \A i \in 1 .. Len(s) : s[i] \in Nat
  BY LenProperties, ElementOfSeq
<1>2. QED
  BY <1>1 DEF NumbersLess, Precedes

\* Primary keys are sequences of column values.
LEMMA KeyIsSeq ==
    ASSUME NEW r \in Records
    PROVE  Key(r) \in Seq(Nat)
<1>1. /\ r \in Seq(Nat) /\ NumKeyElems \in Nat /\ NumKeyElems <= Len(r)
      /\ Len(r) \in Nat
  BY TableAssumption, LenProperties
<1>2. \A i \in 1 .. NumKeyElems : r[i] \in Nat
  BY <1>1, ElementOfSeq
<1>3. QED
  BY <1>1, <1>2, SubSeqProperties DEF Key

LEMMA PlanTree ==
    ASSUME plan \in Plans \/ plan = NoPlan
    PROVE  /\ plan.tree \in Trees
           /\ plan \in Plans /\ plan.kind = "IndexScan" => plan.tree \in Indices
BY QueryAssumption, TreesAre DEF NoPlan

\* The search in the table that ExecIndexScan makes ends at the row itself.
LEMMA LookupFindsRow ==
    ASSUME TableInv, ExecutorInv, NEW k, LookupRow(k)
    PROVE  /\ k = Scanned[entry]
           /\ k \o trees[0][k] = TupleOf(plan, entry)
<1>1. /\ pc = "lookup" /\ plan \in Plans /\ plan.kind = "IndexScan"
      /\ entry \in DOMAIN Scanned
      /\ LeastIn(k, From(DOMAIN trees[0], Scanned[entry]))
  BY DEF LookupRow, ExecutorInv
<1>2. PICK r \in Records : HasEntry(0, r) /\ Scanned[entry] = Key(r)
  BY <1>1, PlanTree DEF TableInv, TreesInv, Scanned
<1>3. Scanned[entry] \in From(DOMAIN trees[0], Scanned[entry])
  BY <1>2, KeyIsSeq, NotBeforeItself DEF HasEntry, EntryKey, From
<1>4. k = Scanned[entry]
  BY <1>1, <1>3 DEF LeastIn, From
<1>5. QED
  BY <1>1, <1>4 DEF TupleOf, Scanned

-----------------------------------------------------------------------------
(* Each step preserves the invariant.                                      *)

\* The filter returns a row that qualifies, or none.
LEMMA YieldPreserves ==
    ASSUME NEW tuple, ExecutorInv, Yield(tuple), UNCHANGED trees,
           pc \in {"next", "lookup"}, left' \subseteq left,
           \E k \in plan.while : k \in DOMAIN Scanned /\ tuple = TupleOf(plan, k)
    PROVE  ExecutorInv'
<1>1. /\ plan' = plan /\ plan \in Plans /\ row = NoRow
      /\ left \subseteq DOMAIN Scanned
      /\ \/ pc' = "idle" /\ row' = tuple /\ tuple \in plan.cond
         \/ pc' = "next" /\ row' = row
  BY DEF ExecutorInv, Yield, ReturnRow, Return
<1>2. plan # NoPlan
  BY DEF ExecutorInv
<1>3. Scanned' = Scanned /\ \A k : TupleOf(plan, k)' = TupleOf(plan, k)
  BY <1>1 DEF Scanned, TupleOf
<1>4. RowsQualify'
  BY <1>1, <1>3 DEF RowsQualify
<1>5. QED
  BY <1>1, <1>2, <1>3, <1>4 DEF ExecutorInv

\* A step of the executor that returns no row.
LEMMA NoRowPreserves ==
    ASSUME ExecutorInv, UNCHANGED <<trees, plan>>, plan # NoPlan, row' = NoRow,
           pc' \in {"idle", "next", "insert"}, left' \subseteq left
    PROVE  ExecutorInv'
<1>1. Scanned' = Scanned
  BY DEF Scanned
<1>2. QED
  BY <1>1 DEF ExecutorInv, RowsQualify

LEMMA ExecutorStepPreserves == TableInv /\ ExecutorInv /\ ExecutorStep => ExecutorInv'
<1> SUFFICES ASSUME TableInv, ExecutorInv, ExecutorStep PROVE ExecutorInv'
  OBVIOUS
<1>1. /\ trees' = trees /\ pc \in {"next", "lookup"} /\ plan # NoPlan /\ row = NoRow
      /\ left' \subseteq left
  BY DEF ExecutorStep, AtEnd, WhileEnds, ScanTuple, ScanEntry, IterNextFails, LookupRow,
         LookupFails, IterNext, tableVars, ExecutorInv
<1>2. CASE AtEnd \/ IterNextFails \/ LookupFails
  <2>1. plan' = plan /\ row' = NoRow /\ pc' = "idle"
    BY <1>1, <1>2 DEF AtEnd, IterNextFails, LookupFails, ReturnNone, Return
  <2>2. QED
    BY <1>1, <2>1, NoRowPreserves
<1>3. ASSUME NEW k \in left, WhileEnds(k) PROVE ExecutorInv'
  <2>1. plan' = plan /\ row' = NoRow /\ pc' = "idle"
    BY <1>3 DEF WhileEnds, ReturnNone, Return
  <2>2. QED
    BY <1>1, <2>1, NoRowPreserves
<1>4. ASSUME NEW k \in left, ScanTuple(k) PROVE ExecutorInv'
  <2>1. k \in DOMAIN Scanned /\ k \in plan.while /\ Yield(TupleOf(plan, k))
    BY <1>4 DEF ScanTuple, ExecutorInv
  <2>2. QED
    BY <1>1, <2>1, YieldPreserves
<1>5. ASSUME NEW k \in left, ScanEntry(k) PROVE ExecutorInv'
  <2>1. /\ plan' = plan /\ row' = row /\ pc' = "lookup" /\ entry' = k
        /\ k \in plan.while /\ plan.kind = "IndexScan"
    BY <1>5 DEF ScanEntry
  <2>2. Scanned' = Scanned /\ k \in DOMAIN Scanned /\ left \subseteq DOMAIN Scanned
    BY <1>1, <1>5, <2>1 DEF Scanned, ExecutorInv
  <2>3. QED
    BY <1>1, <2>1, <2>2 DEF ExecutorInv, RowsQualify
<1>6. ASSUME NEW k \in DOMAIN trees[0], LookupRow(k) PROVE ExecutorInv'
  <2>1. /\ Yield(k \o trees[0][k]) /\ k \o trees[0][k] = TupleOf(plan, entry)
        /\ entry \in plan.while /\ entry \in DOMAIN Scanned
    BY <1>6, LookupFindsRow DEF LookupRow, ExecutorInv
  <2>2. QED
    BY <1>1, <2>1, YieldPreserves
<1>7. QED
  BY <1>2, <1>3, <1>4, <1>5, <1>6 DEF ExecutorStep

\* Inserts and create: no row is kept while trees change.
LEMMA TableStepPreserves ==
    ASSUME TableInv, ExecutorInv,
           \/ (CreateTree \/ CreateFails \/ RejectDuplicate \/ InsertFails) /\ UNCHANGED iterVars
           \/ InsertEntry /\ Disturb
    PROVE  ExecutorInv'
<1>1. row' = NoRow /\ plan' = plan /\ pc \in {"create", "insert"}
  BY DEF CreateTree, CreateFails, RejectDuplicate, InsertFails, InsertEntry, Disturb,
         iterVars, ExecutorInv
<1>2. /\ pc = "create" => pc' \in {"create", "idle", "none"}
      /\ pc = "insert" => pc' \in {"insert", "idle"}
  BY DEF CreateTree, CreateFails, RejectDuplicate, InsertFails, InsertEntry, Return, Proceed
<1>3. plan.tree \in Trees
  BY PlanTree DEF ExecutorInv
<1>4. left' \subseteq DOMAIN trees'[plan.tree]
  <2>1. CASE (CreateTree \/ CreateFails) /\ UNCHANGED iterVars
    <3>1. left' = left /\ left \subseteq DOMAIN trees[plan.tree] /\ pc = "create"
      BY <2>1 DEF CreateTree, CreateFails, iterVars, ExecutorInv, Scanned
    <3>2. DOMAIN trees[plan.tree] = {}
      BY <1>3, <3>1 DEF TableInv, CallInv
    <3>3. QED
      BY <3>1, <3>2
  <2>2. CASE (RejectDuplicate \/ InsertFails) /\ UNCHANGED iterVars
    <3>1. trees' = trees /\ left' = left
      BY <2>2 DEF RejectDuplicate, InsertFails, iterVars
    <3>2. QED
      BY <3>1 DEF ExecutorInv, Scanned
  <2>3. CASE InsertEntry /\ Disturb
    <3>1. CASE plan # NoPlan /\ at = plan.tree
      BY <2>3, <3>1 DEF Disturb, From
    <3>2. CASE ~(plan # NoPlan /\ at = plan.tree)
      <4>1. left' = left /\ left \subseteq DOMAIN trees[plan.tree]
        BY <2>3, <3>2 DEF Disturb, iterVars, ExecutorInv, Scanned
      <4>2. DOMAIN trees[plan.tree] \subseteq DOMAIN trees'[plan.tree]
        BY <1>3, <2>3, EntryAdded
      <4>3. QED
        BY <4>1, <4>2
    <3>3. QED
      BY <3>1, <3>2
  <2>4. QED
    BY <2>1, <2>2, <2>3
<1>5. left' \subseteq DOMAIN Scanned'
  BY <1>1, <1>4 DEF Scanned
<1>6. QED
  BY <1>1, <1>2, <1>5 DEF ExecutorInv, RowsQualify

LEMMA ExecutorInvPreserved ==
    TableInv /\ ExecutorInv /\ [QueryNext]_vars => ExecutorInv'
<1> SUFFICES ASSUME TableInv, ExecutorInv, [QueryNext]_vars PROVE ExecutorInv'
  OBVIOUS
<1>1. CASE \/ (CreateTree \/ CreateFails \/ RejectDuplicate \/ InsertFails) /\ UNCHANGED iterVars
           \/ InsertEntry /\ Disturb
  BY <1>1, TableStepPreserves
<1>2. CASE ExecutorStep
  BY <1>2, ExecutorStepPreserves
<1>3. CASE BeginCreate /\ UNCHANGED iterVars
  <2>1. /\ trees' = trees /\ pc = "none" /\ pc' = "create"
        /\ plan' = plan /\ left' = left /\ row' = row
    BY <1>3 DEF BeginCreate, tableVars, iterVars
  <2>2. QED
    BY <2>1 DEF ExecutorInv, RowsQualify, Scanned
<1>4. CASE BeginInsert /\ row' = NoRow /\ UNCHANGED <<plan, left, gap, entry, todo, fresh>>
  <2>1. trees' = trees /\ pc' = "insert" /\ plan' = plan /\ left' = left
    BY <1>4 DEF BeginInsert
  <2>2. QED
    BY <1>4, <2>1 DEF ExecutorInv, RowsQualify, Scanned
<1>5. ASSUME NEW p \in Plans, Start(p) PROVE ExecutorInv'
  <2>1. /\ trees' = trees /\ pc = "idle" /\ pc' = pc /\ plan' = p
        /\ left' = From(DOMAIN trees[p.tree], p.from) /\ row' = NoRow
    BY <1>5 DEF Start, tableVars, ExecutorInv
  <2>2. left' \subseteq DOMAIN Scanned'
    BY <2>1 DEF From, Scanned
  <2>3. QED
    BY <2>1, <2>2 DEF ExecutorInv, RowsQualify
<1>6. CASE StartFails
  <2>1. trees' = trees /\ pc' = pc /\ pc = "idle" /\ plan' = plan /\ left' = left /\ row' = row
        /\ plan = NoPlan
    BY <1>6 DEF StartFails, tableVars, iterVars
  <2>2. QED
    BY <2>1 DEF ExecutorInv, RowsQualify, Scanned
<1>7. CASE Close
  <2>1. pc' = "idle" /\ plan' = NoPlan /\ left' = {} /\ row' = NoRow
    BY <1>7 DEF Close
  <2>2. QED
    BY <2>1 DEF ExecutorInv, RowsQualify
<1>8. CASE BeginNext
  <2>1. UNCHANGED <<trees, plan>> /\ plan # NoPlan /\ row' = NoRow /\ pc' = "next" /\ left' = left
    BY <1>8 DEF BeginNext, tableVars
  <2>2. QED
    BY <2>1, NoRowPreserves
<1>9. CASE UNCHANGED vars
  <2>1. /\ trees' = trees /\ pc' = pc /\ plan' = plan /\ left' = left /\ row' = row
        /\ entry' = entry
    BY <1>9 DEF vars, tableVars, iterVars
  <2>2. QED
    BY <2>1 DEF ExecutorInv, RowsQualify, Scanned, TupleOf
<1>10. QED
  BY <1>1, <1>2, <1>3, <1>4, <1>5, <1>6, <1>7, <1>8, <1>9
     DEF QueryNext, CallStep, ExecutorStep

LEMMA ExecutorInvInitially == QueryInit => ExecutorInv
BY DEF QueryInit, TableInit, ExecutorInv, RowsQualify

\* Every row that an executor returns is in the table, as its index says, has
\* passed the filter, and its key while_cond, for any table and plans, whatever
\* is inserted between two calls and whatever fails.
THEOREM RowsAlwaysQualify == QuerySpec => []RowsQualify
<1>1. ExecutorInv => RowsQualify
  BY DEF ExecutorInv
<1>2. QED
  BY <1>1, ExecutorInvInitially, ExecutorInvPreserved, TableInvariant, PTL DEF QuerySpec

-----------------------------------------------------------------------------
(* Answers.                                                                *)

\* The keys whose rows are still to come, those that are returned among them.
Coming == IF pc = "lookup" THEN left \union {entry} ELSE left
Wanted(S) ==
    {k \in S : /\ \A x \in S : NumbersLess(k, x) \/ x \in plan.while
               /\ TupleOf(plan, k) \in plan.cond}

\* Undisturbed, what the iterator has left and what is looked up make up the rest
\* of the answer; an entry that is looked up comes before what is left.
AnswerInv ==
    /\ fresh => /\ plan # NoPlan /\ ~gap
                /\ todo = [k \in Wanted(Coming) |-> TupleOf(plan, k)]
    /\ pc = "lookup" => \A x \in left : NumbersLess(entry, x)
    /\ pc \in {"next", "lookup"} => result = "none"

-----------------------------------------------------------------------------
\* Keys are sequences of column values.
LEMMA KeysAreSeqs ==
    ASSUME TableInv, NEW t \in Trees, NEW k \in DOMAIN trees[t]
    PROVE  k \in Seq(Nat)
<1>1. CASE t = 0
  BY <1>1, KeyIsSeq DEF TableInv, TreesInv
<1>2. CASE t # 0
  <2>1. t \in Indices
    BY <1>2, TreesAre
  <2>2. PICK r \in Records : k = Skey(t, r)
    BY <2>1 DEF TableInv, TreesInv
  <2>3. Skeys[t] \in Seq(Nat)
    BY <2>1, TableAssumption, ElementOfSeq DEF Indices
  <2>4. DOMAIN Skeys[t] = 1 .. Len(Skeys[t]) /\ Len(Skeys[t]) \in Nat
    BY <2>3, LenProperties
  <2>5. \A c \in DOMAIN Skeys[t] : Skeys[t][c] \in DOMAIN r
    BY <2>1, TableAssumption
  <2>6. r \in Seq(Nat) /\ \A i \in DOMAIN r : r[i] \in Nat
    BY TableAssumption, ElementOfSeq, LenProperties
  <2>7. Skey(t, r) \in [1 .. Len(Skeys[t]) -> Nat]
    BY <2>4, <2>5, <2>6 DEF Skey
  <2>8. QED
    BY <2>2, <2>4, <2>7, SeqDef
<1>3. QED
  BY <1>1, <1>2

\* Of two keys at most one comes before the other.
LEMMA NotBothBefore ==
    ASSUME NEW s \in Seq(Nat), NEW t \in Seq(Nat), NumbersLess(s, t), NumbersLess(t, s)
    PROVE  FALSE
<1>1. /\ Len(s) \in Nat /\ \A i \in 1 .. Len(s) : s[i] \in Nat
      /\ Len(t) \in Nat /\ \A i \in 1 .. Len(t) : t[i] \in Nat
  BY LenProperties, ElementOfSeq
<1>2. PICK i \in 1 .. Len(t) : /\ \A j \in 1 .. i - 1 : j <= Len(s) /\ s[j] = t[j]
                               /\ i > Len(s) \/ s[i] < t[i]
  BY DEF NumbersLess, Precedes
<1>3. PICK j \in 1 .. Len(s) : /\ \A l \in 1 .. j - 1 : l <= Len(t) /\ t[l] = s[l]
                               /\ j > Len(t) \/ t[j] < s[j]
  BY DEF NumbersLess, Precedes
<1>4. CASE i < j
  <2>1. i \in 1 .. j - 1 /\ i \in 1 .. Len(s)
    BY <1>1, <1>4
  <2>2. t[i] = s[i] /\ ~(i > Len(s)) /\ s[i] \in Nat
    BY <1>1, <1>3, <2>1
  <2>3. QED
    BY <1>2, <2>2
<1>5. CASE j < i
  <2>1. j \in 1 .. i - 1 /\ j \in 1 .. Len(t)
    BY <1>1, <1>5
  <2>2. s[j] = t[j] /\ ~(j > Len(t)) /\ t[j] \in Nat
    BY <1>1, <1>2, <2>1
  <2>3. QED
    BY <1>3, <2>2
<1>6. CASE i = j
  <2>1. ~(i > Len(s)) /\ ~(j > Len(t)) /\ s[i] \in Nat /\ t[i] \in Nat
    BY <1>1, <1>6
  <2>2. s[i] < t[i] /\ t[i] < s[i]
    BY <1>2, <1>3, <1>6, <2>1
  <2>3. QED
    BY <2>1, <2>2
<1>7. QED
  BY <1>1, <1>4, <1>5, <1>6

\* The rows behind the next one are those of the other keys.
LEMMA RestIs ==
    ASSUME NEW rows, DOMAIN rows \subseteq Seq(Nat),
           NEW k, LeastIn(k, DOMAIN rows)
    PROVE  Rest(rows) = [x \in DOMAIN rows \ {k} |-> rows[x]]
<1>1. ASSUME NEW x \in DOMAIN rows, LeastIn(x, DOMAIN rows), x # k
      PROVE  FALSE
  <2>1. NumbersLess(x, k) /\ NumbersLess(k, x)
    BY <1>1 DEF LeastIn
  <2>2. x \in Seq(Nat) /\ k \in Seq(Nat)
    BY DEF LeastIn
  <2>3. QED
    BY <2>1, <2>2, NotBothBefore
<1>2. {x \in DOMAIN rows : ~LeastIn(x, DOMAIN rows)} = DOMAIN rows \ {k}
  BY <1>1
<1>3. QED
  BY <1>2 DEF Rest

\* What is wanted of keys, the least of which passes while_cond.
LEMMA WantedOfLeast ==
    ASSUME NEW S, NEW k, LeastIn(k, S), k \in plan.while
    PROVE  /\ Wanted(S \ {k}) = Wanted(S) \ {k}
           /\ TupleOf(plan, k) \in plan.cond => LeastIn(k, Wanted(S))
           /\ TupleOf(plan, k) \notin plan.cond => k \notin Wanted(S)
<1>1. k \in S /\ \A x \in S \ {k} : NumbersLess(k, x)
  BY DEF LeastIn
<1>2. Wanted(S \ {k}) = Wanted(S) \ {k}
  BY DEF Wanted
<1>3. TupleOf(plan, k) \in plan.cond => k \in Wanted(S)
  BY <1>1 DEF Wanted
<1>4. Wanted(S) \subseteq S
  BY DEF Wanted
<1>5. QED
  BY <1>1, <1>2, <1>3, <1>4 DEF LeastIn, Wanted

\* Behind a key that fails while_cond nothing is wanted.
LEMMA WantedBehindEnd ==
    ASSUME NEW S, S \subseteq Seq(Nat), NEW k, LeastIn(k, S), k \notin plan.while
    PROVE  Wanted(S) = {}
<1> SUFFICES ASSUME NEW x \in Wanted(S) PROVE FALSE
  OBVIOUS
<1>1. k \in S /\ \A y \in S \ {k} : NumbersLess(k, y)
  BY DEF LeastIn
<1>2. x \in S /\ NumbersLess(x, k)
  BY <1>1 DEF Wanted
<1>3. x \in Seq(Nat) /\ k \in Seq(Nat)
  BY <1>1, <1>2
<1>4. QED
  BY <1>1, <1>2, <1>3, NotBothBefore, NotBeforeItself

LEMMA ComingAreSeqs ==
    ASSUME TableInv, ExecutorInv
    PROVE  Coming \subseteq DOMAIN Scanned /\ Coming \subseteq Seq(Nat)
<1>1. Coming \subseteq DOMAIN Scanned
  BY DEF Coming, ExecutorInv
<1>2. plan.tree \in Trees
  BY PlanTree DEF ExecutorInv
<1>3. QED
  BY <1>1, <1>2, KeysAreSeqs DEF Scanned

-----------------------------------------------------------------------------
(* Each step keeps to the answer.                                          *)

\* The filter returns the next row of the answer, or passes over a row that is
\* none of it.
LEMMA YieldAnswers ==
    ASSUME TableInv, ExecutorInv, AnswerInv, NEW k,
           LeastIn(k, Coming), k \in plan.while, left' = Coming \ {k},
           Yield(TupleOf(plan, k)), UNCHANGED <<trees, gap>>, pc \in {"next", "lookup"}
    PROVE  AnswerInv' /\ AnswersExact
<1>1. plan' = plan /\ fresh' = fresh /\ pc' \in {"idle", "next"} /\ result = "none"
  BY DEF Yield, ReturnRow, Return, AnswerInv
<1>2. \A x : TupleOf(plan, x)' = TupleOf(plan, x)
  BY <1>1 DEF TupleOf
<1>3. Coming' = Coming \ {k}
  BY <1>1 DEF Coming
<1>4. Wanted(Coming)' = Wanted(Coming \ {k})
  BY <1>1, <1>2, <1>3 DEF Wanted
<1>5. Wanted(Coming)' = Wanted(Coming) \ {k}
  BY <1>4, WantedOfLeast
<1>6. fresh => /\ plan # NoPlan /\ ~gap
               /\ todo = [x \in Wanted(Coming) |-> TupleOf(plan, x)]
               /\ DOMAIN todo = Wanted(Coming)
  BY DEF AnswerInv
<1>7. CASE TupleOf(plan, k) \in plan.cond
  <2>1. row' = TupleOf(plan, k) /\ todo' = Rest(todo) /\ pc' = "idle"
    BY <1>7 DEF Yield, ReturnRow, Return
  <2>2. LeastIn(k, Wanted(Coming)) /\ k \in Wanted(Coming)
    BY <1>7, WantedOfLeast DEF LeastIn
  <2>3. Wanted(Coming) \subseteq Seq(Nat)
    BY ComingAreSeqs DEF Wanted
  <2>4. ASSUME fresh
        PROVE  todo' = [x \in Wanted(Coming)' |-> TupleOf(plan, x)']
    <3>1. todo' = [x \in Wanted(Coming) \ {k} |-> todo[x]]
      BY <1>6, <2>1, <2>2, <2>3, <2>4, RestIs
    <3>2. \A x \in Wanted(Coming) \ {k} : todo[x] = TupleOf(plan, x)'
      BY <1>2, <1>6, <2>4
    <3>3. QED
      BY <1>5, <3>1, <3>2
  <2>5. AnswerInv'
    BY <1>1, <1>6, <2>1, <2>4 DEF AnswerInv
  <2>6. AnswersExact
    BY <1>6, <2>1, <2>2 DEF AnswersExact
  <2>7. QED
    BY <2>5, <2>6
<1>8. CASE TupleOf(plan, k) \notin plan.cond
  <2>1. pc' = "next" /\ UNCHANGED <<result, todo>>
    BY <1>8 DEF Yield
  <2>2. Wanted(Coming)' = Wanted(Coming)
    <3>1. k \notin Wanted(Coming)
      BY <1>8, WantedOfLeast
    <3>2. QED
      BY <1>5, <3>1
  <2>3. fresh => todo' = [x \in Wanted(Coming)' |-> TupleOf(plan, x)']
    BY <1>2, <1>6, <2>1, <2>2
  <2>4. AnswerInv'
    BY <1>1, <1>6, <2>1, <2>3 DEF AnswerInv
  <2>5. AnswersExact
    BY <1>1, <2>1 DEF AnswersExact
  <2>6. QED
    BY <2>4, <2>5
<1>9. QED
  BY <1>7, <1>8

\* A step after which nothing more is promised.
LEMMA NothingPromised ==
    ASSUME fresh' = FALSE, pc' \notin {"next", "lookup"}
    PROVE  AnswerInv'
BY DEF AnswerInv

LEMMA ExecutorAnswers ==
    TableInv /\ ExecutorInv /\ AnswerInv /\ ExecutorStep => AnswerInv' /\ AnswersExact
<1> SUFFICES ASSUME TableInv, ExecutorInv, AnswerInv, ExecutorStep
             PROVE  AnswerInv' /\ AnswersExact
  OBVIOUS
<1>1. CASE AtEnd
  <2>1. pc = "next" /\ (gap \/ left = {}) /\ pc' = "idle" /\ row' = NoRow /\ fresh' = FALSE
    BY <1>1 DEF AtEnd, ReturnNone, Return
  <2>2. fresh => DOMAIN todo = {}
    BY <2>1 DEF AnswerInv, Coming, Wanted
  <2>3. QED
    BY <2>1, <2>2, NothingPromised DEF AnswersExact
<1>2. CASE IterNextFails
  <2>1. pc' = "idle" /\ result' = "Error" /\ fresh' = FALSE
    BY <1>2 DEF IterNextFails, Return
  <2>2. QED
    BY <2>1, NothingPromised DEF AnswersExact
<1>3. CASE LookupFails
  <2>1. /\ pc = "lookup" /\ pc' = "idle" /\ result' = "Error"
        /\ UNCHANGED <<trees, plan, left, gap, fresh>>
        /\ todo' = IF fresh /\ TupleOf(plan, entry) \in plan.cond THEN Rest(todo) ELSE todo
    BY <1>3 DEF LookupFails, Return
  <2>2. /\ Coming = left \union {entry} /\ Coming' = left
        /\ entry \in Seq(Nat) /\ entry \in plan.while
        /\ \A x \in left : NumbersLess(entry, x)
    BY <2>1, ComingAreSeqs DEF Coming, AnswerInv, ExecutorInv
  <2>3. LeastIn(entry, Coming) /\ Coming \ {entry} = left
    BY <2>2, NotBeforeItself DEF LeastIn
  <2>4. \A x : TupleOf(plan, x)' = TupleOf(plan, x)
    BY <2>1 DEF TupleOf
  <2>5. Wanted(Coming)' = Wanted(Coming \ {entry})
    BY <2>1, <2>2, <2>3, <2>4 DEF Wanted
  <2>6. Wanted(Coming)' = Wanted(Coming) \ {entry}
    BY <2>2, <2>3, <2>5, WantedOfLeast
  <2>7. ASSUME fresh
        PROVE  todo' = [x \in Wanted(Coming)' |-> TupleOf(plan, x)']
    <3>1. todo = [x \in Wanted(Coming) |-> TupleOf(plan, x)] /\ DOMAIN todo = Wanted(Coming)
      BY <2>7 DEF AnswerInv
    <3>2. CASE TupleOf(plan, entry) \in plan.cond
      <4>1. LeastIn(entry, DOMAIN todo)
        BY <2>2, <2>3, <3>1, <3>2, WantedOfLeast
      <4>2. DOMAIN todo \subseteq Seq(Nat)
        BY <3>1, ComingAreSeqs DEF Wanted
      <4>3. todo' = [x \in Wanted(Coming) \ {entry} |-> todo[x]]
        <5>1. todo' = Rest(todo)
          BY <2>1, <2>7, <3>2
        <5>2. Rest(todo) = [x \in DOMAIN todo \ {entry} |-> todo[x]]
          BY <4>1, <4>2, RestIs
        <5>3. QED
          BY <3>1, <5>1, <5>2
      <4>4. \A x \in Wanted(Coming) \ {entry} : todo[x] = TupleOf(plan, x)'
        BY <2>4, <3>1
      <4>5. QED
        BY <2>6, <4>3, <4>4
    <3>3. CASE TupleOf(plan, entry) \notin plan.cond
      <4>1. Wanted(Coming)' = Wanted(Coming)
        <5>1. entry \notin Wanted(Coming)
          BY <2>2, <2>3, <3>3, WantedOfLeast
        <5>2. QED
          BY <2>6, <5>1
      <4>2. QED
        BY <2>1, <2>4, <3>1, <3>3, <4>1
    <3>4. QED
      BY <3>2, <3>3
  <2>8. QED
    BY <2>1, <2>7 DEF AnswerInv, AnswersExact
<1>4. ASSUME NEW k \in left, WhileEnds(k) PROVE AnswerInv' /\ AnswersExact
  <2>1. /\ pc = "next" /\ LeastIn(k, left) /\ k \notin plan.while
        /\ pc' = "idle" /\ row' = NoRow /\ fresh' = FALSE
    BY <1>4 DEF WhileEnds, IterNext, ReturnNone, Return
  <2>2. Coming = left /\ left \subseteq Seq(Nat)
    BY <2>1, ComingAreSeqs DEF Coming
  <2>3. Wanted(Coming) = {}
    BY <2>1, <2>2, WantedBehindEnd
  <2>4. fresh => DOMAIN todo = {}
    BY <2>3 DEF AnswerInv
  <2>5. QED
    BY <2>1, <2>4, NothingPromised DEF AnswersExact
<1>5. ASSUME NEW k \in left, ScanTuple(k) PROVE AnswerInv' /\ AnswersExact
  <2>1. /\ pc = "next" /\ LeastIn(k, left) /\ k \in plan.while /\ left' = left \ {k}
        /\ Yield(TupleOf(plan, k)) /\ UNCHANGED <<trees, gap>>
    BY <1>5 DEF ScanTuple, IterNext
  <2>2. Coming = left
    BY <2>1 DEF Coming
  <2>3. QED
    BY <2>1, <2>2, YieldAnswers
<1>6. ASSUME NEW k \in left, ScanEntry(k) PROVE AnswerInv' /\ AnswersExact
  <2>1. /\ pc = "next" /\ LeastIn(k, left) /\ left' = left \ {k}
        /\ entry' = k /\ pc' = "lookup"
        /\ UNCHANGED <<trees, result, plan, gap, todo, fresh>>
    BY <1>6 DEF ScanEntry, IterNext, tableVars
  <2>2. Coming = left /\ Coming' = left
    BY <1>6, <2>1 DEF Coming
  <2>3. \A x : TupleOf(plan, x)' = TupleOf(plan, x)
    BY <2>1 DEF TupleOf
  <2>4. Wanted(Coming)' = Wanted(Coming)
    BY <2>1, <2>2, <2>3 DEF Wanted
  <2>5. fresh => todo' = [x \in Wanted(Coming)' |-> TupleOf(plan, x)']
    BY <2>1, <2>3, <2>4 DEF AnswerInv
  <2>6. \A x \in left' : NumbersLess(entry', x)
    BY <2>1 DEF LeastIn
  <2>7. result = "none"
    BY <2>1 DEF AnswerInv
  <2>8. QED
    BY <2>1, <2>5, <2>6, <2>7 DEF AnswerInv, AnswersExact
<1>7. ASSUME NEW k \in DOMAIN trees[0], LookupRow(k) PROVE AnswerInv' /\ AnswersExact
  <2>1. /\ pc = "lookup" /\ Yield(TupleOf(plan, entry)) /\ UNCHANGED <<trees, left, gap>>
    BY <1>7, LookupFindsRow DEF LookupRow
  <2>2. /\ Coming = left \union {entry} /\ entry \in Seq(Nat) /\ entry \in plan.while
        /\ \A x \in left : NumbersLess(entry, x)
    BY <2>1, ComingAreSeqs DEF Coming, AnswerInv, ExecutorInv
  <2>3. LeastIn(entry, Coming) /\ left' = Coming \ {entry}
    BY <2>1, <2>2, NotBeforeItself DEF LeastIn
  <2>4. QED
    BY <2>1, <2>2, <2>3, YieldAnswers
<1>8. QED
  BY <1>1, <1>2, <1>3, <1>4, <1>5, <1>6, <1>7 DEF ExecutorStep

\* Trees that change under an executor do not change the tuples it has to come to,
\* unless the change disturbs it.
LEMMA TablesKeepAnswers ==
    ASSUME TableInv, ExecutorInv, AnswerInv,
           \/ (CreateTree \/ CreateFails \/ RejectDuplicate \/ InsertFails) /\ UNCHANGED iterVars
           \/ InsertEntry /\ Disturb
    PROVE  AnswerInv' /\ AnswersExact
<1>1. pc \in {"create", "insert"} /\ pc' \notin {"next", "lookup"} /\ plan' = plan
  BY DEF CreateTree, CreateFails, RejectDuplicate, InsertFails, InsertEntry, Disturb,
         Return, Proceed, iterVars
<1>2. AnswersExact
  BY <1>1 DEF AnswersExact
<1>3. CASE plan = NoPlan \/ (InsertEntry /\ Disturb /\ at = plan.tree)
  <2>1. CASE plan = NoPlan
    <3>1. fresh' = fresh /\ ~fresh
      BY <2>1 DEF Disturb, iterVars, AnswerInv
    <3>2. QED
      BY <1>1, <1>2, <3>1 DEF AnswerInv
  <2>2. CASE plan # NoPlan
    <3>1. fresh' = FALSE
      BY <1>3, <2>2 DEF Disturb
    <3>2. QED
      BY <1>1, <1>2, <3>1 DEF AnswerInv
  <2>3. QED
    BY <2>1, <2>2
<1>4. CASE plan # NoPlan /\ ~(InsertEntry /\ Disturb /\ at = plan.tree)
  <2>1. UNCHANGED iterVars /\ pc = "insert"
    BY <1>1, <1>4 DEF Disturb, ExecutorInv
  <2>2. /\ left' = left /\ entry' = entry /\ gap' = gap /\ todo' = todo /\ fresh' = fresh
        /\ plan \in Plans /\ plan.tree \in Trees
    BY <1>4, <2>1, PlanTree DEF iterVars, ExecutorInv
  <2>3. Coming = left /\ Coming' = left /\ left \subseteq DOMAIN trees[plan.tree]
    BY <1>1, <2>1, <2>2 DEF Coming, ExecutorInv, Scanned
  <2>4. ASSUME NEW x \in left
        PROVE  TupleOf(plan, x)' = TupleOf(plan, x)
    <3>1. CASE RejectDuplicate \/ InsertFails
      BY <1>1, <3>1 DEF RejectDuplicate, InsertFails, TupleOf
    <3>2. CASE InsertEntry /\ Disturb
      <4>1. trees'[plan.tree] = trees[plan.tree]
        BY <1>4, <2>2, <3>2, EntryAdded
      <4>2. CASE plan.kind # "IndexScan"
        BY <1>1, <4>1, <4>2 DEF TupleOf
      <4>3. CASE plan.kind = "IndexScan"
        <5>1. plan.tree \in Indices
          BY <2>2, <4>3, PlanTree
        <5>2. trees[plan.tree][x] \in DOMAIN trees[0]
          BY <2>3, <5>1 DEF TableInv, TreesInv, HasEntry, EntryKey
        <5>3. trees'[0][trees[plan.tree][x]] = trees[0][trees[plan.tree][x]]
          BY <3>2, <5>2, EntryAdded, TreesAre
        <5>4. QED
          BY <1>1, <4>1, <4>3, <5>3 DEF TupleOf
      <4>4. QED
        BY <4>2, <4>3
    <3>3. QED
      BY <2>1, <3>1, <3>2 DEF CreateTree, CreateFails
  <2>5. Wanted(Coming)' = Wanted(Coming)
    BY <1>1, <2>3, <2>4 DEF Wanted
  <2>6. fresh => todo' = [x \in Wanted(Coming)' |-> TupleOf(plan, x)']
    <3>1. Wanted(Coming) \subseteq left
      BY <2>3 DEF Wanted
    <3>2. QED
      BY <2>2, <2>4, <2>5, <3>1 DEF AnswerInv
  <2>7. QED
    BY <1>1, <1>2, <2>2, <2>6 DEF AnswerInv
<1>5. QED
  BY <1>3, <1>4

LEMMA StartAnswers ==
    ASSUME TableInv, ExecutorInv, NEW p \in Plans, Start(p)
    PROVE  AnswerInv' /\ AnswersExact
<1>1. /\ pc = "idle" /\ pc' = "idle" /\ plan' = p /\ gap' = FALSE /\ trees' = trees
      /\ left' = From(DOMAIN trees[p.tree], p.from) /\ todo' = Answer(p)
  BY DEF Start, tableVars
<1>2. Coming' = From(DOMAIN trees[p.tree], p.from)
  BY <1>1 DEF Coming
<1>3. \A x : TupleOf(plan, x)' = TupleOf(p, x)
  BY <1>1 DEF TupleOf
<1>4. todo' = [x \in Wanted(Coming)' |-> TupleOf(plan, x)']
  BY <1>1, <1>2, <1>3 DEF Wanted, Answer
<1>5. p # NoPlan
  BY QueryAssumption DEF NoPlan
<1>6. QED
  BY <1>1, <1>4, <1>5 DEF AnswerInv, AnswersExact

LEMMA StepAnswers ==
    TableInv /\ ExecutorInv /\ AnswerInv /\ [QueryNext]_vars => AnswerInv' /\ AnswersExact
<1> SUFFICES ASSUME TableInv, ExecutorInv, AnswerInv, [QueryNext]_vars
             PROVE  AnswerInv' /\ AnswersExact
  OBVIOUS
<1>1. CASE \/ (CreateTree \/ CreateFails \/ RejectDuplicate \/ InsertFails) /\ UNCHANGED iterVars
           \/ InsertEntry /\ Disturb
  BY <1>1, TablesKeepAnswers
<1>2. CASE ExecutorStep
  BY <1>2, ExecutorAnswers
<1>3. CASE \E p \in Plans : Start(p)
  BY <1>3, StartAnswers
<1>4. CASE Close
  <2>1. pc = "idle" /\ pc' = "idle" /\ fresh' = FALSE
    BY <1>4 DEF Close
  <2>2. QED
    BY <2>1, NothingPromised DEF AnswersExact
<1>5. ASSUME UNCHANGED <<trees, plan, left, gap, todo, fresh>>,
             pc \in {"none", "idle"}, pc' \in {"none", "idle", "create", "insert", "next"},
             pc' = "next" => result' = "none"
      PROVE  AnswerInv' /\ AnswersExact
  <2>1. Coming' = Coming
    BY <1>5 DEF Coming
  <2>2. \A x : TupleOf(plan, x)' = TupleOf(plan, x)
    BY <1>5 DEF TupleOf
  <2>3. Wanted(Coming)' = Wanted(Coming)
    BY <1>5, <2>1, <2>2 DEF Wanted
  <2>4. fresh => todo' = [x \in Wanted(Coming)' |-> TupleOf(plan, x)']
    BY <1>5, <2>2, <2>3 DEF AnswerInv
  <2>5. QED
    BY <1>5, <2>4 DEF AnswerInv, AnswersExact
<1>6. CASE BeginCreate /\ UNCHANGED iterVars
  BY <1>5, <1>6 DEF BeginCreate, tableVars, iterVars
<1>7. CASE BeginInsert /\ row' = NoRow /\ UNCHANGED <<plan, left, gap, entry, todo, fresh>>
  BY <1>5, <1>7 DEF BeginInsert
<1>8. CASE StartFails \/ BeginNext
  BY <1>5, <1>8 DEF StartFails, BeginNext, tableVars, iterVars
<1>9. CASE UNCHANGED vars
  <2>1. UNCHANGED <<trees, pc, result, plan, left, gap, entry, todo, fresh>>
    BY <1>9 DEF vars, tableVars, iterVars
  <2>2. Coming' = Coming
    BY <2>1 DEF Coming
  <2>3. \A x : TupleOf(plan, x)' = TupleOf(plan, x)
    BY <2>1 DEF TupleOf
  <2>4. Wanted(Coming)' = Wanted(Coming)
    BY <2>1, <2>2, <2>3 DEF Wanted
  <2>5. fresh => todo' = [x \in Wanted(Coming)' |-> TupleOf(plan, x)']
    BY <2>1, <2>3, <2>4 DEF AnswerInv
  <2>6. QED
    BY <2>1, <2>5 DEF AnswerInv, AnswersExact
<1>10. QED
  BY <1>1, <1>2, <1>3, <1>4, <1>6, <1>7, <1>8, <1>9 DEF QueryNext, CallStep, ExecutorStep

\* Where no insert and no failing iterator disturbs it, an executor returns the
\* rows of its answer one by one, in the order of their keys, and then None, for
\* any table and plans; a lookup that fails costs its own row only.
THEOREM AnswersStayExact == QuerySpec => AnswersAreExact
<1>1. QueryInit => AnswerInv
  BY DEF QueryInit, TableInit, AnswerInv
<1>2. QueryInit => ExecutorInv
  BY ExecutorInvInitially
<1>3. QED
  BY <1>1, <1>2, StepAnswers, ExecutorInvPreserved, TableInvariant, PTL
     DEF QuerySpec, AnswersAreExact

-----------------------------------------------------------------------------
(* Type correctness.                                                       *)

\* The parts of TypeOK that the other invariants do not contain.
Types ==
    /\ pc \in {"none", "create", "idle", "insert", "next", "lookup"}
    /\ record \in Records \union {NoRecord}
    /\ result \in {"none", "Ok", "DuplicateKey", "Error"}
    /\ gap \in BOOLEAN /\ fresh \in BOOLEAN

LEMMA TypesPreserved == Types /\ [QueryNext]_vars => Types'
<1> SUFFICES ASSUME Types, [QueryNext]_vars PROVE Types'
  OBVIOUS
<1>1. ASSUME NEW tuple, Yield(tuple), UNCHANGED gap PROVE Types'
  BY <1>1 DEF Yield, ReturnRow, Return, Types
<1>2. CASE (CreateTree \/ CreateFails \/ RejectDuplicate \/ InsertFails) /\ UNCHANGED iterVars
  BY <1>2 DEF CreateTree, CreateFails, RejectDuplicate, InsertFails, Proceed, Return,
              iterVars, Types
<1>3. CASE InsertEntry /\ Disturb
  BY <1>3 DEF InsertEntry, Disturb, Proceed, Return, iterVars, Types
<1>4. CASE AtEnd \/ IterNextFails \/ LookupFails
  BY <1>4 DEF AtEnd, IterNextFails, LookupFails, ReturnNone, Return, Types
<1>5. ASSUME NEW k, WhileEnds(k) \/ ScanTuple(k) \/ ScanEntry(k) \/ LookupRow(k) PROVE Types'
  BY <1>1, <1>5 DEF WhileEnds, ScanTuple, ScanEntry, LookupRow, ReturnNone, Return,
                    tableVars, Types
<1>6. CASE BeginCreate /\ UNCHANGED iterVars
  BY <1>6 DEF BeginCreate, tableVars, iterVars, Types
<1>7. CASE BeginInsert /\ row' = NoRow /\ UNCHANGED <<plan, left, gap, entry, todo, fresh>>
  BY <1>7 DEF BeginInsert, Types
<1>8. CASE (\E p \in Plans : Start(p)) \/ StartFails \/ Close \/ BeginNext
  BY <1>8 DEF Start, StartFails, Close, BeginNext, tableVars, iterVars, Types
<1>9. CASE UNCHANGED vars
  BY <1>9 DEF vars, tableVars, iterVars, Types
<1>10. QED
  BY <1>2, <1>3, <1>4, <1>5, <1>6, <1>7, <1>8, <1>9 DEF QueryNext, CallStep

\* Trees have keys of records only, iterators keys of their tree, and every
\* variable keeps its type, for any table and plans.
THEOREM TypeCorrect == QuerySpec => []TypeOK
<1>1. QueryInit => Types
  BY DEF QueryInit, TableInit, Types
<1>2. TableInv /\ ExecutorInv /\ Types => TypeOK
  <2> SUFFICES ASSUME TableInv, ExecutorInv, Types PROVE TypeOK
    OBVIOUS
  <2>1. at \in Trees /\ acked \subseteq Records
    BY DEF TableInv, CallInv, HistoryInv
  <2>2. ASSUME NEW t \in Trees
        PROVE  DOMAIN trees[t] \subseteq {EntryKey(t, r) : r \in Records}
    <3>1. CASE t = 0
      BY <3>1 DEF TableInv, TreesInv, EntryKey
    <3>2. CASE t # 0
      BY <3>2, TreesAre DEF TableInv, TreesInv, EntryKey
    <3>3. QED
      BY <3>1, <3>2
  <2>3. QED
    BY <2>1, <2>2 DEF ExecutorInv, Types, TypeOK
<1>3. QED
  BY <1>1, <1>2, TypesPreserved, ExecutorInvInitially, ExecutorInvPreserved,
     TableInvariant, PTL DEF QuerySpec

=============================================================================
