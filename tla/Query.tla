-------------------------------- MODULE Query --------------------------------
(***************************************************************************)
(* The executors over a table (src/query.rs): SeqScan, IndexScan and       *)
(* IndexOnlyScan, with a Filter on top.  One executor is open; records may *)
(* be inserted between two calls of its next.  Its iterator keeps what     *)
(* OrderedIndex promises: an insert into its tree leaves it at any key, or *)
(* before a gap, and a step that fails loses a key and leaves a gap.       *)
(***************************************************************************)
EXTENDS Table

CONSTANT Plans  \* [kind, tree, from, while, cond]: the scan of a tree from a key
                \* on, while keys are in a set, and the tuples that pass the filter

ASSUME QueryAssumption ==
    \A p \in Plans :
        /\ p.kind \in {"SeqScan", "IndexScan", "IndexOnlyScan"}
        /\ p.tree \in IF p.kind = "SeqScan" THEN {0} ELSE Indices

VARIABLES
    plan,   \* of the executor that is open
    left,   \* the keys its iterator has still to return
    gap,    \* the iterator returns None first
    entry,  \* IndexScan: the key of the index entry whose row is looked up
    row,    \* what the last call returned, if it was a next
    todo,   \* history: the rows next has still to return, by key, if undisturbed
    fresh   \* history: nothing has disturbed it, and it has not returned None

iterVars == <<plan, left, gap, entry, row, todo, fresh>>
vars == <<tableVars, pc, result, iterVars>>

NoPlan == [kind |-> "none", tree |-> 0]
NoRow == <<>>
NoEntry == <<>>
NoRows == <<>>  \* the function of no keys

LeastIn(k, S) == k \in S /\ \A x \in S \ {k} : NumbersLess(k, x)
From(S, key) == {k \in S : ~NumbersLess(k, key)}

QueryInit ==
    /\ TableInit
    /\ plan = NoPlan /\ left = {} /\ gap = FALSE /\ entry = NoEntry /\ row = NoRow
    /\ todo = NoRows /\ fresh = FALSE

Scanned == trees[plan.tree]

\* The tuple of key k of p's tree.
TupleOf(p, k) ==
    IF p.kind = "IndexScan" THEN trees[p.tree][k] \o trees[0][trees[p.tree][k]]
                            ELSE k \o trees[p.tree][k]

\* What p is to return: the tuples of all keys from p.from up to the first that
\* fails p.while, in order, without those that p.cond keeps back.
Answer(p) ==
    LET keys == From(DOMAIN trees[p.tree], p.from) IN
    [k \in {k \in keys : /\ \A x \in keys : NumbersLess(k, x) \/ x \in p.while
                       /\ TupleOf(p, k) \in p.cond} |-> TupleOf(p, k)]

\* The rows behind the next one.
Rest(rows) == [k \in {k \in DOMAIN rows : ~LeastIn(k, DOMAIN rows)} |-> rows[k]]

-----------------------------------------------------------------------------
(* PlanNode::start, and Drop of the executor                               *)

Start(p) ==
    /\ pc = "idle" /\ plan = NoPlan
    /\ plan' = p
    /\ left' = From(DOMAIN trees[p.tree], p.from) /\ gap' = FALSE
    /\ todo' = Answer(p) /\ fresh' = TRUE
    /\ result' = "Ok"
    /\ UNCHANGED <<tableVars, pc, entry, row>>

StartFails ==
    /\ pc = "idle" /\ plan = NoPlan
    /\ result' = "Error"
    /\ UNCHANGED <<tableVars, pc, iterVars>>

Close ==
    /\ pc = "idle" /\ plan # NoPlan
    /\ plan' = NoPlan /\ left' = {} /\ gap' = FALSE
    /\ row' = NoRow /\ todo' = NoRows /\ fresh' = FALSE
    /\ UNCHANGED <<tableVars, pc, result, entry>>

-----------------------------------------------------------------------------
(* Executor::next                                                          *)

BeginNext ==
    /\ pc = "idle" /\ plan # NoPlan
    /\ pc' = "next" /\ result' = "none"
    /\ row' = NoRow
    /\ UNCHANGED <<tableVars, plan, left, gap, entry, todo, fresh>>

ReturnNone ==
    /\ Return("Ok")
    /\ row' = NoRow /\ entry' = NoEntry
    /\ todo' = NoRows /\ fresh' = FALSE
    /\ UNCHANGED plan

ReturnRow(tuple) ==
    /\ Return("Ok")
    /\ row' = tuple
    /\ todo' = Rest(todo)
    /\ UNCHANGED <<plan, fresh>>

\* Mutant of Yield: the filter gives up at the first tuple it keeps back.
YieldOrStop(tuple) ==
    IF tuple \in plan.cond THEN entry' = NoEntry /\ ReturnRow(tuple) ELSE ReturnNone

\* ExecFilter returns a tuple that passes, or asks for the next one.
Yield(tuple) ==
    /\ entry' = NoEntry
    /\ IF tuple \in plan.cond THEN ReturnRow(tuple)
       ELSE pc' = "next" /\ UNCHANGED <<at, record, result, plan, row, todo, fresh>>

AtEnd ==
    /\ pc = "next"
    /\ gap \/ left = {}
    /\ gap' = FALSE
    /\ ReturnNone
    /\ UNCHANGED <<trees, acked, left>>

\* Mutant of IterNext: the iterator stays where it is.
IterNextStays(k) ==
    /\ pc = "next"
    /\ ~gap /\ LeastIn(k, left)
    /\ UNCHANGED left

\* The iterator returns key k and what belongs to it.
IterNext(k) ==
    /\ pc = "next"
    /\ ~gap /\ LeastIn(k, left)
    /\ left' = left \ {k}

\* Mutant of WhileEnds: the pair on which while_cond fails is passed over.
WhileEndsNot(k) ==
    /\ IterNext(k)
    /\ k \notin plan.while
    /\ pc' = "next"
    /\ UNCHANGED <<tableVars, result, plan, gap, entry, row, todo, fresh>>

WhileEnds(k) ==
    /\ IterNext(k)
    /\ k \notin plan.while
    /\ ReturnNone
    /\ UNCHANGED <<trees, acked, gap>>

ScanTuple(k) ==
    /\ plan.kind # "IndexScan"
    /\ IterNext(k)
    /\ k \in plan.while
    /\ Yield(TupleOf(plan, k))
    /\ UNCHANGED <<trees, acked, gap>>

ScanEntry(k) ==
    /\ plan.kind = "IndexScan"
    /\ IterNext(k)
    /\ k \in plan.while
    /\ entry' = k
    /\ pc' = "lookup"
    /\ UNCHANGED <<tableVars, result, plan, gap, row, todo, fresh>>

\* The fetch of the leaf behind the last pair fails: that pair is lost.
IterNextFails ==
    /\ pc = "next"
    /\ \/ (gap \/ left = {}) /\ UNCHANGED left
       \/ \E k \in left : IterNext(k)
    /\ gap' = TRUE
    /\ Return("Error")
    /\ fresh' = FALSE /\ todo' = NoRows
    /\ UNCHANGED <<trees, acked, plan, entry, row>>

\* Mutant of LookupRow: the table is searched from its start.
LookupRowFromStart(k) ==
    /\ pc = "lookup"
    /\ LeastIn(k, DOMAIN trees[0])
    /\ Yield(k \o trees[0][k])
    /\ UNCHANGED <<trees, acked, left, gap>>

\* The row at the primary key, or else the first behind it. Without one unwrap
\* panics: there is no such step, and EntriesPointToRows is what excludes it.
LookupRow(k) ==
    /\ pc = "lookup"
    /\ LeastIn(k, From(DOMAIN trees[0], Scanned[entry]))
    /\ Yield(k \o trees[0][k])
    /\ UNCHANGED <<trees, acked, left, gap>>

\* The entry is consumed: its row is lost, and no other.
LookupFails ==
    /\ pc = "lookup"
    /\ Return("Error")
    /\ entry' = NoEntry
    /\ todo' = IF fresh /\ TupleOf(plan, entry) \in plan.cond THEN Rest(todo) ELSE todo
    /\ UNCHANGED <<trees, acked, plan, left, gap, row, fresh>>

-----------------------------------------------------------------------------
\* An insert into the tree that is scanned.
Disturb ==
    IF plan # NoPlan /\ at = plan.tree
    THEN /\ left' \in {From(DOMAIN trees'[at], k) : k \in DOMAIN trees'[at]} \union {{}}
         /\ gap' \in BOOLEAN
         /\ fresh' = FALSE /\ todo' = NoRows
         /\ UNCHANGED <<plan, entry, row>>
    ELSE UNCHANGED iterVars

CallStep ==
    \/ (CreateTree \/ CreateFails \/ RejectDuplicate \/ InsertFails) /\ UNCHANGED iterVars
    \/ InsertEntry /\ Disturb
    \/ AtEnd \/ IterNextFails \/ LookupFails
    \/ \E k \in left : WhileEnds(k) \/ ScanTuple(k) \/ ScanEntry(k)
    \/ \E k \in DOMAIN trees[0] : LookupRow(k)

QueryNext ==
    \/ CallStep
    \/ BeginCreate /\ UNCHANGED iterVars
    \/ BeginInsert /\ row' = NoRow /\ UNCHANGED <<plan, left, gap, entry, todo, fresh>>
    \/ \E p \in Plans : Start(p)
    \/ StartFails \/ Close \/ BeginNext

\* A call that has begun is carried on; callers need not begin one.
QuerySpec == QueryInit /\ [][QueryNext]_vars /\ WF_vars(CallStep)

-----------------------------------------------------------------------------
TypeOK ==
    /\ pc \in {"none", "create", "idle", "insert", "next", "lookup"}
    /\ at \in Trees /\ record \in Records \union {NoRecord}
    /\ result \in {"none", "Ok", "DuplicateKey", "Error"}
    /\ acked \subseteq Records
    /\ \A t \in Trees : DOMAIN trees[t] \subseteq {EntryKey(t, r) : r \in Records}
    /\ plan \in Plans \union {NoPlan}
    /\ left \subseteq DOMAIN Scanned
    /\ gap \in BOOLEAN /\ fresh \in BOOLEAN
    /\ pc = "lookup" => entry \in DOMAIN Scanned

\* Where no insert and no failing iterator disturbs it, an executor returns the
\* rows of its answer one by one, in order, and then None; a lookup that fails
\* costs the row of its entry and no other.
AnswersExact ==
    (pc \in {"next", "lookup"} /\ fresh /\ result' = "Ok") =>
        IF DOMAIN todo = {} THEN row' = NoRow
        ELSE \E k \in DOMAIN todo : LeastIn(k, DOMAIN todo) /\ row' = todo[k]

\* Whatever is inserted meanwhile, whatever fails, and also after None, a row
\* that is returned is in the table, has passed the filter, and its key
\* while_cond.
RowsQualify ==
    row # NoRow =>
        /\ row \in plan.cond
        /\ \E k \in plan.while : k \in DOMAIN Scanned /\ row = TupleOf(plan, k)

\* Every call returns: the loop of ExecFilter ends, since its scan does.
CallsReturn == pc \notin {"none", "idle"} ~> pc \in {"none", "idle"}

AnswersAreExact == [][AnswersExact]_vars

=============================================================================
