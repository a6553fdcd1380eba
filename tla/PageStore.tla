------------------------------ MODULE PageStore ------------------------------
(***************************************************************************)
(* What BufferPoolManager promises to its clients (the B+tree): a growing  *)
(* array of pages, each of which keeps the content last written to it,     *)
(* whatever the pool evicts and reloads; at most PoolSize distinct pages   *)
(* are held at a time, and a page is refused only when PoolSize others are *)
(* held.  After a restart each page has one of the contents it had since   *)
(* the last flush that returned Ok, and no page of that flush is missing.  *)
(***************************************************************************)
EXTENDS Integers, FiniteSets

CONSTANTS
    MaxPages,  \* bound: number of pages
    Contents,  \* contents of a page
    Zero,      \* content of a new page
    PoolSize   \* how many distinct pages can be held

PageIds == 0 .. (MaxPages - 1)

VARIABLES
    content,    \* the content of each page as clients see it
    allocated,  \* the number of pages
    held,       \* the number of handles on each page
    versions,   \* the contents a restart may bring back
    committed,  \* the number of pages a restart cannot lose
    outcome     \* of the last call, "none" while it runs

vars == <<content, allocated, held, versions, committed, outcome>>

HeldPages == {p \in PageIds : held[p] > 0}

\* Page p can be had: it is held already, or not all that can be held are.
Available(p) == held[p] > 0 \/ Cardinality(HeldPages) < PoolSize

Init ==
    /\ content = [p \in PageIds |-> Zero]
    /\ allocated = 0
    /\ held = [p \in PageIds |-> 0]
    /\ versions = [p \in PageIds |-> {Zero}]
    /\ committed = 0
    /\ outcome = "none"

\* A call begins.
Begin ==
    /\ outcome' = "none"
    /\ UNCHANGED <<content, allocated, held, versions, committed>>

Create ==
    /\ outcome' = "ok"
    /\ allocated < MaxPages
    /\ Available(allocated)
    /\ content' = [content EXCEPT ![allocated] = Zero]
    /\ held' = [held EXCEPT ![allocated] = 1]
    /\ versions' = [versions EXCEPT ![allocated] = @ \union {Zero}]
    /\ allocated' = allocated + 1
    /\ UNCHANGED committed

Fetch(p) ==
    /\ outcome' = "ok"
    /\ p < allocated
    /\ Available(p)
    /\ held' = [held EXCEPT ![p] = @ + 1]
    /\ UNCHANGED <<content, allocated, versions, committed>>

Refuse ==
    /\ outcome' = "NoFreeBuffer"
    /\ Cardinality(HeldPages) = PoolSize
    /\ UNCHANGED <<content, allocated, held, versions, committed>>

\* A call fails for an I/O error and has changed nothing.
Fail ==
    /\ outcome' = "Io"
    /\ UNCHANGED <<content, allocated, held, versions, committed>>

Drop(p) ==
    /\ held[p] > 0
    /\ held' = [held EXCEPT ![p] = @ - 1]
    /\ UNCHANGED <<content, allocated, versions, committed, outcome>>

Write(p, data) ==
    /\ held[p] > 0
    /\ content' = [content EXCEPT ![p] = data]
    /\ versions' = [versions EXCEPT ![p] = @ \union {data}]
    /\ UNCHANGED <<allocated, held, committed, outcome>>

Flush ==
    /\ outcome' = "ok"
    /\ versions' = [p \in PageIds |-> {content[p]}]
    /\ committed' = allocated
    /\ UNCHANGED <<content, allocated, held>>

Restart ==
    /\ outcome' = "none"
    /\ content' \in [PageIds -> Contents]
    /\ \A p \in PageIds : content'[p] \in versions[p]
    /\ allocated' \in committed .. allocated
    /\ held' = [p \in PageIds |-> 0]
    /\ UNCHANGED <<versions, committed>>

Next ==
    \/ Begin \/ Restart \/ Create \/ Refuse \/ Fail \/ Flush
    \/ \E p \in PageIds : Fetch(p) \/ Drop(p)
    \/ \E p \in PageIds, data \in Contents : Write(p, data)

Spec == Init /\ [][Next]_vars

=============================================================================
