--------------------------- MODULE BufferPoolStore ---------------------------
(***************************************************************************)
(* BufferPool with two history variables, and the refinement mapping that  *)
(* makes it an implementation of PageStore.                                *)
(***************************************************************************)
EXTENDS BufferPool

VARIABLES
    versions,   \* the contents each page had since the last flush that was Ok
    committed   \* the number of pages at that flush

historyVars == <<versions, committed>>

Committing == pc = "flush" /\ result' = "ok"

\* Clients see the content of a page change when they write it or create it;
\* a restart shows them one they have seen before.
Record ==
    /\ versions' = [p \in PageIds |->
                       IF Committing THEN {Mem(p)'}
                                     ELSE versions[p] \union {Mem(p)'}]
    /\ committed' = IF Committing THEN next_page_id ELSE committed

HInit ==
    /\ Init
    /\ versions = [p \in PageIds |-> {Zero}]
    /\ committed = 0

HNext ==
    \/ (Client \/ CallStep) /\ Record
    \/ Reopen /\ UNCHANGED historyVars

HSpec == HInit /\ [][HNext]_<<vars, historyVars>>

\* The pages a client holds, whichever frames they are in.
Held == [p \in PageIds |-> IF page_table[p] # NoFrame THEN handles[page_table[p]] ELSE 0]

Store == INSTANCE PageStore WITH
    content   <- [p \in PageIds |-> Mem(p)],
    allocated <- next_page_id,
    held      <- Held,
    outcome   <- result

\* The buffer pool keeps the promises of PageStore: no eviction, reload or
\* failed call changes what a client reads, a page is refused only when the
\* pool is full of held pages, and a restart goes back at most to the last
\* flush.
ImplementsPageStore == Store!Spec

=============================================================================
