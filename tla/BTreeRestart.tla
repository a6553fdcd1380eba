----------------------------- MODULE BTreeRestart -----------------------------
(***************************************************************************)
(* BTree and what of it is in the heap file: a page is written when it is  *)
(* evicted or flushed, each by itself, and the process may end at any      *)
(* step.  A restart opens the tree at its meta page (BTree::new).          *)
(***************************************************************************)
EXTENDS BTree

VARIABLES
    saved,       \* the node on each page of the file
    saved_root,  \* root_page_id on the meta page of the file
    flushed      \* history: the keys of the tree at the last flush

file == <<saved, saved_root>>

RestartInit ==
    /\ Init
    /\ saved = nodes
    /\ saved_root = INVALID_PAGE_ID
    /\ flushed = {}

\* The pool writes a page that nobody holds when the running call, or another
\* client between calls, wants a page that takes its frame.
Evict(p) ==
    /\ pc = "idle" \/ Wanted \ Held # {}
    /\ p < next_page_id /\ p \notin Held
    /\ saved' = [saved EXCEPT ![p] = nodes[p]]
    /\ saved_root' = IF p = meta_page_id THEN root_page_id ELSE saved_root
    /\ UNCHANGED <<vars, flushed>>

Flush ==
    /\ pc = "idle"
    /\ saved' = nodes /\ saved_root' = root_page_id
    /\ flushed' = UNION {Range(nodes[p].keys) : p \in LeafPages}
    /\ UNCHANGED vars

\* The process ends, and the next one finds the file.
Restart ==
    /\ pc # "restarted"
    /\ nodes' = saved /\ root_page_id' = saved_root
    /\ key' = NoKey /\ path' = <<>> /\ prev' = INVALID_PAGE_ID
    /\ overflow' = NoOverflow /\ pair' = NoKey
    /\ iter' = NoIter
    /\ pc' = "restarted"
    /\ UNCHANGED <<next_page_id, meta_page_id, result, value, foreign, file, flushed>>

RestartNext ==
    \/ Next /\ UNCHANGED <<file, flushed>>
    \/ \E p \in PageIds : Evict(p)
    \/ Flush \/ Restart

RestartSpec == RestartInit /\ [][RestartNext]_<<vars, file, flushed>>

-----------------------------------------------------------------------------
\* A search for k comes to a leaf that holds it, over pages that are there.
Found(k) ==
    LET down[p \in PageIds \union {INVALID_PAGE_ID}] ==
          /\ p \in PageIds /\ nodes[p] # NoNode
          /\ IF p \in LeafPages THEN Holds(nodes[p].keys, k)
                                ELSE down[SearchChild(nodes[p], k)]
    IN  down[root_page_id]

\* After a restart the root that the meta page names leads to every key that was
\* flushed (what meta.rs keeps its page for), whatever was inserted since.
FlushedKeysSurvive == pc = "restarted" => \A k \in flushed : Found(k)

=============================================================================
