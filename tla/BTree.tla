-------------------------------- MODULE BTree --------------------------------
(***************************************************************************)
(* The B+tree (src/btree.rs) over the pages of PageStore: create, insert,  *)
(* search and Iter::next, one step per call of the buffer pool manager,    *)
(* where a call can fail.  Only what a call holds is pinned: insert keeps  *)
(* every page from the meta page down, search lets a page go before it     *)
(* fetches the next.  Every page that is written is marked dirty before it *)
(* is let go, so a page is its content here.                               *)
(***************************************************************************)
EXTENDS BTreeNode

CONSTANTS
    Keys,       \* keys, as positive numbers in the order of their bytes
    KeyLen,     \* the length of each key
    ValueLen,   \* the length of its value
    PoolSize,   \* the number of frames of the buffer pool
    Foreign,    \* bound: how many frames others (scans of other trees) pin
    MaxPages,   \* bound: number of pages; no more are created
    MaxSlot,    \* bound: slot_id of a scan that is at its end
    Faults      \* when evicting a page may fail to write it back:
                \* in "create", "before_split" or "after_split" of a leaf

PageIds == 0 .. (MaxPages - 1)
NoKey == -1
MaxNewPages == 4  \* bound: an insert allocates no more, up to three levels
NoNode == [node_type |-> "NONE"]
NoIter == [page |-> INVALID_PAGE_ID, slot_id |-> 0]
NoOverflow == [key |-> NoKey, page_id |-> INVALID_PAGE_ID]

LeafPair(k) == PairSize(KeyLen[k], ValueLen[k])
BranchPair(k) == PairSize(KeyLen[k], PageIdLen)
LeafPairs == [k \in Keys |-> LeafPair(k)]
BranchPairs == [k \in Keys |-> BranchPair(k)]

\* Pairs that a leaf does not accept are the caller's fault (Leaf::insert).
ASSUME BTreeAssumption ==
    /\ Keys \subseteq Nat \ {0}
    /\ KeyLen \in [Keys -> Nat] /\ ValueLen \in [Keys -> Nat]
    /\ \A k \in Keys : LeafPair(k) <= MaxPairSize(LeafCapacity)
    /\ PoolSize \in Nat /\ Foreign \subseteq Nat /\ MaxPages \in Nat \ {0}
    /\ MaxSlot \in Nat /\ Faults \subseteq {"create", "before_split", "after_split"}

VARIABLES
    nodes,         \* the node on each page
    next_page_id,  \* pages below it are allocated
    meta_page_id,  \* the meta page
    root_page_id,  \* its header
    pc,            \* where the running call is; "idle" between calls
    key,           \* the key of that call; 0 stands for SearchMode::Start
    path,          \* insert: the pages held, from the meta page; search: the
                   \* page just fetched
    prev,          \* insert: the leaf before the one that is split, held too
    overflow,      \* insert: what a split sends to the parent
    iter,          \* the scan: the leaf it holds, and its slot_id
    result,        \* of the last call, "none" while it runs
    pair,          \* Iter::next: what get returned
    value,         \* what the last Iter::next returned
    foreign        \* the number of frames pinned by others

tree == <<nodes, next_page_id, meta_page_id, root_page_id>>
call == <<key, path, prev, overflow, pair>>
vars == <<tree, pc, call, iter, result, value, foreign>>

Top == Last(path)
Node == nodes[Top]
AtLeaf == Node.node_type = "LEAF"
AtBranch == Node.node_type = "BRANCH"

-----------------------------------------------------------------------------
(* The pages that are held, and those that can be had.                     *)

Pages(S) == S \ {INVALID_PAGE_ID}

\* search drops a page before it fetches the next one.
CallHolds == IF pc = "search" THEN {} ELSE Range(path) \union {prev}
Held == Pages(CallHolds \union {iter.page})
Pinned == Cardinality(Held) + foreign

Available(p) == p \in Held \/ Pinned < PoolSize

Init ==
    /\ nodes = [p \in PageIds |-> NoNode]
    /\ next_page_id = 0
    /\ meta_page_id = INVALID_PAGE_ID /\ root_page_id = INVALID_PAGE_ID
    /\ pc = "none"
    /\ key = NoKey /\ path = <<>> /\ prev = INVALID_PAGE_ID
    /\ overflow = NoOverflow
    /\ iter = NoIter
    /\ result = "none" /\ pair = NoKey /\ value = NoKey
    /\ foreign \in Foreign

Return(res) ==
    /\ pc' = "idle"
    /\ result' = res
    /\ key' = NoKey /\ path' = <<>> /\ prev' = INVALID_PAGE_ID
    /\ overflow' = NoOverflow /\ pair' = NoKey

-----------------------------------------------------------------------------
(* BTree::create                                                           *)

CreateTree ==
    /\ pc = "none"
    /\ foreign + 2 <= PoolSize
    /\ next_page_id + 2 <= MaxPages
    /\ meta_page_id' = next_page_id
    /\ root_page_id' = next_page_id + 1
    /\ next_page_id' = next_page_id + 2
    /\ nodes' = [nodes EXCEPT
         ![next_page_id + 1] = Leaf(INVALID_PAGE_ID, INVALID_PAGE_ID, <<>>)]
    /\ pc' = "idle"
    /\ UNCHANGED <<call, iter, result, value, foreign>>

\* The meta page may have been allocated; it is lost.  (Bound: once.)
CreateTreeFails ==
    /\ pc = "none"
    /\ next_page_id = 0
    /\ foreign + 2 > PoolSize \/ "create" \in Faults
    /\ next_page_id' \in IF "create" \in Faults THEN {0, 1}
                         ELSE {IF foreign < PoolSize THEN 1 ELSE 0}
    /\ UNCHANGED <<nodes, meta_page_id, root_page_id, pc, call, iter, result,
                   value, foreign>>

-----------------------------------------------------------------------------
(* BTree::insert: down to the leaf                                         *)

BeginInsert ==
    /\ pc = "idle"
    /\ next_page_id + MaxNewPages <= MaxPages
    /\ pc' = "meta"
    /\ key' \in Keys
    /\ result' = "none"
    /\ UNCHANGED <<tree, path, prev, overflow, pair, iter, value, foreign>>

Fetch(p) ==
    /\ Available(p)
    /\ path' = Append(path, p)
    /\ UNCHANGED <<tree, key, prev, overflow, pair, iter, result, value, foreign>>

FetchMeta == pc = "meta" /\ Fetch(meta_page_id) /\ pc' = "root"

FetchRoot == pc = "root" /\ Fetch(root_page_id) /\ pc' = "descend"

FetchChild ==
    /\ pc = "descend" /\ AtBranch
    /\ Fetch(SearchChild(Node, key))
    /\ UNCHANGED pc

AtInsertLeaf == pc = "descend" /\ AtLeaf

RejectDuplicate ==
    /\ AtInsertLeaf
    /\ Holds(Node.keys, key)
    /\ Return("DuplicateKey")
    /\ UNCHANGED <<tree, iter, value, foreign>>

LeafHasRoom == HasRoom(Node.keys, key, LeafPairs, LeafCapacity)

InsertIntoLeaf ==
    /\ AtInsertLeaf
    /\ ~Holds(Node.keys, key)
    /\ LeafHasRoom
    /\ nodes' = [nodes EXCEPT ![Top] = LeafInsert(@, key)]
    /\ Return("Ok")
    /\ UNCHANGED <<next_page_id, meta_page_id, root_page_id, iter, value,
                   foreign>>

LeafIsFull == AtInsertLeaf /\ ~Holds(Node.keys, key) /\ ~LeafHasRoom

FetchPrev ==
    /\ LeafIsFull
    /\ Node.prev_page_id # INVALID_PAGE_ID
    /\ Available(Node.prev_page_id)
    /\ prev' = Node.prev_page_id
    /\ pc' = "split"
    /\ UNCHANGED <<tree, key, path, overflow, pair, iter, result, value, foreign>>

HasNoPrev ==
    /\ LeafIsFull
    /\ Node.prev_page_id = INVALID_PAGE_ID
    /\ pc' = "split"
    /\ UNCHANGED <<tree, call, iter, result, value, foreign>>

-----------------------------------------------------------------------------
(* BTree::insert: splits, and back up                                      *)

CreatePage ==
    /\ next_page_id < MaxPages
    /\ Available(next_page_id)
    /\ next_page_id' = next_page_id + 1

\* split_insert returned key; the node above gets it with the new page.
SendUp(overflow_key) ==
    /\ overflow' = [key |-> overflow_key, page_id |-> next_page_id]
    /\ path' = Front(path)
    /\ prev' = INVALID_PAGE_ID
    /\ pc' = "unwind"

\* Mutant of LinkPrev: the leaf before keeps its link.
LinkPrevOmitted(next) == nodes

LinkPrev(next) ==
    IF prev = INVALID_PAGE_ID THEN nodes
    ELSE [nodes EXCEPT ![prev].next_page_id = next]

\* Mutant of SplitLeaf: the link back is set to the wrong page.
SplitLeafLinksItself ==
    /\ pc = "split"
    /\ CreatePage
    /\ LET split == LeafSplit(Node, key, LeafPairs)
       IN  /\ nodes' = [LinkPrev(next_page_id) EXCEPT
                 ![Top] = Leaf(Top, Node.next_page_id, split.old),
                 ![next_page_id] = Leaf(Node.prev_page_id, Top, split.new)]
           /\ SendUp(split.overflow_key)
    /\ UNCHANGED <<meta_page_id, root_page_id, key, pair, iter, result, value,
                   foreign>>

SplitLeaf ==
    /\ pc = "split"
    /\ CreatePage
    /\ LET split == LeafSplit(Node, key, LeafPairs)
       IN  /\ nodes' = [LinkPrev(next_page_id) EXCEPT
                 ![Top] = Leaf(next_page_id, Node.next_page_id, split.old),
                 ![next_page_id] = Leaf(Node.prev_page_id, Top, split.new)]
           /\ SendUp(split.overflow_key)
    /\ UNCHANGED <<meta_page_id, root_page_id, key, pair, iter, result, value,
                   foreign>>

\* The assertion of Branch::insert.
SeparatorFits == BranchPair(overflow.key) <= MaxPairSize(BranchCapacity)

AtParent == pc = "unwind" /\ Top # meta_page_id /\ SeparatorFits

BranchHasRoom == HasRoom(Node.keys, overflow.key, BranchPairs, BranchCapacity)

\* child_idx is that of the way down: the branch is borrowed in between.
InsertIntoBranch ==
    /\ AtParent
    /\ BranchHasRoom
    /\ nodes' = [nodes EXCEPT
         ![Top] = BranchInsert(@, SearchChildIdx(@, key),
                               overflow.key, overflow.page_id)]
    /\ Return("Ok")
    /\ UNCHANGED <<next_page_id, meta_page_id, root_page_id, iter, value,
                   foreign>>

SplitBranch ==
    /\ AtParent
    /\ ~BranchHasRoom
    /\ CreatePage
    /\ LET split == BranchSplit(Node, overflow.key, overflow.page_id,
                                BranchPairs)
       IN  /\ nodes' = [nodes EXCEPT ![Top] = split.old,
                                     ![next_page_id] = split.new]
           /\ SendUp(split.overflow_key)
    /\ UNCHANGED <<meta_page_id, root_page_id, key, pair, iter, result, value,
                   foreign>>

GrowRoot ==
    /\ pc = "unwind" /\ Top = meta_page_id /\ SeparatorFits
    /\ CreatePage
    /\ nodes' = [nodes EXCEPT
         ![next_page_id] = Branch(<<overflow.key>>,
                                  <<overflow.page_id, root_page_id>>)]
    /\ root_page_id' = next_page_id
    /\ Return("Ok")
    /\ UNCHANGED <<meta_page_id, iter, value, foreign>>

-----------------------------------------------------------------------------
(* BTree::search and Iter::next                                            *)

BeginSearch ==
    /\ pc = "idle" /\ iter = NoIter
    /\ pc' = "search_meta"
    /\ key' \in Keys \union {0}
    /\ result' = "none"
    /\ UNCHANGED <<tree, path, prev, overflow, pair, iter, value, foreign>>

\* The page before is dropped.
FetchAlone(p) ==
    /\ Available(p)
    /\ path' = <<p>>
    /\ UNCHANGED <<tree, key, prev, overflow, pair, iter, result, value, foreign>>

\* fetch_root_page drops the meta page.
SearchMeta ==
    /\ pc = "search_meta"
    /\ Available(meta_page_id)
    /\ pc' = "search_root"
    /\ UNCHANGED <<tree, call, iter, result, value, foreign>>

SearchRoot ==
    pc = "search_root" /\ FetchAlone(root_page_id) /\ pc' = "search"

SearchChildPage ==
    /\ pc = "search" /\ AtBranch
    /\ FetchAlone(SearchChild(Node, key))
    /\ UNCHANGED pc

\* Mutant of OpenIter: a search that ends behind the last pair stays there.
OpenIterStays ==
    /\ pc = "search" /\ AtLeaf
    /\ iter' = [page |-> Top, slot_id |-> SlotOf(Node.keys, key)]
    /\ Return("Ok")
    /\ UNCHANGED <<tree, value, foreign>>

OpenIter ==
    /\ pc = "search" /\ AtLeaf
    /\ LET slot_id == SlotOf(Node.keys, key)
           is_right_most == Len(Node.keys) = slot_id
       IN  /\ iter' = [page |-> Top,
                       slot_id |-> slot_id + (IF is_right_most THEN 1 ELSE 0)]
           /\ IF is_right_most /\ Node.next_page_id # INVALID_PAGE_ID
                THEN /\ pc' = "open_advance"
                     /\ path' = <<>>
                     /\ UNCHANGED <<key, prev, overflow, pair, result>>
                ELSE Return("Ok")
    /\ UNCHANGED <<tree, value, foreign>>

IterLeaf == nodes[iter.page]

BeginNext ==
    /\ pc = "idle" /\ iter # NoIter
    /\ iter.slot_id < MaxSlot
    /\ pc' = "next"
    /\ result' = "none"
    /\ UNCHANGED <<tree, call, iter, value, foreign>>

\* get, then advance up to its fetch.
GetPair ==
    /\ pc = "next"
    /\ LET len == Len(IterLeaf.keys)
           got == IF iter.slot_id < len THEN IterLeaf.keys[iter.slot_id + 1]
                                        ELSE NoKey
       IN  IF iter.slot_id + 1 >= len /\ IterLeaf.next_page_id # INVALID_PAGE_ID
             THEN /\ pc' = "advance"
                  /\ pair' = got
                  /\ UNCHANGED <<key, path, prev, overflow, result, value>>
             ELSE /\ value' = got
                  /\ Return("Ok")
    /\ iter' = [iter EXCEPT !.slot_id = @ + 1]
    /\ UNCHANGED <<tree, foreign>>

Advance ==
    /\ pc \in {"open_advance", "advance"}
    /\ Available(IterLeaf.next_page_id)
    /\ iter' = [page |-> IterLeaf.next_page_id, slot_id |-> 0]
    /\ value' = IF pc = "advance" THEN pair ELSE value
    /\ Return("Ok")
    /\ UNCHANGED <<tree, foreign>>

DropIter ==
    /\ pc = "idle" /\ iter # NoIter
    /\ iter' = NoIter
    /\ UNCHANGED <<tree, pc, call, result, value, foreign>>

-----------------------------------------------------------------------------
(* Failures, and the other users of the pool                               *)

\* The page that the next step gets from the pool, if it gets one.
Wanted ==
    CASE pc \in {"meta", "search_meta"} -> {meta_page_id}
      [] pc \in {"root", "search_root"} -> {root_page_id}
      [] pc = "descend" /\ AtBranch -> {SearchChild(Node, key)}
      [] pc = "search" /\ AtBranch -> {SearchChild(Node, key)}
      [] LeafIsFull -> Pages({Node.prev_page_id})
      [] pc = "split" -> {next_page_id}
      [] pc = "unwind" /\ Top = meta_page_id -> {next_page_id}
      [] AtParent /\ ~BranchHasRoom -> {next_page_id}
      [] pc \in {"open_advance", "advance"} -> {IterLeaf.next_page_id}
      [] OTHER -> {}

\* ? returns the error: what the call holds is let go, and what it has written
\* stays.  The value of a failed Iter::next is lost.
CallFails(error) ==
    /\ Return(error)
    /\ iter' = IF pc = "open_advance" THEN NoIter ELSE iter
    /\ UNCHANGED <<tree, value, foreign>>

NoFreeBuffer ==
    /\ \E p \in Wanted : ~Available(p)
    /\ CallFails("NoFreeBuffer")

\* A page that is not held may have to take the frame of a dirty one.
WriteBackFails ==
    /\ (IF pc = "unwind" THEN "after_split" ELSE "before_split") \in Faults
    /\ \E p \in Wanted : p \notin Held /\ Available(p)
    /\ CallFails("Io")

SetForeign ==
    /\ pc \in {"none", "idle"}
    /\ foreign' \in Foreign
    /\ Cardinality(Held) + foreign' <= PoolSize
    /\ UNCHANGED <<tree, pc, call, iter, result, value>>

CallStep ==
    \/ FetchMeta \/ FetchRoot \/ FetchChild
    \/ RejectDuplicate \/ InsertIntoLeaf \/ FetchPrev \/ HasNoPrev
    \/ SplitLeaf \/ InsertIntoBranch \/ SplitBranch \/ GrowRoot
    \/ SearchMeta \/ SearchRoot \/ SearchChildPage \/ OpenIter
    \/ GetPair \/ Advance
    \/ NoFreeBuffer \/ WriteBackFails

Next ==
    \/ CallStep
    \/ CreateTree \/ CreateTreeFails
    \/ BeginInsert \/ BeginSearch \/ BeginNext \/ DropIter \/ SetForeign

\* A call that has begun is carried on; callers need not begin one.
Spec == Init /\ [][Next]_vars /\ WF_vars(CallStep)

-----------------------------------------------------------------------------
(* What must hold.                                                         *)

NodePages == {p \in PageIds : nodes[p] # NoNode}
LeafPages == {p \in NodePages : nodes[p].node_type = "LEAF"}
BranchPages == NodePages \ LeafPages

\* Between calls: while a split is not yet in its parent the new node is missing.
Linked == pc = "idle"

\* The page of the leaf where a search for k ends.
LeafFor(k) ==
    LET down[p \in NodePages] ==
          IF p \in LeafPages THEN p ELSE down[SearchChild(nodes[p], k)]
    IN  down[root_page_id]

Depths ==
    LET below[p \in NodePages] ==
          IF p \in LeafPages THEN {0}
          ELSE {d + 1 : d \in UNION {below[c] : c \in Range(nodes[p].children)}}
    IN  below[root_page_id]

TypeOK ==
    /\ next_page_id \in 0 .. MaxPages
    /\ \A p \in LeafPages :
         /\ nodes[p].keys \in Seq(Keys)
         /\ {nodes[p].prev_page_id, nodes[p].next_page_id}
              \subseteq LeafPages \union {INVALID_PAGE_ID}
    /\ \A p \in BranchPages :
         /\ nodes[p].keys \in Seq(Keys)
         /\ Range(nodes[p].children) \subseteq NodePages
         /\ Len(nodes[p].children) = Len(nodes[p].keys) + 1
    /\ pc \in {"none", "idle", "meta", "root", "descend", "split", "unwind",
               "search_meta", "search_root", "search", "open_advance",
               "next", "advance"}
    /\ iter = NoIter \/ iter.page \in LeafPages
    /\ value \in Keys \union {NoKey}

\* A search for a key that is in some leaf ends at that leaf: no split, failed
\* insert or new root hides a key that was inserted (insert_internal).
KeysFound ==
    Linked => \A p \in LeafPages : \A k \in Range(nodes[p].keys) : LeafFor(k) = p

\* Leaf p stands before leaf q, and no other leaf stands between them.
Before(p, q) ==
    p # q /\ \A k \in Range(nodes[p].keys), l \in Range(nodes[q].keys) : k < l
Neighbours(p, q) ==
    /\ Before(p, q)
    /\ ~\E r \in LeafPages : Before(p, r) /\ Before(r, q)

\* The links between leaves agree both ways with the order of their keys, also
\* right after a split, and so a scan meets all keys in order (the links that
\* insert_internal sets one by one).
LeafChain ==
    \A p, q \in LeafPages :
        /\ Sorted(nodes[p].keys)
        /\ p = q \/ Before(p, q) \/ Before(q, p)
        /\ nodes[p].next_page_id = q <=> Neighbours(p, q)
        /\ nodes[q].prev_page_id = p <=> Neighbours(p, q)

\* All leaves are at one depth; no node overflows its page, and none but the
\* leaf of an empty tree is empty (split_insert, fill_right_child).
NodesSound ==
    /\ Linked => Cardinality(Depths) = 1
    /\ \A p \in LeafPages :
         /\ nodes[p].keys = <<>> => p = root_page_id
         /\ Used(nodes[p].keys, LeafPairs) <= LeafCapacity
    /\ \A p \in BranchPages :
         /\ nodes[p].keys # <<>>
         /\ Used(nodes[p].keys, BranchPairs) <= BranchCapacity

\* The pair that a split sends up passes the assertion of Branch::insert, also
\* where the least key, which no split sends up, is too long for a branch.
SeparatorsFit == pc = "unwind" => SeparatorFits

\* No page is borrowed twice: neither the child that insert goes to nor the
\* leaf before the one it splits is a page it has borrowed already.
NoDoubleBorrow ==
    /\ IsInjective(path)
    /\ prev \notin Range(path)

-----------------------------------------------------------------------------
(* The tree implements OrderedIndex.                                       *)

Doing ==
    CASE pc \in {"none", "idle"} -> "nothing"
      [] pc \in {"meta", "root", "descend", "split"} -> "insert"
      [] pc = "unwind" -> "inserted"
      [] pc \in {"search_meta", "search_root", "search", "open_advance"} -> "search"
      [] pc \in {"next", "advance"} -> "next"

Scan == IF iter = NoIter \/ pc = "open_advance" THEN "closed" ELSE "open"

\* The keys in leaf p and the leaves that its links lead to.
KeysFrom(p) ==
    LET linked[q \in Pages({p}) \union LeafPages] ==
          Range(nodes[q].keys) \union
            (IF nodes[q].next_page_id = INVALID_PAGE_ID THEN {}
                                                        ELSE linked[nodes[q].next_page_id])
    IN  IF p = INVALID_PAGE_ID THEN {} ELSE linked[p]

\* What a scan has still to return: the rest of its leaf, the leaves behind it,
\* and the pair that get has returned.
Remaining ==
    Range(SubSeq(IterLeaf.keys, iter.slot_id + 1, Len(IterLeaf.keys)))
      \union KeysFrom(IterLeaf.next_page_id) \union ({pair} \ {NoKey})

\* The scan stands behind the last pair of a leaf that is not the last one:
\* get returns None, and advance goes on to the next leaf.
Gap ==
    IF pc = "advance" THEN pair = NoKey
    ELSE iter.slot_id >= Len(IterLeaf.keys) /\ IterLeaf.next_page_id # INVALID_PAGE_ID

Index == INSTANCE OrderedIndex WITH
    keys  <- UNION {Range(nodes[p].keys) : p \in LeafPages},
    doing <- Doing,
    scan  <- Scan,
    left  <- IF Scan = "open" THEN Remaining ELSE {},
    gap   <- Scan = "open" /\ Gap

\* Insert adds its key at once or not at all, an insert that is refused for
\* want of a frame leaves the index as it was; a scan that nothing disturbs
\* returns each key not below its start exactly once, in order; an insert
\* leaves it at some key, from which it goes on in order; a step that fails
\* loses one key.
ImplementsIndex == Index!Spec

=============================================================================
