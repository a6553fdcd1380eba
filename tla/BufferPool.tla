------------------------------ MODULE BufferPool ------------------------------
(***************************************************************************)
(* BufferPool and BufferPoolManager (src/buffer.rs) over the heap file.    *)
(*                                                                         *)
(* A call of fetch_page, create_page or flush is several steps: each turn  *)
(* of the clock sweep, the write-back of the victim, the read of the new   *)
(* page, each page written by flush, the sync.  Between two steps the      *)
(* process may die, and each step that does I/O may fail.  A call has      *)
(* &mut self and an Rc cannot leave its thread, so that between two steps  *)
(* of a call no client acts.  Between calls clients hold any number of     *)
(* handles (Rc<Buffer>), write the pages they hold, and drop them.         *)
(***************************************************************************)
EXTENDS Disk

CONSTANTS
    PoolSize,          \* number of frames
    NoFrame,           \* no entry of the page table
    Writes,            \* the contents that clients write: a node is never zero
    MaxUsage,          \* bound: usage count of a frame
    MaxHandles,        \* bound: handles that clients hold on one frame
    FetchUnallocated   \* whether clients also ask for ids that no page has

BufferIds == 0 .. (PoolSize - 1)

ASSUME BufferPoolAssumption ==
    /\ PoolSize \in Nat \ {0}
    /\ NoFrame \notin BufferIds
    /\ Writes \subseteq Contents
    /\ MaxUsage \in Nat \ {0}
    /\ MaxHandles \in Nat \ {0}
    /\ FetchUnallocated \in BOOLEAN

VARIABLES
    buffers,             \* the frames of the pool
    handles,             \* the clients' handles: Rc::strong_count minus one
    next_victim_id,      \* the hand of the clock
    page_table,          \* the frame each page is in
    pc,                  \* where the running call is, "idle" between calls
    request,             \* the page fetch_page asked for; create_page has none
    consecutive_pinned,  \* evict's count of pinned frames in a row
    unflushed,           \* the pages flush has yet to write
    result               \* outcome of the last call

poolVars == <<buffers, handles, next_victim_id, page_table>>
callVars == <<pc, request, consecutive_pinned, unflushed, result>>
vars == <<diskVars, poolVars, callVars>>

Frame == [page_id     : PageIds \union {INVALID_PAGE_ID},
          page        : PageData,
          is_dirty    : BOOLEAN,
          usage_count : 0 .. MaxUsage]

DefaultFrame == [page_id     |-> INVALID_PAGE_ID,
                 page        |-> Zero,
                 is_dirty    |-> FALSE,
                 usage_count |-> 0]

PCs == {"idle", "evict", "write_back", "fill", "flush"}
Results == {"none", "ok", "NoFreeBuffer", "Io"}

\* Every variable has its type; what a running call keeps is set only while
\* it runs.
TypeOK ==
    /\ DiskTypeOK
    /\ buffers \in [BufferIds -> Frame]
    /\ handles \in [BufferIds -> 0 .. MaxHandles]
    /\ next_victim_id \in BufferIds
    /\ page_table \in [PageIds -> BufferIds \union {NoFrame}]
    /\ pc \in PCs
    /\ request \in PageIds \union {INVALID_PAGE_ID}
    /\ consecutive_pinned \in 0 .. (PoolSize - 1)
    /\ unflushed \subseteq PageIds
    /\ result \in Results

-----------------------------------------------------------------------------
Mapped == {p \in PageIds : page_table[p] # NoFrame}

victim == buffers[next_victim_id]

\* Mutant of IncrementId: the hand does not wrap.
IncrementIdNoWrap(f) == f + 1

IncrementId(f) == (f + 1) % PoolSize

NewBuffers == [f \in BufferIds |-> DefaultFrame]
NoHandles == [f \in BufferIds |-> 0]
NoPages == [p \in PageIds |-> NoFrame]

Init ==
    /\ DiskInit
    /\ buffers = NewBuffers
    /\ handles = NoHandles
    /\ next_victim_id = 0
    /\ page_table = NoPages
    /\ pc = "idle"
    /\ request = INVALID_PAGE_ID
    /\ consecutive_pinned = 0
    /\ unflushed = {}
    /\ result = "none"

Begin(label, p) ==
    /\ pc = "idle"
    /\ pc' = label
    /\ request' = p
    /\ result' = "none"
    /\ consecutive_pinned' = 0

GoTo(label) ==
    /\ pc' = label
    /\ UNCHANGED <<request, result, unflushed>>

\* The call returns to its client.
Return(outcome) ==
    /\ pc' = "idle"
    /\ result' = outcome
    /\ request' = INVALID_PAGE_ID
    /\ consecutive_pinned' = 0
    /\ unflushed' = {}

-----------------------------------------------------------------------------
(* The client between calls.                                               *)

DropHandle(f) ==
    /\ pc = "idle"
    /\ handles[f] > 0
    /\ handles' = [handles EXCEPT ![f] = @ - 1]
    /\ UNCHANGED <<diskVars, buffers, next_victim_id, page_table, callVars>>

\* A client writes a page it holds and sets is_dirty before it drops the
\* handle, as every writer in btree.rs does.
WritePage(f, data) ==
    /\ pc = "idle"
    /\ handles[f] > 0
    /\ buffers' = [buffers EXCEPT ![f].page = data, ![f].is_dirty = TRUE]
    /\ UNCHANGED <<diskVars, handles, next_victim_id, page_table, callVars>>

-----------------------------------------------------------------------------
(* fetch_page and create_page.                                             *)

Requestable(p) == FetchUnallocated \/ p < next_page_id

\* Mutant of FetchHit: a hit does not raise the usage count.
FetchHitUncounted(p) ==
    LET f == page_table[p] IN
    /\ pc = "idle"
    /\ Requestable(p)
    /\ f # NoFrame
    /\ handles[f] < MaxHandles
    /\ handles' = [handles EXCEPT ![f] = @ + 1]
    /\ Return("ok")
    /\ UNCHANGED <<diskVars, buffers, next_victim_id, page_table>>

FetchHit(p) ==
    LET f == page_table[p] IN
    /\ pc = "idle"
    /\ Requestable(p)
    /\ f # NoFrame
    /\ buffers[f].usage_count < MaxUsage
    /\ handles[f] < MaxHandles
    /\ buffers' = [buffers EXCEPT ![f].usage_count = @ + 1]
    /\ handles' = [handles EXCEPT ![f] = @ + 1]
    /\ Return("ok")
    /\ UNCHANGED <<diskVars, next_victim_id, page_table>>

FetchMiss(p) ==
    /\ Requestable(p)
    /\ page_table[p] = NoFrame
    /\ Begin("evict", p)
    /\ UNCHANGED <<diskVars, poolVars, unflushed>>

CreatePage ==
    /\ next_page_id < MaxPages
    /\ Begin("evict", INVALID_PAGE_ID)
    /\ UNCHANGED <<diskVars, poolVars, unflushed>>

\* Mutant of EvictTake: a dirty victim is not written back.
EvictTakeUnwritten ==
    /\ pc = "evict"
    /\ victim.usage_count = 0
    /\ GoTo("fill")
    /\ consecutive_pinned' = 0
    /\ UNCHANGED <<diskVars, poolVars>>

\* evict: the frame under the hand has not been used since the hand last
\* passed it.  Whether it is still held is not looked at.
EvictTake ==
    /\ pc = "evict"
    /\ victim.usage_count = 0
    /\ GoTo(IF victim.is_dirty THEN "write_back" ELSE "fill")
    /\ consecutive_pinned' = 0
    /\ UNCHANGED <<diskVars, poolVars>>

\* Mutant of EvictAge: consecutive_pinned is not reset.
EvictAgeUncounted ==
    /\ pc = "evict"
    /\ victim.usage_count > 0
    /\ handles[next_victim_id] = 0
    /\ buffers' = [buffers EXCEPT ![next_victim_id].usage_count = @ - 1]
    /\ next_victim_id' = IncrementId(next_victim_id)
    /\ GoTo("evict")
    /\ UNCHANGED <<diskVars, handles, page_table, consecutive_pinned>>

\* evict: Rc::get_mut finds no other holder; the count is lowered.
EvictAge ==
    /\ pc = "evict"
    /\ victim.usage_count > 0
    /\ handles[next_victim_id] = 0
    /\ buffers' = [buffers EXCEPT ![next_victim_id].usage_count = @ - 1]
    /\ consecutive_pinned' = 0
    /\ next_victim_id' = IncrementId(next_victim_id)
    /\ GoTo("evict")
    /\ UNCHANGED <<diskVars, handles, page_table>>

\* Mutant of EvictSkip: held frames are not counted.
EvictSkipUncounted ==
    /\ pc = "evict"
    /\ victim.usage_count > 0
    /\ handles[next_victim_id] > 0
    /\ next_victim_id' = IncrementId(next_victim_id)
    /\ GoTo("evict")
    /\ UNCHANGED <<diskVars, buffers, handles, page_table, consecutive_pinned>>

\* evict: the frame is held, and the sweep goes on.
EvictSkip ==
    /\ pc = "evict"
    /\ victim.usage_count > 0
    /\ handles[next_victim_id] > 0
    /\ consecutive_pinned + 1 < PoolSize
    /\ consecutive_pinned' = consecutive_pinned + 1
    /\ next_victim_id' = IncrementId(next_victim_id)
    /\ GoTo("evict")
    /\ UNCHANGED <<diskVars, buffers, handles, page_table>>

\* evict: a whole turn met held frames only.
EvictRefuse ==
    /\ pc = "evict"
    /\ victim.usage_count > 0
    /\ handles[next_victim_id] > 0
    /\ consecutive_pinned + 1 >= PoolSize
    /\ Return("NoFreeBuffer")
    /\ UNCHANGED <<diskVars, poolVars>>

WriteBack ==
    /\ pc = "write_back"
    /\ WritePageData(victim.page_id, victim.page)
    /\ GoTo("fill")
    /\ UNCHANGED <<poolVars, consecutive_pinned>>

WriteBackFails ==
    /\ pc = "write_back"
    /\ WritePageDataFails(victim.page_id)
    /\ Return("Io")
    /\ UNCHANGED poolVars

\* Mutant of Remap: the entry of the evicted page stays.
RemapKeepsEvicted(evicted, p) ==
    page_table' = [page_table EXCEPT ![p] = next_victim_id]

\* The page table forgets the page that was evicted and learns the new one.
\* An INVALID_PAGE_ID victim has no entry to remove.
Remap(evicted, p) ==
    page_table' = [q \in PageIds |-> IF q = p THEN next_victim_id
                                     ELSE IF q = evicted THEN NoFrame
                                     ELSE page_table[q]]

\* The handle on the frame that was filled goes to the client.
HandOut ==
    /\ handles' = [handles EXCEPT ![next_victim_id] = @ + 1]
    /\ Return("ok")
    /\ UNCHANGED next_victim_id

FillFetched ==
    /\ pc = "fill"
    /\ request # INVALID_PAGE_ID
    /\ Readable(heap_file, request)
    /\ buffers' = [buffers EXCEPT ![next_victim_id] =
                      [page_id     |-> request,
                       page        |-> ReadPageData(request),
                       is_dirty    |-> FALSE,
                       usage_count |-> 1]]
    /\ Remap(victim.page_id, request)
    /\ HandOut
    /\ UNCHANGED diskVars

\* The read fails after the frame was given its new page id, and the early
\* return skips the usage count and the page table.
FillFetchedFails ==
    /\ pc = "fill"
    /\ request # INVALID_PAGE_ID
    /\ \E data \in ReadPageDataFails(request, victim.page) :
          buffers' = [buffers EXCEPT ![next_victim_id].page_id = request,
                                     ![next_victim_id].is_dirty = FALSE,
                                     ![next_victim_id].page = data]
    /\ Return("Io")
    /\ UNCHANGED <<diskVars, handles, next_victim_id, page_table>>

FillCreated ==
    /\ pc = "fill"
    /\ request = INVALID_PAGE_ID
    /\ AllocatePage
    /\ buffers' = [buffers EXCEPT ![next_victim_id] =
                      [page_id     |-> next_page_id,
                       page        |-> Zero,
                       is_dirty    |-> TRUE,
                       usage_count |-> 1]]
    /\ Remap(victim.page_id, next_page_id)
    /\ HandOut

-----------------------------------------------------------------------------
(* flush.  A HashMap is walked in no particular order.                     *)

Flush ==
    /\ Begin("flush", INVALID_PAGE_ID)
    /\ unflushed' = Mapped
    /\ UNCHANGED <<diskVars, poolVars>>

\* Every page of the page table is written, dirty or not.
FlushPage(p) ==
    LET f == page_table[p] IN
    /\ pc = "flush"
    /\ p \in unflushed
    /\ WritePageData(p, buffers[f].page)
    /\ buffers' = [buffers EXCEPT ![f].is_dirty = FALSE]
    /\ unflushed' = unflushed \ {p}
    /\ UNCHANGED <<handles, next_victim_id, page_table,
                   pc, request, consecutive_pinned, result>>

\* Mutant of FlushPageFails: the page is marked clean before it is written.
FlushPageFailsCleaned(p) ==
    /\ pc = "flush"
    /\ p \in unflushed
    /\ WritePageDataFails(p)
    /\ buffers' = [buffers EXCEPT ![page_table[p]].is_dirty = FALSE]
    /\ Return("Io")
    /\ UNCHANGED <<handles, next_victim_id, page_table>>

\* Mutant of FlushPageFails: flush goes on with the next page.
FlushPageFailsSilently(p) ==
    /\ pc = "flush"
    /\ p \in unflushed
    /\ WritePageDataFails(p)
    /\ unflushed' = unflushed \ {p}
    /\ UNCHANGED <<poolVars, pc, request, consecutive_pinned, result>>

FlushPageFails(p) ==
    /\ pc = "flush"
    /\ p \in unflushed
    /\ WritePageDataFails(p)
    /\ Return("Io")
    /\ UNCHANGED poolVars

FlushSync ==
    /\ pc = "flush"
    /\ unflushed = {}
    /\ Sync
    /\ Return("ok")
    /\ UNCHANGED poolVars

\* Mutant of FlushSyncFails: the error of sync_all is dropped.
FlushSyncFailsSilently ==
    /\ pc = "flush"
    /\ unflushed = {}
    /\ SyncFails
    /\ Return("ok")
    /\ UNCHANGED poolVars

FlushSyncFails ==
    /\ pc = "flush"
    /\ unflushed = {}
    /\ SyncFails
    /\ Return("Io")
    /\ UNCHANGED poolVars

-----------------------------------------------------------------------------
\* The process ends at any point, nothing is written on the way out (there is
\* no Drop), and a new process opens the file with an empty pool.
Reopen ==
    /\ ReopenAfterExit \/ ReopenAfterPowerLoss
    /\ buffers' = NewBuffers
    /\ handles' = NoHandles
    /\ next_victim_id' = 0
    /\ page_table' = NoPages
    /\ Return("none")

Client ==
    \/ \E f \in BufferIds : DropHandle(f)
    \/ \E f \in BufferIds, data \in Writes : WritePage(f, data)
    \/ \E p \in PageIds : FetchHit(p) \/ FetchMiss(p)
    \/ CreatePage
    \/ Flush

\* The steps of a call that has begun.
CallStep ==
    \/ EvictTake \/ EvictAge \/ EvictSkip \/ EvictRefuse
    \/ WriteBack \/ WriteBackFails
    \/ FillFetched \/ FillFetchedFails \/ FillCreated
    \/ \E p \in PageIds : FlushPage(p) \/ FlushPageFails(p)
    \/ FlushSync \/ FlushSyncFails

Next == Client \/ CallStep \/ Reopen

Spec == Init /\ [][Next]_vars

\* A call that has begun runs on: nothing else runs in its thread.
FairSpec == Spec /\ WF_vars(CallStep)

-----------------------------------------------------------------------------
(* Properties.                                                             *)

\* What a client that asks for page p is entitled to read.
Mem(p) == IF page_table[p] # NoFrame THEN buffers[page_table[p]].page
                          ELSE heap_file.pages[p]

\* The frame that evict chose has no other holder, so that the unwrap of
\* Rc::get_mut in fetch_page and create_page never panics, although evict
\* takes a frame whose usage count is 0 without asking whether it is held.
VictimUnpinned == pc \in {"write_back", "fill"} => handles[next_victim_id] = 0

\* The page table tells exactly which page is in which frame (the comment on
\* page_table): no two pages share a frame, and no frame holds a page that
\* the table does not know.
MappingExact ==
    \A p \in PageIds, f \in BufferIds :
        page_table[p] = f <=> buffers[f].page_id = p

\* A page that is clean in the pool is in the file as it is in the pool, so
\* that evicting its frame without a write-back loses nothing.
CleanMatchesFile ==
    \A p \in Mapped :
        ~buffers[page_table[p]].is_dirty =>
            /\ Readable(heap_file, p)
            /\ heap_file.pages[p] = buffers[page_table[p]].page

\* A page that was ever handed out is in the pool or in the file: fetching it
\* never meets the end of the file.
AllocatedReachable ==
    \A p \in PageIds :
        p < next_page_id => p \in Mapped \/ Readable(heap_file, p)

\* NoFreeBuffer is returned only when clients hold every frame ("in case all
\* buffers are in use"), however the usage counts stood.
RefusalJustified ==
    [][result' = "NoFreeBuffer" /\ result # "NoFreeBuffer"
         => \A f \in BufferIds : handles[f] > 0]_vars

\* A flush that returns Ok leaves every allocated page, as clients see it, on
\* the disk, those that were evicted before the flush included.
FlushMakesDurable ==
    [][pc = "flush" /\ result' = "ok" =>
         \A p \in PageIds : p < next_page_id =>
             /\ Readable(durable', p)
             /\ durable'.pages[p] = Mem(p)]_vars

\* Every call returns: the clock sweep finds a victim or gives up.
CallReturns == pc # "idle" ~> pc = "idle"

=============================================================================
