-------------------------- MODULE BufferPoolProofs --------------------------
(***************************************************************************)
(* Inductive invariants of BufferPool and the proofs of its properties, in *)
(* three parts: what holds whatever fails (PoolInv); that no page is lost  *)
(* or mixed up where reads do not fail and clients ask for pages that exist *)
(* (DataInv), and where writes are all or nothing as well (ContentInv); and *)
(* that BufferPoolStore, the pool with two history variables, then         *)
(* implements PageStore.                                                   *)
(***************************************************************************)
EXTENDS BufferPoolStore, FiniteSetTheorems, TLAPS


\* The frames that the hand passed last, consecutive_pinned of them.
JustPassed ==
    {f \in BufferIds :
        \/ next_victim_id - consecutive_pinned <= f /\ f < next_victim_id
        \/ next_victim_id - consecutive_pinned + PoolSize <= f}

\* A held frame has been used since the hand last lowered its count to 0, and
\* only frames that hold a page are held, dirty or in the page table.
FramesInv ==
    /\ \A f \in BufferIds :
          /\ handles[f] > 0 => buffers[f].usage_count > 0
          /\ handles[f] > 0 \/ buffers[f].is_dirty
                => buffers[f].page_id \in PageIds
    /\ \A p \in Mapped : buffers[page_table[p]].page_id \in PageIds

\* What holds where a call is.
CallInv ==
    /\ pc = "evict" => \A f \in JustPassed : handles[f] > 0
    /\ pc \in {"write_back", "fill"} => victim.usage_count = 0
    /\ pc = "write_back" => victim.is_dirty
    /\ pc \in {"evict", "write_back", "fill"} /\ request = INVALID_PAGE_ID
          => next_page_id < MaxPages
    /\ pc = "flush" => unflushed \subseteq Mapped

\* Inductive whatever I/O errors occur.
PoolInv == TypeOK /\ FramesInv /\ CallInv

-----------------------------------------------------------------------------
\* The hand steps to the next frame and wraps behind the last one.
LEMMA IncrementIdWraps ==
    ASSUME NEW f \in BufferIds
    PROVE  IncrementId(f) = IF f = PoolSize - 1 THEN 0 ELSE f + 1
<1>1. PoolSize \in Nat /\ PoolSize > 0
  BY BufferPoolAssumption
<1>2. f + 1 \in 1 .. PoolSize
  BY <1>1 DEF BufferIds
<1>3. CASE f + 1 = PoolSize
  <2>1. PoolSize % PoolSize = 0
    BY <1>1
  <2>2. IncrementId(f) = 0
    BY <1>3, <2>1 DEF IncrementId
  <2>3. f = PoolSize - 1
    BY <1>1, <1>3 DEF BufferIds
  <2>4. QED
    BY <2>2, <2>3
<1>4. CASE f + 1 < PoolSize
  <2>1. (f + 1) % PoolSize = f + 1
    BY <1>1, <1>2, <1>4
  <2>2. QED
    BY <1>1, <1>2, <1>4, <2>1 DEF IncrementId, BufferIds
<1>5. QED
  BY <1>1, <1>2, <1>3, <1>4

\* The hand stays on a frame.
LEMMA IncrementIdInRange ==
    ASSUME NEW f \in BufferIds
    PROVE  IncrementId(f) \in BufferIds
BY IncrementIdWraps, BufferPoolAssumption DEF BufferIds

-----------------------------------------------------------------------------
(* The file operations keep the types of the disk.                         *)

LEMMA EmptyFileType == EmptyFile \in File
BY DiskAssumption DEF EmptyFile, File, PageData, PageIds

LEMMA WrittenType ==
    ASSUME NEW file \in File, NEW p \in PageIds, NEW data \in PageData
    PROVE  Written(file, p, data) \in File /\ PartlyWritten(file, p) \in File
BY DiskAssumption DEF Written, PartlyWritten, File, PageData, PageIds

LEMMA WriteType ==
    ASSUME DiskTypeOK, NEW p \in PageIds, NEW data \in PageData,
           WritePageData(p, data) \/ WritePageDataFails(p)
    PROVE  DiskTypeOK'
BY WrittenType DEF DiskTypeOK, WritePageData, WritePageDataFails

LEMMA ReopenType ==
    ASSUME DiskTypeOK, ReopenAfterExit \/ ReopenAfterPowerLoss
    PROVE  DiskTypeOK'
<1>1. CASE ReopenAfterExit
  BY <1>1, DiskAssumption DEF ReopenAfterExit, DiskTypeOK, File
<1>2. CASE ReopenAfterPowerLoss
  <2>1. PICK len \in durable.len .. heap_file.len, lost \in SUBSET Unsynced :
          /\ heap_file' =
                 [pages |-> [p \in PageIds |->
                                IF p >= len THEN Zero
                                ELSE IF p \in lost THEN durable.pages[p]
                                ELSE heap_file.pages[p]],
                  len   |-> len]
          /\ durable' = heap_file'
          /\ next_page_id' = len
    BY <1>2 DEF ReopenAfterPowerLoss
  <2>2. len \in 0 .. MaxPages
    BY DiskAssumption DEF DiskTypeOK, File
  <2>3. \A p \in PageIds : durable.pages[p] \in PageData /\ heap_file.pages[p] \in PageData
    BY DEF DiskTypeOK, File
  <2>4. heap_file' \in File
    BY <2>1, <2>2, <2>3, DiskAssumption DEF File, PageData
  <2>5. QED
    BY <2>1, <2>2, <2>4 DEF DiskTypeOK
<1>3. QED
  BY <1>1, <1>2

-----------------------------------------------------------------------------
LEMMA InitPoolInv == Init => PoolInv
<1> SUFFICES ASSUME Init PROVE PoolInv
  OBVIOUS
<1> USE DiskAssumption, BufferPoolAssumption DEF Init, NoPages
<1>1. DiskTypeOK
  BY EmptyFileType DEF DiskInit, DiskTypeOK, EmptyFile
<1>2. buffers \in [BufferIds -> Frame]
  BY DEF NewBuffers, DefaultFrame, Frame, PageData
<1>3. TypeOK
  BY <1>1, <1>2 DEF TypeOK, NoHandles, BufferIds, PCs, Results
<1>4. FramesInv /\ CallInv
  BY DEF FramesInv, CallInv, NoHandles, NewBuffers, DefaultFrame, Mapped
<1>5. QED
  BY <1>3, <1>4 DEF PoolInv

\* What TypeOK says of the frame under the hand.
LEMMA VictimType ==
    ASSUME TypeOK
    PROVE  /\ next_victim_id \in BufferIds
           /\ victim \in Frame
           /\ victim.page \in PageData
           /\ victim.is_dirty \in BOOLEAN
           /\ victim.usage_count \in 0 .. MaxUsage
BY DEF TypeOK, Frame, victim

\* The variables of a call have their types after it begins, goes on, returns.
LEMMA CallTypes ==
    ASSUME TypeOK
    PROVE  /\ \A label \in PCs, p \in PageIds \union {INVALID_PAGE_ID} :
                 Begin(label, p) =>
                    /\ pc' \in PCs
                    /\ request' \in PageIds \union {INVALID_PAGE_ID}
                    /\ consecutive_pinned' \in 0 .. (PoolSize - 1)
                    /\ result' \in Results
           /\ \A label \in PCs :
                 GoTo(label) =>
                    /\ pc' \in PCs
                    /\ request' \in PageIds \union {INVALID_PAGE_ID}
                    /\ unflushed' \subseteq PageIds
                    /\ result' \in Results
           /\ \A outcome \in Results :
                 Return(outcome) =>
                    /\ pc' \in PCs
                    /\ request' \in PageIds \union {INVALID_PAGE_ID}
                    /\ consecutive_pinned' \in 0 .. (PoolSize - 1)
                    /\ unflushed' \subseteq PageIds
                    /\ result' \in Results
BY BufferPoolAssumption DEF TypeOK, Begin, GoTo, Return, PCs, Results

LEMMA TypeStep == PoolInv /\ [Next]_vars => TypeOK'
<1> SUFFICES ASSUME PoolInv, [Next]_vars PROVE TypeOK'
  OBVIOUS
<1> USE DiskAssumption, BufferPoolAssumption, VictimType, CallTypes DEF PoolInv
<1>0. /\ \A label \in {"evict", "write_back", "fill", "flush"} : label \in PCs
      /\ \A outcome \in {"none", "ok", "NoFreeBuffer", "Io"} : outcome \in Results
      /\ 0 \in 0 .. (PoolSize - 1)
  BY DEF PCs, Results
<1>1. ASSUME NEW f \in BufferIds, DropHandle(f) PROVE TypeOK'
  BY <1>1 DEF DropHandle, TypeOK, DiskTypeOK, diskVars, callVars
<1>2. ASSUME NEW f \in BufferIds, NEW data \in Writes, WritePage(f, data)
      PROVE  TypeOK'
  <2>1. [buffers[f] EXCEPT !.page = data, !.is_dirty = TRUE] \in Frame
    BY DEF TypeOK, Frame, PageData
  <2>2. buffers' \in [BufferIds -> Frame]
    BY <1>2, <2>1 DEF WritePage, TypeOK
  <2>3. QED
    BY <1>2, <2>2 DEF WritePage, TypeOK, DiskTypeOK, diskVars, callVars
<1>3. ASSUME NEW p \in PageIds, FetchHit(p) PROVE TypeOK'
  <2>1. page_table[p] \in BufferIds
    BY <1>3 DEF FetchHit, TypeOK
  <2>2. buffers' \in [BufferIds -> Frame]
    BY <1>3, <2>1 DEF FetchHit, TypeOK, Frame
  <2>3. handles' \in [BufferIds -> 0 .. MaxHandles]
    BY <1>3, <2>1 DEF FetchHit, TypeOK
  <2>4. QED
    BY <1>0, <1>3, <2>2, <2>3 DEF FetchHit, TypeOK, DiskTypeOK, diskVars
<1>4. ASSUME NEW p \in PageIds, FetchMiss(p) PROVE TypeOK'
  BY <1>0, <1>4 DEF FetchMiss, TypeOK, DiskTypeOK, diskVars, poolVars
<1>5. CASE CreatePage
  BY <1>0, <1>5 DEF CreatePage, TypeOK, DiskTypeOK, diskVars, poolVars
<1>6. CASE Flush
  BY <1>0, <1>6 DEF Flush, Mapped, TypeOK, DiskTypeOK, diskVars, poolVars
<1>7. CASE EvictTake
  BY <1>0, <1>7 DEF EvictTake, TypeOK, DiskTypeOK, diskVars, poolVars
<1>8. CASE EvictAge
  <2>1. buffers' \in [BufferIds -> Frame]
    BY <1>8 DEF EvictAge, victim, TypeOK, Frame
  <2>2. next_victim_id' \in BufferIds
    BY <1>8, IncrementIdInRange DEF EvictAge
  <2>3. QED
    BY <1>0, <1>8, <2>1, <2>2 DEF EvictAge, TypeOK, DiskTypeOK, diskVars
<1>9. CASE EvictSkip
  <2>1. consecutive_pinned' \in 0 .. (PoolSize - 1)
    BY <1>9 DEF EvictSkip, TypeOK
  <2>2. next_victim_id' \in BufferIds
    BY <1>9, IncrementIdInRange DEF EvictSkip
  <2>3. QED
    BY <1>0, <1>9, <2>1, <2>2 DEF EvictSkip, TypeOK, DiskTypeOK, diskVars
<1>10. CASE EvictRefuse
  BY <1>0, <1>10 DEF EvictRefuse, TypeOK, DiskTypeOK, diskVars, poolVars
<1>11. CASE WriteBack
  <2>1. DiskTypeOK'
    BY <1>11, WriteType DEF WriteBack, CallInv, FramesInv, victim, TypeOK
  <2>2. QED
    BY <1>0, <1>11, <2>1 DEF WriteBack, TypeOK, poolVars
<1>12. CASE WriteBackFails
  <2>1. DiskTypeOK'
    BY <1>12, WriteType DEF WriteBackFails, CallInv, FramesInv, victim, TypeOK
  <2>2. QED
    BY <1>0, <1>12, <2>1 DEF WriteBackFails, TypeOK, poolVars
<1>13. ASSUME pc = "fill", HandOut,
              NEW p \in PageIds, Remap(victim.page_id, p)
       PROVE  /\ handles' \in [BufferIds -> 0 .. MaxHandles]
              /\ page_table' \in [PageIds -> BufferIds \union {NoFrame}]
              /\ next_victim_id' \in BufferIds
  <2>1. handles[next_victim_id] = 0
    BY <1>13 DEF CallInv, FramesInv, TypeOK, victim
  <2>2. QED
    BY <1>13, <2>1 DEF HandOut, Remap, TypeOK
<1>14. CASE FillFetched
  <2>1. request \in PageIds /\ ReadPageData(request) \in PageData
    BY <1>14 DEF FillFetched, TypeOK, DiskTypeOK, File, ReadPageData
  <2>2. buffers' \in [BufferIds -> Frame]
    BY <1>14, <2>1 DEF FillFetched, TypeOK, Frame
  <2>3. QED
    BY <1>0, <1>13, <1>14, <2>1, <2>2
    DEF FillFetched, HandOut, TypeOK, DiskTypeOK, diskVars
<1>15. CASE FillFetchedFails
  <2>1. PICK data \in ReadPageDataFails(request, victim.page) :
          buffers' = [buffers EXCEPT ![next_victim_id].page_id = request,
                                     ![next_victim_id].is_dirty = FALSE,
                                     ![next_victim_id].page = data]
    BY <1>15 DEF FillFetchedFails
  <2>2. data \in PageData
    BY <2>1 DEF ReadPageDataFails, PageData
  <2>3. buffers' \in [BufferIds -> Frame]
    <3>1. buffers \in [BufferIds -> Frame] /\ request \in PageIds
      BY <1>15 DEF TypeOK, FillFetchedFails
    <3>2. QED
      <4> DEFINE f == buffers[next_victim_id]
                 g == [f EXCEPT !.page_id = request, !.is_dirty = FALSE, !.page = data]
      <4>1. \A b \in BufferIds : buffers'[b] = IF b = next_victim_id THEN g ELSE buffers[b]
        BY <2>1, <3>1
      <4>2. CASE next_victim_id \in BufferIds
        <5>1. f \in Frame
          BY <3>1, <4>2
        <5>2. g \in Frame
          BY <2>2, <3>1, <5>1 DEF Frame
        <5> QED BY <2>1, <3>1, <4>1, <5>2
      <4>3. CASE next_victim_id \notin BufferIds
        BY <2>1, <3>1, <4>3
      <4> QED BY <4>2, <4>3
  <2>4. QED
    BY <1>0, <1>15, <2>3 DEF FillFetchedFails, TypeOK, DiskTypeOK, diskVars
<1>16. CASE FillCreated
  <2>1. next_page_id \in PageIds /\ next_page_id + 1 \in 0 .. MaxPages
    BY <1>16 DEF FillCreated, CallInv, TypeOK, DiskTypeOK, PageIds
  <2>2. buffers' \in [BufferIds -> Frame]
    BY <1>16, <2>1 DEF FillCreated, TypeOK, Frame, PageData
  <2>3. DiskTypeOK'
    BY <1>16, <2>1 DEF FillCreated, AllocatePage, TypeOK, DiskTypeOK
  <2>4. QED
    BY <1>0, <1>13, <1>16, <2>1, <2>2, <2>3 DEF FillCreated, HandOut, TypeOK
<1>17. ASSUME NEW p \in PageIds, FlushPage(p) PROVE TypeOK'
  <2>1. page_table[p] \in BufferIds
    BY <1>17 DEF FlushPage, CallInv, Mapped, TypeOK
  <2>2. buffers[page_table[p]].page \in PageData
    BY <2>1 DEF TypeOK, Frame
  <2>3. DiskTypeOK'
    BY <1>17, <2>2, WriteType DEF FlushPage, TypeOK
  <2>4. buffers' \in [BufferIds -> Frame]
    BY <1>17, <2>1 DEF FlushPage, TypeOK, Frame
  <2>5. QED
    BY <1>17, <2>3, <2>4 DEF FlushPage, TypeOK
<1>18. ASSUME NEW p \in PageIds, FlushPageFails(p) PROVE TypeOK'
  <2>1. DiskTypeOK'
    BY <1>18, WriteType DEF FlushPageFails, TypeOK, PageData
  <2>2. QED
    BY <1>0, <1>18, <2>1 DEF FlushPageFails, TypeOK, poolVars
<1>19. CASE FlushSync \/ FlushSyncFails
  BY <1>0, <1>19
  DEF FlushSync, FlushSyncFails, Sync, SyncFails, TypeOK, DiskTypeOK, diskVars, poolVars
<1>20. CASE Reopen
  <2>1. DiskTypeOK'
    BY <1>20, ReopenType DEF Reopen, TypeOK
  <2>2. buffers' \in [BufferIds -> Frame]
    BY <1>20 DEF Reopen, NewBuffers, DefaultFrame, Frame, PageData
  <2>3. QED
    BY <1>0, <1>20, <2>1, <2>2
    DEF Reopen, NoHandles, NoPages, BufferIds, TypeOK
<1>21. CASE UNCHANGED vars
  BY <1>21 DEF vars, diskVars, poolVars, callVars, TypeOK, DiskTypeOK
<1>22. QED
  BY <1>1, <1>2, <1>3, <1>4, <1>5, <1>6, <1>7, <1>8, <1>9, <1>10, <1>11, <1>12,
     <1>14, <1>15, <1>16, <1>17, <1>18, <1>19, <1>20, <1>21
  DEF Next, Client, CallStep

\* Where no frame and no handle changes, FramesInv is kept.
LEMMA FramesUnchanged ==
    ASSUME FramesInv, UNCHANGED <<buffers, handles, page_table>>
    PROVE  FramesInv'
BY DEF FramesInv, Mapped

\* Filling the victim keeps FramesInv, whichever page it gets.
LEMMA FillFrames ==
    ASSUME PoolInv, NEW p \in PageIds, NEW data, NEW dirty \in BOOLEAN,
           buffers' = [buffers EXCEPT ![next_victim_id] =
                          [page_id |-> p, page |-> data,
                           is_dirty |-> dirty, usage_count |-> 1]],
           Remap(victim.page_id, p), HandOut
    PROVE  FramesInv'
<1>1. /\ buffers'[next_victim_id].page_id = p
      /\ buffers'[next_victim_id].usage_count = 1
      /\ \A f \in BufferIds \ {next_victim_id} :
            buffers'[f] = buffers[f] /\ handles'[f] = handles[f]
  BY DEF PoolInv, TypeOK, HandOut
<1>2. \A q \in PageIds :
         page_table'[q] \in {next_victim_id, NoFrame, page_table[q]}
  BY DEF Remap
<1>3. \A f \in BufferIds :
         /\ handles'[f] > 0 => buffers'[f].usage_count > 0
         /\ handles'[f] > 0 \/ buffers'[f].is_dirty
               => buffers'[f].page_id \in PageIds
  BY <1>1 DEF PoolInv, FramesInv
<1>4. \A q \in Mapped' : buffers'[page_table'[q]].page_id \in PageIds
  <2> TAKE q \in Mapped'
  <2>1. CASE page_table'[q] = next_victim_id
    BY <1>1, <2>1
  <2>2. CASE page_table'[q] # next_victim_id
    <3>1. page_table'[q] = page_table[q] /\ q \in Mapped
      BY <1>2, <2>2 DEF Mapped
    <3>2. page_table[q] \in BufferIds
      BY <3>1 DEF PoolInv, TypeOK, Mapped
    <3>3. QED
      BY <1>1, <2>2, <3>1, <3>2 DEF PoolInv, FramesInv
  <2>3. QED
    BY <2>1, <2>2
<1>5. QED
  BY <1>3, <1>4 DEF FramesInv

LEMMA FramesStep == PoolInv /\ [Next]_vars => FramesInv'
<1> SUFFICES ASSUME PoolInv, [Next]_vars PROVE FramesInv'
  OBVIOUS
<1> USE BufferPoolAssumption DEF PoolInv
<1>1. ASSUME NEW f \in BufferIds, DropHandle(f) PROVE FramesInv'
  BY <1>1 DEF DropHandle, FramesInv, Mapped, TypeOK
<1>2. ASSUME NEW f \in BufferIds, NEW data \in Writes, WritePage(f, data)
      PROVE  FramesInv'
  BY <1>2 DEF WritePage, FramesInv, Mapped, TypeOK, Frame
<1>3. ASSUME NEW p \in PageIds, FetchHit(p) PROVE FramesInv'
  <2>1. page_table[p] \in BufferIds /\ p \in Mapped
    BY <1>3 DEF FetchHit, TypeOK, Mapped
  <2>2. QED
    BY <1>3, <2>1 DEF FetchHit, FramesInv, Mapped, TypeOK, Frame
<1>4. CASE \/ \E p \in PageIds : FetchMiss(p)
           \/ CreatePage \/ Flush
           \/ EvictTake \/ EvictSkip \/ EvictRefuse
           \/ WriteBack \/ WriteBackFails
           \/ \E p \in PageIds : FlushPageFails(p)
           \/ FlushSync \/ FlushSyncFails
  BY <1>4, FramesUnchanged
  DEF FetchMiss, CreatePage, Flush, EvictTake, EvictSkip, EvictRefuse,
      WriteBack, WriteBackFails, FlushPageFails, FlushSync, FlushSyncFails,
      poolVars
<1>5. CASE EvictAge
  BY <1>5 DEF EvictAge, FramesInv, Mapped, TypeOK, Frame
<1>6. CASE FillFetched
  BY <1>6, FillFrames DEF FillFetched, TypeOK
<1>7. CASE FillFetchedFails
  <2>1. request \in PageIds
    BY <1>7 DEF FillFetchedFails, TypeOK
  <2>2. \A f \in BufferIds :
           /\ buffers'[f].usage_count = buffers[f].usage_count
           /\ \/ buffers'[f].page_id = request
              \/ buffers'[f].page_id = buffers[f].page_id
           /\ buffers'[f].is_dirty => buffers[f].is_dirty
    BY <1>7 DEF FillFetchedFails, TypeOK, Frame
  <2>3. UNCHANGED <<handles, page_table>>
    BY <1>7 DEF FillFetchedFails
  <2>4. QED
    BY <2>1, <2>2, <2>3 DEF FramesInv, Mapped, TypeOK
<1>8. CASE FillCreated
  <2>1. next_page_id \in PageIds
    BY <1>8, DiskAssumption DEF FillCreated, CallInv, TypeOK, DiskTypeOK, PageIds
  <2>2. QED
    BY <1>8, <2>1, FillFrames DEF FillCreated
<1>9. ASSUME NEW p \in PageIds, FlushPage(p) PROVE FramesInv'
  <2>1. \A f \in BufferIds :
           /\ buffers'[f].usage_count = buffers[f].usage_count
           /\ buffers'[f].page_id = buffers[f].page_id
           /\ buffers'[f].is_dirty => buffers[f].is_dirty
    BY <1>9 DEF FlushPage, TypeOK, Frame
  <2>2. UNCHANGED <<handles, page_table>>
    BY <1>9 DEF FlushPage
  <2>3. QED
    BY <2>1, <2>2 DEF FramesInv, Mapped, TypeOK
<1>10. CASE Reopen
  BY <1>10 DEF Reopen, NewBuffers, NoHandles, NoPages, DefaultFrame, FramesInv, Mapped
<1>11. CASE UNCHANGED vars
  BY <1>11, FramesUnchanged DEF vars, poolVars
<1>12. QED
  BY <1>1, <1>2, <1>3, <1>4, <1>5, <1>6, <1>7, <1>8, <1>9, <1>10, <1>11
  DEF Next, Client, CallStep

-----------------------------------------------------------------------------
LEMMA CallInvStep == PoolInv /\ [Next]_vars => CallInv'
<1> SUFFICES ASSUME PoolInv, [Next]_vars PROVE CallInv'
  OBVIOUS
<1> USE BufferPoolAssumption DEF PoolInv
<1>1. CASE pc' = "idle"
  BY <1>1 DEF CallInv
<1>2. CASE UNCHANGED vars
  BY <1>2 DEF vars, diskVars, poolVars, callVars, CallInv, JustPassed, Mapped, victim
<1>3. ASSUME NEW p \in PageIds, FetchMiss(p) PROVE CallInv'
  <2>1. JustPassed' = {}
    BY <1>3 DEF FetchMiss, Begin, poolVars, JustPassed, BufferIds, TypeOK
  <2>2. QED
    BY <1>3, <2>1, DiskAssumption DEF FetchMiss, Begin, CallInv
<1>4. CASE CreatePage
  <2>1. JustPassed' = {}
    BY <1>4 DEF CreatePage, Begin, poolVars, JustPassed, BufferIds, TypeOK
  <2>2. QED
    BY <1>4, <2>1 DEF CreatePage, Begin, CallInv, diskVars
<1>5. CASE Flush
  BY <1>5 DEF Flush, Begin, poolVars, Mapped, CallInv
<1>6. CASE EvictTake
  BY <1>6 DEF EvictTake, GoTo, diskVars, poolVars, victim, CallInv
<1>7. CASE EvictAge
  <2>1. JustPassed' = {}
    BY <1>7, IncrementIdInRange DEF EvictAge, JustPassed, BufferIds, TypeOK
  <2>2. QED
    BY <1>7, <2>1 DEF EvictAge, GoTo, diskVars, CallInv
<1>8. CASE EvictSkip
  <2>1. /\ next_victim_id' = IF next_victim_id = PoolSize - 1
                              THEN 0 ELSE next_victim_id + 1
        /\ consecutive_pinned' = consecutive_pinned + 1
        /\ next_victim_id \in 0 .. (PoolSize - 1)
        /\ consecutive_pinned \in 0 .. (PoolSize - 1)
    BY <1>8, IncrementIdWraps DEF EvictSkip, BufferIds, TypeOK
  <2>2. JustPassed' \subseteq JustPassed \union {next_victim_id}
    BY <2>1 DEF JustPassed, BufferIds
  <2>3. QED
    BY <1>8, <2>2 DEF EvictSkip, GoTo, diskVars, CallInv
<1>9. CASE WriteBack
  BY <1>9 DEF WriteBack, WritePageData, GoTo, poolVars, victim, CallInv
<1>10. ASSUME NEW p \in PageIds, FlushPage(p) PROVE CallInv'
  BY <1>10 DEF FlushPage, Mapped, CallInv
<1>11. ASSUME NEW f \in BufferIds, DropHandle(f) PROVE CallInv'
  BY <1>1, <1>11 DEF DropHandle, callVars
<1>12. ASSUME NEW f \in BufferIds, NEW data \in Writes, WritePage(f, data)
       PROVE  CallInv'
  BY <1>1, <1>12 DEF WritePage, callVars
<1>13. CASE \/ \E p \in PageIds : FetchHit(p) \/ FlushPageFails(p)
            \/ EvictRefuse \/ WriteBackFails
            \/ FillFetched \/ FillFetchedFails \/ FillCreated
            \/ FlushSync \/ FlushSyncFails \/ Reopen
  BY <1>1, <1>13
  DEF FetchHit, FlushPageFails, EvictRefuse, WriteBackFails, FillFetched,
      FillFetchedFails, FillCreated, FlushSync, FlushSyncFails, Reopen,
      HandOut, Return
<1>14. QED
  BY <1>2, <1>3, <1>4, <1>5, <1>6, <1>7, <1>8, <1>9, <1>10, <1>11, <1>12, <1>13
  DEF Next, Client, CallStep

LEMMA PoolInvStep == PoolInv /\ [Next]_vars => PoolInv'
BY TypeStep, FramesStep, CallInvStep DEF PoolInv

\* What every step of a call of the pool keeps, whatever fails.
THEOREM PoolInvariant == Spec => []PoolInv
BY InitPoolInv, PoolInvStep, PTL DEF Spec

\* Every variable of the pool and of the disk keeps its type, whatever I/O
\* errors occur, whenever the process dies, and for every size of the pool.
THEOREM TypeCorrect == Spec => []TypeOK
<1>1. PoolInv => TypeOK
  BY DEF PoolInv
<1>2. QED
  BY <1>1, PoolInvariant, PTL

\* The frame that evict takes has no other holder: the unwrap of Rc::get_mut
\* in fetch_page and create_page never panics.
THEOREM VictimNeverPinned == Spec => []VictimUnpinned
<1>1. PoolInv => VictimUnpinned
  BY DEF PoolInv, FramesInv, CallInv, VictimUnpinned, TypeOK, victim
<1>2. QED
  BY <1>1, PoolInvariant, PTL

\* fetch_page and create_page return NoFreeBuffer only when every frame of the
\* pool is held.
THEOREM RefusalIsJustified == Spec => RefusalJustified
<1>1. PoolInv /\ [Next]_vars =>
         [result' = "NoFreeBuffer" /\ result # "NoFreeBuffer"
            => \A f \in BufferIds : handles[f] > 0]_vars
  <2> SUFFICES ASSUME PoolInv, Next,
                      result' = "NoFreeBuffer", result # "NoFreeBuffer",
                      NEW f \in BufferIds
               PROVE  handles[f] > 0
    OBVIOUS
  <2>1. EvictRefuse
    BY DEF Next, Client, CallStep, DropHandle, WritePage, FetchHit, FetchMiss,
           CreatePage, Flush, EvictTake, EvictAge, EvictSkip, WriteBack,
           WriteBackFails, FillFetched, FillFetchedFails, FillCreated, HandOut,
           FlushPage, FlushPageFails, FlushSync, FlushSyncFails, Reopen,
           Begin, GoTo, Return, callVars
  <2>2. consecutive_pinned = PoolSize - 1
    BY <2>1, BufferPoolAssumption DEF EvictRefuse, PoolInv, TypeOK
  <2>3. f \in JustPassed \/ f = next_victim_id
    BY <2>2, BufferPoolAssumption DEF JustPassed, BufferIds, PoolInv, TypeOK
  <2>4. QED
    BY <2>1, <2>3 DEF EvictRefuse, PoolInv, CallInv
<1>2. QED
  BY <1>1, PoolInvariant, PTL DEF Spec, RefusalJustified

-----------------------------------------------------------------------------
\* No read fails: the device does not, and no client asks for a page that was
\* never allocated.
ReadsSucceed == "read" \notin Faults /\ ~FetchUnallocated

Filling == pc \in {"evict", "write_back", "fill"}

Bounded ==
    /\ \A p \in Mapped : p < next_page_id
    /\ heap_file.len <= next_page_id

RequestPending ==
    Filling /\ request # INVALID_PAGE_ID
        => request < next_page_id /\ request \notin Mapped

CleanReadable ==
    \A p \in Mapped :
        ~buffers[page_table[p]].is_dirty => Readable(heap_file, p)

VictimWritten ==
    pc = "fill" /\ victim.page_id # INVALID_PAGE_ID
        => Readable(heap_file, victim.page_id)

\* Inductive where reads succeed.
DataInv ==
    /\ MappingExact
    /\ AllocatedReachable
    /\ Bounded
    /\ RequestPending
    /\ CleanReadable
    /\ VictimWritten

VictimSaved ==
    pc = "fill" /\ victim.page_id # INVALID_PAGE_ID
        => heap_file.pages[victim.page_id] = victim.page

FlushedClean ==
    pc = "flush" => /\ result = "none"
                    /\ \A p \in Mapped \ unflushed :
                          ~buffers[page_table[p]].is_dirty

\* Inductive where, besides, a write that fails writes nothing.
ContentInv == CleanMatchesFile /\ VictimSaved /\ FlushedClean

-----------------------------------------------------------------------------
\* What MappingExact says of the frame a page is in.
LEMMA MappedFrame ==
    ASSUME TypeOK, MappingExact
    PROVE  /\ \A p \in Mapped : /\ page_table[p] \in BufferIds
                                /\ buffers[page_table[p]].page_id = p
           /\ victim.page_id # INVALID_PAGE_ID
                 => /\ victim.page_id \in Mapped
                    /\ page_table[victim.page_id] = next_victim_id
BY BufferPoolAssumption DEF TypeOK, MappingExact, Mapped, victim, Frame

\* Steps that leave the page table alone: all but the filling of a frame and
\* the restart.
LEMMA MappingKept ==
    ASSUME PoolInv, DataInv, PoolInv',
           UNCHANGED <<page_table, next_page_id>>,
           heap_file.len <= heap_file'.len,
           heap_file'.len <= next_page_id,
           \A f \in BufferIds : buffers'[f].page_id = buffers[f].page_id,
           \A p \in Mapped :
              ~buffers'[page_table[p]].is_dirty =>
                  ~buffers[page_table[p]].is_dirty \/ Readable(heap_file', p)
    PROVE  MappingExact' /\ AllocatedReachable' /\ Bounded' /\ CleanReadable'
<1>1. /\ heap_file.len \in Nat /\ heap_file'.len \in Nat
      /\ \A p \in PageIds : Readable(heap_file, p) => Readable(heap_file', p)
  BY DEF PoolInv, TypeOK, DiskTypeOK, File, Readable, PageIds
<1>2. Mapped' = Mapped
  BY DEF Mapped
<1>3. MappingExact'
  BY DEF DataInv, MappingExact
<1>4. AllocatedReachable' /\ Bounded'
  BY <1>1, <1>2 DEF DataInv, AllocatedReachable, Bounded
<1>5. CleanReadable'
  BY <1>1, <1>2 DEF DataInv, CleanReadable, Mapped
<1>6. QED
  BY <1>3, <1>4, <1>5

\* A write of page p below next_page_id never takes the file beyond it.
LEMMA WriteKeepsLen ==
    ASSUME TypeOK, heap_file.len <= next_page_id,
           NEW p \in PageIds, p < next_page_id, NEW data,
           WritePageData(p, data) \/ WritePageDataFails(p)
    PROVE  /\ heap_file.len <= heap_file'.len
           /\ heap_file'.len <= next_page_id
           /\ next_page_id' = next_page_id
           /\ WritePageData(p, data) => Readable(heap_file', p)
BY DEF TypeOK, DiskTypeOK, File, PageIds, WritePageData, WritePageDataFails,
       Written, PartlyWritten, Readable

\* Filling the victim with page p, which is in no other frame.
LEMMA FillMapping ==
    ASSUME PoolInv, DataInv, pc = "fill",
           NEW p \in PageIds, p \notin Mapped, p < next_page_id',
           NEW data, NEW dirty \in BOOLEAN, ~dirty => Readable(heap_file, p),
           buffers' = [buffers EXCEPT ![next_victim_id] =
                          [page_id |-> p, page |-> data,
                           is_dirty |-> dirty, usage_count |-> 1]],
           Remap(victim.page_id, p),
           UNCHANGED heap_file,
           \/ next_page_id' = next_page_id
           \/ next_page_id' = next_page_id + 1 /\ p = next_page_id
    PROVE  MappingExact' /\ AllocatedReachable' /\ Bounded' /\ CleanReadable'
<1> USE BufferPoolAssumption
<1>1. /\ next_victim_id \in BufferIds
      /\ buffers'[next_victim_id].page_id = p
      /\ buffers'[next_victim_id].is_dirty = dirty
      /\ \A f \in BufferIds \ {next_victim_id} : buffers'[f] = buffers[f]
      /\ \A q \in PageIds :
            page_table'[q] = IF q = p THEN next_victim_id
                             ELSE IF q = victim.page_id THEN NoFrame
                             ELSE page_table[q]
  BY DEF PoolInv, TypeOK, Remap
<1>2. /\ page_table[p] = NoFrame
      /\ \A q \in PageIds, f \in BufferIds :
            page_table[q] = f <=> buffers[f].page_id = q
  BY DEF DataInv, MappingExact, Mapped
<1>3. MappingExact'
  <2> SUFFICES ASSUME NEW q \in PageIds, NEW f \in BufferIds
               PROVE  page_table'[q] = f <=> buffers'[f].page_id = q
    BY DEF MappingExact
  <2>1. CASE f = next_victim_id
    BY <1>1, <1>2, <2>1 DEF victim
  <2>2. CASE f # next_victim_id
    BY <1>1, <1>2, <2>2 DEF victim
  <2>3. QED
    BY <2>1, <2>2
<1>4. /\ Mapped' = (Mapped \ {victim.page_id}) \union {p}
      /\ \A q \in Mapped' \ {p} :
            /\ q \in Mapped
            /\ page_table'[q] = page_table[q]
            /\ page_table[q] \in BufferIds \ {next_victim_id}
  BY <1>1, <1>2 DEF Mapped, PoolInv, TypeOK, victim
<1>5. AllocatedReachable'
  <2> SUFFICES ASSUME NEW q \in PageIds, q < next_page_id'
               PROVE  q \in Mapped' \/ Readable(heap_file, q)
    BY DEF AllocatedReachable
  <2>1. q = p \/ q < next_page_id
    BY DEF PageIds, PoolInv, TypeOK, DiskTypeOK
  <2>2. q \in PageIds /\ q = victim.page_id => Readable(heap_file, q)
    BY DiskAssumption DEF DataInv, VictimWritten
  <2>3. QED
    BY <1>4, <2>1, <2>2 DEF DataInv, AllocatedReachable
<1>6. Bounded'
  BY <1>4 DEF DataInv, Bounded, PoolInv, TypeOK, DiskTypeOK, File, PageIds, Mapped
<1>7. CleanReadable'
  BY <1>1, <1>4 DEF DataInv, CleanReadable
<1>8. QED
  BY <1>3, <1>5, <1>6, <1>7

-----------------------------------------------------------------------------
LEMMA InitData == Init => DataInv /\ ContentInv
<1> SUFFICES ASSUME Init PROVE DataInv /\ ContentInv
  OBVIOUS
<1>1. /\ Mapped = {} /\ pc = "idle" /\ next_page_id = 0 /\ heap_file.len = 0
      /\ \A f \in BufferIds : buffers[f].page_id = INVALID_PAGE_ID
      /\ \A p \in PageIds : page_table[p] = NoFrame
  BY DEF Init, DiskInit, EmptyFile, NoPages, NewBuffers, DefaultFrame, Mapped
<1>2. MappingExact
  BY <1>1, DiskAssumption, BufferPoolAssumption DEF MappingExact
<1>3. AllocatedReachable
  BY <1>1, DiskAssumption DEF AllocatedReachable, PageIds
<1>4. Bounded /\ RequestPending /\ CleanReadable /\ VictimWritten
  BY <1>1 DEF Bounded, RequestPending, Filling, CleanReadable, VictimWritten
<1>5. ContentInv
  BY <1>1 DEF ContentInv, CleanMatchesFile, VictimSaved, FlushedClean
<1>6. QED
  BY <1>2, <1>3, <1>4, <1>5 DEF DataInv

\* A restart empties the pool, so that every page is in the file or is gone.
LEMMA ReopenData == TypeOK' /\ Reopen => DataInv' /\ ContentInv'
<1> SUFFICES ASSUME TypeOK', Reopen PROVE DataInv' /\ ContentInv'
  OBVIOUS
<1>1. /\ Mapped' = {} /\ pc' = "idle" /\ next_page_id' = heap_file'.len
      /\ \A f \in BufferIds : buffers'[f].page_id = INVALID_PAGE_ID
      /\ \A p \in PageIds : page_table'[p] = NoFrame
  BY DEF Reopen, ReopenAfterExit, ReopenAfterPowerLoss, Return, NoPages,
         NewBuffers, DefaultFrame, Mapped
<1>2. MappingExact'
  BY <1>1, DiskAssumption, BufferPoolAssumption DEF MappingExact
<1>3. AllocatedReachable'
  BY <1>1 DEF AllocatedReachable, Readable
<1>4. Bounded' /\ RequestPending' /\ CleanReadable' /\ VictimWritten'
  BY <1>1 DEF Bounded, RequestPending, Filling, CleanReadable, VictimWritten,
              TypeOK, DiskTypeOK
<1>5. ContentInv'
  BY <1>1 DEF ContentInv, CleanMatchesFile, VictimSaved, FlushedClean
<1>6. QED
  BY <1>2, <1>3, <1>4, <1>5 DEF DataInv

\* The steps outside of the filling of a frame and the restart.
LEMMA DataStepKept ==
    ASSUME PoolInv, DataInv, PoolInv',
           \/ \E f \in BufferIds : DropHandle(f)
           \/ \E f \in BufferIds, data \in Writes : WritePage(f, data)
           \/ \E p \in PageIds : FetchHit(p) \/ FlushPage(p) \/ FlushPageFails(p)
           \/ \E p \in PageIds : FetchMiss(p)
           \/ CreatePage \/ Flush
           \/ EvictTake \/ EvictAge \/ EvictSkip \/ EvictRefuse
           \/ WriteBack \/ WriteBackFails
           \/ FlushSync \/ FlushSyncFails
           \/ UNCHANGED vars
    PROVE  MappingExact' /\ AllocatedReachable' /\ Bounded' /\ CleanReadable'
<1> USE MappingKept, MappedFrame DEF DataInv, PoolInv
<1>0. /\ heap_file.len \in Nat /\ next_page_id \in Nat
      /\ heap_file.len <= heap_file.len
      /\ heap_file.len <= next_page_id
      /\ \A p \in Mapped : p \in PageIds /\ p < next_page_id
  BY DEF TypeOK, DiskTypeOK, File, Bounded, Mapped
<1>1. ASSUME NEW f \in BufferIds, DropHandle(f)
      PROVE  MappingExact' /\ AllocatedReachable' /\ Bounded' /\ CleanReadable'
  BY <1>0, <1>1 DEF DropHandle, diskVars
<1>2. ASSUME NEW f \in BufferIds, NEW data \in Writes, WritePage(f, data)
      PROVE  MappingExact' /\ AllocatedReachable' /\ Bounded' /\ CleanReadable'
  <2>1. \A g \in BufferIds :
           /\ buffers'[g].page_id = buffers[g].page_id
           /\ ~buffers'[g].is_dirty => ~buffers[g].is_dirty
    BY <1>2 DEF WritePage, TypeOK, Frame
  <2>2. QED
    BY <1>0, <1>2, <2>1 DEF WritePage, diskVars
<1>3. ASSUME NEW p \in PageIds, FetchHit(p)
      PROVE  MappingExact' /\ AllocatedReachable' /\ Bounded' /\ CleanReadable'
  <2>1. \A g \in BufferIds :
           /\ buffers'[g].page_id = buffers[g].page_id
           /\ buffers'[g].is_dirty = buffers[g].is_dirty
    BY <1>3 DEF FetchHit, TypeOK, Frame
  <2>2. QED
    BY <1>0, <1>3, <2>1 DEF FetchHit, diskVars
<1>4. CASE EvictAge
  <2>1. \A g \in BufferIds :
           /\ buffers'[g].page_id = buffers[g].page_id
           /\ buffers'[g].is_dirty = buffers[g].is_dirty
    BY <1>4 DEF EvictAge, TypeOK, Frame
  <2>2. QED
    BY <1>0, <1>4, <2>1 DEF EvictAge, diskVars
<1>5. CASE \/ \E p \in PageIds : FetchMiss(p)
           \/ CreatePage \/ Flush \/ EvictTake \/ EvictSkip \/ EvictRefuse
           \/ FlushSync \/ FlushSyncFails
           \/ UNCHANGED vars
  <2>1. UNCHANGED <<heap_file, next_page_id, buffers, page_table>>
    BY <1>5
    DEF FetchMiss, CreatePage, Flush, EvictTake, EvictSkip, EvictRefuse,
        FlushSync, FlushSyncFails, Sync, SyncFails, vars, diskVars, poolVars
  <2>2. QED
    BY <1>0, <2>1
<1>6. CASE WriteBack \/ WriteBackFails
  <2>1. victim.page_id \in Mapped
    <3>1. victim.is_dirty /\ next_victim_id \in BufferIds
      BY <1>6 DEF WriteBack, WriteBackFails, CallInv, TypeOK
    <3>2. victim.page_id \in PageIds
      BY <3>1 DEF FramesInv, victim
    <3>3. QED
      BY <3>2, DiskAssumption
  <2>2. UNCHANGED <<buffers, page_table>>
    BY <1>6 DEF WriteBack, WriteBackFails, poolVars
  <2>3. QED
    BY <1>0, <1>6, <2>1, <2>2, WriteKeepsLen DEF WriteBack, WriteBackFails
<1>7. ASSUME NEW p \in PageIds, FlushPage(p)
      PROVE  MappingExact' /\ AllocatedReachable' /\ Bounded' /\ CleanReadable'
  <2>1. p \in Mapped /\ page_table[p] \in BufferIds
    BY <1>7 DEF FlushPage, CallInv
  <2>2. /\ \A g \in BufferIds : buffers'[g].page_id = buffers[g].page_id
        /\ \A g \in BufferIds \ {page_table[p]} : buffers'[g] = buffers[g]
    BY <1>7, <2>1 DEF FlushPage, TypeOK, Frame
  <2>3. \A q \in Mapped \ {p} : page_table[q] # page_table[p]
    BY <2>1
  <2>4. QED
    BY <1>0, <1>7, <2>1, <2>2, <2>3, WriteKeepsLen DEF FlushPage
<1>8. ASSUME NEW p \in PageIds, FlushPageFails(p)
      PROVE  MappingExact' /\ AllocatedReachable' /\ Bounded' /\ CleanReadable'
  <2>1. p \in Mapped
    BY <1>8 DEF FlushPageFails, CallInv
  <2>2. QED
    BY <1>0, <1>8, <2>1, WriteKeepsLen DEF FlushPageFails, poolVars
<1>9. QED
  BY <1>1, <1>2, <1>3, <1>4, <1>5, <1>6, <1>7, <1>8

LEMMA DataStep ==
    ASSUME ReadsSucceed, PoolInv, PoolInv', DataInv, [Next]_vars
    PROVE  DataInv'
<1> USE DiskAssumption, MappedFrame DEF PoolInv
<1>1. CASE FillFetched
  <2>1. request \in PageIds /\ request < next_page_id /\ request \notin Mapped
    BY <1>1 DEF FillFetched, TypeOK, DataInv, RequestPending, Filling
  <2>2. MappingExact' /\ AllocatedReachable' /\ Bounded' /\ CleanReadable'
    BY <1>1, <2>1, FillMapping DEF FillFetched, diskVars
  <2>3. QED
    BY <1>1, <2>2 DEF FillFetched, HandOut, Return, DataInv, RequestPending,
                      Filling, VictimWritten
<1>2. CASE FillCreated
  <2>1. /\ next_page_id \in PageIds /\ next_page_id \notin Mapped
        /\ next_page_id < next_page_id'
    BY <1>2 DEF FillCreated, AllocatePage, CallInv, DataInv, Bounded, TypeOK,
                DiskTypeOK, PageIds
  <2>2. MappingExact' /\ AllocatedReachable' /\ Bounded' /\ CleanReadable'
    BY <1>2, <2>1, FillMapping DEF FillCreated, AllocatePage
  <2>3. QED
    BY <1>2, <2>2 DEF FillCreated, HandOut, Return, DataInv, RequestPending,
                      Filling, VictimWritten
<1>3. CASE FillFetchedFails
  <2>1. request \in PageIds /\ request < next_page_id /\ request \notin Mapped
    BY <1>3 DEF FillFetchedFails, TypeOK, DataInv, RequestPending, Filling
  <2>2. Readable(heap_file, request)
    BY <2>1 DEF DataInv, AllocatedReachable
  <2>3. ReadPageDataFails(request, victim.page) = {}
    BY <2>2 DEF ReadPageDataFails, ReadsSucceed
  <2>4. QED
    BY <1>3, <2>3 DEF FillFetchedFails
<1>4. CASE Reopen
  BY <1>4, ReopenData
<1>5. CASE ~(FillFetched \/ FillCreated \/ FillFetchedFails \/ Reopen)
  <2>1. MappingExact' /\ AllocatedReachable' /\ Bounded' /\ CleanReadable'
    BY <1>5, DataStepKept DEF Next, Client, CallStep
  <2>2. RequestPending'
    <3>1. CASE \E p \in PageIds : FetchMiss(p)
      BY <3>1 DEF FetchMiss, Requestable, ReadsSucceed, Begin, diskVars,
                  poolVars, Mapped, RequestPending
    <3>2. CASE ~Filling'
      BY <3>2 DEF RequestPending
    <3>3. CASE Filling' /\ ~\E p \in PageIds : FetchMiss(p)
      <4>1. \/ request' = INVALID_PAGE_ID
            \/ Filling /\ UNCHANGED <<request, next_page_id, page_table>>
        BY <1>5, <3>3
        DEF Next, Client, CallStep, DropHandle, WritePage, FetchHit, CreatePage,
            Flush, EvictTake, EvictAge, EvictSkip, EvictRefuse, WriteBack,
            WriteBackFails, WritePageData, FlushPage, FlushPageFails, FlushSync,
            FlushSyncFails, Begin, GoTo, Return, Filling, vars, diskVars,
            poolVars, callVars
      <4>2. QED
        BY <4>1 DEF DataInv, RequestPending, Mapped
    <3>4. QED
      BY <3>1, <3>2, <3>3
  <2>3. VictimWritten'
    <3>1. CASE EvictTake
      BY <3>1 DEF EvictTake, GoTo, diskVars, poolVars, DataInv, CleanReadable,
                  VictimWritten, victim
    <3>2. CASE WriteBack
      <4>1. victim.page_id \in Mapped
        BY <3>2 DEF WriteBack, CallInv, FramesInv, TypeOK, victim, DataInv
      <4>2. victim.page_id < next_page_id
        BY <4>1 DEF DataInv, Bounded
      <4>3. Readable(heap_file', victim.page_id) /\ UNCHANGED victim
        BY <3>2, <4>1, <4>2, WriteKeepsLen
        DEF WriteBack, poolVars, victim, Mapped, DataInv, Bounded
      <4>4. QED
        BY <4>3 DEF VictimWritten
    <3>3. CASE UNCHANGED vars
      BY <3>3 DEF vars, diskVars, poolVars, callVars, DataInv, VictimWritten, victim
    <3>4. CASE ~(EvictTake \/ WriteBack \/ UNCHANGED vars)
      <4>1. pc' # "fill"
        BY <1>5, <3>4
        DEF Next, Client, CallStep, DropHandle, WritePage, FetchHit, FetchMiss,
            CreatePage, Flush, EvictAge, EvictSkip, EvictRefuse, WriteBackFails,
            FlushPage, FlushPageFails, FlushSync, FlushSyncFails, Begin, GoTo,
            Return, callVars
      <4>2. QED
        BY <4>1 DEF VictimWritten
    <3>5. QED
      BY <3>1, <3>2, <3>3, <3>4
  <2>4. QED
    BY <2>1, <2>2, <2>3 DEF DataInv
<1>6. QED
  BY <1>1, <1>2, <1>3, <1>4, <1>5

-----------------------------------------------------------------------------
WritesAtomic == "torn" \notin Faults

\* A write to p changes no other page.
LEMMA WriteChangesOne ==
    ASSUME TypeOK, NEW p \in PageIds, NEW data, WritePageData(p, data)
    PROVE  /\ heap_file'.pages[p] = data
           /\ \A q \in PageIds \ {p} : heap_file'.pages[q] = heap_file.pages[q]
BY DEF WritePageData, Written, TypeOK, DiskTypeOK, File

\* Steps that change neither the file nor what frames hold keep the contents.
LEMMA ContentKept ==
    ASSUME ContentInv, TypeOK, DataInv',
           UNCHANGED <<heap_file, page_table>>,
           \A f \in BufferIds : /\ buffers'[f].page = buffers[f].page
                                /\ buffers'[f].is_dirty = buffers[f].is_dirty
    PROVE  CleanMatchesFile'
<1>1. \A p \in Mapped' : p \in Mapped /\ page_table[p] \in BufferIds
  BY DEF TypeOK, Mapped
<1>2. QED
  BY <1>1 DEF ContentInv, CleanMatchesFile

LEMMA CleanMatchesStep ==
    ASSUME ReadsSucceed, WritesAtomic, PoolInv, PoolInv', DataInv, DataInv',
           ContentInv, [Next]_vars
    PROVE  CleanMatchesFile'
<1> USE DiskAssumption, BufferPoolAssumption DEF PoolInv
<1>1. ASSUME NEW f \in BufferIds, DropHandle(f) PROVE CleanMatchesFile'
  BY <1>1, ContentKept DEF DropHandle, diskVars
<1>2. ASSUME NEW f \in BufferIds, NEW data \in Writes, WritePage(f, data)
      PROVE  CleanMatchesFile'
  <2>1. \A g \in BufferIds : ~buffers'[g].is_dirty => buffers'[g] = buffers[g]
    BY <1>2 DEF WritePage, TypeOK, Frame
  <2>2. \A p \in Mapped' : p \in Mapped /\ page_table[p] \in BufferIds
    BY <1>2 DEF WritePage, TypeOK, Mapped
  <2>3. UNCHANGED <<heap_file, page_table>>
    BY <1>2 DEF WritePage, diskVars
  <2>4. QED
    BY <2>1, <2>2, <2>3 DEF ContentInv, CleanMatchesFile
<1>3. ASSUME NEW p \in PageIds, FetchHit(p) PROVE CleanMatchesFile'
  <2>1. UNCHANGED <<heap_file, page_table>>
    BY <1>3 DEF FetchHit, diskVars
  <2>2. \A g \in BufferIds : /\ buffers'[g].page = buffers[g].page
                             /\ buffers'[g].is_dirty = buffers[g].is_dirty
    BY <1>3 DEF FetchHit, TypeOK, Frame
  <2>3. QED
    BY <2>1, <2>2, ContentKept
<1>4. CASE EvictAge
  <2>1. UNCHANGED <<heap_file, page_table>>
    BY <1>4 DEF EvictAge, diskVars
  <2>2. \A g \in BufferIds : /\ buffers'[g].page = buffers[g].page
                             /\ buffers'[g].is_dirty = buffers[g].is_dirty
    BY <1>4 DEF EvictAge, TypeOK, Frame
  <2>3. QED
    BY <2>1, <2>2, ContentKept
<1>5. CASE \/ \E p \in PageIds : FetchMiss(p) \/ FlushPageFails(p)
           \/ CreatePage \/ Flush \/ EvictTake \/ EvictSkip \/ EvictRefuse
           \/ WriteBackFails \/ FlushSync \/ FlushSyncFails
           \/ UNCHANGED vars
  <2>1. UNCHANGED <<heap_file, buffers, page_table>>
    BY <1>5
    DEF FetchMiss, FlushPageFails, CreatePage, Flush, EvictTake, EvictSkip,
        EvictRefuse, WriteBackFails, WritePageDataFails, WritesAtomic,
        FlushSync, FlushSyncFails, Sync, SyncFails, vars, diskVars, poolVars
  <2>2. QED
    BY <2>1, ContentKept
<1>6. CASE WriteBack
  <2>1. UNCHANGED <<buffers, page_table>> /\ Mapped' = Mapped
    BY <1>6 DEF WriteBack, poolVars, Mapped
  <2>2. /\ victim.page_id \in PageIds
        /\ page_table[victim.page_id] = next_victim_id
    BY <1>6, MappedFrame DEF WriteBack, CallInv, FramesInv, TypeOK, victim, DataInv
  <2>3. /\ heap_file'.pages[victim.page_id] = victim.page
        /\ \A q \in PageIds \ {victim.page_id} :
              heap_file'.pages[q] = heap_file.pages[q]
    BY <1>6, <2>2, WriteChangesOne DEF WriteBack
  <2>4. QED
    BY <2>1, <2>2, <2>3
    DEF ContentInv, CleanMatchesFile, DataInv, CleanReadable, Mapped, victim
<1>7. ASSUME NEW p \in PageIds, FlushPage(p) PROVE CleanMatchesFile'
  <2>1. /\ p \in Mapped /\ page_table[p] \in BufferIds
        /\ \A q \in Mapped : page_table[q] = page_table[p] => q = p
    BY <1>7, MappedFrame DEF FlushPage, CallInv, DataInv
  <2>2. /\ UNCHANGED page_table /\ Mapped' = Mapped
        /\ buffers'[page_table[p]].page = buffers[page_table[p]].page
        /\ \A f \in BufferIds \ {page_table[p]} : buffers'[f] = buffers[f]
    BY <1>7, <2>1 DEF FlushPage, Mapped, TypeOK, Frame
  <2>3. /\ heap_file'.pages[p] = buffers[page_table[p]].page
        /\ \A q \in PageIds \ {p} : heap_file'.pages[q] = heap_file.pages[q]
    BY <1>7, WriteChangesOne DEF FlushPage
  <2>4. QED
    BY <2>1, <2>2, <2>3, MappedFrame
    DEF ContentInv, CleanMatchesFile, DataInv, CleanReadable, Mapped
<1>8. CASE FillFetched \/ FillCreated
  <2> DEFINE p == IF request = INVALID_PAGE_ID THEN next_page_id ELSE request
  <2>1. UNCHANGED heap_file /\ next_victim_id \in BufferIds
    BY <1>8 DEF FillFetched, FillCreated, AllocatePage, diskVars, TypeOK
  <2>2. /\ \A f \in BufferIds \ {next_victim_id} : buffers'[f] = buffers[f]
        /\ buffers'[next_victim_id].page_id = p
        /\ \/ buffers'[next_victim_id].is_dirty
           \/ buffers'[next_victim_id].page = heap_file.pages[p]
    BY <1>8, <2>1 DEF FillFetched, FillCreated, ReadPageData, TypeOK
  <2>3. ASSUME NEW q \in Mapped', ~buffers'[page_table'[q]].is_dirty
        PROVE  heap_file.pages[q] = buffers'[page_table'[q]].page
    <3>1. page_table'[q] \in BufferIds /\ buffers'[page_table'[q]].page_id = q
      BY <2>3 DEF TypeOK, DataInv, MappingExact, Mapped
    <3>2. CASE page_table'[q] = next_victim_id
      BY <2>2, <2>3, <3>1, <3>2
    <3>3. CASE page_table'[q] # next_victim_id
      <4>1. buffers'[page_table'[q]] = buffers[page_table'[q]]
        BY <2>2, <3>1, <3>3
      <4>2. page_table[q] = page_table'[q] /\ q \in Mapped
        BY <3>1, <4>1 DEF DataInv, MappingExact, Mapped
      <4>3. QED
        BY <2>3, <4>1, <4>2 DEF ContentInv, CleanMatchesFile
    <3>4. QED
      BY <3>2, <3>3
  <2>4. QED
    BY <2>1, <2>3 DEF CleanMatchesFile, DataInv, CleanReadable
<1>9. CASE FillFetchedFails
  <2>1. request \in PageIds /\ request < next_page_id /\ request \notin Mapped
    BY <1>9 DEF FillFetchedFails, TypeOK, DataInv, RequestPending, Filling
  <2>2. Readable(heap_file, request)
    BY <2>1 DEF DataInv, AllocatedReachable
  <2>3. ReadPageDataFails(request, victim.page) = {}
    BY <2>2 DEF ReadPageDataFails, ReadsSucceed
  <2>4. QED
    BY <1>9, <2>3 DEF FillFetchedFails
<1>10. CASE Reopen
  BY <1>10, ReopenData DEF ContentInv
<1>11. QED
  BY <1>1, <1>2, <1>3, <1>4, <1>5, <1>6, <1>7, <1>8, <1>9, <1>10
  DEF Next, Client, CallStep

LEMMA VictimSavedStep ==
    ASSUME WritesAtomic, PoolInv, DataInv, ContentInv, [Next]_vars
    PROVE  VictimSaved'
<1> USE DEF PoolInv
<1>1. CASE EvictTake
  <2>1. victim.page_id # INVALID_PAGE_ID /\ ~victim.is_dirty
           => heap_file.pages[victim.page_id] = victim.page
    BY MappedFrame DEF DataInv, ContentInv, CleanMatchesFile, victim
  <2>2. QED
    BY <1>1, <2>1 DEF EvictTake, GoTo, diskVars, poolVars, VictimSaved, victim
<1>2. CASE WriteBack
  <2>1. victim.page_id \in PageIds
    BY <1>2 DEF WriteBack, CallInv, FramesInv, TypeOK, victim
  <2>2. QED
    BY <1>2, <2>1, WriteChangesOne DEF WriteBack, poolVars, VictimSaved, victim
<1>3. CASE UNCHANGED vars
  BY <1>3 DEF vars, diskVars, poolVars, callVars, ContentInv, VictimSaved, victim
<1>4. CASE ~(EvictTake \/ WriteBack \/ UNCHANGED vars)
  <2>1. pc' # "fill"
    BY <1>4
    DEF Next, Client, CallStep, DropHandle, WritePage, FetchHit, FetchMiss,
        CreatePage, Flush, EvictAge, EvictSkip, EvictRefuse, WriteBackFails,
        FillFetched, FillFetchedFails, FillCreated, HandOut, FlushPage,
        FlushPageFails, FlushSync, FlushSyncFails, Reopen, Begin, GoTo, Return,
        callVars
  <2>2. QED
    BY <2>1 DEF VictimSaved
<1>5. QED
  BY <1>1, <1>2, <1>3, <1>4

LEMMA FlushedCleanStep ==
    ASSUME PoolInv, DataInv, ContentInv, [Next]_vars
    PROVE  FlushedClean'
<1> USE DEF PoolInv
<1>1. CASE Flush
  BY <1>1 DEF Flush, Begin, poolVars, Mapped, FlushedClean
<1>2. ASSUME NEW p \in PageIds, FlushPage(p) PROVE FlushedClean'
  <2>1. /\ p \in Mapped /\ page_table[p] \in BufferIds
        /\ \A q \in Mapped : page_table[q] \in BufferIds
    BY <1>2, MappedFrame DEF FlushPage, CallInv, DataInv
  <2>2. \A f \in BufferIds :
           /\ buffers'[f].is_dirty => buffers[f].is_dirty
           /\ f = page_table[p] => ~buffers'[f].is_dirty
    BY <1>2, <2>1 DEF FlushPage, TypeOK, Frame
  <2>3. UNCHANGED <<page_table, result>> /\ Mapped' = Mapped
    BY <1>2 DEF FlushPage, Mapped
  <2>4. QED
    BY <1>2, <2>1, <2>2, <2>3 DEF FlushPage, ContentInv, FlushedClean
<1>3. CASE UNCHANGED vars
  BY <1>3 DEF vars, poolVars, callVars, Mapped, ContentInv, FlushedClean
<1>4. CASE ~(Flush \/ (\E p \in PageIds : FlushPage(p)) \/ UNCHANGED vars)
  <2>1. pc' # "flush"
    BY <1>4
    DEF Next, Client, CallStep, DropHandle, WritePage, FetchHit, FetchMiss,
        CreatePage, EvictTake, EvictAge, EvictSkip, EvictRefuse, WriteBack,
        WriteBackFails, FillFetched, FillFetchedFails, FillCreated, HandOut,
        FlushPageFails, FlushSync, FlushSyncFails, Reopen, Begin, GoTo, Return,
        callVars
  <2>2. QED
    BY <2>1 DEF FlushedClean
<1>5. QED
  BY <1>1, <1>2, <1>3, <1>4

-----------------------------------------------------------------------------
\* What fetch_page and create_page keep of pages, frames and page table at each
\* step of an eviction, where reads succeed.
THEOREM DataInvariant ==
    ASSUME ReadsSucceed
    PROVE  Spec => [](PoolInv /\ DataInv)
<1>1. Init => PoolInv /\ DataInv
  BY InitPoolInv, InitData
<1>2. PoolInv /\ DataInv /\ [Next]_vars => PoolInv' /\ DataInv'
  BY ReadsSucceed, PoolInvStep, DataStep
<1>3. QED
  BY <1>1, <1>2, PTL DEF Spec

\* Where reads succeed the page table is exact: no two pages share a frame,
\* and no frame holds a page the table does not know.
THEOREM MappingIsExact ==
    ASSUME ReadsSucceed
    PROVE  Spec => []MappingExact
<1>1. DataInv => MappingExact
  BY DEF DataInv
<1>2. QED
  BY <1>1, DataInvariant, PTL

\* Where reads succeed a page that was handed out stays in the pool or in the
\* file.
THEOREM NoPageIsLost ==
    ASSUME ReadsSucceed
    PROVE  Spec => []AllocatedReachable
<1>1. DataInv => AllocatedReachable
  BY DEF DataInv
<1>2. QED
  BY <1>1, DataInvariant, PTL

\* What they and flush keep of the contents, where failing writes write nothing.
THEOREM ContentInvariant ==
    ASSUME ReadsSucceed, WritesAtomic
    PROVE  Spec => [](PoolInv /\ DataInv /\ ContentInv)
<1>1. Init => PoolInv /\ DataInv /\ ContentInv
  BY InitPoolInv, InitData
<1>2. PoolInv /\ DataInv /\ ContentInv /\ [Next]_vars
         => PoolInv' /\ DataInv' /\ ContentInv'
  BY ReadsSucceed, WritesAtomic, PoolInvStep, DataStep, CleanMatchesStep,
     VictimSavedStep, FlushedCleanStep
  DEF ContentInv
<1>3. QED
  BY <1>1, <1>2, PTL DEF Spec

\* Where, besides, a failing write writes nothing, a clean frame can be given
\* to another page without a write-back.
THEOREM CleanFramesMatchFile ==
    ASSUME ReadsSucceed, WritesAtomic
    PROVE  Spec => []CleanMatchesFile
<1>1. ContentInv => CleanMatchesFile
  BY DEF ContentInv
<1>2. QED
  BY <1>1, ContentInvariant, PTL

\* Under the same conditions a flush that returns Ok has made every allocated
\* page durable as clients see it, whatever the eviction did before it.
THEOREM FlushIsDurable ==
    ASSUME ReadsSucceed, WritesAtomic
    PROVE  Spec => FlushMakesDurable
<1>1. PoolInv /\ DataInv /\ ContentInv /\ [Next]_vars =>
         [pc = "flush" /\ result' = "ok" =>
            \A p \in PageIds : p < next_page_id =>
                /\ Readable(durable', p)
                /\ durable'.pages[p] = Mem(p)]_vars
  <2> SUFFICES ASSUME PoolInv, DataInv, ContentInv, Next,
                      pc = "flush", result' = "ok",
                      NEW p \in PageIds, p < next_page_id
               PROVE  Readable(durable', p) /\ durable'.pages[p] = Mem(p)
    OBVIOUS
  <2>1. FlushSync
    BY DEF ContentInv, FlushedClean, Next, Client, CallStep, DropHandle,
           WritePage, FetchHit, FetchMiss, CreatePage, Flush, EvictTake,
           EvictAge, EvictSkip, EvictRefuse, WriteBack, WriteBackFails,
           FillFetched, FillFetchedFails, FillCreated, FlushPage,
           FlushPageFails, FlushSyncFails, Reopen, Begin, Return
  <2>2. durable' = heap_file /\ unflushed = {}
    BY <2>1 DEF FlushSync, Sync
  <2>3. CASE p \in Mapped
    BY <2>2, <2>3 DEF ContentInv, FlushedClean, CleanMatchesFile, Mem
  <2>4. CASE p \notin Mapped
    BY <2>2, <2>4 DEF DataInv, AllocatedReachable, Mem, Mapped
  <2>5. QED
    BY <2>3, <2>4
<1>2. QED
  BY <1>1, ContentInvariant, PTL DEF Spec, FlushMakesDurable

-----------------------------------------------------------------------------
(* The pool implements PageStore.                                          *)

\* What clients hold is what the page table and the handles say.
LEMMA HeldByType ==
    ASSUME PoolInv, DataInv
    PROVE  /\ \A p \in PageIds : Held[p] \in Nat
           /\ \A p \in Mapped : Held[p] = handles[page_table[p]]
           /\ \A p \in PageIds : Held[p] > 0 => p \in Mapped
  BY DEF Held, PoolInv, TypeOK, Mapped

LEMMA SameCardinality == \A S : Store!Cardinality(S) = Cardinality(S)
BY DEF Store!Cardinality, Cardinality

\* As many pages are held as frames are: all frames, or fewer.
LEMMA HeldPagesCount ==
    ASSUME PoolInv, DataInv
    PROVE  /\ (\E f \in BufferIds : handles[f] = 0)
                 => Store!Cardinality(Store!HeldPages) < PoolSize
           /\ (\A f \in BufferIds : handles[f] > 0)
                 => Store!Cardinality(Store!HeldPages) = PoolSize
<1> DEFINE H == {p \in PageIds : Held[p] > 0}
           frame == [p \in H |-> page_table[p]]
<1>1. H = Store!HeldPages
  BY DEF Store!HeldPages, Store!PageIds, PageIds
<1>2. \A p \in H : /\ p \in Mapped /\ page_table[p] \in BufferIds
                   /\ buffers[page_table[p]].page_id = p
                   /\ handles[page_table[p]] > 0
  BY HeldByType, MappedFrame DEF PoolInv, DataInv
<1>3. IsFiniteSet(BufferIds) /\ Cardinality(BufferIds) = PoolSize
  BY BufferPoolAssumption, FS_Interval DEF BufferIds
<1>4. frame \in Injection(H, BufferIds)
  <2>1. frame \in [H -> BufferIds]
    BY <1>2
  <2>2. \A p, q \in H : frame[p] = frame[q] => p = q
    BY <1>2
  <2> QED BY <2>1, <2>2 DEF Injection, IsInjective
<1>5. /\ IsFiniteSet(H) /\ Cardinality(H) <= PoolSize
      /\ Cardinality(H) = PoolSize <=> frame \in Surjection(H, BufferIds)
  BY <1>3, <1>4, FS_Injection
<1>6. ASSUME NEW f \in BufferIds, handles[f] = 0
      PROVE  frame \notin Surjection(H, BufferIds)
  <2>1. \A p \in H : frame[p] # f
    BY <1>2, <1>6
  <2> QED BY <2>1 DEF Surjection
<1>7. ASSUME \A f \in BufferIds : handles[f] > 0
      PROVE  frame \in Surjection(H, BufferIds)
  <2>1. ASSUME NEW f \in BufferIds PROVE \E p \in H : frame[p] = f
    <3>1. buffers[f].page_id \in PageIds
      BY <1>7 DEF PoolInv, FramesInv
    <3>2. page_table[buffers[f].page_id] = f
      BY <3>1 DEF DataInv, MappingExact
    <3>3. buffers[f].page_id \in Mapped
      BY <3>1, <3>2, BufferPoolAssumption DEF Mapped
    <3>4. buffers[f].page_id \in H
      BY <1>7, <3>1, <3>2, <3>3, HeldByType
    <3> QED BY <3>2, <3>4
  <2> QED BY <1>4, <2>1 DEF Surjection, Injection
<1>8. Cardinality(H) \in Nat /\ PoolSize \in Nat
  BY <1>5, FS_CardinalityType, BufferPoolAssumption
<1> HIDE DEF frame, H
<1> QED BY <1>1, <1>5, <1>6, <1>7, <1>8, SameCardinality

-----------------------------------------------------------------------------
\* What a restart may bring back was seen since the last flush, and beyond the
\* end of the file there is nothing.
HistInv ==
    /\ versions \in [PageIds -> SUBSET Contents]
    /\ committed \in Nat
    /\ committed <= durable.len /\ durable.len <= heap_file.len
    /\ \A p \in PageIds :
          /\ Mem(p) \in versions[p]
          /\ heap_file.pages[p] \in versions[p]
          /\ durable.pages[p] \in versions[p]
          /\ p >= durable.len => Zero \in versions[p]
          /\ p >= heap_file.len => heap_file.pages[p] = Zero

StoreInv == PoolInv /\ DataInv /\ ContentInv /\ HistInv

Unseen == \A p \in PageIds : Mem(p)' = Mem(p)

\* Steps that change no content.
LEMMA RecordUnseen ==
    ASSUME HistInv, Record, ~Committing, Unseen
    PROVE  versions' = versions /\ committed' = committed
<1>1. versions' = [p \in PageIds |-> versions[p] \union {Mem(p)'}]
  BY DEF Record
<1>2. \A p \in PageIds : versions[p] \union {Mem(p)'} = versions[p]
  BY DEF HistInv, Unseen
<1>3. versions = [p \in PageIds |-> versions[p]]
  BY DEF HistInv
<1> QED BY <1>1, <1>2, <1>3 DEF Record

LEMMA HistUnseen ==
    ASSUME HistInv, Unseen, UNCHANGED <<versions, committed, durable>>,
           heap_file.len <= heap_file'.len,
           heap_file.len \in Nat, heap_file'.len \in Nat, durable.len \in Nat,
           \A p \in PageIds :
              /\ heap_file'.pages[p] \in versions[p]
              /\ p >= heap_file'.len => heap_file'.pages[p] = Zero
    PROVE  HistInv'
<1>1. \A p \in PageIds : Mem(p)' \in versions'[p]
  BY DEF HistInv, Unseen
<1>2. durable.len <= heap_file'.len
  BY DEF HistInv
<1> QED BY <1>1, <1>2 DEF HistInv

LEMMA StoreUnseen ==
    ASSUME Unseen, UNCHANGED <<versions, committed, next_page_id>>
    PROVE  UNCHANGED <<[p \in PageIds |-> Mem(p)], next_page_id, versions, committed>>
  BY DEF Unseen

LEMMA SamePages ==
    ASSUME TypeOK, UNCHANGED <<page_table, heap_file>>,
           \A f \in BufferIds : buffers'[f].page = buffers[f].page
    PROVE  Unseen
  BY DEF Unseen, Mem, Mapped, TypeOK

LEMMA SameHeld ==
    ASSUME UNCHANGED <<page_table, handles>>
    PROVE  Held' = Held
  BY DEF Held, Mapped

LEMMA FilesAre ==
    ASSUME TypeOK
    PROVE  /\ heap_file.len \in Nat /\ durable.len \in Nat /\ next_page_id \in Nat
           /\ next_page_id <= MaxPages
  BY DiskAssumption DEF TypeOK, DiskTypeOK, File

\* The write of what clients see of a page that is in the pool.
LEMMA WriteUnseen ==
    ASSUME PoolInv, HistInv, NEW p \in Mapped, WritePageData(p, Mem(p)),
           UNCHANGED page_table,
           \A f \in BufferIds : buffers'[f].page = buffers[f].page
    PROVE  /\ Unseen /\ UNCHANGED <<durable, next_page_id>>
           /\ heap_file.len <= heap_file'.len /\ heap_file'.len \in Nat
           /\ \A q \in PageIds :
                 /\ heap_file'.pages[q] \in versions[q]
                 /\ q >= heap_file'.len => heap_file'.pages[q] = Zero
<1>0. TypeOK /\ p \in PageIds /\ p \in Nat
  BY DEF PoolInv, Mapped, PageIds
<1>1. /\ heap_file'.pages[p] = Mem(p)
      /\ \A q \in PageIds \ {p} : heap_file'.pages[q] = heap_file.pages[q]
  BY <1>0, WriteChangesOne
<1>2. /\ heap_file'.len = (IF p < heap_file.len THEN heap_file.len ELSE p + 1)
      /\ UNCHANGED <<durable, next_page_id>>
  BY DEF WritePageData, Written
<1>3. heap_file.len <= heap_file'.len /\ heap_file'.len \in Nat /\ p < heap_file'.len
  BY <1>0, <1>2, FilesAre
<1>4. ASSUME NEW q \in PageIds
      PROVE  /\ heap_file'.pages[q] \in versions[q]
             /\ q >= heap_file'.len => heap_file'.pages[q] = Zero
  <2>1. CASE q = p
    BY <1>0, <1>1, <1>3, <2>1 DEF HistInv
  <2>2. CASE q # p
    <3>1. q >= heap_file'.len => q >= heap_file.len
      BY <1>0, <1>3, FilesAre DEF PageIds
    <3> QED BY <1>1, <2>2, <3>1 DEF HistInv
  <2> QED BY <2>1, <2>2
<1>5. Unseen
  <2>1. Mapped' = Mapped
    BY DEF Mapped
  <2>2. \A q \in Mapped : page_table[q] \in BufferIds
    BY <1>0 DEF TypeOK, Mapped
  <2>3. ASSUME NEW q \in PageIds PROVE Mem(q)' = Mem(q)
    <3>1. CASE q \in Mapped
      BY <2>1, <2>2, <3>1 DEF Mem, Mapped
    <3>2. CASE q \notin Mapped
      BY <1>1, <2>1, <3>2 DEF Mem, Mapped
    <3> QED BY <3>1, <3>2
  <2> QED BY <2>3 DEF Unseen
<1> QED BY <1>2, <1>3, <1>4, <1>5

-----------------------------------------------------------------------------
StoreVars == <<[p \in PageIds |-> Mem(p)], next_page_id, Held, versions, committed, result>>

\* Steps that clients do not see.
LEMMA SilentSteps ==
    ASSUME ReadsSucceed, WritesAtomic, StoreInv, Record,
           \/ EvictTake \/ EvictAge \/ EvictSkip \/ WriteBack
           \/ \E p \in PageIds : FlushPage(p)
    PROVE  UNCHANGED StoreVars /\ HistInv'
<1>0. PoolInv /\ TypeOK /\ DataInv /\ ContentInv /\ HistInv
  BY DEF StoreInv, PoolInv
<1>1. result' = result /\ UNCHANGED <<page_table, handles, durable, next_page_id>>
  BY DEF EvictTake, EvictAge, EvictSkip, WriteBack, FlushPage, GoTo, diskVars, poolVars,
         WritePageData
<1>2. ~Committing
  BY DEF EvictTake, EvictAge, EvictSkip, WriteBack, FlushPage, GoTo, Committing, ContentInv,
         FlushedClean, StoreInv
<1>3. Held' = Held
  BY <1>1, SameHeld
<1>4. CASE EvictTake \/ EvictAge \/ EvictSkip
  <2>1. heap_file' = heap_file /\ \A f \in BufferIds : buffers'[f].page = buffers[f].page
    BY <1>0, <1>4 DEF EvictTake, EvictAge, EvictSkip, diskVars, poolVars, TypeOK, Frame
  <2>2. Unseen
    BY <1>0, <1>1, <2>1, SamePages
  <2>3. UNCHANGED <<versions, committed>>
    BY <1>0, <1>2, <2>2, RecordUnseen
  <2>4. HistInv'
    <3>1. \A p \in PageIds :
              /\ heap_file'.pages[p] \in versions[p]
              /\ p >= heap_file'.len => heap_file'.pages[p] = Zero
      BY <1>0, <2>1 DEF HistInv
    <3>2. heap_file.len <= heap_file'.len /\ heap_file'.len \in Nat
      BY <1>0, <2>1, FilesAre
    <3> QED BY <1>0, <1>1, <2>2, <2>3, <3>1, <3>2, FilesAre, HistUnseen
  <2> QED BY <1>1, <1>3, <2>2, <2>3, <2>4, StoreUnseen DEF StoreVars
<1>5. CASE WriteBack \/ \E p \in PageIds : FlushPage(p)
  <2>1. PICK p \in Mapped : WritePageData(p, Mem(p))
    <3>1. CASE WriteBack
      <4>1. victim.page_id \in PageIds /\ page_table[victim.page_id] = next_victim_id
        BY <1>0, <3>1, MappedFrame, DiskAssumption
        DEF WriteBack, CallInv, FramesInv, TypeOK, victim, DataInv, PoolInv
      <4>2. victim.page_id \in Mapped /\ Mem(victim.page_id) = victim.page
        BY <1>0, <4>1, BufferPoolAssumption DEF Mapped, Mem, victim, TypeOK
      <4> QED BY <3>1, <4>2 DEF WriteBack
    <3>2. ASSUME NEW p \in PageIds, FlushPage(p) PROVE \E q \in Mapped : WritePageData(q, Mem(q))
      <4>1. p \in Mapped
        BY <1>0, <3>2 DEF FlushPage, CallInv, PoolInv
      <4>2. WritePageData(p, Mem(p))
        BY <3>2, <4>1 DEF FlushPage, Mem, Mapped
      <4> QED BY <4>1, <4>2
    <3> QED BY <1>5, <3>1, <3>2
  <2>2. \A f \in BufferIds : buffers'[f].page = buffers[f].page
    <3>1. CASE WriteBack
      BY <3>1 DEF WriteBack, poolVars
    <3>2. ASSUME NEW q \in PageIds, FlushPage(q)
          PROVE  \A f \in BufferIds : buffers'[f].page = buffers[f].page
      <4>1. page_table[q] \in BufferIds
        BY <1>0, <3>2, MappedFrame DEF FlushPage, CallInv, PoolInv, DataInv
      <4> QED BY <1>0, <3>2, <4>1 DEF FlushPage, TypeOK, Frame
    <3> QED BY <1>5, <3>1, <3>2
  <2>3. /\ Unseen
        /\ heap_file.len <= heap_file'.len /\ heap_file'.len \in Nat
        /\ \A q \in PageIds :
              /\ heap_file'.pages[q] \in versions[q]
              /\ q >= heap_file'.len => heap_file'.pages[q] = Zero
    BY <1>0, <1>1, <2>1, <2>2, WriteUnseen
  <2>4. UNCHANGED <<versions, committed>>
    BY <1>0, <1>2, <2>3, RecordUnseen
  <2>5. HistInv'
    BY <1>0, <1>1, <2>3, <2>4, FilesAre, HistUnseen
  <2> QED BY <1>1, <1>3, <2>3, <2>4, <2>5, StoreUnseen DEF StoreVars
<1> QED BY <1>4, <1>5

\* Steps that change the result at most: calls that begin, are refused or fail.
LEMMA ResultSteps ==
    ASSUME ReadsSucceed, WritesAtomic, StoreInv, Record,
           \/ \E p \in PageIds : FetchMiss(p) \/ FlushPageFails(p)
           \/ CreatePage \/ Flush \/ EvictRefuse \/ WriteBackFails \/ FlushSyncFails
    PROVE  Store!Next /\ HistInv'
<1>0. PoolInv /\ TypeOK /\ DataInv /\ ContentInv /\ HistInv
  BY DEF StoreInv, PoolInv
<1>1. UNCHANGED <<page_table, handles, durable, next_page_id, heap_file, buffers>>
  BY DEF FetchMiss, FlushPageFails, CreatePage, Flush, EvictRefuse, WriteBackFails,
         FlushSyncFails, diskVars, poolVars, WritePageDataFails, WritesAtomic, SyncFails
<1>2. ~Committing
  BY DEF FetchMiss, FlushPageFails, CreatePage, Flush, EvictRefuse, WriteBackFails,
         FlushSyncFails, Begin, Return, Committing
<1>3. Unseen
  BY <1>0, <1>1, SamePages
<1>4. UNCHANGED <<versions, committed>>
  BY <1>0, <1>2, <1>3, RecordUnseen
<1>5. UNCHANGED <<[p \in PageIds |-> Mem(p)], next_page_id, Held, versions, committed>>
  BY <1>1, <1>3, <1>4, StoreUnseen, SameHeld
<1>6. HistInv'
  <2>1. \A p \in PageIds :
            /\ heap_file'.pages[p] \in versions[p]
            /\ p >= heap_file'.len => heap_file'.pages[p] = Zero
    BY <1>0, <1>1 DEF HistInv
  <2>2. heap_file.len <= heap_file'.len /\ heap_file'.len \in Nat
    BY <1>0, <1>1, FilesAre
  <2> QED BY <1>0, <1>1, <1>3, <1>4, <2>1, <2>2, FilesAre, HistUnseen
<1>7. CASE CreatePage \/ Flush \/ \E p \in PageIds : FetchMiss(p)
  <2>1. result' = "none"
    BY <1>7 DEF CreatePage, Flush, FetchMiss, Begin
  <2>2. Store!Begin
    BY <1>5, <2>1 DEF Store!Begin
  <2> QED BY <1>6, <2>2 DEF Store!Next
<1>8. CASE EvictRefuse
  <2>1. \A f \in BufferIds : handles[f] > 0
    <3> SUFFICES ASSUME NEW f \in BufferIds PROVE handles[f] > 0
      OBVIOUS
    <3>1. consecutive_pinned = PoolSize - 1
      BY <1>0, <1>8, BufferPoolAssumption DEF EvictRefuse, TypeOK
    <3>2. f \in JustPassed \/ f = next_victim_id
      BY <1>0, <3>1, BufferPoolAssumption DEF JustPassed, BufferIds, TypeOK
    <3> QED BY <1>0, <1>8, <3>2 DEF EvictRefuse, PoolInv, CallInv
  <2>2. Store!Cardinality(Store!HeldPages) = PoolSize
    BY <1>0, <2>1, HeldPagesCount
  <2>3. result' = "NoFreeBuffer"
    BY <1>8 DEF EvictRefuse, Return
  <2>4. Store!Refuse
    BY <1>5, <2>2, <2>3 DEF Store!Refuse
  <2> QED BY <1>6, <2>4 DEF Store!Next
<1>9. CASE WriteBackFails \/ FlushSyncFails \/ \E p \in PageIds : FlushPageFails(p)
  <2>1. result' = "Io"
    BY <1>9 DEF WriteBackFails, FlushSyncFails, FlushPageFails, Return
  <2>2. Store!Fail
    BY <1>5, <2>1 DEF Store!Fail
  <2> QED BY <1>6, <2>2 DEF Store!Next
<1> QED BY <1>7, <1>8, <1>9

-----------------------------------------------------------------------------
\* A handle more or less on a frame is one on the page in it.
LEMMA HeldChanges ==
    ASSUME PoolInv, DataInv, NEW p \in Mapped, NEW n \in Int,
           handles' = [handles EXCEPT ![page_table[p]] = n],
           UNCHANGED page_table
    PROVE  Held' = [Held EXCEPT ![p] = n]
<1>1. /\ p \in PageIds /\ page_table[p] \in BufferIds /\ Mapped' = Mapped
      /\ \A q \in Mapped : page_table[q] \in BufferIds
      /\ \A q \in Mapped : page_table[q] = page_table[p] => q = p
  BY MappedFrame DEF PoolInv, DataInv, Mapped
<1>2. \A q \in PageIds : Held'[q] = IF q = p THEN n ELSE Held[q]
  BY <1>1 DEF Held, PoolInv, TypeOK, Mapped
<1>3. DOMAIN Held = PageIds /\ DOMAIN Held' = PageIds
  BY DEF Held
<1> QED BY <1>1, <1>2, <1>3 DEF Held

LEMMA DropIsDrop ==
    ASSUME StoreInv, Record, NEW f \in BufferIds, DropHandle(f)
    PROVE  Store!Next /\ HistInv'
<1>0. PoolInv /\ TypeOK /\ DataInv /\ ContentInv /\ HistInv
  BY DEF StoreInv, PoolInv
<1>1. /\ UNCHANGED <<page_table, heap_file, durable, next_page_id, buffers, result>>
      /\ ~Committing
  BY DEF DropHandle, diskVars, callVars, Committing
<1>2. Unseen
  BY <1>0, <1>1, SamePages
<1>3. UNCHANGED <<versions, committed>>
  BY <1>0, <1>1, <1>2, RecordUnseen
<1>4. HistInv'
  <2>1. \A p \in PageIds :
            /\ heap_file'.pages[p] \in versions[p]
            /\ p >= heap_file'.len => heap_file'.pages[p] = Zero
    BY <1>0, <1>1 DEF HistInv
  <2>2. heap_file.len <= heap_file'.len /\ heap_file'.len \in Nat
    BY <1>0, <1>1, FilesAre
  <2> QED BY <1>0, <1>1, <1>2, <1>3, <2>1, <2>2, FilesAre, HistUnseen
<1>5. PICK p \in Mapped : page_table[p] = f
  <2>1. buffers[f].page_id \in PageIds
    BY <1>0 DEF DropHandle, PoolInv, FramesInv
  <2>2. page_table[buffers[f].page_id] = f
    BY <1>0, <2>1 DEF DataInv, MappingExact
  <2> QED BY <2>1, <2>2, BufferPoolAssumption DEF Mapped
<1>6. Held[p] = handles[f] /\ handles[f] > 0 /\ handles[f] \in Nat /\ p \in PageIds
  BY <1>0, <1>5, HeldByType DEF DropHandle, TypeOK, Mapped
<1>7. Held' = [Held EXCEPT ![p] = handles[f] - 1]
  <2>1. handles' = [handles EXCEPT ![page_table[p]] = handles[f] - 1]
    BY <1>0, <1>5 DEF DropHandle, TypeOK
  <2>2. handles[f] - 1 \in Int
    BY <1>6
  <2> QED BY <1>0, <1>1, <2>1, <2>2, HeldChanges
<1>8. Held' = [Held EXCEPT ![p] = @ - 1]
  BY <1>6, <1>7
<1>9. UNCHANGED <<[q \in PageIds |-> Mem(q)], next_page_id, versions, committed, result>>
  BY <1>1, <1>2, <1>3, StoreUnseen
<1>10. Store!Drop(p)
  BY <1>6, <1>8, <1>9 DEF Store!Drop
<1> QED BY <1>4, <1>6, <1>10 DEF Store!Next, Store!PageIds, PageIds

LEMMA HitIsFetch ==
    ASSUME ReadsSucceed, StoreInv, Record, NEW p \in PageIds, FetchHit(p)
    PROVE  Store!Next /\ HistInv'
<1>0. PoolInv /\ TypeOK /\ DataInv /\ ContentInv /\ HistInv
  BY DEF StoreInv, PoolInv
<1>1. /\ UNCHANGED <<page_table, heap_file, durable, next_page_id>>
      /\ result' = "ok" /\ ~Committing /\ p < next_page_id /\ p \in Mapped
  BY DEF FetchHit, diskVars, Return, Committing, Requestable, ReadsSucceed, Mapped
<1>2. Unseen
  <2>1. \A f \in BufferIds : buffers'[f].page = buffers[f].page
    BY <1>0 DEF FetchHit, TypeOK, Frame
  <2> QED BY <1>0, <1>1, <2>1, SamePages
<1>3. UNCHANGED <<versions, committed>>
  BY <1>0, <1>1, <1>2, RecordUnseen
<1>4. HistInv'
  <2>1. \A q \in PageIds :
            /\ heap_file'.pages[q] \in versions[q]
            /\ q >= heap_file'.len => heap_file'.pages[q] = Zero
    BY <1>0, <1>1 DEF HistInv
  <2>2. heap_file.len <= heap_file'.len /\ heap_file'.len \in Nat
    BY <1>0, <1>1, FilesAre
  <2> QED BY <1>0, <1>1, <1>2, <1>3, <2>1, <2>2, FilesAre, HistUnseen
<1>5. page_table[p] \in BufferIds /\ handles[page_table[p]] \in Nat
  BY <1>0, <1>1, MappedFrame DEF DataInv, TypeOK
<1>6. Held[p] = handles[page_table[p]]
  BY <1>0, <1>1, HeldByType
<1>7. Held' = [Held EXCEPT ![p] = @ + 1]
  <2>1. handles' = [handles EXCEPT ![page_table[p]] = handles[page_table[p]] + 1]
    BY DEF FetchHit
  <2>2. handles[page_table[p]] + 1 \in Int
    BY <1>5
  <2>3. Held' = [Held EXCEPT ![p] = handles[page_table[p]] + 1]
    BY <1>0, <1>1, <2>1, <2>2, HeldChanges
  <2> QED BY <1>6, <2>3
<1>8. Store!Available(p)
  <2>1. CASE \A f \in BufferIds : handles[f] > 0
    BY <1>5, <1>6, <2>1 DEF Store!Available
  <2>2. CASE \E f \in BufferIds : handles[f] = 0
    BY <1>0, <2>2, HeldPagesCount DEF Store!Available
  <2> QED BY <1>0, <2>1, <2>2 DEF TypeOK
<1>9. UNCHANGED <<[q \in PageIds |-> Mem(q)], next_page_id, versions, committed>>
  BY <1>1, <1>2, <1>3, StoreUnseen
<1>10. Store!Fetch(p)
  BY <1>1, <1>7, <1>8, <1>9 DEF Store!Fetch
<1> QED BY <1>4, <1>10 DEF Store!Next, Store!PageIds, PageIds

\* A step that sets the content of one page, p, keeps what is recorded.
LEMMA HistSeen ==
    ASSUME HistInv, ~Committing, Record, NEW p \in PageIds, NEW data \in Contents,
           Mem(p)' = data, \A q \in PageIds \ {p} : Mem(q)' = Mem(q),
           UNCHANGED <<heap_file, durable>>
    PROVE  /\ HistInv'
           /\ versions' = [versions EXCEPT ![p] = @ \union {data}]
           /\ committed' = committed
<1>1. /\ committed' = committed
      /\ versions' = [q \in PageIds |-> versions[q] \union {Mem(q)'}]
  BY DEF Record
<1>2. /\ versions'[p] = versions[p] \union {data}
      /\ \A q \in PageIds \ {p} : versions'[q] = versions[q]
  BY <1>1 DEF HistInv
<1>3. /\ versions' = [versions EXCEPT ![p] = @ \union {data}]
      /\ versions' \in [PageIds -> SUBSET Contents]
  BY <1>1, <1>2 DEF HistInv
<1>4. \A q \in PageIds : versions[q] \subseteq versions'[q] /\ Mem(q)' \in versions'[q]
  BY <1>1
<1>5. HistInv'
  BY <1>1, <1>3, <1>4 DEF HistInv
<1> QED BY <1>1, <1>3, <1>5

LEMMA WriteIsWrite ==
    ASSUME StoreInv, Record, NEW f \in BufferIds, NEW data \in Contents,
           WritePage(f, data)
    PROVE  Store!Next /\ HistInv'
<1>0. PoolInv /\ TypeOK /\ DataInv /\ ContentInv /\ HistInv
  BY DEF StoreInv, PoolInv
<1>1. /\ UNCHANGED <<page_table, handles, heap_file, durable, next_page_id, result>>
      /\ ~Committing
  BY DEF WritePage, diskVars, callVars, Committing
<1>2. PICK p \in Mapped : page_table[p] = f
  <2>1. buffers[f].page_id \in PageIds
    BY <1>0 DEF WritePage, PoolInv, FramesInv
  <2>2. page_table[buffers[f].page_id] = f
    BY <1>0, <2>1 DEF DataInv, MappingExact
  <2> QED BY <2>1, <2>2, BufferPoolAssumption DEF Mapped
<1>3. p \in PageIds /\ Held[p] > 0 /\ Held' = Held
  BY <1>0, <1>1, <1>2, HeldByType, SameHeld DEF WritePage, Mapped
<1>4. Mem(p)' = data /\ \A q \in PageIds \ {p} : Mem(q)' = Mem(q)
  <2>1. buffers'[f].page = data /\ \A g \in BufferIds \ {f} : buffers'[g] = buffers[g]
    BY <1>0 DEF WritePage, TypeOK, Frame
  <2>2. Mapped' = Mapped /\ \A q \in Mapped \ {p} : page_table[q] \in BufferIds \ {f}
    BY <1>0, <1>1, <1>2, MappedFrame DEF Mapped, DataInv
  <2>3. Mem(p)' = data
    BY <1>1, <1>2, <2>1, <2>2 DEF Mem, Mapped
  <2>4. ASSUME NEW q \in PageIds \ {p} PROVE Mem(q)' = Mem(q)
    <3>1. CASE q \in Mapped
      BY <1>1, <2>1, <2>2, <3>1 DEF Mem
    <3>2. CASE q \notin Mapped
      BY <1>1, <2>2, <3>2 DEF Mem, Mapped
    <3> QED BY <3>1, <3>2
  <2> QED BY <2>3, <2>4
<1>5. /\ HistInv' /\ committed' = committed
      /\ versions' = [versions EXCEPT ![p] = @ \union {data}]
  BY <1>0, <1>1, <1>3, <1>4, HistSeen
<1>6. [q \in PageIds |-> Mem(q)]' = [[q \in PageIds |-> Mem(q)] EXCEPT ![p] = data]
  BY <1>3, <1>4
<1>7. Store!Write(p, data)
  BY <1>1, <1>3, <1>5, <1>6 DEF Store!Write
<1> QED BY <1>3, <1>5, <1>7 DEF Store!Next, Store!PageIds, PageIds

-----------------------------------------------------------------------------
\* Filling the victim with page p: clients see that page change hands, and not
\* that another left the pool.
LEMMA FillChanges ==
    ASSUME PoolInv, DataInv, ContentInv, pc = "fill",
           NEW p \in PageIds, p \notin Mapped, NEW data,
           \A f \in BufferIds \ {next_victim_id} : buffers'[f] = buffers[f],
           buffers'[next_victim_id].page = data,
           Remap(victim.page_id, p),
           handles' = [handles EXCEPT ![next_victim_id] = @ + 1],
           UNCHANGED heap_file
    PROVE  /\ Mem(p)' = data
           /\ \A q \in PageIds \ {p} : Mem(q)' = Mem(q)
           /\ Held[p] = 0 /\ Held' = [Held EXCEPT ![p] = 1]
           /\ handles[next_victim_id] = 0
<1> USE BufferPoolAssumption
<1>1. /\ TypeOK /\ next_victim_id \in BufferIds
      /\ handles[next_victim_id] = 0 /\ handles'[next_victim_id] = 1
      /\ \A f \in BufferIds \ {next_victim_id} : handles'[f] = handles[f]
  BY DEF PoolInv, FramesInv, CallInv, TypeOK, victim
<1>2. /\ page_table[p] = NoFrame
      /\ \A q \in PageIds, f \in BufferIds :
            page_table[q] = f <=> buffers[f].page_id = q
      /\ \A q \in PageIds :
            page_table'[q] = IF q = p THEN next_victim_id
                             ELSE IF q = victim.page_id THEN NoFrame
                             ELSE page_table[q]
  BY DEF DataInv, MappingExact, Mapped, Remap
<1>3. p \in Mapped' /\ page_table'[p] = next_victim_id
  BY <1>1, <1>2 DEF Mapped
<1>4. ASSUME NEW q \in PageIds \ {p}
      PROVE  /\ q \in Mapped' => /\ q \in Mapped /\ page_table'[q] = page_table[q]
                                 /\ page_table[q] \in BufferIds \ {next_victim_id}
             /\ q \notin Mapped' => q \notin Mapped \/ q = victim.page_id
  BY <1>1, <1>2 DEF Mapped, TypeOK, victim
<1>5. Mem(p)' = data
  BY <1>3 DEF Mem, Mapped
<1>6. ASSUME NEW q \in PageIds \ {p} PROVE Mem(q)' = Mem(q)
  <2>1. CASE q \in Mapped'
    BY <1>4, <2>1 DEF Mem
  <2>2. CASE q \notin Mapped' /\ q \notin Mapped
    BY <2>2 DEF Mem, Mapped
  <2>3. CASE q \notin Mapped' /\ q = victim.page_id
    <3>1. q # INVALID_PAGE_ID
      BY DiskAssumption
    <3>2. q \in Mapped /\ page_table[q] = next_victim_id
      BY <1>1, <2>3, <3>1, MappedFrame DEF DataInv
    <3>3. heap_file.pages[q] = victim.page
      BY <2>3, <3>1 DEF ContentInv, VictimSaved
    <3> QED BY <2>3, <3>2, <3>3 DEF Mem, victim, Mapped
  <2> QED BY <1>4, <2>1, <2>2, <2>3
<1>7. Held[p] = 0 /\ Held'[p] = 1
  BY <1>1, <1>2, <1>3 DEF Held, Mapped
<1>8. ASSUME NEW q \in PageIds \ {p} PROVE Held'[q] = Held[q]
  <2>1. CASE q \in Mapped'
    BY <1>1, <1>4, <2>1 DEF Held
  <2>2. CASE q \notin Mapped' /\ q \notin Mapped
    BY <2>2 DEF Held, Mapped
  <2>3. CASE q \notin Mapped' /\ q = victim.page_id
    <3>1. q \in Mapped /\ page_table[q] = next_victim_id
      BY <1>1, <2>3, MappedFrame, DiskAssumption DEF DataInv
    <3> QED BY <1>1, <2>3, <3>1 DEF Held, Mapped
  <2> QED BY <1>4, <2>1, <2>2, <2>3
<1>9. Held' = [Held EXCEPT ![p] = 1]
  <2>1. /\ Held = [q \in PageIds |-> Held[q]]
        /\ Held' = [q \in PageIds |-> Held'[q]]
    BY DEF Held
  <2> QED BY <1>7, <1>8, <2>1
<1> QED BY <1>1, <1>5, <1>6, <1>7, <1>9

LEMMA FillFetchedIsFetch ==
    ASSUME ReadsSucceed, StoreInv, Record, FillFetched
    PROVE  Store!Next /\ HistInv'
<1>0. PoolInv /\ TypeOK /\ DataInv /\ ContentInv /\ HistInv
  BY DEF StoreInv, PoolInv
<1>a. PICK p \in PageIds : p = request
  BY <1>0 DEF FillFetched, TypeOK
<1>1. /\ p < next_page_id /\ p \notin Mapped
      /\ result' = "ok" /\ ~Committing
      /\ UNCHANGED <<heap_file, durable, next_page_id>>
  BY <1>0, <1>a DEF FillFetched, DataInv, RequestPending, Filling, HandOut, Return,
                    diskVars, Committing
<1>2. next_victim_id \in BufferIds
  BY <1>0 DEF TypeOK
<1>3. /\ Mem(p)' = heap_file.pages[p]
      /\ \A q \in PageIds \ {p} : Mem(q)' = Mem(q)
      /\ Held[p] = 0 /\ Held' = [Held EXCEPT ![p] = 1]
      /\ handles[next_victim_id] = 0
  <2>1. /\ \A f \in BufferIds \ {next_victim_id} : buffers'[f] = buffers[f]
        /\ buffers'[next_victim_id].page = heap_file.pages[p]
    BY <1>0, <1>a, <1>2 DEF FillFetched, ReadPageData, TypeOK
  <2>2. /\ Remap(victim.page_id, p) /\ pc = "fill"
        /\ handles' = [handles EXCEPT ![next_victim_id] = @ + 1]
    BY <1>a DEF FillFetched, HandOut
  <2> QED BY <1>0, <1>1, <2>1, <2>2, FillChanges
<1>4. Unseen
  BY <1>1, <1>3 DEF Unseen, Mem, Mapped
<1>5. UNCHANGED <<versions, committed>>
  BY <1>0, <1>1, <1>4, RecordUnseen
<1>6. HistInv'
  <2>1. \A q \in PageIds :
            /\ heap_file'.pages[q] \in versions[q]
            /\ q >= heap_file'.len => heap_file'.pages[q] = Zero
    BY <1>0, <1>1 DEF HistInv
  <2>2. heap_file.len <= heap_file'.len /\ heap_file'.len \in Nat
    BY <1>0, <1>1, FilesAre
  <2> QED BY <1>0, <1>1, <1>4, <1>5, <2>1, <2>2, FilesAre, HistUnseen
<1>7. Store!Available(p)
  BY <1>0, <1>2, <1>3, HeldPagesCount DEF Store!Available
<1>8. Held' = [Held EXCEPT ![p] = @ + 1]
  <2>1. Held[p] + 1 = 1
    BY <1>3
  <2> QED BY <1>3, <2>1
<1>9. UNCHANGED <<[q \in PageIds |-> Mem(q)], next_page_id, versions, committed>>
  BY <1>1, <1>4, <1>5, StoreUnseen
<1>10. Store!Fetch(p)
  BY <1>1, <1>7, <1>8, <1>9 DEF Store!Fetch
<1> QED BY <1>1, <1>6, <1>10 DEF Store!Next, Store!PageIds, PageIds

LEMMA FillCreatedIsCreate ==
    ASSUME StoreInv, Record, FillCreated
    PROVE  Store!Next /\ HistInv'
<1>0. PoolInv /\ TypeOK /\ DataInv /\ ContentInv /\ HistInv
  BY DEF StoreInv, PoolInv
<1>a. PICK p \in PageIds : p = next_page_id
  BY <1>0, FilesAre, DiskAssumption DEF FillCreated, CallInv, PoolInv, PageIds
<1>1. /\ p \notin Mapped /\ p < MaxPages /\ next_page_id' = p + 1
      /\ result' = "ok" /\ ~Committing
      /\ UNCHANGED <<heap_file, durable>>
  BY <1>0, <1>a, FilesAre, DiskAssumption
  DEF FillCreated, AllocatePage, DataInv, Bounded, CallInv, PoolInv, HandOut, Return,
      Committing, PageIds
<1>2. next_victim_id \in BufferIds
  BY <1>0 DEF TypeOK
<1>3. /\ Mem(p)' = Zero
      /\ \A q \in PageIds \ {p} : Mem(q)' = Mem(q)
      /\ Held[p] = 0 /\ Held' = [Held EXCEPT ![p] = 1]
      /\ handles[next_victim_id] = 0
  <2>1. /\ \A f \in BufferIds \ {next_victim_id} : buffers'[f] = buffers[f]
        /\ buffers'[next_victim_id].page = Zero
    BY <1>0, <1>2 DEF FillCreated, TypeOK
  <2>2. /\ Remap(victim.page_id, p) /\ pc = "fill"
        /\ handles' = [handles EXCEPT ![next_victim_id] = @ + 1]
    BY <1>a DEF FillCreated, HandOut
  <2> QED BY <1>0, <1>1, <2>1, <2>2, FillChanges
<1>4. /\ HistInv' /\ committed' = committed
      /\ versions' = [versions EXCEPT ![p] = @ \union {Zero}]
  BY <1>0, <1>1, <1>3, HistSeen, DiskAssumption
<1>5. [q \in PageIds |-> Mem(q)]' = [[q \in PageIds |-> Mem(q)] EXCEPT ![p] = Zero]
  BY <1>1, <1>3
<1>6. Store!Available(p)
  BY <1>0, <1>2, <1>3, HeldPagesCount DEF Store!Available
<1>7. Store!Create
  BY <1>a, <1>1, <1>3, <1>4, <1>5, <1>6 DEF Store!Create
<1> QED BY <1>4, <1>7 DEF Store!Next

-----------------------------------------------------------------------------
\* A flush that returns Ok takes what clients see for the only content of each
\* page that a restart may bring back.
LEMMA SyncIsFlush ==
    ASSUME ReadsSucceed, StoreInv, Record, FlushSync
    PROVE  Store!Next /\ HistInv'
<1>0. PoolInv /\ TypeOK /\ DataInv /\ ContentInv /\ HistInv
  BY DEF StoreInv, PoolInv
<1>1. /\ durable' = heap_file /\ result' = "ok" /\ Committing /\ unflushed = {}
      /\ UNCHANGED <<heap_file, next_page_id, buffers, handles, page_table>>
  BY DEF FlushSync, Sync, Return, poolVars, Committing
<1>2. Unseen /\ Held' = Held
  BY <1>0, <1>1, SamePages, SameHeld
<1>3. /\ versions' = [q \in PageIds |-> {Mem(q)}]
      /\ committed' = next_page_id
  BY <1>1, <1>2 DEF Record, Unseen
<1>4. \A q \in PageIds : Mem(q) = heap_file.pages[q] /\ Mem(q) \in Contents
  BY <1>0, <1>1 DEF ContentInv, FlushedClean, FlushSync, CleanMatchesFile, Mem, HistInv, Mapped
<1>5. next_page_id <= heap_file.len
  <2>1. CASE next_page_id = 0
    BY <1>0, <2>1, FilesAre
  <2>2. CASE next_page_id > 0
    <3>1. next_page_id - 1 \in PageIds /\ next_page_id - 1 < next_page_id
      BY <1>0, <2>2, FilesAre, DiskAssumption DEF PageIds
    <3>2. Readable(heap_file, next_page_id - 1)
      BY <1>0, <1>1, <3>1
      DEF DataInv, AllocatedReachable, CleanReadable, ContentInv, FlushedClean, FlushSync
    <3> QED BY <1>0, <3>2, FilesAre DEF Readable
  <2> QED BY <1>0, <2>1, <2>2, FilesAre
<1>6. HistInv'
  <2>1. versions' \in [PageIds -> SUBSET Contents]
    BY <1>3, <1>4
  <2>2. /\ committed' \in Nat /\ committed' <= durable'.len
        /\ durable'.len <= heap_file'.len
    BY <1>0, <1>1, <1>3, <1>5, FilesAre
  <2>3. ASSUME NEW q \in PageIds
        PROVE  /\ Mem(q)' \in versions'[q]
               /\ heap_file'.pages[q] \in versions'[q]
               /\ durable'.pages[q] \in versions'[q]
               /\ q >= durable'.len => Zero \in versions'[q]
               /\ q >= heap_file'.len => heap_file'.pages[q] = Zero
    BY <1>0, <1>1, <1>2, <1>3, <1>4 DEF HistInv, Unseen
  <2> QED BY <2>1, <2>2, <2>3 DEF HistInv
<1>7. versions' = [q \in PageIds |-> {[r \in PageIds |-> Mem(r)][q]}]
  BY <1>3
<1>8. Store!Flush
  BY <1>1, <1>2, <1>3, <1>7 DEF Store!Flush, Unseen, Store!PageIds, PageIds
<1> QED BY <1>6, <1>8 DEF Store!Next

\* A restart shows each page as it was since the last flush.
LEMMA ReopenIsRestart ==
    ASSUME StoreInv, Reopen, UNCHANGED historyVars
    PROVE  Store!Next /\ HistInv'
<1>0. PoolInv /\ TypeOK /\ DataInv /\ ContentInv /\ HistInv
  BY DEF StoreInv, PoolInv
<1>1. /\ Mapped' = {} /\ result' = "none" /\ UNCHANGED <<versions, committed>>
  BY DEF Reopen, Return, NoPages, Mapped, historyVars
<1>2. Held' = [p \in PageIds |-> 0] /\ \A p \in PageIds : Mem(p)' = heap_file'.pages[p]
  BY <1>1 DEF Held, Mem, Mapped
<1>3. /\ next_page_id' = heap_file'.len /\ heap_file'.len \in Nat
      /\ durable'.len \in Nat /\ durable.len <= durable'.len
      /\ durable'.len <= heap_file'.len /\ heap_file'.len <= heap_file.len
      /\ \A p \in PageIds :
            /\ heap_file'.pages[p] \in versions[p]
            /\ durable'.pages[p] \in versions[p]
            /\ p >= durable'.len => Zero \in versions[p]
            /\ p >= heap_file'.len => heap_file'.pages[p] = Zero
  <2>0. heap_file.len \in Nat /\ durable.len \in Nat /\ durable.len <= heap_file.len
    BY <1>0, FilesAre DEF HistInv
  <2>1. CASE ReopenAfterExit
    BY <1>0, <2>0, <2>1 DEF ReopenAfterExit, HistInv
  <2>2. CASE ReopenAfterPowerLoss
    <3>1. PICK len \in durable.len .. heap_file.len, lost \in SUBSET Unsynced :
            /\ heap_file' =
                   [pages |-> [p \in PageIds |->
                                  IF p >= len THEN Zero
                                  ELSE IF p \in lost THEN durable.pages[p]
                                  ELSE heap_file.pages[p]],
                    len   |-> len]
            /\ durable' = heap_file'
            /\ next_page_id' = len
      BY <2>2 DEF ReopenAfterPowerLoss
    <3>2. heap_file'.len = len /\ len \in Nat /\ durable.len <= len /\ len <= heap_file.len
      BY <2>0, <3>1
    <3>3. \A p \in PageIds :
             heap_file'.pages[p] = IF p >= len THEN Zero
                                   ELSE IF p \in lost THEN durable.pages[p]
                                   ELSE heap_file.pages[p]
      BY <3>1
    <3>4. ASSUME NEW p \in PageIds
          PROVE  /\ heap_file'.pages[p] \in versions[p]
                 /\ p >= len => Zero \in versions[p] /\ heap_file'.pages[p] = Zero
      <4>1. p >= len => p >= durable.len
        BY <2>0, <3>2 DEF PageIds
      <4>2. /\ p >= durable.len => Zero \in versions[p]
            /\ heap_file.pages[p] \in versions[p] /\ durable.pages[p] \in versions[p]
        BY <1>0 DEF HistInv
      <4> QED BY <3>3, <4>1, <4>2
    <3> QED BY <2>0, <3>1, <3>2, <3>4
  <2> QED BY <2>1, <2>2 DEF Reopen
<1>4. HistInv'
  <2>1. committed' <= durable'.len /\ committed' \in Nat
    BY <1>0, <1>1, <1>3, FilesAre DEF HistInv
  <2>2. \A p \in PageIds : Mem(p)' \in versions'[p]
    BY <1>1, <1>2, <1>3
  <2>3. versions' \in [PageIds -> SUBSET Contents]
    BY <1>0, <1>1 DEF HistInv
  <2> QED BY <1>1, <1>3, <2>1, <2>2, <2>3 DEF HistInv
<1>5. heap_file'.len \in committed .. next_page_id
  BY <1>0, <1>3, FilesAre DEF HistInv, DataInv, Bounded
<1>6. Store!Restart
  <2> DEFINE shown == [p \in PageIds |-> heap_file'.pages[p]]
  <2>1. [p \in PageIds |-> Mem(p)]' = shown
    BY <1>2
  <2>2. \A p \in PageIds : heap_file'.pages[p] \in Contents
    BY <1>0, <1>3 DEF HistInv
  <2>3. shown \in [PageIds -> Contents] /\ \A p \in PageIds : shown[p] \in versions[p]
    BY <1>3, <2>2
  <2>4. Store!PageIds = PageIds
    BY DEF Store!PageIds, PageIds
  <2> HIDE DEF shown
  <2> QED BY <1>1, <1>2, <1>3, <1>5, <2>1, <2>3, <2>4 DEF Store!Restart
<1> QED BY <1>4, <1>6 DEF Store!Next

-----------------------------------------------------------------------------
LEMMA InitStore == HInit => StoreInv /\ Store!Init
<1> SUFFICES ASSUME HInit PROVE StoreInv /\ Store!Init
  OBVIOUS
<1>1. PoolInv /\ DataInv /\ ContentInv
  BY InitPoolInv, InitData DEF HInit
<1>2. /\ Mapped = {} /\ next_page_id = 0 /\ result = "none"
      /\ heap_file = EmptyFile /\ durable = EmptyFile
      /\ versions = [p \in PageIds |-> {Zero}] /\ committed = 0
  BY DEF HInit, Init, DiskInit, EmptyFile, NoPages, Mapped
<1>3. \A p \in PageIds : Mem(p) = Zero /\ heap_file.pages[p] = Zero
  BY <1>2 DEF Mem, EmptyFile, Mapped
<1>4. HistInv
  BY <1>2, <1>3, DiskAssumption DEF HistInv, EmptyFile
<1>5. Store!Init
  BY <1>2, <1>3 DEF Store!Init, Held, Store!PageIds, PageIds, Mapped
<1> QED BY <1>1, <1>4, <1>5 DEF StoreInv

LEMMA StoreStep ==
    ASSUME ReadsSucceed, WritesAtomic, StoreInv, HNext
    PROVE  HistInv' /\ [Store!Next]_(Store!vars)
<1>1. CASE Reopen /\ UNCHANGED historyVars
  BY <1>1, ReopenIsRestart
<1>2. CASE Record /\ \/ EvictTake \/ EvictAge \/ EvictSkip \/ WriteBack
                     \/ \E p \in PageIds : FlushPage(p)
  BY <1>2, SilentSteps DEF StoreVars, Store!vars
<1>3. CASE Record /\ \/ \E p \in PageIds : FetchMiss(p) \/ FlushPageFails(p)
                     \/ CreatePage \/ Flush \/ EvictRefuse \/ WriteBackFails
                     \/ FlushSyncFails
  BY <1>3, ResultSteps
<1>4. CASE Record /\ \E f \in BufferIds : DropHandle(f)
  BY <1>4, DropIsDrop
<1>5. CASE Record /\ \E f \in BufferIds, data \in Writes : WritePage(f, data)
  BY <1>5, BufferPoolAssumption, WriteIsWrite
<1>6. CASE Record /\ \E p \in PageIds : FetchHit(p)
  BY <1>6, HitIsFetch
<1>7. CASE Record /\ FillFetched
  BY <1>7, FillFetchedIsFetch
<1>8. CASE Record /\ FillCreated
  BY <1>8, FillCreatedIsCreate
<1>9. CASE Record /\ FlushSync
  BY <1>9, SyncIsFlush
<1>10. ~FillFetchedFails
  <2> SUFFICES ASSUME FillFetchedFails PROVE FALSE
    OBVIOUS
  <2>1. request \in PageIds /\ Readable(heap_file, request)
    BY DEF FillFetchedFails, StoreInv, PoolInv, TypeOK, DataInv, RequestPending,
           Filling, AllocatedReachable
  <2> QED BY <2>1 DEF FillFetchedFails, ReadPageDataFails, ReadsSucceed
<1> QED
  BY <1>1, <1>2, <1>3, <1>4, <1>5, <1>6, <1>7, <1>8, <1>9, <1>10
  DEF HNext, Client, CallStep

\* Where reads succeed and a failing write writes nothing, the buffer pool is
\* a PageStore to its clients: eviction, reloading, the failures of writes and
\* of sync_all, exits and losses of power show them nothing else.
THEOREM PoolIsAPageStore ==
    ASSUME ReadsSucceed, WritesAtomic
    PROVE  HSpec => ImplementsPageStore
<1>1. HInit => StoreInv /\ Store!Init
  BY InitStore
<1>2. StoreInv /\ [HNext]_<<vars, historyVars>> => StoreInv' /\ [Store!Next]_(Store!vars)
  <2>1. ASSUME StoreInv, HNext PROVE StoreInv' /\ [Store!Next]_(Store!vars)
    <3>1. Next
      BY <2>1 DEF HNext, Next
    <3>2. PoolInv' /\ DataInv' /\ ContentInv'
      BY <2>1, <3>1, ReadsSucceed, WritesAtomic, PoolInvStep, DataStep, CleanMatchesStep,
         VictimSavedStep, FlushedCleanStep
      DEF ContentInv, StoreInv
    <3>3. HistInv' /\ [Store!Next]_(Store!vars)
      BY <2>1, ReadsSucceed, WritesAtomic, StoreStep
    <3> QED BY <3>2, <3>3 DEF StoreInv
  <2>2. ASSUME StoreInv, UNCHANGED <<vars, historyVars>>
        PROVE  StoreInv' /\ UNCHANGED Store!vars
    <3>1. UNCHANGED <<buffers, handles, page_table, heap_file, durable, next_page_id,
                      result, versions, committed>>
      BY <2>2 DEF vars, diskVars, poolVars, callVars, historyVars
    <3>2. PoolInv' /\ DataInv' /\ ContentInv'
      BY <2>2, ReadsSucceed, WritesAtomic, PoolInvStep, DataStep, CleanMatchesStep,
         VictimSavedStep, FlushedCleanStep
      DEF ContentInv, StoreInv
    <3>3. Mapped' = Mapped /\ \A p \in PageIds : Mem(p)' = Mem(p)
      BY <3>1 DEF Mapped, Mem
    <3>4. HistInv'
      BY <2>2, <3>1, <3>3 DEF StoreInv, HistInv
    <3>5. Held' = Held
      BY <3>1, SameHeld
    <3> QED BY <3>1, <3>2, <3>3, <3>4, <3>5 DEF StoreInv, Store!vars
  <2> QED BY <2>1, <2>2
<1> QED
  BY <1>1, <1>2, PTL DEF HSpec, ImplementsPageStore, Store!Spec

=============================================================================
