-------------------------------- MODULE Disk --------------------------------
(***************************************************************************)
(* DiskManager (src/disk.rs): the heap file as an array of pages, the      *)
(* counter that hands out page ids, and what the file system may do to a   *)
(* write that was never synced.  The module declares the state and the     *)
(* operations; BufferPool composes them with the buffer pool.              *)
(*                                                                         *)
(* The content of a page is a member of a small set.  A page below len     *)
(* that was never written is a hole of the file and reads as Zero; by      *)
(* convention the entries at and above len are what a later extension of   *)
(* the file would expose, which is Zero unless a write tore there.         *)
(***************************************************************************)
EXTENDS Integers

CONSTANTS
    MaxPages,        \* bound: number of pages that can be allocated
    Contents,        \* the contents of a page, but for a torn one
    Zero,            \* the content of a zero-filled page
    Torn,            \* the content of a page that was only partly written
    Faults,          \* the I/O errors that occur: see FaultKinds
    Restarts,        \* the ways the process ends and is restarted
    INVALID_PAGE_ID  \* PageId::INVALID_PAGE_ID

\* "write": a write fails and writes nothing.  "torn": a write fails after it
\* wrote a part.  "read": a read fails.  "sync": sync_all fails.
FaultKinds == {"write", "torn", "read", "sync"}

\* "exit": the process ends in whatever way.  "power_loss": the machine does.
RestartKinds == {"exit", "power_loss"}

PageIds == 0 .. (MaxPages - 1)

ASSUME DiskAssumption ==
    /\ MaxPages \in Nat \ {0}
    /\ Zero \in Contents
    /\ Torn \notin Contents
    /\ Faults \subseteq FaultKinds
    /\ Restarts \subseteq RestartKinds
    /\ INVALID_PAGE_ID \notin PageIds

VARIABLES
    heap_file,     \* the file as the process sees it
    next_page_id,  \* the id that allocate_page hands out next
    durable        \* the file as of the last sync_all that succeeded

diskVars == <<heap_file, next_page_id, durable>>

PageData == Contents \union {Torn}

File == [pages : [PageIds -> PageData], len : 0 .. MaxPages]

EmptyFile == [pages |-> [p \in PageIds |-> Zero], len |-> 0]

DiskTypeOK ==
    /\ heap_file \in File
    /\ durable \in File
    /\ next_page_id \in 0 .. MaxPages

-----------------------------------------------------------------------------
\* A write beyond the end of the file extends it.
Written(file, p, data) ==
    [pages |-> [file.pages EXCEPT ![p] = data],
     len   |-> IF p < file.len THEN file.len ELSE p + 1]

\* write_all failed half way: page p holds a mixture, and is not a whole page
\* of the file when it lies at or beyond its end.
PartlyWritten(file, p) ==
    [pages |-> [file.pages EXCEPT ![p] = Torn],
     len   |-> IF p < file.len THEN file.len ELSE p]

\* read_exact succeeds on the whole pages of the file only.
Readable(file, p) == p < file.len

DiskInit ==
    /\ heap_file = EmptyFile
    /\ durable = EmptyFile
    /\ next_page_id = heap_file.len

WritePageData(p, data) ==
    /\ heap_file' = Written(heap_file, p, data)
    /\ UNCHANGED <<next_page_id, durable>>

WritePageDataFails(p) ==
    /\ \/ "write" \in Faults /\ UNCHANGED heap_file
       \/ "torn" \in Faults /\ heap_file' = PartlyWritten(heap_file, p)
    /\ UNCHANGED <<next_page_id, durable>>

\* The content that read_page_data gives, and the ones it may leave in the
\* caller's buffer, which holds old, when it fails.
ReadPageData(p) == heap_file.pages[p]

ReadPageDataFails(p, old) ==
    CASE ~Readable(heap_file, p) ->
            {old} \union ({heap_file.pages[p]} \intersect {Torn})
      [] "read" \in Faults /\ Readable(heap_file, p) -> {old, Torn}
      [] OTHER -> {}

AllocatePage ==
    /\ next_page_id' = next_page_id + 1
    /\ UNCHANGED <<heap_file, durable>>

Sync ==
    /\ durable' = heap_file
    /\ UNCHANGED <<heap_file, next_page_id>>

SyncFails ==
    /\ "sync" \in Faults
    /\ UNCHANGED diskVars

-----------------------------------------------------------------------------
\* DiskManager::open on the file that an earlier process left: the process
\* ended, and the operating system keeps what it wrote.
ReopenAfterExit ==
    /\ "exit" \in Restarts
    /\ next_page_id' = heap_file.len
    /\ UNCHANGED <<heap_file, durable>>

\* The pages of the file that differ from what was last synced.
Unsynced == {p \in PageIds : heap_file.pages[p] # durable.pages[p]}

\* The machine lost power: of the pages written since the last sync any subset
\* reached the disk, each of them whole, and any part of the file's extension.
ReopenAfterPowerLoss ==
    /\ "power_loss" \in Restarts
    /\ \E len \in durable.len .. heap_file.len, lost \in SUBSET Unsynced :
          /\ heap_file' =
                 [pages |-> [p \in PageIds |->
                                IF p >= len THEN Zero
                                ELSE IF p \in lost THEN durable.pages[p]
                                ELSE heap_file.pages[p]],
                  len   |-> len]
          /\ durable' = heap_file'
          /\ next_page_id' = len

=============================================================================
