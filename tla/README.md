# Verification of relly

relly is a small relational storage engine in Rust: a heap file of 4096-byte
pages, a buffer pool with clock replacement, a B+tree on its pages, and tables,
unique indexes and a query executor on top. This directory models it in TLA+,
checks the models with TLC and proves theorems about them with TLAPS. Paths
below are those of the repository's `src/`.

## 1. The system

Everything is single-threaded and synchronous: the pool manager is passed as
`&mut`, pages are `Rc<Buffer>` with `RefCell` contents. What makes it hard is
not concurrency but what is kept between calls (handles and scans that pin
frames, cached pages, slot numbers) and what happens when a step in the middle
of a call fails or the process ends.

| component | state | operations | talks to | hard part | what makes it correct |
|---|---|---|---|---|---|
| disk manager (`disk.rs`) | heap file, `next_page_id` | open, read, write, allocate, sync | the file system | torn writes, power loss, ids recomputed from the file size | no allocated page unreachable; a sync makes everything durable |
| buffer pool (`buffer.rs`) | frames (page, dirty flag, usage count), clock hand, page table | fetch, create, evict, flush | disk; clients through `Rc` counts | failures between evict, write-back, read and remap; a pool that is full of held frames | the table is exact; a held frame is never a victim; clean means saved; refused only when full |
| B+tree (`btree.rs`, `btree/*.rs`) | meta page, branch and leaf pages | create, insert, search, `Iter::next` | buffer pool; slotted pages | splits over several pages, each of which may be refused or fail; scans that hold a leaf | every key inserted is found; scans are ordered and complete; insert is all or nothing |
| slotted page (`slotted.rs`) | pointers, free offset, data | initialize, insert, remove, resize | node pages | data is moved and pointers adjusted in place | slots keep their bytes; no space is lost |
| binary search (`bsearch.rs`) | left, right, size | `binary_search_by` | leaf, branch | bounds | the right index or insertion point |
| memcmpable encoding (`memcmpable.rs`), tuples (`tuple.rs`) | none | encode, decode | keys of trees | block boundaries, empty strings | order of encodings = order of tuples; decode inverts encode |
| table (`table.rs`) | primary tree, index trees | create, insert | several B+trees | an index rejects a row that the primary tree has taken | index and table agree |
| query (`query.rs`) | nested scans | `start` and `next` of `SeqScan`, `IndexScan`, `IndexOnlyScan`, `Filter` | B+tree scans | a pair consumed before a failing step; scans that end by a condition; inserts while an executor is open | rows that qualify; exact answers where nothing disturbs |
| library root, examples | none | - | - | - | - |

The state and its owners: a B+tree call fetches pages (one step each), holds
some as `Rc` while it goes on (which pins their frames), writes them and sets
their dirty flag. The pool evicts unpinned frames whenever another page is
asked for, by whichever tree. Pages reach the file when they are evicted or
flushed and at no other time; there is no log and no flush on `Drop`.

## 2. Modules

| module | what it is | code |
|---|---|---|
| `Disk` | the heap file, its ids, failing and torn I/O, restart after an exit or a power loss | `disk.rs` |
| `BufferPool` | `fetch_page`, `create_page`, `evict`, `flush`, one action per turn of the sweep, write-back, read, page flushed; clients hold, write and drop pages between calls | `buffer.rs` |
| `PageStore` | abstract: pages that keep what was written last; refused only when `PoolSize` are held; what a restart may bring back | what clients rely on |
| `BufferPoolStore` | `BufferPool` with history variables, and the mapping to `PageStore` | |
| `BufferPoolProofs` | TLAPS proofs about `BufferPool` and `BufferPoolStore` | |
| `BTreeNode` | leaves and branches as sequences, sizes in bytes, search, insert, the outcome of a split | `btree/leaf.rs`, `branch.rs`, `node.rs` |
| `NodeSplit` | the loop of `split_insert`, step by step, with its panics as a state predicate | `leaf.rs:92-128`, `branch.rs:103-141` |
| `BTree` | create, insert, search, `Iter::next`, one action per call of the pool; frames pinned by others; failing write-backs | `btree.rs` |
| `BTreeNodeProofs`, `NodeSplitProofs`, `BTreeProofs` | TLAPS proofs about `BTreeNode`, `NodeSplit` and `BTree` | |
| `BTreeIndexProofs` | TLAPS proof that `BTree` implements the safety part of `OrderedIndex` | |
| `OrderedIndex` | abstract: a set of keys, insert all or nothing, ordered scans | what tables rely on |
| `BTreeRestart` | `BTree` with what of it is in the heap file: evictions, flush, restart | `btree.rs`, `buffer.rs:263-269, 358-371` |
| `TupleOrder` | the order of byte strings and tuples, sorting | `Ord` of slices |
| `Memcmpable` | what the encoding of strings and tuples is, in closed form | `memcmpable.rs`, `tuple.rs` |
| `KeyLookup` | a tuple encoded block by block, searched in a leaf turn by turn, the pair there decoded block by block | `tuple.rs`, `memcmpable.rs`, `bsearch.rs`, `Iter::get` |
| `Table` | `create` and `insert` of a table and its unique indexes, one action per tree | `table.rs` |
| `Query` | the executors over a `Table`: `start`, `next`, `Drop`, with inserts in between | `query.rs` |
| `QueryProofs` | TLAPS proofs about `Table` and `Query` | |
| `MCBTree`, `MCBTreeRestart`, `MCKeyLookup`, `MCQuery` | key lengths, strings, leaves, records and plans for TLC | |
| `Slotted` | the bytes, pointers and offsets of a slotted page | `slotted.rs` |
| `SlottedProofs` | TLAPS proofs about `Slotted` | |
| `BSearch` | the loop of `binary_search_by` | `bsearch.rs` |
| `KeyLookupProofs` | TLAPS proofs about `BSearch`, `Memcmpable` and `KeyLookup` | |

Names follow the code: an action has the name of the function or of the branch
of it, a variable that of the field. How state corresponds:

* `buffers`, `page_table`, `next_victim_id`, `handles` are the pool's fields;
  `handles[f]` is `Rc::strong_count - 1`. `heap_file` is the file as this
  process sees it, `durable` as of the last sync.
* In `BTree` a page is its node (`nodes[p]`), because every page that is
  written is marked dirty before it is let go (`buffer.is_dirty.set(true)`, or
  the dirty flag of a created page) and the pool keeps what was written
  (`PageStore`). `path` is the stack of `insert_internal`: the pages whose
  `Rc` and `RefMut` the recursion holds; `prev` the leaf before the split leaf.
  `Held` is what is pinned, and decides whether the pool can serve a fetch.
* A leaf's pair is its key (values go wherever their key goes); a branch's
  `right_child` is the last of its children. Bytes are counted exactly
  (headers, 4-byte pointers, bincode's length prefixes), because when a node is
  full or half full decides everything else.
* In `Table` and `Query` a key is a tuple of column values, not its encoding:
  `KeyLookup` shows that encodings are ordered as tuples and decode to them.
  `trees[0]` is the table's tree, `trees[i]` that of `unique_indices[i - 1]`, each
  a function from keys to values; a `SimpleTable` has no others. `at` is the tree
  that a running `create` or `insert` comes to next. `left` and `gap` are what the
  `btree::Iter` of the open executor has still to return, in the terms of
  `OrderedIndex`. `acked`, `todo` and `fresh` are history.
* Mutants (`... Mutant of X` in the modules) are plausible mistakes in `X` that
  show that each property can fail; no specification uses them.

Composition: `BufferPool` extends `Disk`; `BufferPoolStore` extends
`BufferPool` and instantiates `PageStore`; `BTree` extends `BTreeNode`, is
written over the interface of `PageStore` and instantiates `OrderedIndex`;
`NodeSplit` shows what `BTreeNode!SplitPoint` states in one step, `BSearch`
what `BTreeNode!SlotOf` states. `KeyLookup` extends `BSearch` and `Memcmpable` and
shows what `Query!From` and the keys of `Table` take for granted. `Query` extends
`Table`; both are written over the interface of `OrderedIndex`: a call of a tree
does all or nothing, an insert leaves an open iterator at any key or before a gap,
a failing step of it loses one key and leaves a gap. `BTree` implements that
interface as long as no write-back fails behind a split (finding 2) and no
separator is too long (finding 3). `Slotted` stands under `BTreeNode!Used` and
`InsertKey`: `NoSpaceLost` is what `FreeSpace` assumes, `SlotsKeepData` what
treating a page as a sequence of pairs assumes.

## 3. Runs

| run | question | bounds | expected |
|---|---|---|---|
| `bp_store` | is the page table exact, no allocated page lost, a clean frame in the file, a flush that returns `Ok` durable, and do pool and disk implement `PageStore`? | 2 frames, 3 pages, 2 contents; failing writes and syncs, both restarts | holds |
| `bp_pins` | no held victim, justified refusals, types; does every call return? | 2 frames, 3 pages, usage counts up to 3, 2 handles on a frame; failing writes and syncs, reads at the end of the file, both restarts | holds |
| `bp_read_error` | does the table stay exact when a read fails? | 1 frame | violated: finding |
| `split` | does `split_insert` end, without panic, with what `BTreeNode` states? | up to 5 pairs of 5 lengths, an even and an odd capacity | holds |
| `bt_tree` | does the tree implement `OrderedIndex`; are links, depth, sizes, separators and borrows right? | 5 keys in any order, 3 levels, 1 scan, pools with 6, 4 and 0 frames left by others, write-backs that fail up to the split | holds |
| `bt_io` | are inserted keys found after a write-back failed behind a split? | 4 keys | violated: finding |
| `bt_big_key` | does every separator fit into a branch? | 4 keys of 2022 bytes | violated: finding |
| `slots` | do slots keep their bytes, is no space lost? | 16 bytes, up to 3 slots of 1 or 3 bytes | holds |
| `lookup` | is the least tuple not below the target found, does every loop end, is no index out of bounds? | blocks of 3 bytes, 33 tuples, every leaf of up to two of them and two of 20 and 12 | holds |
| `tables` | do indexes refer to rows, does `Ok` mean complete and unique, are rows what they should be, does every call return? | 5 records of 3 columns, 2 unique indexes, 6 plans | holds |
| `tb_unique` | does a unique index keep a second row with its columns out of the table? | those of `tables` | violated: finding |
| `bt_restart` | are flushed keys found after a restart? | 3 keys | violated: finding |

Why the bounds are enough to be interesting. *Pool:* with more pages than frames
every fetch evicts; with two frames one can be held while the other is swept, and
a flush can fail between its two pages; three pages let an evicted page come back
into another frame. What a run needs is in it and no more: in `bp_store` clients
write pages, so that a stale frame differs from the file, and the usage count
stops at one; in `bp_pins`, where contents play no part, counts of three, reached
by hits, make the sweep pass a frame four times, and clients also ask for pages
that the file does not have (`FetchUnallocated`), as a tree does whose pages were
lost in a restart: such a read fails and leaves the page table wrong (finding 1),
and still no held frame may be evicted. Torn writes are in neither run, because
with them a clean frame need not be in the file: that the page table stays exact
and no page is lost all the same is proved (`MappingIsExact`, `NoPageIsLost`).
*Tree:* most keys are 2020 bytes long, the longest that a branch takes, so that
two fill a node and five keys in descending order grow three levels; eight bytes,
the size of the one short pair, are left in a leaf of two such pairs, so that the
four bytes of its pointer decide whether it fits. The least key has 2024 bytes,
which a leaf takes and a branch does not: no split may send it up. The deepest
insert holds six pages, the pool's size: with two frames held by others every
fetch on the way can be the one refused. `MaxPages` is never reached by a tree of
these keys; `MaxSlot` cuts off a scan only after it has returned `None`. *Split:*
lengths run from nothing to the longest pair, and the capacities are both
parities, because half of the capacity is rounded. *Slots:* 1 and 3 bytes on 16
give pages of three slots filled to the last byte, and removals in any order.
*Lookup:* `ESCAPE_LENGTH` is 3 instead of 9, so that strings of up to five bytes
run over two block boundaries; the bytes 0, 3 and 255 are the padding, the marker
of a continued block and the largest byte. The leaves are those of up to two
tuples, and of 20 and 12 of them. *Tables:* the records collide in the primary
key, in one index, in the other and in both, so that an insert is rejected at each
of the three trees; the plans are one of each kind with and without a start, a
condition to go on, and a filter that keeps rows back in the middle.

`CHECK_DEADLOCK FALSE` is set where the system may stop: `split` and `lookup` are
loops that end, `bt_restart` is over after the restart; in `BTree` callers need
not call, and a failed assertion is a state without a next step (`SeparatorsFit`
names it).

What the main properties say: `MappingExact` (page table and frames agree),
`AllocatedReachable`, `CleanMatchesFile`, `FlushMakesDurable`, `VictimUnpinned`
(the `unwrap` of `Rc::get_mut` cannot panic), `RefusalJustified`;
`KeysFound` (each key in a leaf is where a search for it ends), `LeafChain`
(links and tree order agree both ways), `NodesSound` (one depth, no overfull or
empty node), `NoDoubleBorrow` (no `RefCell` panic on the path), `ImplementsIndex`
(refinement: an insert that is refused or fails before the split changes
nothing, one that has split always completes unless I/O fails, a scan without
inserts returns each key from its start exactly once and in order; an insert that
splits nothing makes it skip no key and return at most one again, one that splits
leaves it at some key or before a gap, behind which it goes on in order; a step
that fails loses one key).

`EncodesAsStated` (the loop of `encode` against the closed form) and
`FindsLeastNotBelow` (the order of encodings is that of tuples, and `decode`
inverts `encode`); `EntriesPointToRows` (the `unwrap` in `ExecIndexScan::next`
cannot panic); `AckedIffComplete` and `AckedUnique` (the records whose insert
returned `Ok` are those that are in every tree, and no two of them have the columns
of an index in common, whatever inserts were refused half way; of all rows in the
table the latter is false, which is finding 5); `RowsQualify` (also after an executor has
returned `None`, after a failing step and over inserts); `AnswersAreExact`
(undisturbed, an executor returns its rows in order and then `None`, and a lookup
that fails costs one row).

### Fairness

`bp_pins` and the tree's specification have weak fairness on the steps of a call
that has begun (`CallStep`) and on nothing else: the thread that made the call
does nothing but carry it on. Clients need never call, release or restart. So
`CallReturns` shows that the clock sweep ends because usage counts fall, and
that `ImplementsIndex` includes its abstract fairness shows that an insert or a
scan step returns. In `NodeSplit` and `KeyLookup` the loop itself is fair. `Query` is fair
to the steps of a call only: `CallsReturn` shows that the loop of `ExecFilter`
ends because each turn consumes a pair. `BTreeRestart` states safety only.

## 4. Findings

1. `buffer.rs:274`: a failing read leaves the page table pointing at a frame
   that has been given another id (`bp_read_error`). All results below about
   contents assume reads that succeed.
2. `btree.rs:195, 227`: a write-back that fails after a split leaves the new
   node without a parent and its keys unreachable by search (`bt_io`).
3. `branch.rs:93`: a leaf takes keys of 2021 to 2024 bytes that no branch takes;
   the assertion fails when such a key is sent up (`bt_big_key`).
4. `btree.rs:158-178`: after a split the old leaf may be written without the keys
   that moved, long before the new page is; when the process ends in between,
   keys that had been flushed are lost (`bt_restart`).
5. `table.rs:147`: a record that a unique index rejects stays in the table's tree,
   where `SeqScan` returns it beside the row it collides with; the comments on
   `insert` and `UniqueIndex` (lines 123-125, 157) say that the insertion is called
   off and the second row prevented (`tb_unique`). A retry does not complete it
   either: the table's tree turns it away.

Two things met on the way that no run states. `flush` writes every page of the
page table, also the clean ones its comment would leave out (`buffer.rs:360`); a
torn write can therefore hit a clean page, which is why `ContentInv` below needs
`WritesAtomic`. `resize` of an empty slot moves the pointer of its neighbour
without its data (`slotted.rs:280`); the B+tree stores no empty pair, and `slots`
has no empty slots.

## 5. Proofs

All are safety theorems for every value of the constants.

### The buffer pool

`BufferPoolProofs`, from `DiskAssumption` and `BufferPoolAssumption` only: the
invariant `PoolInv` is `TypeOK` with facts about the frames (`FramesInv`) and
about what a running call keeps (`CallInv`: among others, that the last
`consecutive_pinned` frames behind the hand are held, which is what makes a
refusal justified and is not visible in `RefusalJustified` itself). One lemma
per part shows that each action preserves it. Results: `TypeCorrect`,
`VictimNeverPinned`, `RefusalIsJustified`, whatever fails and wherever the
process dies.

For runs in which reads succeed (`ReadsSucceed`) comes
`DataInv` (the mapping while a victim is replaced): `MappingIsExact`,
`NoPageIsLost`; and, if failing writes write nothing (`WritesAtomic`),
`ContentInv`: `CleanFramesMatchFile`, `FlushIsDurable`. The first finding shows
why the first assumption is needed; that flush writes clean pages, so that torn
writes hit them, why the second one is. From the same invariant follows the
refinement, `PoolIsAPageStore`: each step of pool and disk is a step of `PageStore`
or changes nothing that a client, or a restart, can see (`StoreInv` ties the history
variables of `BufferPoolStore` to frames and file).

### Nodes, their pages and their splits

`SlottedProofs`, for pages of less than 64 KiB and slots that are never empty:
`Laid` says that pointers and data do not meet and that each byte behind
`free_space_offset` is in exactly one slot, in whatever order the slots lie there;
with `Filled` (each slot has its bytes) it is inductive. The step that matters is
`resize`: `ResizedShifts` shows which pointers and bytes it moves, `ShiftedLaid`
that every byte is again in one slot, from where the byte came. Results:
`PageTypes` (no `u16` subtraction wraps), `SlotsKeepTheirData`,
`BytesAreInOneSlot`. Of empty slots the second is false (section 4), and a body of
65536 bytes would not have room for its own length in the header.

`BTreeNodeProofs` has no theorem of a specification but the facts the next two
rest on: `Used` of parts and of a longer node, where `SlotOf` finds and inserts,
that `SplitPoint` exists and which room is left on its two sides. Sums over
sequences are recursive functions; facts about them are proved by induction over
the length, with `SetInduction`: the installed provers cannot instantiate the
library's induction theorem, which takes a predicate, but a set of numbers does
as well.

`NodeSplitProofs`: the invariant `SplitInv` of the loop is that old and new node
together are the pairs of the call, in order, and that the new node without its
last pair was not half full. Half of a page holds any pair that `insert` lets
pass, and the pairs do not all fit: so `SplitNeverPanics`, and
`SplitCutsAsStated`, the justification of taking a split as one step in `BTree`.

### The tree

`BTreeProofs`, from `BTreeAssumption` and, throughout, `"after_split" \notin
Faults` (of runs in which a write-back fails behind a split the results are false:
finding 2). The trouble with a tree is that its recursive definition is of no use
to a step that changes one page of it. `TreeInv` says instead that there are two
functions, `cover` and `height`: which numbers a search comes to each page with,
and how far the page is above the leaves. It says of each page only what its
neighbours have to agree on:

* `Levels`: pages of one height cover disjoint intervals; the children of a branch
  share what it covers, cut at its keys, one level down; the keys of a leaf
  are among what it covers. While `insert` goes up, the branch that it has not
  yet updated is meant as it will be (`Wholes`).
* `Links`: a leaf's links follow the intervals, in both directions.
* `PathInv`: the pages that `insert` holds lead from the root to the key, one
  level at each step. `SplitInv`, `UnwindInv`: what is known of the key, the
  separator and the pool in between; in the latter, that fewer pages are held
  than the pool has, so that a page which a split above needs is never refused.
* `NodesInv`: each node by itself, in bytes; `RootInv`; `EmptyInv`.

`TreeKept` shows that it is inductive. A split gives the lower part of a page's
interval to the new page (`Divided`), which is disjoint from every other page on
its level, whatever the rest of the tree is. From it: `TreeTypes`;
`NeverBorrowsTwice` (pages on the path differ in height, and the leaf before the
one that is split in what it covers); `LeavesChained`; `NodesStaySound`, where an
induction over the height (`WholeBranch`) shows that the recursive functions over
a tree's pages, which that property is stated with, come to what `cover` and
`height` say; `KeysStayFound`, where another one (`DownFinds`) follows a search
down. `LongValuesFit` is `SeparatorsFit` where every key but the least comes with a
value of at least four bytes or is short enough itself: of other keys it is false
(finding 3). The least key is excepted because a separator has a smaller key, in
the node that the lower half of a split became (`SomeKeyBelow`).

`BTreeIndexProofs`: from `TreeInv` also follows the safety part of
`ImplementsIndex`, `TreeIsAnIndex`, again for `"after_split" \notin Faults`. The
leaves stand in the order of what they cover (`Chain`), and a leaf's
`next_page_id` is the first of those behind it (`BehindIsNext`). So what an open
iterator has still to return, which `BTree` finds by following the links, is
`KeysAt` its slot: the rest of its leaf and all keys of the leaves behind; and
these are all keys from the first of them on (`UpIsSuffix`). What the invariant
lacked for this is `ScanInv`: a search is on its way to what its key belongs to,
and the iterator that has to go to the next leaf has returned the last pair of
its own. `InvView` gives the abstract variables in these terms in every state.
One lemma per action then shows that it is a step of the index or leaves its
variables as they are. An insert that splits nothing leaves an iterator each key
it had and makes it return at most one again (`KeysGrow`); one that splits leaves
it at a suffix of the keys (`SplitAddsKey`); further up only branches change
(`UpChangesBranches`).

### Searching, tables and queries

`KeyLookupProofs`, first about the loop alone: `SearchInv` (elements left of
`left` are less, those from `right` on greater, `size` is the distance) is
inductive; from it `SearchCorrect` and `IndexInBounds`, for every number of
elements. `LookupSearches` says the same of the loop as a part of `KeyLookup`.

Then about encodings, for every `ESCAPE_LENGTH` (`MemcmpableAssumption`) and
strings of any length. `EncodeKeepsOrder` is an induction over blocks: two strings
differ inside a block, and then at the same byte of their encodings, or one of them
ends there, and then in the padding or, where the padding equals the other's zeros,
in the marker. No encoding begins another, so what follows in the tuple makes no
difference: `EncodeTupleKeepsOrder` and `OrderOfEncodings` go on element by element.
`LookupInv` is the invariant of the loops: while `tuple::encode` runs, what is
written, followed by the encoding of what is left of the element and of the
tuple, is the goal; while `tuple::decode` runs, what is decoded with what is left
makes up the tuple at the slot (`Completes`); in between, `SearchInv`. It is
inductive because a leaf has the encodings of its tuples in order, which
`OrderOfEncodings` gives. Results: `EncodeCorrect`, and `LookupCorrect`, which
justifies keys being tuples in `Table` and `Query`. From `KeyLookupAssumption`.

`QueryProofs`, from `TableAssumption`: `TableInv` says that keys and entries are
those of records (`TreesInv`), that while a record is inserted the trees before
`at` have its entry and the others have not (`CallInv`), and that the complete
records are those acknowledged (`HistoryInv`). The part of `CallInv`
about the trees behind `at` is what makes it inductive: without it an index that
has an equal entry already could complete a row while rejecting it. That none has
follows from `TreesInv`: such an entry would refer to a row with the primary key
that the table's tree has just not had. Results: `EntriesAlwaysPointToRows`,
`AckedAreComplete`, and `AckedAreUnique`, because a complete record is what its
index entries lead to; for any number of columns and indexes.

For the executors `ExecutorInv` (what the iterator has left are keys of its tree, an
entry that is looked up is one of the index) and `TableInv` give
`RowsAlwaysQualify`: the search that `ExecIndexScan` makes by primary key ends at
the very row, since nothing comes before itself in the order of keys; and
`TypeCorrect`. `AnswerInv` says that, undisturbed, the rows of `Wanted` keys are the
rest of the answer: of those the iterator has left and the one that is looked up,
the keys up to the first that fails `while_cond` whose tuples pass the filter. An
insert into another tree keeps their tuples, since each entry leads to a row that
was there before (`TreesInv`). From it `AnswersStayExact`, an action property; that the
least key of the iterator is the only least one takes `NotBothBefore`.

### Only model-checked

Liveness, here and in the refinements, which is out of reach of the provers:
`CallReturns`, `CallsReturn`, `SplitEnds`, `LookupEnds`, the fairness in
`ImplementsIndex`. Every other property that a passing run checks is a theorem, under
the assumptions named above.

## 6. Not modelled

* `tuple::Pretty` (output for debugging) and `memcmpable::encoded_size`, a hint
  for the capacity of a vector that is 0 for the empty string, for which `encode`
  writes a block.
* A table that is used after its `create` has failed, or created again: in
  `Table` the caller repeats `create` until it succeeds. Records that are shorter
  than the columns of the key or of an index panic in a slice; they are the
  caller's fault (`TableAssumption`).
* Several executors at once, and filters over filters: each executor has its own
  iterator, and nothing else that a step of another could touch.
* The layout of node pages by zerocopy and bincode's decoding: nodes are
  records; only lengths count. `meta.rs` is the variable `root_page_id`.
* The panic of `flush` when a client has borrowed a page mutably (`buffer.rs:364`):
  no client flushes while it holds a borrow, and `BufferPool` has no borrows.
* Reads that fail or hit the end of the file, in `BTree`: after one the pool
  itself is inconsistent (finding 1).
* A tree after a power loss, and torn pages of it: already an exit of the process
  loses keys (finding 4), and there is no log to repair it; `PageStore` says what
  may be left of each page.
* Several trees in one pool: the others are the number of frames they hold.
* 64-bit file offsets, and pools of size 0.

## 7. Plan

Every part of the code that keeps state or decides something is modelled. Every
safety property that holds is proved. What could follow is a change of the code:
once a failing write-back behind a split is undone (finding 2), and a failing read
changes neither buffer nor page table (finding 1), the theorems that exclude those faults
can be proved without the exclusion.
