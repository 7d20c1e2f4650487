# A TLA+ model of libummu

libummu lets a process share memory with I/O devices through the UMMU. For each
*tid* it keeps a Memory Address Permission Table (MAPT) that the device reads
in memory; `ummu_grant`, `ummu_ungrant` and `ummu_ungrant_by_token` change it,
`ummu_allocate_tid` and `ummu_free_tid` create and destroy it. These modules
model the library's decisions, the tables it builds, the calls of several
threads with their locks, and the command queues that make the device forget.
They show where the device allows exactly what the callers granted, and where
it may not.

## The system

| part | state | operations | models |
|---|---|---|---|
| segmng (`ummu_seg_mng.c`, `ummu_seg_tree.cpp`) | per tid in table mode, a `std::map` from address ranges to segment records (permission, tokens) | check a grant / ungrant, insert, delete, add / remove a token, destroy | `SegTree`, `SegMng` |
| mapt, table mode (`ummu_mapt.c`) | a tree of nodes in level blocks that the device walks | fill, clear (with pull-up of deeper nodes), token update, undo of a failed fill | `TableLevel`, `MaptTable` |
| level blocks (`ummu_level_block.c`) | bitmap of level block ids, mapt blocks mapped from the kernel, entry and level counters | allocate and free a level block, map and unmap a mapt block | `Bitmap`, `LevelBlock` |
| mapt, entry mode (`ummu_mapt.c`, `ummu_seg_mng.c`) | one entry shared with the device, no other record | check, fill, token update, clear | `MaptEntry` |
| queue (`ummu_queue.c`) | per UMMU a command ring and a completion ring shared with the device | send an invalidation and wait for its PSYNC, with two kinds of timeout; loop over all UMMUs, or ask the kernel | `CmdFifo`, `UmmuQueue`, `Invalidation` |
| API and context (`ummu_mapt.c`, `ummu_main.c`) | `mapt_map`, `ctx_mutex`, one `mapt_mutex` per tid, `g_random_mutex`, the objects on the heap | the five calls, constructor, destructor, fork handler | `TidStore`, `UmmuApi` |
| tid map (`ummu_map.c`, `ummu_utils.cpp`) | a hash map from tid to object | insert, get, delete, clear | `UmmuApi` |
| common (`ummu_common.c`) | bitmaps as arrays of words; the random source | bit searches, random tokens | `Bitmap`, `UmmuApi` |
| resource (`ummu_resource.c`) | none: `ioctl` and `mmap` | map and unmap a block, get and put a tid, invalidate by the kernel | their outcomes, where the others use them |
| log | none | messages | not modelled |

**How the parts interact.** A call looks its tid up under `ctx_mutex`, takes
the tid's `mapt_mutex`, asks segmng (or the entry) which operation the request
is, performs it on the table, releases `ctx_mutex`, updates the segment record,
sends invalidations when needed and releases `mapt_mutex`. The device reads the
table at any time and caches what it read in its PLB.

**What is hard.** The map's order is an order only on disjoint ranges, and
`ummu_delete_seg` searches with a key far wider than the segment. Clearing an
outer segment moves nodes of others up several levels. A grant can fail half
way, after nodes on several levels were written. Counters decide when buffers
are unmapped. Invalidations are rounded. Token values live in two slots that
must agree with a count. `ctx_mutex` is released in the middle of a call, before
the segment record is written. Invalidations time out in two ways and the
result is dropped; a late completion is read by a later call. `fork` copies
locked mutexes, and the destructor takes no lock at all.
`PROJECT.json` lists these as hazards, each at its line.

**What makes each part correct.**

- segmng: segments stay disjoint and whole; what a check allowed, the update
  can do; no call touches a segment outside its range; token slots and count
  agree.
- table: the device grants exactly the recorded segments; every recorded
  segment can be taken back; allocator, counters and tree agree; a call that
  fails leaves no trace; a free unmaps what the tid had mapped; no cached entry
  outlives its node.
- entry: the entry alone is enough to behave as segmng would.
- queue: no command is overwritten, no completion is lost, none is taken for
  another call's; every call returns.
- invalidation: a cached permission outlives its node only for a reason the
  library could know of, and for good only if a command was refused or failed.
- API: no use of a freed tid, no lock kept, no object lost, and calls that look
  as if each took effect at once.
- bitmaps: the searches find the least free id and every used id, whatever the
  word boundaries.

## The modules

**`SegTree`** is `ummu_seg_tree.cpp`. A table is a set of records; `find` and
`insert` of `std::map` are modelled by how the common implementations search
(external: `LowerBound`, `MapFind`, `InsertBlocker`), because `ModCmp` is not a
strict weak order once ranges overlap.

**`SegMng`** is `ummu_seg_mng.c` with the parts of `ummu_grant` and
`ummu_ungrant_data` that use it. Its one variable `segs` is `granted_addr_mng`.
It has one action per call; refused and failed calls change nothing and are
stuttering steps. For entry mode, which keeps no such table, it is the *abstract
specification* to be implemented; table mode uses its operators.

**`LevelBlock`** is `ummu_level_block.c` and the operations of `ummu_mapt.c` on
one node, as functions of a record that carries the table, the mappings the
kernel will still allow, the level for the invalidation and the return code.
The device (external, `MatchNode`) is inferred from the layout the code writes:
at each level it takes the node that the address selects, stops if the node's
range covers the address and otherwise goes down. An access to a buffer that is
not mapped is an evaluation error in TLC, so every run also shows that there is
none.

**`TableLevel`** is the recursive functions of `ummu_mapt.c` (fill, clear, swap,
token update) as they run at one level. What they call for the level below is a
parameter, and **`MaptTable`** puts the four levels together, the last one first:
so there is no recursive operator, and what is proved of one level is proved of
all. The loops are counted loops of **`Iteration`**.

**`MaptTable`** has the nodes, the bitmap of level block ids, whether the
device may have more than one mapt block (`expan`, the capability of the tid at
hand), the mapt blocks with their counters, the segments, whether the tid is
live, and `stale`, the addresses whose PLB entry may be out of date. It
decides what a request is, and keeps the segments, by the operators of `SegMng`,
as the code calls its segment manager; what is to be shown is that the nodes,
which it changes on its own, give the device exactly those segments. It
instances `TableLevel` and `SegMng` through the modules with their theorems,
only so that these can be cited.

**`TableInv`** has what holds of a table between and inside the walks, and what
each function promises; it models no code. **`GrantOp`** has the names of the
operations.

**`MaptEntry`** has the entry, the live flag and what the PLB holds. `Segments`
is the segment table that the entry stands for: the refinement mapping to
`SegMng` with `Page = 1`.

In these three a permission and an `e_bit`, which the code always tests and
stores together, are one attribute; tokens are model values (a generated token
is any of them); return codes are `ok` or an error. Each call is one step, which
`UmmuApi` justifies (`CallsAreAtomic`), and an invalidation is complete when the
call returns; what remains when it is not is the subject of `Invalidation`.

**`UmmuApi`** is the calls of several threads. Its state is the context with its
map of tids, the three kinds of mutex, the objects that are allocated, the tids
the kernel has given out, and a program counter with arguments and locals per
thread. A step ends before each lock operation and wherever `ctx_mutex` no
longer protects what comes next, so that every interleaving the locks allow is
there. Of an object's contents it has `table` (what the device may read) and
`record` (the segment manager; in entry mode the entry is both). A segment is
granted as a whole or not at all, and the step `Table` of an ungrant never
fails, which is `UngrantSucceeds` of `MaptTable`. `ummu_gen_random` and the
allocations of `ummu_mapt_create` succeed or fail. The object's address is
chosen among the free ones, so that a freed address comes back.
`hashmap_insert` refuses a tid it already has; `MapSound` shows that this never
happens as long as the kernel gives out a tid only once. `Fork` continues in
the child, with the forking thread only and every mutex as the others left it;
`ExitClear` and `ExitFree` are the destructor. A constant says whether exit
waits for the other threads; in the runs it does.

**`TidStore`** is the abstract specification of the calls: tids, their granted
segments and calls without threads, locks or objects. `UmmuApi!Refines` maps
the map of tids and the records to it; a grant takes effect at its step
`Update`, a free when the tid leaves the map.

**`UmmuQueue`** is one UMMU's pair of rings. Each access of `ummu_send_cmd` and
`ummu_get_cpl_psync` to a control word, and each round of their loops, is a
step that interleaves with the device (external), which executes commands one
by one, posts a completion with the index of each PSYNC, and shows its consumer
index whenever it likes. Indexes keep their wrap bit. The barriers are the
step boundaries at which entries become visible before the index that
publishes them.

**`CmdFifo`** is what one UMMU's queue promises: batches appear at once, are
executed in order, and `done` is reported only when the queue is empty.
`UmmuQueue` implements it.

**`Invalidation`** has a queue for each UMMU with the versions of
each segment's permissions in memory and in each UMMU's permission cache (PLB,
external). Of a queue it keeps what `CmdFifo` says of it, `fifo`, and
`unshown`, how many executed commands the shown consumer index does not count
yet: `queue_has_space` counts these as still there, so that a call can be
refused with nothing of its segment queued. Its caller walks the loop of `ummu_send_plbi`, dropping the result of
each `ummu_send_cmd`, or asks the kernel. A UMMU may read the table at any time,
also half way through a grant that will be undone, and may fail a command.
Three histories say what a call saw and why a cache entry may stay: `done` (the
UMMUs whose completion the last call found), `lost` (the command was refused,
or the kernel reported an error) and `failed` (the UMMU failed it).
That an unmapped tid leaves nothing in a PLB is assumed of the kernel.

**`Bitmap`** has bitmaps as arrays of words, a word being the set of its bits,
and the three searches. It has no state of its own: `LevelBlock` keeps its
bitmap as such an array, finds the least free id with `find_first_zero_bit` and
visits the used ones with `FOR_EACH_SET_BIT`, so that the runs of the table are
also the runs of the bitmap.

Operators whose names say what a bug would do (`ModCmpLessOrEqual`,
`FreeKeepsBit`, ...) stand before the definition they corrupt and are used by no
specification. Substituted for it they show that a property can fail.

## The runs

| run | instance | what it shows |
|---|---|---|
| `segmng` | three pages of two addresses, aligned and unaligned bases, sizes 0 to 3, two attributes (symmetric), two tokens, one of them the value 0 of a cleared slot | the seven properties of `SegMng` |
| `entry` | four addresses, rounding to two, every content of a fresh buffer | nonce and slots agree, PLB coherent, each request decided as `SegMng` would, refinement of `SegMng` |
| `table` | three levels of two nodes, two level blocks per mapt block, two mapt blocks, words of two bits, with and without `HW_CAP_EXPAN`; the kernel refuses the first, second or third mapping | the device sees the recorded segments, counters, bitmap and tree agree while level blocks of both mapt blocks are reused, `next_block` is right; a call that fails at any place leaves level blocks, nodes and mappings as before; a free unmaps all but the mapt blocks reached without their first level block |
| `table_token` | three nodes per level, pages of two addresses, segments with head, middle and tail nodes that end inside a page, two tokens per segment; one level block per mapt block, three ids, words of two bits | tokens reach every node and follow it when it is pulled up; a call that ran out of ids half way is undone completely; PLB entries are invalidated |
| `queue` | 6 commands, 5 completions, `double_plbi`, two invalidations to choose from, 1 wait and 2 polls; a device of any speed that may stop | the rings are safe and implement `CmdFifo`; calls return; a device that goes on executes everything |
| `api` | three threads, two tids, one segment, two objects, records that cannot be allocated, a fork at any time, again in the child | the locking properties, a usable context in the child, refinement of `TidStore` |
| `api_end` | two threads, exit when all are outside | both mutexes are released on every path, nothing is lost, exit frees everything once |
| `inval` | two UMMUs, one segment of three versions, queues of two calls, a shown consumer index of any age, user and kernel path, failing commands | every stale cache entry is explained, also after a refusal; a completion that was seen can be relied on; stale entries disappear |

*Fairness.* `queue` assumes only that a thread inside `ummu_send_cmd` goes on
(its waits are `usleep`s); the device may stop, and `QueuedMeansExecuted` says
what follows if it does not: a UMMU with queued commands executes the next one,
which is what the hardware is for. When it shows its index is left open. `inval`
assumes both, and there too nothing says that the index is ever shown. `api_end` assumes weak fairness of each thread's next step: a
thread is scheduled, and a mutex that stays free is taken. Strong fairness of a
mutex is not assumed, so that no property says that a given caller gets
`ctx_mutex`; only its release is stated. Calls themselves are never fair: a
program need not make one.

*Deadlock* is checked except where the program may really stop: after exit
(`api_end`), and in a child that waits for a mutex no thread of it holds (`api`,
`api_fork_random`, see below). In `api_end` the release of every mutex takes the
place of that check.

*Why the bounds are enough.* Three levels are the least at which a pull-up
crosses more than one level and at which the head loop of a clear descends
again; two nodes per level give head and tail nodes, three a middle one; two
level blocks per mapt block are the least at which a mapt block outlives its
first level block (`table`; `table_token` has one in each only so that its three
ids are soon used up); words of two bits put the bitmap's word boundaries
between the ids in use; at most two new mappings can happen in one grant of these
tables, so a budget of 0, 1 or 2 covers every place of failure. The real
constants (four levels of 512 nodes over 48-bit addresses, four level blocks
per mapt block, 512 mapt blocks, words of 64 bits) repeat these cases. A command
ring of one and a half calls is the least in which a call is queued behind a
part of another, at every offset and on both sides of the wrap; the completion ring
of the runs is the smallest for which `CompletionsFit` holds (half the command
ring plus one call; with equal page orders the code's completion ring has four
times the entries of the command ring), so the boundary is
where it is tested. Counts of waits and polls matter only in being exhausted.
Three threads are the least at which one waits for `mapt_mutex` with
`ctx_mutex` while a second still updates its record and a third waits for
`ctx_mutex`; the proofs cover any number. `MaxVer` bounds how often a
segment's permissions change in a tid's life: three versions let a cached one
be neither the current nor the previous, and with queues of two calls and an
index that is not shown the third change is refused by a UMMU that has nothing
queued. Segments meet in `Invalidation` only
through commands for everything, so one is enough there; the proofs cover any
number.

### Violations

- `table_leak`: `AllBlocksReleased` fails with several mapt blocks of more than
  one level block each, as the code's have (four).
  `ummu_mapt_table_ctx_uninit` looks for a mapt block through the bitmap bit of
  its first level block. Give that one back while another level block of the
  same mapt block is in use, free the tid, and the buffer stays mapped. API.md
  promises that `ummu_free_tid` frees all segment resources. `FreeUnmaps` says
  exactly which blocks stay.
- `table_record_fault`: the segment record is allocated after the table was
  filled. If that `calloc` fails the call returns an error, but the nodes stay:
  the device has the access and no ungrant finds a record to remove it.
- `api_fork_random`: `child_process_after_fork` renews the context and its
  mutex, but not `g_random_mutex`. If another thread of the parent was
  generating a token, the first grant with a generated token in the child
  waits for ever, with `ctx_mutex` locked.
- `inval_ungrant`: `ummu_ungrant` returns 0 when a queue stayed full, or when
  the completion did not come in four polls; a UMMU may then still allow the
  access. `DoneMeansRevoked` and `EventuallyForgotten` say what can be relied on
  instead.

Seen in the code, and no run is about it: granting the same token twice stores
it in both slots with count 2, so that ungranting by that token once leaves it
authorised; `API.md` contradicts itself on which value of `input` makes the
library use `tokenVal` (the code: 0); `doc/man3/libummu.3` swaps the two modes
and allows table mode a single segment, where the code, and `doc/API.md`, allow
any number; the declaration of `mapt_mutex` demands `ctx_mutex`, but the
destructor destroys tids and their mutexes with neither, also while another
thread is inside a call (`ExitAllowed = "any"` breaks `MaptMutexUnderCtx`).

## What is proved

For every address space, page size, set of requests, attributes and tokens,
from the named assumptions of `SegMng` and `MaptEntry` (sizes are naturals, the
page and the rounding are not 0, a NULL token is no token value, the invalid
attribute is not a valid one):

- `SegMng_proofs`: `TypeCorrect`, `SegmentsDisjoint`, `TokenSlotsConsistent`,
  `UpdatesSucceed`, `PagesNotShared`, `CallsStayInRange`, `TokensRevoked` (of
  two different tokens: see above for a token stored twice). The inductive
  invariant is `IInv == TypeOK /\ NoOverlap /\ TokenSlots`. `NoOverlap` alone
  is not inductive: the search is right only on non-empty ranges (`TypeOK`), and
  a grant is safe only because a search that found nothing proves the range
  free (`NotExistMeansFree`: the first segment not entirely before the key is
  entirely after it). `KeyAtSegment` shows that any key starting where a
  stored segment starts finds that segment, however wide it is: that is why
  the wide key of `ummu_delete_seg` does no harm. `PagesNotShared` adds that
  a page holds a single multiple of the page size.
- `MaptEntry_proofs`: `EntryTypeCorrect`, `NonceCorrect`, `PlbAlwaysCoherent`,
  `EntryDecidesAlike` and `EntryImplementsSegMng`, from
  `EInv == TypeOK /\ NonceCountsTokens /\ PlbCoherent`. A fill without a token
  does not write the nonce, so that a free entry has nonce 0 must be carried
  along; `RoundingCovers` shows that the rounded invalidation covers the range
  for every rounding.

- `UmmuQueue_proofs`, for every ring size with room for one call's commands and
  completions for half the command ring plus one call: `QueueTypeCorrect`,
  `CommandsKept`, `CompletionsNeverLost`, `NoForeignCompletion`,
  `OwnCompletionNotSkipped` and `QueueImplementsFifo`. The inductive invariant
  `QInv` orders all indexes on the circle: shown consumer index, the device's
  index, published and written producer index lie within one ring length
  (`CmdWindow`, `Writing`); invalidations have even and PSYNCs odd indexes
  (`CmdKinds`); the unread completions are those of the last PSYNCs executed
  (`CplContents`), and together with the PSYNCs
  still to execute they fit the completion ring (`CplBudget`). The last is why
  a stale completion can never equal the index a call waits for.
- `UmmuApi_proofs`, for any number of threads, tids, objects and segments:
  `ApiTypeCorrect`, `ObjectsOutliveCalls`, `DestroyerIsAlone`, `MapIsSound`,
  `NoOrphanLock`, `DecisionIsCurrent`, `TableIsRecorded`, `MutexOrderKept`,
  `CallsAreAtomic`, `ObjectsKept` and `ExitLeavesNothing`. All assume
  `QuietExit` (no exit beside calls);
  `TableIsRecorded` also that records can be allocated, as `table_record_fault`
  demands; the last two also that nobody forks, since the child abandons the
  objects other threads were creating. `LockInv` says what a thread owns at
  each program counter, and that an object found under a tid stays there
  (`InUse`): whoever removes it must hold both mutexes. `Decided` carries a
  call's decision past the release of `ctx_mutex`; `AheadBy` and `AheadInCall`
  say by how much `table` is ahead of `record` and in whose call.
  `CallsAreAtomic` adds that a new object has an empty record (`FreshRecord`).
- `Invalidation_proofs`, for any number of UMMUs, segments, versions and queue
  lengths: `InvalidationTypeCorrect`, `NothingElseStale` and
  `CompletionIsReliable`. `PlbInv` suffices for the
  second; for the third `DoneInv` adds that what was lost or queued before is
  made good by the current command once the queue is empty.

- `MaptTable_proofs`, for every number of levels (up to the code's four), nodes
  per level block, level blocks per mapt block, mapt blocks, page and word size,
  and for every place at which the kernel refuses a mapping:
  `TInvInvariant`, `DeviceMatches`, `AccountingCorrect`, `FlagCorrect`,
  `UngrantAlwaysSucceeds`, `PlbNeverStale` and `BlocksLeftMapped`, which is
  `FreeUnmaps`; with `TableLevel_proofs` and `Iteration`, on which they rest. The
  argument is laid out below.

The type invariants of `MaptEntry`, `UmmuQueue`, `UmmuApi` and `Invalidation`,
`DestroyedAlone` and `MaptMutexUnderCtx` are proved and belong to no run.

### The proof about the table

*What is carried along.* `Inv` (`TableInv`) describes a table with a ghost `g` that
says which part of the address space a level block belongs to. `Sound` is about
the tree: the counters are the numbers of valid nodes and of used level blocks
(`Counted`), `next_block` is right (`Flagged`), every level block in use has a
place of its own (`Placed`) and is the next level of the one node above that
place (`Linked`), and only the root level may be empty (`Filled`). `Holding` is
about the content, for a set of segments: every valid node holds a piece of one
segment, and the whole of what the segment has in a cell of some level
(`Content`, `Piece`); no address is held twice (`Disjoint`); what a node holds of
a segment comes before what the nodes below it hold of it (`First`); permission
and tokens are the segment's (`Paid`). `First` and `Piece` are what one would
not guess: without `First` the head loop of a clear, which takes the first child
up and compares its base with the end of what it just cleared, could meet another
segment's node first, and without `Piece` a node pulled up into the range of a
later clear could hold a part that the clear has to cut in two, which the code
cannot. `Exact` adds that the addresses held are those of the segments.

*One level.* `TableLevel_proofs` proves of each function, at any level, that it
keeps its contract if the functions of the level below keep theirs:
`SwapCorrect`, `CutCorrect`, `ClearCorrect`, `FillCorrect`, `UpdateCorrect`. The
contracts say what is held after the call in terms of what was held before, that
nothing above the level changed, and when the call fails: a fill exactly if no
level block is left for some address, and then all addresses before that one are
held; a clear exactly if a part of its range was not held. That a failed
grant is undone needs more: the nodes a fill has just written are leaves
(`Fresh`), so that clearing them pulls nothing up, and the clear stops at the
address at which the fill stopped (`Stuck`). That `max_loop` is never reached is
proved by counting the pieces a segment can have in one cell.
`FirstZeroBit` and `EveryBitVisited` do the bitmap. Loops are handled by
`IterateStep` and `NatSetInduction` of `Iteration`: induction over sets, proved
from the well-foundedness of `<`, because no induction theorem with an operator
parameter can be used.

*Four levels.* `MaptTable_proofs` shows that the predicates of the four instances
are the same (`Same32`, `Same21`, `Same10`), that below the last level there is
nothing to promise, and so from the last level up that every level keeps its
contract (`BelowTop`).

*The calls.* `TInv` says that the segment manager's invariant holds and that the
table of a live tid is `Exact` for the recorded segments. Each call keeps
it, failed ones included, and the properties follow from it: the device comes
down level by level to the one node that holds the address
(`DeviceMatches`), the counters are part of `Inv`, and the contracts say that
what is held can be cleared and updated (`UngrantAlwaysSucceeds`).

*The PLB.* `PlbNeverStale` needs to know where a call disturbs nothing. A fill
leaves every valid node valid and with its content (`Grown`); a token update
changes only nodes of its segment; a clear also pulls up nodes of other
segments, and the `lvl` it reports says how far: a node that holds an address
which is not in a cell of level `lvl` with the cleared segment stays where it was
with what it held (`Unmoved`, from `Elsewhere` of the functions it calls). An
address for which this is so is matched as before (`HitStays`, `StillMatched`). For
the others, `RoundedOut` (`SegMng_proofs`) shows that the range of the ungrant
rounded to the cells of the level above `lvl` has every touched cell, and
`Log2Covers` that the power of two found by `get_minist_log2size_range` is no
smaller than the range.

*A free.* `FreeUnmaps` follows from `EveryBitVisited`, which says that the loop
sees exactly the used level blocks, and from `Inv`: the first level block of a
mapt block is in use exactly if the tree reaches it. Once no segment is left the
tree is its root alone (`EmptyTable`), and one mapt block, found by the root, is
all that is mapped.

*Assumptions.* These theorems assume `RecFaults = FALSE`: otherwise the table may
hold a segment that is not recorded, as the run `table_record_fault` shows.

**Only model-checked:** all that needs fairness (`SendReturns`,
`QueuedMeansExecuted`, `CtxReleased`, `MaptReleased`, `EventuallyForgotten`),
which is out of the prover's reach, and `FailedCallsUndone`. Of the latter the
proofs have the part the device can tell (`DeviceMatches`: what is held after a
failed call is what was held before) and the counters (`AccountingCorrect`); that
also the level blocks and the places of the nodes are those of before is checked
in `table` and `table_token`.

## Not modelled, and the plan

- A node is written field by field while the device may read it. What the
  device makes of half a node is not in the repository, so that any model of it
  would be invented; the models write a node in one step.
- What a UMMU does with a block that the process has unmapped, and what the
  kernel does with the PLB when a tid is put back, belong to the driver.
- `cpl_que_size` comes from the kernel; above 15 the wrap bit would not fit the
  16-bit indexes. `UmmuQueue` takes rings whose indexes fit, and a completion
  ring no smaller than `RingAssumption` says; both page orders are the kernel's.
- A fork while another thread is inside `unordered_map`: the map is changed in
  one step here.
- The offsets and sizes passed to `mmap`, the `ioctl` numbers and the layout of
  the mapped region.

Left out for good: logging, the log level file, `ioctl` and `mmap` themselves
(the kernel driver is not in this repository), and the layout of bit fields.
