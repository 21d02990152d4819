# MemInstrument run-times in TLA+

This directory specifies the run-time libraries of MemInstrument: what the
code instrumented by the compiler pass calls, and what replaces the C
library's allocator beneath it. TLC checks the specifications on small
instances; TLAPS proves the results that matter most for every instance.
All paths below are relative to the root of the repository.

## 1. The system

The repository holds six independent run-times. A program is linked with one.

| component | sources | state | operations | status |
|---|---|---|---|---|
| low-fat heap allocator | `lowfat/src/libfunctions.c`, `freelist.c` | one mutex, a bump pointer per region, a free list per region, page protections, `hooks_active` per thread | `malloc`, `calloc`, `realloc`, `aligned_alloc`, `posix_memalign`, `memalign`, `valloc`, `pvalloc`, `free` | `LowFatHeap`, modelled |
| low-fat size classes and checks | `table_sizes.c`, `computed_sizes.c`, `stack_utils.c`, `core.h` | the size table (constant after start-up) | index, size and base of a pointer; dereference and invariant checks; stack mirrors | `LowFatSizes`, `LowFatChecks` |
| low-fat start-up | `lowfat/src/libfunctions.c` 440-799 | the mapped regions and tables, the program's stack | resolve libc functions, map, fill tables, move the stack | `LowFatStartup` |
| splay tree | `splay/src/tree.c`, `tree_tools.c` | nodes, root, `numNodes` | insert (three behaviours), remove, find | `SplayTree`, `IntervalMap` |
| splay run-time | `splay/src/splay.c`, `libfunctions.c` | the tree, `hooks_active`, a one-entry bounds cache | malloc hooks, checks, bounds queries, allocation of globals and stack objects, memory-map lookups | `SplayRuntime` |
| SoftBound shadow stack and proxies | `softboundcets_common.c`, `_spatial.c`, `_temporal.c`, `softboundcets.c` | an array of words, one pointer into it; heap objects that point into it | allocate and free a frame, store and load a slot; proxy start, next, copy, end | `ShadowStack` |
| SoftBound metadata trie | `softboundcets_common.c` 100-385 | two-level table from addresses to metadata | store, load, copy a range | `SoftBoundMetadata` |
| SoftBound temporal part | `softboundcets_temporal.c` | lock space, stack of locks, key counter, free map | allocate keys and locks, register and move heap blocks, temporal check | `SoftBoundTemporal` |
| SoftBound wrappers | `softboundcets_wrappers.c` | none of their own | about 250 libc functions with metadata propagation | those with metadata: `SoftBoundMetadata`, `SoftBoundTemporal`, `ShadowStack` (`longjmp`) |
| statistics, failure, `rt_stat`, `sleep`, `example`, tracer, generators | | counters, text | printing | not modelled: output, build-time scripts, templates |

How they interact:

* The compiler's pass inserts calls of the checks and of the metadata
  functions; the program calls the malloc family. Both are *external* to the
  models: the program may call any operation at any time its contract allows.
* Every allocator hook uses the C library's allocator as its fallback
  (`*_found`) and for its own nodes. `hooks_active` keeps these nested calls
  from coming back to the hook. Only the low-fat run-time has a lock. The splay
  tree and SoftBound have global, unlocked state, so their behaviours are
  sequential; a multi-threaded program races on them, which is undefined.
* The splay run-time calls the tree through `splayInsert`, `splayFind` and
  `splayRemove`, and takes for granted that intervals in the tree never overlap.
* SoftBound's caller and callee communicate only through the shadow stack: the
  callee finds its arguments, and a return its caller, in words of memory.

Where the difficulty lies: threads that compete for the low-fat free lists
(the list's top is read before a nested `malloc` and written after it); a
mutex that is not recursive held across nested calls of the hooked functions;
page protection changed on push and undone on pop; a region that fills up in
the middle of a search for an aligned slot; long sequences of rotations and
removals that rewrite parent and side links; a shadow stack whose frames are
linked by sizes stored in its own words, with an overflow assertion that
counts one header word instead of two; proxies that point into that stack while
frames come and go above them; `longjmp` past frames; metadata that must follow
a pointer through copies, sorting and some fifty library functions that store or
return one; keys that must outlive the reuse of locks and of addresses; three
independent computations of the layout of a low-fat address; bounds that are asked for in two
calls with a cache between them.
`PROJECT.json` lists these hazards at their lines, with the properties that
would notice each going wrong and the ones still open.

## 2. Modules

| module | models | uses |
|---|---|---|
| `LowFatSizes` | region index and slot size of a request, both build variants (`MIRT_LF_TABLE`, computed) | |
| `LowFatHeap` | the malloc family over free lists and regions, any number of threads | `LowFatSizes` |
| `LowFatHeapProofs` | proofs about `LowFatHeap` | |
| `IntervalMap` | what the tree promises: a set of disjoint intervals (abstract specification) | |
| `IntervalMapProofs` | proof that the intervals stay disjoint | |
| `SplayTree` | the tree of `tree.c`, iteration by iteration | `IntervalMap` |
| `SplayTreeProofs` | proofs about `SplayTree`, among them that it implements `IntervalMap` | |
| `ShadowStack` | the shadow stack and variable-argument proxies | |
| `ShadowStackProofs` | proofs about `ShadowStack` | |
| `SplayRuntime` | hooks, registrations, checks, bounds cache and start-up of the splay run-time | `IntervalMap` |
| `SplayRuntimeProofs` | proofs about `SplayRuntime` | |
| `LowFatChecks` | checks, bounds queries and stack mirrors of the low-fat run-time | `LowFatHeap` |
| `LowFatChecksProofs` | proofs about requests and checks; extends `LowFatHeapProofs` | |
| `LowFatStartup` | `__libc_start_main` of the low-fat run-time | |
| `SoftBoundMetadata` | the metadata trie, copies and the wrappers, spatial configuration | |
| `SoftBoundMetadataProofs` | proofs about `SoftBoundMetadata` | |
| `SoftBoundTemporal` | keys, locks and the free map, temporal configurations | |
| `SoftBoundTemporalProofs` | proofs about `SoftBoundTemporal` | |
| `MC*` | the sets that the configurations of TLC assign to constants | |

Operators with a name of the form `Op_Something` are faulty variants of `Op`
("Faulty variant: ..."); nothing uses them. They record, for each property, a
plausible bug in the code that the property's run detects when `Op` is
replaced by it.

### 2.1 LowFatHeap

A low-fat pointer is a pair `<<z, k>>`: slot `k` of the zero-based region `z`,
at byte `k * SlotSize(z)` of the region. The distance between two regions
(`REGION_SIZE`) is abstracted: what tells pointers apart in the code is their
region and their multiple of the region's size.

| variable | code |
|---|---|
| `mutex` | `mutex` (l. 24), with its owner |
| `hooks[t]` | thread-local `hooks_active` |
| `regions[z]` | `regions[z]`, as a slot number |
| `freeList[z]` | the elements linked from `__lowfat_free_list_tops[z]`, the top at the end |
| `released[slot]` | bytes of a slot that `push` unmapped and mapped again with `PROT_NONE` |
| `live` | blocks the program owns (the program's state) |
| `pc`, `req`, `zi`, `cur`, `top`, `res`, `arg` | the call of a thread, its place in it, and its locals (`zero_based_index`; `res` of the search loop or the slot being pushed; `current_top`; the result; the pointer given) |
| `tainted` | history: regions in which an aligned request failed after pushing fresh slots |

An entry point is an action (`Malloc`, `Calloc`, ...) that clears
`hooks_active` and records the request; it goes on with the shared code:

* `AllocReject` / `AllocLock`: `lowfat_aligned_alloc` l. 113-134, up to the lock;
* `PopTake`, `PopFinish`: l. 139-145 with `__lowfat_free_list_pop`, split where
  the nested `free` and `mprotect` happen;
* `StartFresh`, `FreshFull`, `FreshTake`, `FreshSkip`, `PushSkipped`: the loop
  l. 152-185, with `__lowfat_free_list_push` split between its read of the top
  and its write;
* `FreeLock`, `PushFreed`, `LibcFree`: `internal_free`;
* `Fallback`, `LibcRealloc`: the C library, which returns a block nobody owns,
  or `NULL`; `Return` sets `hooks_active` again.

The steps inside the critical section are separate on purpose: nothing in the
model makes them atomic except the mutex, and dropping the mutex is one of the
faulty variants. A program owns the blocks in `live` and only those are freed or
reallocated: the malloc contract. Pointers into regions that were not
granted (double free) are outside the model.

Constants are bytes: `RegionSize`, `HeapRegionSize`, `MaxHeapAlloc`,
`PageSize`. `MaxListed` is a bound of the model only: an aligned request is not
started while a free list is longer, because the faulty case of finding 1 would
otherwise lengthen a list without end.

### 2.2 SplayTree and IntervalMap

Nodes live in functions from node to field (`span`, `child`, `parent`,
`side`), whose domain `Nodes` is what is allocated; `root` and `numNodes` are those
of `Tree`. `child[n]["left"]` is `leftChild` and `side` is `isLeft`, so that the
mirrored functions and branches of the code are one operator with the side
as a parameter. `NodeIds` is what `malloc` may return; a node that was freed may be
handed out again.

A call is a sequence of steps, so that the properties speak of the tree in
the middle of a call too:

| `pc` | code | actions |
|---|---|---|
| `find` | the loop of `find_from_node` | `FindStep`, `NotFound`, `Found` |
| `descend` | the loop of `splayInsert` | `DescendStep`, `Link`, `Refuse`, `Overlapped` |
| `splay`, `second` | the loop of `splay`; between its two rotations | `SplayStep`, `SecondRotation`, `Splayed` |
| `clear` | `splayRemoveInterval_from_node` and the calls of it in `splayInsert` | `Enter`, `Visit`, `Leave`, `Overwrite` |
| `remove`, `min` | `removeNode`; the loop of `findMin` | `RemoveNode`, `FindMin`, `FindMinStep`, `RemoveSuccessor` |

`cur`, `par` and `dir` are the locals of the running loop (`par` and `dir` also hold the
rotation that the second half of a double rotation still has to do). `stack` is the call stack of
the recursion: each activation has its node and how far it is (`at`). The node
that the insertion stands on is its first entry, visited in the same way, except that it
clears both sides and is not removed. A conflict under `IB_ERROR` reaches `UNREACHABLE`
and ends the program (`Running`).

`splayInsert` allocates its node before it descends and frees it when it does not
need it; the model allocates it where it is linked.

`IntervalMap` is the promise: a set of intervals, where `Add`, `Refuse`, `Extend` and
`Replace` are the outcomes of an insertion. Each call changes it in one step. The
refinement mapping is `Contents`: the spans of all nodes, but from the moment
in which an insertion meets an overlapped node until that node is overwritten
(`Clearing`), what the insertion will leave: its result and the spans
that the new interval does not overlap. So an insertion takes effect when it
meets the first overlapped node or links its own, a removal when the node leaves the tree, a lookup
when it ends its descent, and all other steps are stutters.
`splayRemoveInterval` (nothing calls it), the kinds of annotated nodes,
`tree_tools.c`'s printing and the tracer are left out.

### 2.3 ShadowStack

`mem` is the array and `ptr` the pointer as an index. A frame is the previous
frame's size, its own size and `NumFields` words per pointer. `Call` is the
sequence that an instrumented caller executes: allocate the frame, store the
arguments' metadata, call (as `main` does in `softboundcets.c` 168-191, and the
comparator helper of `qsort`). A function that returns a pointer leaves slot 0
to its result (`StoreResult`). `Return` frees the frame. `Refuse` is the failed
assertion. `VaStart`, `VaArg`, `VaCopy`, `VaEnd` are the four proxy functions. A proxy may
be used by any function while the call it belongs to is running, which stands
for passing it on as `va_list`; the passing itself, through a slot or memory, is
abstracted. `Jump` is `longjmp`, which frees nothing (`JumpSpec` only).

The history variable `frames` is the program's own call stack, with what each
call was given; the properties compare the memory with it. It carries `need`,
the words that the running frames occupy when none is lost.

### 2.4 SplayRuntime

The tree is `map`, the abstract map of `IntervalMap` (instance `M`), which the real tree is
proved to implement (`Refinement` in `SplayTreeProofs`). `refused` is the insertion that
met a conflict and `failure` the reason why the run-time ended the program;
after either nothing happens any more (`Running`).

| variable | code |
|---|---|
| `map` | `__memTree` |
| `phase`, `todo` | before, in and after `__libc_start_main`; what `__splay_insertGlobalsFromBinary` and the `argv` loop still have to register |
| `cache` | `__prev_available`, `__prev_witness`, `__prev_lower`, `__prev_upper` |
| `blocks`, `stack`, `globals` | the program's objects (history) |
| `asked` | a `get_lower` and the `get_upper` after it (history) |

Every hook of `libfunctions.c` is an action, with the bytes that it asks the C
library for (`INCREASE_MALLOC_SIZE` more) told apart from those it registers. `realloc` removes,
asks and registers in one action: the run-time is sequential. A query of an
unknown witness may insert a mapping from `/proc/self/maps` (`GetNode`).

Assumed of the program and excluded: requests whose size wraps around (they would
register an interval that ends before it begins); a single `get_lower` without its
`get_upper` (the instrumentation asks in pairs); hooks other than `malloc`
before start-up call functions not resolved yet and are `Unsupported`.
What was registered before `__libc_start_main` is forgotten when the tree is
initialised (`Setup`), hence `known` in `blocks`.

`LayoutAssumption` is what an operating system and a linker give: heap, stack and
static data lie apart, `argv` is on the stack, and static objects that share bytes
are one inside the other. The last part is not a convenience. When a
global overlaps several registered ones *partly*, `IB_EXTEND` keeps the hull of the
new one and one of the old ones, and the bytes of the others that
lie outside it are no longer known: `LiveTracked` fails. Objects of a
binary do not overlap in this way; aliases and symbols inside a symbol
do, and so does a mapped file around the objects in it.
A block of the C library takes at least one byte (`Taken`): blocks of size zero have
pointers of their own.

### 2.5 LowFatChecks and LowFatStartup

`LowFatChecks` gives the slots of `LowFatHeap` their addresses (`Address`) and
defines the checks as the code computes them: with `Wrap` for unsigned
differences, both builds of the index, and the magics as what they clear.
`ObjectsBounded` compares them with the reference (an access is inside the
object or not) for every address, width and witness. An access wider than its
slot is accepted when the subtraction wraps and `MIRT_REPORT_PTR_OVERFLOW` is
off; the property ranges over widths up to the slot's. Stack objects are placed by
`StackSize`, `ComputeAligned` and `Mirror`, the tables of the generator. The
properties are checked along the behaviours of the allocator (`MCLowFatHeap` extends
this module), since the last part of `ObjectsBounded` is about blocks it returns.

`LowFatStartup` is a sequence of steps (`pc`) with the calls of `malloc` and
`free` that may come between them, the exits of each step, and the two stacks word by word.
Constructors run with `hooks_active` set (l. 37) and before there are
regions: such a `malloc` stops the model (`Allocate`), for what it gets (a
NULL region, a small number, a fault in the table build) depends on the build.

### 2.6 SoftBoundMetadata

The module keeps what memory holds (`memory`) beside what the trie says of it
(`tables`, `entries`): a pointer is the kind of object it points into and its metadata
is right when it has that object's bounds.

| value | meaning |
|---|---|
| `Own` | an object of the program, exact bounds |
| `Library` | an object handed out by the C library |
| `VaList` | a `va_list`; its metadata is its proxy |
| `Loose` | no pointer, or one whose metadata the code does not keep up (listed below) |
| `Inexact` | bounds of a library object that are wider or narrower than it: `WIDE_UPPER`, `strlen` without the terminator, a pointer to one element |
| `NullBounds` | no metadata |

Addresses count half words, so that sources, destinations and sizes can be misaligned.
`MemMove`, `Realloc` and `ExchangeElements` change memory at once, as the C library
does, and the loop over entries then runs step by step (`CopyEntry`,
`ExchangeEntry`); its control is `work`. The order of one `memcpy` over
overlapping entries is undefined and both directions are possible.

The wrappers appear by what they do with metadata: a result from an
argument (`OfArgument...`), a result with bounds of its own (`Given...`), and
pointers stored to memory with metadata (`Noticed`) or without
(`Unnoticed`). The names say what happens when the result is NULL: `Reset` stores
null bounds, `Null` bounds of the NULL result, `Stale` leaves slot 0 of the shadow
stack as any earlier call left it. One action per family names its
wrappers' lines in `PROJECT.json`.

Pointers that the code does not keep up and that `Loose` stands for: copies from a source
that is not a multiple of 8 (`softboundcets_common.c:213`), overlapping copies,
elements of `qsort` that are not whole words, pointers that the C library
writes into structures that a wrapper does not know (`hostent`, `group`, `lconv`, `Dl_info`
in part), and a buffer moved by a failing `getline`.

A `realloc` that fails copies entries from the block to address 0
(`softboundcets_wrappers.c:1743`): for a size that reaches the addresses
that the program uses, the entries of other words are overwritten. `RefusedSizes`
are the sizes that the C library may refuse in the model, and `MetadataAssumption`
wants them below the lowest address in use. For larger ones the properties do
not hold. What the properties say is that all
*others* have their metadata, whatever those leave in the trie.

### 2.7 SoftBoundTemporal

| variable | code |
|---|---|
| `keyCounter` | `__softboundcets_key_id_counter` |
| `stackTop`, `stackLocks` | `__softboundcets_stack_temporal_space_begin` and the words there |
| `newLocation`, `heapLocks` | `__softboundcets_lock_new_location` and the lock space |
| `freeMap` | `__softboundcets_free_map_table`: 0 empty, 2 removed, else a pointer |
| `frames`, `returned`, `blocks` | the program's functions and heap (history) |

The build modelled is one with `MIRT_CONTINUE_ON_FATAL`: in any other, `main`
ends with "Missing implementation for enviornment variable access"
(`softboundcets.c:84-106`) before the program runs, although `README.md:23` of the
repository offers "spatial as well as temporal memory safety checks". In the
modelled build a failure is reported and the program goes on.

What the code does and the model shows: `free` changes neither lock nor free map
(`Free`), so that a dangling heap pointer keeps passing the check and the map fills with the
allocations ever made; an entry is recognised by its pointer, and one of a freed block
may stand for a new block at the same address; a full map, or a pointer that is in
none of its entries, is probed without end (`stopped = "probing"`); `realloc(NULL, n)`
looks for NULL, which any empty entry matches; a failing `realloc` removes
the entry of a block that lives and then fails the assertion. `memory_deallocation` is
called by nothing, so the list of free locks it fills is empty, and left
out. `posix_memalign` does not register its block in temporal builds;
`ReallocForeign` is a `realloc` of such a block.

## 3. Runs

| run | properties | instance | why it is enough |
|---|---|---|---|
| `lowfat_threads` | `TypeOK`, `HolderBypassesHooks`, `ExclusiveSlots`, `NoSlotLost`, `LiveMapped`, `ObjectsBounded`, `ReallocKeepsOld`, `CallsKeepReturning` | 2 threads, malloc, realloc, free; requests of 3 and 5 bytes, regions of 8 bytes with slots of 2, 4 and 8, pages of 4, one libc block | both sizes lead to regions that fill up after two slots or one; the region of 8-byte slots has released pages, through the table entry of the 4-byte class; the C library can refuse |
| `lowfat_entry_points` | `ExclusiveSlots`, `NoSlotLost`, `GrantSuits`, `ObjectsBounded`, `CriticalSectionEnds` | 1 thread, all nine entry points, sizes 0, 1, 4, 9, alignments 3 (bad), 4, 8 | sizes are at the boundaries: zero, the smallest, an exact power of two that padding moves to the next class, above the maximum; alignments that skip slots and ones that are refused |
| `splay_tree` | `TypeOK`, `ValidTree`, `LoopsAdvance`, `ImplementsIntervalMap` | all intervals of 6 addresses, at most 4 nodes, symmetric | 4 nodes are needed for zig-zig and zig-zag with subtrees, for the removal of a node whose successor is not its child, and for an insertion that overlaps nodes on both sides; no step depends on which free node `malloc` returns, so nodes may be permuted |
| `shadow_stack` | `TypeOK`, `FramesFit`, `CallersRestored`, `ArgumentsIntact`, `ProxyReadsItsCall`, `RefusedOnlyWhenFull` | 12 words, 2 words per pointer, 0 to 2 pointers per call, 2 proxies, 2 distinct metadata | main and up to five frames; every frame size at the boundary; stale words of an older frame with other metadata under a new one |
| `splay_runtime` | `TypeOK`, `LiveTracked`, `NoStaleHeap`, `ConflictExplained`, `ChecksExact`, `PairsAgree` | 13 addresses: a heap of 4, a stack of 3, two overlapping symbols, an argument above the stack, library objects (one at a null address), a file mapping that overlaps one of them; requests of 0, 1, 2 bytes; 5 witnesses | adjacent, overlapping and empty objects; blocks that move, shrink and stay; witnesses in every area and in none; every order of registrations |
| `softbound_metadata` | `TypeOK`, `MetadataFollows`, `ProxiesFound`, `ResultsBounded`, `NeighboursKept` | 4 words, one in the first secondary table and three in the second; copies of 3 and 4 half words from and to any half word; elements of 2 and 3 half words | copies inside a table and across tables, aligned and not, with a partial last word, overlapping in both directions; source tables that do not exist yet; reallocations that move, stay and fail |
| `softbound_temporal` | `TypeOK`, `LiveAccepted`, `ReturnedRejected`, `BlocksFindable`, `LocksSuffice` | 3 locks of functions, 4 of blocks, a free map of 3, 3 addresses, keys up to 7 (`MaxKeys`) | 6 keys over 3 entries: collisions and wrap-around; the same address with several keys; a map that fills up; a recursion one too deep; locks given to later functions |

`ObjectsBounded` is checked in the table build by `lowfat_threads` and in the
computed build by `lowfat_entry_points`. `WordBits` is 6 in both: the
addresses of all regions and of the stack fit, and every difference that wraps is computed.

The C library's blocks are few, and so it often answers `NULL`: this is what
exercises the failure paths.

*Fairness.* `FairSpec` of `LowFatHeap` states weak fairness of every thread's
steps inside a call (`Proceed`) and of taking the mutex (`Acquire`). The first
is the operating system running each runnable thread. The second is weak: when
threads compete, a thread may be overtaken for ever, and the liveness properties
do not claim otherwise: `CriticalSectionEnds` and `CallsKeepReturning` speak
of the critical section and of the allocator as a whole. Nothing is assumed of the program: it
may stop calling.

*Deadlock* is checked for the allocator. `CHECK_DEADLOCK FALSE` is used where
the code stops the program: after a conflict in the splay tree or a failed check,
after the failed assertion of the shadow stack, at the end of `main` or of the bound on
keys in `SoftBoundTemporal`, and at the end of start-up. `SoftBoundMetadata` is checked for deadlock.

### Disagreements between the text and the code

Five runs expect a violation. Each states a sentence of the repository.

1. `lowfat_stale_frontier`: "pointers pointing to the next free memory space
   for each region" (`lowfat/src/libfunctions.c:29`). An aligned request pushes
   the fresh slots it skips onto the free list and stores `regions[z]` only
   when it succeeds. When it meets the region's end instead, the
   pushed slots remain at or above `regions[z]`: they are fresh and free at
   once. This is why `ExclusiveSlots`, `NoSlotLost` and `LiveMapped` speak of regions where this
   has not happened; the variable `tainted` marks the others.
2. `lowfat_heap_overrun`: "`HEAP_`-, `GLOBAL_`-, and `STACK_REGION_SIZE` define
   the amount of storage reserved for allocations of the each type per size"
   (`lowfat/README.md:29`). The allocator compares with the end of the whole
   region.
3. `shadow_stack_longjmp`: "Shadow stack size exceeded"
   (`softbound/src/softboundcets_common.c:31`) is reached by a program whose
   running functions would fit, because `longjmp` leaves the frames it
   abandons.
4. `splay_empty_object`: "Trying to insert a conflicting element!"
   (`splay/src/tree.c:327`) is marked unreachable. The block of `malloc(0)` is
   registered as an empty interval, which `free` cannot remove; a later block
   that covers its address is the conflict. `ConflictExplained` in
   `splay_runtime` says that this and a file mapping around registered objects are the only
   ways to get there.
5. `lowfat_stack_move`: "Make sure that pointers on the stack pointing to the
   stack are updated." (`lowfat/src/libfunctions.c:689`). The end of the
   loop is computed below its start, and no pointer is updated.

## 4. Proofs

Everything below is proved for every value of the constants that satisfies the
named assumptions of the modules (`SizesAssumption`, `HeapAssumption`,
`ClassAssumption`, `SpaceAssumption`, `StackAssumption`, `TemporalAssumption`,
`RuntimeAssumption`, `LayoutAssumption`, `MetadataAssumption`, `TreeAssumption`), which TLC
also evaluates in each run. `PowersOfTwo` is not an assumption about the code:
it says that `2^(k + 1)` is twice `2^k`, which the provers do not know.

**LowFatHeapProofs.** For any number of threads, regions and sizes:

* `TypeCorrect`: `Spec => []TypeOK`. The type invariant is not inductive alone:
  that the slot a thread pops, takes or pushes lies in its region needs facts
  about free lists and locals. The inductive invariant adds `ListsOK` (a listed
  slot is a slot of its region), `LocalsOK` (the locals of each
  label; `top` equals the free list while its reader is in the critical section) and
  `HolderBypassesHooks`.
* `NestedCallsNeverLock`: `Spec => []HolderBypassesHooks`. Exactly the thread
  between lock and unlock owns the mutex and it has `hooks_active` clear, so
  the nested `malloc` and `free` cannot wait for the lock their caller holds.
* `ExclusiveOwnership`: `Spec => []ExclusiveSlots`. The invariant is kept region by
  region. The moving of a slot between the three places (list, program, call) is
  the whole argument; the steps of other regions, and of threads that
  do not hold the mutex, leave a region's three conjuncts as they were.

* `SlotsAreKept` and `LiveMemoryMapped`: `[]NoSlotLost` and `[]LiveMapped`. With
  `ExclusiveOwnership` the first says that list, program and calls partition the
  slots below the fresh part. The inductive invariant `SlotsInv` states both per
  region (`Kept`, `Unmapped`) and adds `HandsInv`: at which labels a call has a
  result or an argument in hand. Without it the step that overwrites `res[t]` could drop a slot.
  An unmapped slot is on the list or is the one that a thread has popped and is about
  to map; that no other thread maps it meanwhile is the mutex (`LocalsOK`).
* `ReallocNeverLoses`: the action property `ReallocKeepsOld`, from `HandsInv`.

**LowFatChecksProofs.** For both builds, every number of classes and every width of
a word. The arithmetic of powers of two (`PowerMonotone`, `PowerDivides`,
`BitLengths`, `ClassFits` in `LowFatHeapProofs`) comes from `PowersOfTwo` by an
induction over sets of numbers.

* `GrantsSuit`: `[]GrantSuits`, from the inductive `RequestsOK`. It follows a request
  through the entry points: what `lowfat_aligned_alloc` is given is enough for what the
  program asked for, and an alignment that is not passed on is a power of two no larger
  than the size (`Asked`). The class of the padded size has slots at least that large,
  and as both are powers of two, the alignment divides the slot size. A request of
  `SIZE_MAX` bytes, whose padding wraps to zero, is left out of the property.
* `ObjectsAreBounded`: `[]ObjectsBounded`. A region is a grid of slots
  (`SpaceAssumption`), so the region index and the remainder give back the slot of any
  address in it (`IndexFound`, `GridPlace`); the mirror of a stack object is a slot of its
  region (`StackObjectBounded`). That the comparisons, done modulo the word
  size, refuse exactly what is outside (`Compared`) needs that the object ends within the
  address space. The last part, on blocks that are about to be returned, uses `RequestsOK`.

**SplayRuntimeProofs.** For every layout that `LayoutAssumption` allows. The
inductive invariant `Inductive` has, besides the types and the pairs:

* `Objects`: intervals of the tree are disjoint, and each belongs to a class: a block
  that the tree was told of (or an empty interval in the heap, which cannot be
  removed), a stack object, or a static object. The classes lie apart,
  so that a replacement on the stack never cuts a block and `free` never
  removes a global. `LiveObjectsTracked` needs the classes: that a
  `Remove` of one block leaves the others follows from disjointness, but that
  an insertion under `IB_REPLACE` leaves them does not.
* `Cached`: while a pair is open, the cache holds the bounds that the map has *now*; no
  hook can run between the two queries, and the second empties the cache. This
  gives `PairsBelongTogether`.

`FreedBlocksForgotten`, `ConflictsAreExplained` and `ChecksAreExact` follow from
`Objects`.

**SoftBoundMetadataProofs.** For every set of words, every size of the secondary
tables and all sizes of copies and elements.

* `ResultsHaveBounds` and, between the loops, `MetadataFollowsPointers` and
  `ProxiesAreFound`: every step of the program and of a wrapper either stores a
  pointer with its bounds or forgets the word. A missing table stands for empty
  entries (`EmptyUntabled`), so a load can be read off `entries`.
* The loops are where the argument is. Memory has changed at once and the entries follow
  one by one, so during the loop the property is false. `CopyInv` says of every word
  that it holds a pointer no more, or its entry is right and the loop will not write it,
  or its entry is still to come and is at present that of a word that
  the loop has not overwritten. The last part is why the
  direction of the loop matters for overlapping ranges. `ExchangeInv` does the same
  for `qsort`, where each word has one counterpart.
* `NeighboursAreKept`: the action property, from the range of `next` in the loop; the
  copy's rounding up of a partial last word stays inside a word that has a copied byte.

**ShadowStackProofs.** For every stack size and every number of words per
pointer that are even, as in all configurations of `softboundcets_defines.h`:

* The inductive invariant `IInv` is the conjunction of the type invariant, the
  *layout* (the first frame is at 0; each frame begins where the one before ends;
  the header words hold the two sizes; addresses are even; frames are pairwise
  ordered), the arguments' integrity, the place of each proxy in its call's frame, and
  `RefusedOnlyWhenFull`.
* `NoShadowStackOverflow`: `[]FramesFit`. The assertion tests
  `ptr < Entries - prevSize - 2 - size`, which leaves one word for the new frame's
  two header words. Because `ptr`, the sizes and `Entries` are even, the
  inequality has a slack of two, and the test is exactly right: it neither
  admits a frame that does not fit nor (`NoEarlyRefusal`) refuses one that does.
* `ReturnsReachCallers`, `ArgumentsSurviveCalls` and `ProxiesReadTheirCalls`
  follow from the pairwise order: a store into the running frame touches
  no word of another.

`NoEarlyRefusal` is about `Spec`; under `JumpSpec` it fails (run
`shadow_stack_longjmp`), since frames are then no longer contiguous.

**SplayTreeProofs.** For every set of addresses and nodes, hence every size and
shape of the tree. `TreeAssumption` only says that addresses are natural numbers and
that the names for no node and no interval are none of them.

* *Subtrees without induction.* `ValidTree` speaks of subtrees, which a
  recursive definition would put out of the provers' reach. `Below(n)` is instead the least set
  closed under children. The proofs work with `Struct`, which says of a function
  `sub` from nodes to sets what a subtree must satisfy *locally* (a node's subtree is the node and those of its
  children, a child's does not have the node, only the node itself lacks its parent there), and
  `SubtreesUnique` shows by the well-foundedness of sizes that only `Below` satisfies it. Each
  operation then comes with the function after it: `Rotated`, `Unlinked`, `Leafed`.
* *One lemma per change of the tree.* `RotateStep`, `UnlinkStep`, `LinkStep` and `OverwriteStep`
  show that the links stay those of a tree with the expected subtrees (`Struct`) and
  the spans in order (`Sorted`). The removal with a successor is the one where order and links move
  together: the node takes over the span of the least node of its right subtree.
* *The invariant.* `IInv` is `TreeInv` (the above, and `numNodes`), `Apart` (intervals do not
  overlap), and one conjunct per loop for what the code relies on without saying it. `FindInv`
  and `DescendInv`: whatever holds the value or overlaps the new interval is below the current node. `SplayInv`: after
  the first half of a double rotation, `x` hangs where the second half expects it.
  `Frames`: the activations go down one path from the insertion's node, each suspended
  in the child that it visits, and the sides that an activation has left
  are free of overlapping nodes (`Clean`). That a skipped side is clean too, and that a contained interval is
  alone, needs `Sorted` and `Apart` (`VisitInv`, `ContainedAlone`).
  `DoomedInv`: a node is removed only when its subtrees are clean, so that no activation below holds a
  pointer to a node that is freed: `removeNode` frees the successor, and the
  successor is below the removed node, never on the stack. `MinInv` is the invariant of `findMin`.
* `TypeCorrect` and `AlwaysValid` (`[]ValidTree`) follow from `IInv`.
* `Refinement`: `Spec => ImplementsIntervalMap`, action by action. A lookup is exact because of
  `FindInv`, a link meets nothing because of `DescendInv`, and clearing changes nothing in `Contents`:
  what it removes overlaps, and what a removal moves does not. When the insertion
  overwrites its node, both its sides are clean (`OverwriteFacts`), so what is left is what was promised.
* `Advancing`: the action property `LoopsAdvance`. A rotation takes exactly one node from
  the path above `x` (`RotationNearer`), so `splay` ends; a descent has a smaller subtree in each
  iteration. In each step of a clearing, with the removals that it makes, the set `Pending` of
  nodes that its activations have still to visit never grows, and when it stays the
  same an activation has ended or the last one is further (`Stage`). A visit
  takes the child out of `Pending` (`PushAdvances`): the activations above it are in
  other subtrees, which have no node in common (`SiblingsApart`, `Frames`). A removal only takes a
  node from the subtrees, and its activation ends with it (`RemovalAdvances`).

The theorems about `SplayRuntime` are over the abstract map; `Refinement` is what justifies
that, for intervals that satisfy the assertion of `splayInsert` (`base < bound`).
The empty interval of `malloc(0)` does not, and `SplayRuntime` keeps it in the map as an interval
that no lookup finds.

**IntervalMapProofs.** `OneObjectPerValue`: in every reachable state of the abstract map,
intervals do not overlap. The step that needs an argument is
`Extend`: the hull of two overlapping intervals overlaps nothing that neither of
them overlaps.

**SoftBoundTemporalProofs.** For any number of locks, entries of the free map,
keys and addresses, as long as there are more locks than entries. The inductive
invariant `IInv` adds four parts to the type invariant:

* `FramesPlaced` and `ReturnedApart`: the running functions have the locks from the first
  on, each holds its function's key, all locks above are empty, and keys are
  below the counter and distinct, also from those of functions that
  returned. Hence a lock holds nothing or the key of a function that
  runs: `DanglingPointersFail`, which is not inductive alone, because a lock is
  handed out again.
* `BlocksLocked`: locks of blocks are below the next location and hold their keys.
  With `FramesPlaced` it gives `LivePointersPass`.
* `BlocksMapped`: from its key, every live block's pointer is reached without passing an
  empty entry. `BlocksFindable` is not inductive as it stands: what a step must
  keep is that entries on the way do not become empty. The argument is the tombstone:
  a removal writes 2, never 0, and a removal for another pointer does
  not take this one's entry (`StaysReachable`). That a probe ends at the
  nearest entry rests on the well-foundedness of `<` (`LeastNumber`, `ProbeEnds`).
  `LiveBlocksFound` follows.
* `LocksCounted`: there are at least as many entries in use as locks handed out. An
  allocation uses one of each; a move removes at most one entry and adds one.
  `LocksNeverRunOut` follows, as the entries in use are at most all of the map.

### Only model-checked

* The liveness properties: fairness and `ENABLED` are outside what the
  prover handles.
* `LowFatStartup` has no theorem: its only property is the one that the run
  `lowfat_stack_move` shows violated.

## 5. Not modelled, and plan

Every component that has state is modelled, and every invariant, action property and
refinement of a passing run is proved. What can still be proved: `JumpSpec` of
`ShadowStack`, the parts of `IInv` that survive `longjmp`.

Not modelled, and why:

* Printing and counters (`statistics.c`, `fail_function.c`, `rt_stat.c`, the tracer,
  `tree_tools.c`): output.
* `sleep` and `example`: a busy wait and a template. The build-time
  scripts: what they generate is a constant of the models, and the part that
  computes the stack tables is in `LowFatChecks`.
* Data races on the unlocked run-times (splay, SoftBound): undefined behaviour
  of a program that uses them with threads.
* `splayRemoveInterval` and `__softboundcets_memory_deallocation`: nothing calls them.
* The optional argument checks of the SoftBound wrappers
  (`__SOFTBOUNDCETS_WRAPPER_CHECKS`): each is a call of the dereference check before
  the C library's function, without state. Wrappers that only forward have none either.
* Requests of `SIZE_MAX` bytes: `clzll(0)` is undefined in the low-fat
  run-time, and the splay tree has no meaning for an interval that ends before it begins.
* The assertions on node kinds of the `TREE_ANNOTATE_NODES` build.
* The `mmap` calls of the program, which could take the pages of a freed slot between
  the two calls of a push.
