----------------------------- MODULE LowFatHeap -----------------------------
(***************************************************************************)
(* The heap of the low-fat run-time: the malloc family of                  *)
(* lowfat/src/libfunctions.c over the free lists of lowfat/src/freelist.c, *)
(* called by any number of threads once start-up is over.  A low-fat       *)
(* pointer is a slot <<z, k>>: the k-th slot of region z, at byte          *)
(* k * SlotSize(z) from the region's start.  A call runs from the hook     *)
(* that clears hooks_active to the return that sets it again; the code     *)
(* between a lock and an unlock is split into the steps that read or write *)
(* the free list, the bump pointer and the page protection, so that it is  *)
(* the mutex that makes it atomic and not the model.                       *)
(***************************************************************************)
EXTENDS LowFatSizes, Sequences

CONSTANTS
  Threads,
  None,            \* NULL, and the owner of an unlocked mutex
  Ops,             \* the entry points the program calls
  Sizes, Aligns,   \* the arguments it calls them with
  LibcBlocks,      \* blocks the C library's own allocator can return
  RegionSize,      \* REGION_SIZE
  HeapRegionSize,  \* HEAP_REGION_SIZE, the part of a region meant for the heap
  MaxHeapAlloc,    \* MAX_HEAP_ALLOC_SIZE
  PageSize,        \* __lowfat_page_size
  PointerBytes,    \* sizeof(void *)
  MaxListed        \* bound of the model: no aligned request while a free list
                   \* is longer (an aligned request can lengthen it for ever)

Offset(z, k) == k * SlotSize(z)

Slots == {s \in Regions \X (0 .. RegionSize) : Offset(s[1], s[2]) < RegionSize}

ASSUME HeapAssumption ==
  /\ RegionSize \in Nat \ {0} /\ HeapRegionSize \in 0 .. RegionSize
  /\ MaxHeapAlloc \in 0 .. SizeMax - 1
  /\ IsPowerOf2(PageSize)
  /\ MaxListed \in Nat
  /\ Sizes \subseteq 0 .. SizeMax /\ Aligns \subseteq Nat
  /\ None \notin Threads \cup Slots \cup LibcBlocks
  /\ LibcBlocks \cap Slots = {}

(* The largest region has slots of the largest size: NUM_REGIONS is       *)
(* generated from MIN_ALLOC_SIZE and MAX_HEAP_ALLOC_SIZE.                  *)
ASSUME ClassAssumption == MaxHeapAlloc <= 2^(MinAllocLog + NumRegions - 1)

VARIABLES
  mutex,     \* the thread that holds it, or None
  hooks,     \* hooks_active, thread-local
  regions,   \* regions[z]: the next fresh slot of region z
  freeList,  \* __lowfat_free_list_tops[z] as a sequence, its top at the end
  released,  \* bytes from the start of a slot that are mapped PROT_NONE
  live,      \* blocks the program owns
  pc, req, zi, cur, top, res, arg,   \* a thread's call in progress and locals
  tainted    \* history: regions where an aligned request pushed fresh slots
             \* to the free list and then failed without storing regions[z]

shared == <<mutex, regions, freeList, released, tainted>>
locals == <<zi, cur, top>>
vars == <<mutex, hooks, regions, freeList, released, live, pc, req, zi, cur,
          top, res, arg, tainted>>

NoReq == [op |-> "none", size |-> 0, need |-> 0, align |-> 1, pass |-> 0]

(* need and align are what the caller asked for; size and pass are the     *)
(* arguments lowfat_aligned_alloc receives (pass = 0: no requirement).     *)
Request(op, size, need, align, pass) ==
  [op |-> op, size |-> size, need |-> need, align |-> align, pass |-> pass]

Init ==
  /\ mutex = None
  /\ hooks = [t \in Threads |-> TRUE]
  /\ regions = [z \in Regions |-> 0]
  /\ freeList = [z \in Regions |-> <<>>]
  /\ released = [s \in Slots |-> 0]
  /\ live = {}
  /\ pc = [t \in Threads |-> "idle"]
  /\ req = [t \in Threads |-> NoReq]
  /\ zi = [t \in Threads |-> 0]
  /\ cur = [t \in Threads |-> 0]
  /\ top = [t \in Threads |-> <<>>]
  /\ res = [t \in Threads |-> None]
  /\ arg = [t \in Threads |-> None]
  /\ tainted = {}

Goto(t, label) == pc' = [pc EXCEPT ![t] = label]

-----------------------------------------------------------------------------
(* The entry points.  A hook that finds hooks_active set clears it; the    *)
(* call in progress owns the pointer it was given.                         *)

(* Faulty variant: the hook does not clear hooks_active. *)
ClearHooks_Missing(t) == UNCHANGED hooks

ClearHooks(t) == hooks' = [hooks EXCEPT ![t] = FALSE]

Call(t, request, ptr, label) ==
  /\ pc[t] = "idle" /\ hooks[t]
  /\ request.op \in Ops
  /\ request.pass # 0 => \A z \in Regions : Len(freeList[z]) <= MaxListed
  /\ ClearHooks(t)
  /\ req' = [req EXCEPT ![t] = request]
  /\ arg' = [arg EXCEPT ![t] = ptr]
  /\ live' = live \ {ptr}
  /\ Goto(t, label)
  /\ UNCHANGED <<shared, locals, res>>

Malloc(t) == \E size \in Sizes :
  Call(t, Request("malloc", size, size, 1, 0), None, "alloc")

(* An overflowing product goes straight to the C library. *)
Calloc(t) == \E nmemb, size \in Sizes :
  LET total    == Wrap(nmemb * size)
      overflow == size # 0 /\ total \div size # nmemb
  IN  Call(t, Request("calloc", total, nmemb * size, 1, 0), None,
           IF overflow THEN "fallback" ELSE "alloc")

(* A null pointer makes it a malloc; a pointer of the C library stays one. *)
Realloc(t) == \E size \in Sizes, ptr \in live \cup {None} :
  Call(t, Request("realloc", size, size, 1, 0), ptr,
       IF ptr \in LibcBlocks THEN "libcRealloc" ELSE "alloc")

(* The alignment is checked against the size and then not passed on. *)
AlignedAlloc(t) == \E size \in Sizes, align \in Aligns :
  Call(t, Request("aligned_alloc", size, size, align, 0), None,
       IF IsPowerOf2(align) /\ IsAligned(size, align) THEN "alloc" ELSE "ret")

PosixMemalign(t) == \E size \in Sizes, align \in Aligns :
  Call(t, Request("posix_memalign", size, size, align, align), None,
       IF IsPowerOf2(align) /\ IsAligned(align, PointerBytes) THEN "alloc" ELSE "ret")

Memalign(t) == \E size \in Sizes, align \in Aligns :
  Call(t, Request("memalign", size, size, align, align), None,
       IF IsPowerOf2(align) THEN "alloc" ELSE "ret")

Valloc(t) == \E size \in Sizes :
  Call(t, Request("valloc", size, size, PageSize, PageSize), None, "alloc")

Pvalloc(t) == \E size \in Sizes :
  LET sum     == Wrap(size + PageSize - 1)
      rounded == sum - (sum % PageSize)
  IN  Call(t, Request("pvalloc", rounded, size, PageSize, 0), None, "alloc")

Free(t) == \E ptr \in live \cup {None} :
  Call(t, Request("free", 0, 0, 1, 0), ptr, IF ptr = None THEN "ret" ELSE "free")
-----------------------------------------------------------------------------
(* lowfat_aligned_alloc *)

(* Faulty variant: no byte for the one-past-the-end pointer. *)
Padded_Unpadded(t) == req[t].size

Padded(t) == Wrap(req[t].size + 1)

Served(t) == req[t].size # 0 /\ Padded(t) <= MaxHeapAlloc

AllocReject(t) ==
  /\ pc[t] = "alloc" /\ ~Served(t)
  /\ Goto(t, "fallback")
  /\ UNCHANGED <<shared, locals, hooks, live, req, res, arg>>

(* Faulty variant: the mutex is not waited for. *)
Lock_Missing(t) == mutex' = t

Lock(t) == mutex = None /\ mutex' = t

AllocLock(t) ==
  /\ pc[t] = "alloc" /\ Served(t)
  /\ Lock(t)
  /\ \E z \in ClassesFor(Padded(t)) : zi' = [zi EXCEPT ![t] = z]
  /\ Goto(t, "list")
  /\ UNCHANGED <<regions, freeList, released, tainted, hooks, live, req, cur,
                 top, res, arg>>

(* The list element is allocated and freed by nested calls of the hooked   *)
(* malloc and free.  With hooks_active clear they reach the C library; with *)
(* it set they would wait for the mutex, which the thread itself holds.     *)
NestedCall(t) == ~hooks[t] \/ mutex = None

(* What push gives back to the system, and pop maps again.  PtrSize is     *)
(* applied to the zero-based index, as the code does.                      *)
Released(z) == IF IsAligned(PtrSize(z), PageSize) THEN PtrSize(z) ELSE 0

(* An allocation in hand: realloc goes on to free the old block. *)
Granted(t) == Goto(t, IF req[t].op = "realloc" /\ arg[t] # None THEN "free" ELSE "ret")

(* Faulty variant: pop does not make the slot accessible again. *)
Reprotect_Missing(z, k) == UNCHANGED released

Reprotect(z, k) ==
  released' = IF Released(z) > 0 THEN [released EXCEPT ![<<z, k>>] = 0] ELSE released

PopTake(t) ==
  LET z == zi[t]
      n == Len(freeList[z])
  IN  /\ pc[t] = "list" /\ req[t].pass = 0 /\ n > 0
      /\ cur' = [cur EXCEPT ![t] = freeList[z][n]]
      /\ freeList' = [freeList EXCEPT ![z] = SubSeq(@, 1, n - 1)]
      /\ Goto(t, "popped")
      /\ UNCHANGED <<mutex, hooks, regions, released, live, req, zi, top, res,
                     arg, tainted>>

PopFinish(t) ==
  /\ pc[t] = "popped" /\ NestedCall(t)
  /\ Reprotect(zi[t], cur[t])
  /\ mutex' = None
  /\ res' = [res EXCEPT ![t] = <<zi[t], cur[t]>>]
  /\ Granted(t)
  /\ UNCHANGED <<hooks, regions, freeList, live, req, locals, arg, tainted>>

StartFresh(t) ==
  /\ pc[t] = "list" /\ (req[t].pass # 0 \/ freeList[zi[t]] = <<>>)
  /\ cur' = [cur EXCEPT ![t] = regions[zi[t]]]
  /\ Goto(t, "fresh")
  /\ UNCHANGED <<shared, hooks, live, req, zi, top, res, arg>>

Aligned(t) ==
  IF req[t].pass = 0 THEN TRUE ELSE IsAligned(Offset(zi[t], cur[t]), req[t].pass)

RegionFull(t) == Offset(zi[t], cur[t]) >= RegionSize

(* Faulty variant: the early return forgets the unlock. *)
FreshFull_KeepsMutex(t) ==
  LET z == zi[t]
  IN  /\ pc[t] = "fresh" /\ RegionFull(t)
      /\ tainted' = IF cur[t] > regions[z] THEN tainted \cup {z} ELSE tainted
      /\ mutex' = mutex
      /\ Goto(t, "fallback")
      /\ UNCHANGED <<hooks, regions, freeList, released, live, req, locals, res, arg>>

FreshFull(t) ==
  LET z == zi[t]
  IN  /\ pc[t] = "fresh" /\ RegionFull(t)
      /\ tainted' = IF cur[t] > regions[z] THEN tainted \cup {z} ELSE tainted
      /\ mutex' = None
      /\ Goto(t, "fallback")
      /\ UNCHANGED <<hooks, regions, freeList, released, live, req, locals, res, arg>>

(* Faulty variant: the bump pointer ignores the skipped slots. *)
NextFresh_NotAdvanced(t) == regions[zi[t]] + 1

NextFresh(t) == cur[t] + 1

FreshTake(t) ==
  LET slot == <<zi[t], cur[t]>>
  IN  /\ pc[t] = "fresh" /\ ~RegionFull(t) /\ Aligned(t)
      /\ released' = IF IsAligned(Offset(zi[t], cur[t]), PageSize)
                     THEN [released EXCEPT ![slot] = 0] ELSE released
      /\ regions' = [regions EXCEPT ![zi[t]] = NextFresh(t)]
      /\ mutex' = None
      /\ res' = [res EXCEPT ![t] = slot]
      /\ Granted(t)
      /\ UNCHANGED <<hooks, freeList, live, req, locals, arg, tainted>>

(* Faulty variant: the new element is not linked to the old top. *)
ReadTop_Unlinked(t, z) == top' = [top EXCEPT ![t] = <<>>]

(* __lowfat_free_list_push: the current top is read before the element is  *)
(* allocated and linked to the element after it.                           *)
ReadTop(t, z) == top' = [top EXCEPT ![t] = freeList[z]]

FreshSkip(t) ==
  /\ pc[t] = "fresh" /\ ~RegionFull(t) /\ ~Aligned(t)
  /\ ReadTop(t, zi[t])
  /\ Goto(t, "skip")
  /\ UNCHANGED <<shared, hooks, live, req, zi, cur, res, arg>>

Push(t) ==
  LET z == zi[t]
  IN  /\ NestedCall(t)
      /\ freeList' = [freeList EXCEPT ![z] = Append(top[t], cur[t])]
      /\ released' = IF Released(z) > 0
                     THEN [released EXCEPT ![<<z, cur[t]>>] = Released(z)]
                     ELSE released

PushSkipped(t) ==
  /\ pc[t] = "skip"
  /\ Push(t)
  /\ cur' = [cur EXCEPT ![t] = @ + 1]
  /\ Goto(t, "fresh")
  /\ UNCHANGED <<mutex, hooks, regions, live, req, zi, top, res, arg, tainted>>

-----------------------------------------------------------------------------
(* internal_free *)

(* Faulty variant: the region index is not made zero-based. *)
RegionOf_TableIndex(slot) == RegionIndex(slot[1])

RegionOf(slot) == slot[1]

FreeLock(t) ==
  /\ pc[t] = "free" /\ arg[t] \in Slots
  /\ Lock(t)
  /\ zi' = [zi EXCEPT ![t] = RegionOf(arg[t])]
  /\ cur' = [cur EXCEPT ![t] = arg[t][2]]
  /\ ReadTop(t, arg[t][1])
  /\ Goto(t, "push")
  /\ UNCHANGED <<regions, freeList, released, tainted, hooks, live, req, res, arg>>

PushFreed(t) ==
  /\ pc[t] = "push"
  /\ Push(t)
  /\ mutex' = None
  /\ arg' = [arg EXCEPT ![t] = None]
  /\ Goto(t, "ret")
  /\ UNCHANGED <<hooks, regions, live, req, locals, res, tainted>>

LibcFree(t) ==
  /\ pc[t] = "free" /\ arg[t] \in LibcBlocks
  /\ arg' = [arg EXCEPT ![t] = None]
  /\ Goto(t, "ret")
  /\ UNCHANGED <<shared, locals, hooks, live, req, res>>

-----------------------------------------------------------------------------
(* The C library's allocator, which answers with a block nobody owns or    *)
(* with NULL, and the return to the program.                               *)

LibcAnswer ==
  {None} \cup {b \in LibcBlocks \ live : \A t \in Threads : b # res[t] /\ b # arg[t]}

(* Faulty variant: a failed allocation is taken for a success. *)
Answered_IgnoresNull(t, block) == Granted(t)

Answered(t, block) == IF block = None THEN Goto(t, "ret") ELSE Granted(t)

Fallback(t) == \E block \in LibcAnswer :
  /\ pc[t] = "fallback"
  /\ res' = [res EXCEPT ![t] = block]
  /\ Answered(t, block)
  /\ UNCHANGED <<shared, locals, hooks, live, req, arg>>

(* realloc of the C library: moved, kept in place, refused, or freed *)
LibcRealloc(t) == \E block \in LibcAnswer \cup {arg[t]} :
  /\ pc[t] = "libcRealloc"
  /\ req[t].size = 0 => block = None
  /\ res' = [res EXCEPT ![t] = block]
  /\ arg' = [arg EXCEPT ![t] = IF block = None /\ req[t].size # 0 THEN @ ELSE None]
  /\ Goto(t, "ret")
  /\ UNCHANGED <<shared, locals, hooks, live, req>>

Return(t) ==
  /\ pc[t] = "ret"
  /\ hooks' = [hooks EXCEPT ![t] = TRUE]
  /\ live' = live \cup ({res[t], arg[t]} \ {None})
  /\ req' = [req EXCEPT ![t] = NoReq]
  /\ res' = [res EXCEPT ![t] = None]
  /\ arg' = [arg EXCEPT ![t] = None]
  /\ zi' = [zi EXCEPT ![t] = 0]
  /\ cur' = [cur EXCEPT ![t] = 0]
  /\ top' = [top EXCEPT ![t] = <<>>]
  /\ Goto(t, "idle")
  /\ UNCHANGED shared

-----------------------------------------------------------------------------
Enter(t) ==
  \/ Malloc(t) \/ Calloc(t) \/ Realloc(t) \/ AlignedAlloc(t) \/ PosixMemalign(t)
  \/ Memalign(t) \/ Valloc(t) \/ Pvalloc(t) \/ Free(t)

Acquire(t) == AllocLock(t) \/ FreeLock(t)

Proceed(t) ==
  \/ AllocReject(t) \/ PopTake(t) \/ PopFinish(t) \/ StartFresh(t)
  \/ FreshFull(t) \/ FreshTake(t) \/ FreshSkip(t) \/ PushSkipped(t)
  \/ PushFreed(t) \/ LibcFree(t) \/ Fallback(t) \/ LibcRealloc(t) \/ Return(t)

Next == \E t \in Threads : Enter(t) \/ Acquire(t) \/ Proceed(t)

Spec == Init /\ [][Next]_vars

(* Threads keep running; a mutex goes to any of the threads waiting for it. *)
Fairness == \A t \in Threads : WF_vars(Proceed(t)) /\ WF_vars(Acquire(t))

FairSpec == Spec /\ Fairness
-----------------------------------------------------------------------------
(* Properties *)

Labels == {"idle", "alloc", "list", "popped", "fresh", "skip", "free", "push",
           "fallback", "libcRealloc", "ret"}

Requests == [op : Ops \cup {"none"}, size : Nat, need : Nat, align : Nat, pass : Nat]

Blocks == Slots \cup LibcBlocks

(* The variables keep to their types. *)
TypeOK ==
  /\ mutex \in Threads \cup {None}
  /\ hooks \in [Threads -> BOOLEAN]
  /\ regions \in [Regions -> Nat]
  /\ freeList \in [Regions -> Seq(Nat)]
  /\ released \in [Slots -> Nat]
  /\ live \subseteq Blocks
  /\ pc \in [Threads -> Labels]
  /\ req \in [Threads -> Requests]
  /\ zi \in [Threads -> Regions]
  /\ cur \in [Threads -> Nat]
  /\ top \in [Threads -> Seq(Nat)]
  /\ res \in [Threads -> Blocks \cup {None}]
  /\ arg \in [Threads -> Blocks \cup {None}]
  /\ tainted \subseteq Regions

Critical(t) == pc[t] \in {"list", "popped", "fresh", "skip", "push"}

(* The mutex (libfunctions.c:24) is held by exactly the thread whose call  *)
(* is between lock and unlock, and that thread has hooks_active clear: the *)
(* malloc and free of list elements (freelist.c:25, :56) made under the    *)
(* non-recursive mutex can therefore never come back to it.                *)
HolderBypassesHooks ==
  \A t \in Threads : /\ Critical(t) <=> mutex = t
                     /\ Critical(t) => ~hooks[t]

(* Fresh slots start here; a thread that is skipping slots has moved its   *)
(* own copy of the bump pointer and not yet stored it.                     *)
Skipping(t, z) == pc[t] \in {"fresh", "skip"} /\ zi[t] = z

Frontier(z) == IF mutex # None /\ Skipping(mutex, z) THEN cur[mutex] ELSE regions[z]

Listed(z) == {freeList[z][i] : i \in DOMAIN freeList[z]}

(* What a call in progress has in its hands: the block it was given, the   *)
(* block it will return, and a slot popped but not yet prepared.           *)
Hands == {"arg", "res", "pop"} \X Threads

InHand(h) ==
  IF h[1] = "arg" THEN arg[h[2]]
  ELSE IF h[1] = "res" THEN res[h[2]]
  ELSE IF pc[h[2]] = "popped" THEN <<zi[h[2]], cur[h[2]]>> ELSE None

Sound == Regions \ tainted

SlotsOf(z) == {s \in Slots : s[1] = z}

(* No slot is handed out twice: in every region where no aligned request   *)
(* has failed after skipping slots, a slot is on the free list at most     *)
(* once, and whatever is on the free list, owned by the program or in the  *)
(* hands of a call is below the fresh part and in only one of these places *)
(* (lowfat_aligned_alloc, internal_free and the free list, run by          *)
(* concurrent threads).                                                    *)
ListedOnce(z) ==
  /\ \A i, j \in DOMAIN freeList[z] : freeList[z][i] = freeList[z][j] => i = j
  /\ \A k \in Listed(z) :
       k < Frontier(z) /\ <<z, k>> \notin live /\ \A h \in Hands : InHand(h) # <<z, k>>

HeldOnce(z) ==
  \A h \in Hands : InHand(h) \in SlotsOf(z) =>
    /\ InHand(h)[2] < Frontier(z) /\ InHand(h) \notin live
    /\ \A g \in Hands : InHand(g) = InHand(h) => g = h

LiveBelow(z) == \A s \in SlotsOf(z) : s \in live => s[2] < Frontier(z)

ExclusiveSlots == \A z \in Sound : ListedOnce(z) /\ HeldOnce(z) /\ LiveBelow(z)

(* No slot is lost: every slot below the fresh part of such a region is on *)
(* the free list, owned by the program, or in the hands of a call, however *)
(* the pushes and pops of different threads interleave.                    *)
NoSlotLost ==
  \A s \in Slots : s[1] \in Sound /\ s[2] < Frontier(s[1]) =>
    s[2] \in Listed(s[1]) \/ s \in live \/ \E h \in Hands : InHand(h) = s

(* Memory the program owns is never unmapped: the munmap and PROT_NONE     *)
(* mmap of push (freelist.c:39-45) are undone by the mprotect of pop       *)
(* (freelist.c:63-65) before the slot is used again.                       *)
LiveMapped ==
  \A slot \in Slots : slot[1] \in Sound /\ released[slot] # 0 =>
    slot \notin live /\ \A t \in Threads : res[t] # slot

(* A call that ends with a low-fat slot got one that is larger than what   *)
(* the caller asked for (the padding of libfunctions.c:122 makes the       *)
(* one-past-the-end pointer fall into the same slot) and that is aligned   *)
(* as the caller asked, also by aligned_alloc and pvalloc, which do not    *)
(* pass the alignment on.  A size of SIZE_MAX is padded to 0: no promise.  *)
GrantSuits ==
  \A t \in Threads : pc[t] = "ret" /\ res[t] \in Slots /\ req[t].size # SizeMax =>
    /\ req[t].need < SlotSize(res[t][1])
    /\ IsAligned(Offset(res[t][1], res[t][2]), req[t].align)

(* A realloc that fails leaves the old block to the caller: it is freed    *)
(* only once a new one is in hand (libfunctions.c:282-287).                *)
ReallocKeepsOld ==
  [][\A t \in Threads :
       req[t].op = "realloc" /\ arg[t] # None /\ req[t].size > 0 /\ arg'[t] = None
         => res'[t] # None \/ pc'[t] = "idle"]_vars

(* Every critical section ends: the search for an aligned slot is finite   *)
(* and nothing in it waits.                                                *)
CriticalSectionEnds == \A t \in Threads : Critical(t) ~> ~Critical(t)

(* The allocator as a whole never stalls: again and again there is a       *)
(* thread that is not inside a call, also when all threads compete for the *)
(* mutex and the region they want is full.                                 *)
CallsKeepReturning == []<>(\E t \in Threads : pc[t] = "idle")

(* "pointers pointing to the next free memory space for each region"       *)
(* (libfunctions.c:29): when no call is in its critical section, nothing   *)
(* at or above regions[z] is on the free list.                             *)
RegionsPointAtFreeSpace ==
  mutex = None => \A z \in Regions : \A k \in Listed(z) : k < regions[z]

(* HEAP_REGION_SIZE is "the amount of storage reserved for allocations" of *)
(* the heap in a region (lowfat/README.md): heap slots stay inside it.     *)
HeapStaysInItsArea ==
  \A slot \in live \cap Slots : Offset(slot[1], slot[2] + 1) <= HeapRegionSize
=============================================================================
