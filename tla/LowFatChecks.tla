---------------------------- MODULE LowFatChecks ----------------------------
(***************************************************************************)
(* The checks of the low-fat run-time (lowfat/src/table_sizes.c and        *)
(* computed_sizes.c), which recompute the object of a witness from its     *)
(* address alone, over the regions in which LowFatHeap hands out slots,    *)
(* and the tables that place stack objects in those regions                *)
(* (stack_utils.c, generate_sizes_header_and_linker_script.py).            *)
(***************************************************************************)
EXTENDS LowFatHeap

(* Regions hold whole slots, and the last of them, which has the stack,    *)
(* ends within the address space.                                          *)
ASSUME SpaceAssumption ==
  /\ \A z \in Regions : RegionSize % SlotSize(z) = 0
  /\ (NumRegions + 2) * RegionSize <= SizeMax + 1

Addresses == 0 .. SizeMax

(* Region z is the (z + 1)-th stretch of RegionSize bytes: region_address *)
Address(slot) == (slot[1] + 1) * RegionSize + Offset(slot[1], slot[2])

Bytes(slot) == Address(slot) .. Address(slot) + SlotSize(slot[1]) - 1

(* Faulty variant: regions are counted from zero in the table build, too. *)
PtrIndex_ZeroBased(ptr) == Wrap(ptr \div RegionSize - 1)

PtrIndex(ptr) == IF Table THEN ptr \div RegionSize ELSE Wrap(ptr \div RegionSize - 1)

LowFatIndex(index) == IF Table THEN index \in 1 .. NumRegions ELSE index < NumRegions

(* The magic of a low-fat region clears the offset in the slot; that of    *)
(* any other region clears everything.                                     *)
PtrBase(ptr, index) == IF LowFatIndex(index) THEN ptr - (ptr % PtrSize(index)) ELSE 0

(* The computed build skips pointers that are not low-fat; in the table    *)
(* build their size is SIZE_MAX.                                           *)
Checked(index) == Table \/ LowFatIndex(index)

(* Faulty variant: the width of the access is not subtracted. *)
Exceeds_Width(distance, size, width) == Wrap(distance) > size

(* Without MIRT_REPORT_PTR_OVERFLOW the difference may wrap. *)
Exceeds(distance, size, width) == Wrap(distance) > Wrap(size - width)

(* What each check refuses.  The first is given the object's base. *)
RefusesDeref(base, ptr, width) ==
  Checked(PtrIndex(base)) /\ Exceeds(ptr - base, PtrSize(PtrIndex(base)), width)

RefusesInner(witness, ptr, width) ==
  LET index == PtrIndex(witness)
  IN  Checked(index) /\ Exceeds(ptr - PtrBase(witness, index), PtrSize(index), width)

RefusesOob(witness, ptr) == RefusesInner(witness, ptr, 1)

LowerBound(ptr) == PtrBase(ptr, PtrIndex(ptr))

UpperBound(ptr) ==
  LET index == PtrIndex(ptr)
      base  == PtrBase(ptr, index)
  IN  IF LowFatIndex(index) /\ base # 0 THEN base + PtrSize(index) ELSE SizeMax

-----------------------------------------------------------------------------
(* Stack objects: instrumented code looks size, mask and offset up by the  *)
(* leading zeros of an object's size, aligns the stack pointer and uses    *)
(* the object through its mirror in the region of that size.               *)

MaxStackAlloc == MaxHeapAlloc    \* equal in lf_config.json

BaseStackRegion == NumRegions + 1

(* Zero: the object stays an ordinary one. *)
StackSize(size) ==
  LET class == 2^BitLength(size)
  IN  IF class < 2^MinAllocLog THEN 2^MinAllocLog
      ELSE IF class > MaxStackAlloc THEN 0 ELSE class

StackOffset(size) ==
  ((BitLength(StackSize(size)) - 1) - (NumRegions + MinAllocLog)) * RegionSize

ComputeAligned(ptr, size) == ptr - (ptr % StackSize(size))

Mirror(ptr, offset) == ptr + offset

-----------------------------------------------------------------------------
(* Properties *)

(* Which accesses the checks must refuse when an object is the given bytes *)
ExactlyBounds(object, base, slotSize) ==
  /\ \A ptr \in Addresses, width \in 1 .. slotSize :
       /\ RefusesDeref(base, ptr, width) <=> ~(ptr .. ptr + width - 1 \subseteq object)
       /\ \A witness \in object :
            RefusesInner(witness, ptr, width) <=> ~(ptr .. ptr + width - 1 \subseteq object)
  /\ \A witness \in object :
       /\ \A ptr \in Addresses : RefusesOob(witness, ptr) <=> ptr \notin object
       /\ LowerBound(witness) = base /\ UpperBound(witness) = base + slotSize

SlotsBounded == \A s \in Slots : ExactlyBounds(Bytes(s), Address(s), SlotSize(s[1]))

StackPointers == BaseStackRegion * RegionSize .. BaseStackRegion * RegionSize + RegionSize - 1

StackObjectSuits(size, ptr) ==
  LET object == Mirror(ComputeAligned(ptr, size), StackOffset(size))
  IN  /\ size < StackSize(size)
      /\ object % RegionSize = ComputeAligned(ptr, size) % RegionSize
      /\ ExactlyBounds(object .. object + StackSize(size) - 1, object, StackSize(size))

StackObjectsSuit ==
  \A size \in 1 .. MaxStackAlloc, ptr \in StackPointers :
    StackSize(size) # 0 => StackObjectSuits(size, ptr)

(* The allocator, the generated stack tables and the checks agree on the   *)
(* layout although each recomputes it: from any address in a slot, or in   *)
(* the mirror of a stack object wherever the stack pointer stands, the     *)
(* checks find that object and let through exactly the accesses inside it; *)
(* a mirror is as far into its region as the stack is into its own; and a  *)
(* block that a call is about to return lets through every byte that was   *)
(* asked for and the pointer past their end (table_sizes.c:64-156,         *)
(* computed_sizes.c:55-150, libfunctions.c:116-180, stack_utils.c:8-22).   *)
ObjectsBounded ==
  /\ SlotsBounded /\ StackObjectsSuit
  /\ \A t \in Threads : pc[t] = "ret" /\ res[t] \in Slots /\ req[t].size # SizeMax =>
       \A i \in 0 .. req[t].need : \A witness \in Bytes(res[t]) :
         /\ ~RefusesOob(witness, Address(res[t]) + i)
         /\ i < req[t].need => ~RefusesInner(witness, Address(res[t]) + i, 1)
=============================================================================
