---------------------------- MODULE LowFatSizes ----------------------------
(***************************************************************************)
(* Size classes of the low-fat allocator: the arithmetic that relates a    *)
(* requested size, the region that serves it and the size of the slots in  *)
(* that region.  Both build variants are here: MIRT_LF_TABLE (sizes read   *)
(* from a table that has a dummy entry 0, so region indices start at one)  *)
(* and MIRT_LF_COMPUTED_SIZE (sizes recomputed, indices start at zero).    *)
(***************************************************************************)
EXTENDS Integers

CONSTANTS
  Table,        \* TRUE in the MIRT_LF_TABLE build, FALSE in the computed one
  MinAllocLog,  \* MIN_ALLOC_SIZE_LOG
  NumRegions,   \* NUM_REGIONS, one region per power-of-two size
  WordBits      \* width of size_t (64 in the code)

ASSUME SizesAssumption ==
  /\ Table \in BOOLEAN
  /\ MinAllocLog \in Nat
  /\ NumRegions \in Nat \ {0}
  /\ WordBits \in Nat \ {0}
  /\ MinAllocLog + NumRegions < WordBits    \* the static_assert of the tables

(* What a power of two is: the provers know nothing else of them. *)
ASSUME PowersOfTwo == \A k \in 0 .. WordBits : 2^(k + 1) = 2 * 2^k

SizeMax == 2^WordBits - 1

(* size_t arithmetic *)
Wrap(n) == n % (SizeMax + 1)

(* __lowfat_is_aligned, for the powers of two it is called with *)
IsAligned(value, alignment) == value % alignment = 0

IsPowerOf2(value) == \E k \in 0 .. WordBits - 1 : value = 2^k

(* 64 - __builtin_clzll(size), for size # 0 *)
BitLength(size) == CHOOSE k \in 1 .. WordBits : 2^(k-1) <= size /\ size < 2^k

IndexForSize(size) ==
  LET index == BitLength(size) - MinAllocLog
      exact == IsPowerOf2(size)
  IN  IF Table
      THEN IF index <= 0 THEN 1 ELSE IF exact THEN index ELSE index + 1
      ELSE LET shifted == IF exact THEN index - 1 ELSE index
           IN  IF shifted < 0 THEN 0 ELSE shifted

PtrSize(index) ==
  IF Table
  THEN IF index \in 1 .. NumRegions THEN 2^(MinAllocLog + index - 1) ELSE SizeMax
  ELSE 2^(MinAllocLog + index)

ZeroBasedIndex(index) == IF Table THEN index - 1 ELSE index

-----------------------------------------------------------------------------
(* Regions by zero-based index, and the size of the slots in each          *)
Regions == 0 .. NumRegions - 1

RegionIndex(z) == IF Table THEN z + 1 ELSE z

SlotSize(z) == PtrSize(RegionIndex(z))

(* The regions a padded size can be sent to.  __builtin_clzll(0) is        *)
(* undefined, so a padded size that wrapped to zero may yield any of them. *)
ClassesFor(padded) ==
  IF padded = 0 THEN Regions ELSE {ZeroBasedIndex(IndexForSize(padded))}
=============================================================================
