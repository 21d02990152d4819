-------------------------- MODULE LowFatHeapProofs --------------------------
(***************************************************************************)
(* Proofs about LowFatHeap, for every number of threads, regions and       *)
(* slots and for every set of requests: no slot is handed out twice, none  *)
(* is lost, memory in use is mapped, and a realloc that fails leaves the   *)
(* old block alone.                                                        *)
(***************************************************************************)
EXTENDS LowFatHeap, TLAPS, WellFoundedInduction

(* Powers of two and size classes                                          *)

(* Induction over a set: the provers cannot take a predicate.              *)
LEMMA Induction ==
  ASSUME NEW S \in SUBSET Nat, NEW m \in Nat, 0 \in S, \A n \in S : n < m => n + 1 \in S
  PROVE  0 .. m \subseteq S
<1> DEFINE T == (0 .. m) \ S
<1>1. SUFFICES ASSUME T # {} PROVE FALSE
  OBVIOUS
<1>2. T \in SUBSET Nat
  OBVIOUS
<1> HIDE DEF T
<1>3. PICK x \in T : \A y \in T : ~ (<<y, x>> \in OpToRel(<, Nat))
  BY <1>1, <1>2, NatLessThanWellFounded, WFMin, Zenon
<1> USE DEF T
<1>4. x \in Nat /\ x # 0 /\ x <= m /\ x \notin S
  OBVIOUS
<1>5. x - 1 \in 0 .. m /\ x - 1 < x
  BY <1>4
<1>6. <<x - 1, x>> \in OpToRel(<, Nat)
  BY <1>4, <1>5 DEF OpToRel
<1>7. x - 1 \notin T
  BY <1>3, <1>6, Zenon
<1> QED BY <1>4, <1>5, <1>7

Exponents == 0 .. WordBits

LEMMA PowerStep == \A k \in Exponents : 2^(k + 1) = 2 * 2^k
  BY PowersOfTwo DEF Exponents

LEMMA PowerPositive == \A k \in Exponents : 2^k \in Nat /\ 2^k >= 1 /\ 2^k > k
<1> DEFINE S == {k \in Exponents : 2^k \in Nat /\ 2^k >= 1 /\ 2^k > k}
<1>1. 2^0 = 1
  OBVIOUS
<1>2. WordBits \in Nat
  BY SizesAssumption
<1>3. 0 \in S
  BY <1>1, <1>2 DEF Exponents
<1>4. ASSUME NEW n \in S, n < WordBits PROVE n + 1 \in S
  <2>1. n \in Exponents /\ n + 1 \in Exponents
    BY <1>2, <1>4 DEF Exponents
  <2>2. 2^(n + 1) = 2 * 2^n
    BY <2>1, PowerStep
  <2>3. 2^n \in Nat /\ 2^n >= 1 /\ 2^n > n /\ n \in Nat
    BY <1>2, <1>4 DEF Exponents
  <2> QED BY <2>1, <2>2, <2>3
<1>5. S \subseteq Nat
  BY <1>2 DEF Exponents
<1> HIDE DEF S
<1>6. Exponents \subseteq S
  BY <1>2, <1>3, <1>4, <1>5, Induction DEF Exponents
<1> QED BY <1>6 DEF S

(* A power of two divides every greater one.                               *)
LEMMA PowerDivides ==
  ASSUME NEW a \in Exponents, NEW b \in Exponents, a <= b
  PROVE  \E q \in Nat : q >= 1 /\ 2^b = q * 2^a
<1> DEFINE S == {n \in Nat : a + n \in Exponents => \E q \in Nat : q >= 1 /\ 2^(a + n) = q * 2^a}
<1>1. WordBits \in Nat /\ a \in Nat /\ b \in Nat /\ b - a \in Nat
  BY SizesAssumption DEF Exponents
<1>2. 0 \in S
  <2>1. a + 0 = a /\ 2^a \in Nat
    BY <1>1, PowerPositive
  <2>2. 2^(a + 0) = 1 * 2^a
    BY <2>1
  <2> QED BY <2>2
<1>3. ASSUME NEW n \in S PROVE n + 1 \in S
  <2>1. SUFFICES ASSUME a + (n + 1) \in Exponents
                 PROVE  \E q \in Nat : q >= 1 /\ 2^(a + (n + 1)) = q * 2^a
    OBVIOUS
  <2>2. a + n \in Exponents /\ a + (n + 1) = (a + n) + 1
    BY <1>1, <2>1 DEF Exponents
  <2>3. PICK q \in Nat : q >= 1 /\ 2^(a + n) = q * 2^a
    BY <2>2
  <2>4. 2^(a + (n + 1)) = 2 * (q * 2^a)
    BY <2>2, <2>3, PowerStep
  <2>5. 2^a \in Nat
    BY PowerPositive
  <2>6. \A x \in Nat : 2 * (q * x) = (2 * q) * x
    OBVIOUS
  <2>7. 2^(a + (n + 1)) = (2 * q) * 2^a
    BY <2>4, <2>5, <2>6
  <2>8. 2 * q \in Nat /\ 2 * q >= 1
    BY <2>3
  <2> QED BY <2>7, <2>8, Zenon
<1>4. S \subseteq Nat
  OBVIOUS
<1> HIDE DEF S
<1>5. 0 .. (b - a) \subseteq S
  BY <1>1, <1>2, <1>3, <1>4, Induction
<1>6. b - a \in S /\ a + (b - a) = b
  BY <1>1, <1>5
<1> USE DEF S
<1> QED BY <1>6

LEMMA PowerMonotone ==
  ASSUME NEW a \in Exponents, NEW b \in Exponents, a <= b
  PROVE  2^a <= 2^b
<1>1. PICK q \in Nat : q >= 1 /\ 2^b = q * 2^a
  BY PowerDivides
<1>2. 2^a \in Nat
  BY PowerPositive
<1>3. \A x \in Nat : q * x >= x
  BY <1>1
<1> QED BY <1>1, <1>2, <1>3

LEMMA PowerReflects ==
  ASSUME NEW a \in Exponents, NEW b \in Exponents, 2^a < 2^b
  PROVE  a < b
<1>1. a \in Nat /\ b \in Nat
  BY DEF Exponents
<1>2. 2^a \in Nat /\ 2^b \in Nat
  BY PowerPositive
<1>3. CASE b <= a
  BY <1>2, <1>3, PowerMonotone
<1> QED BY <1>1, <1>3

LEMMA SizeMaxes == 2^WordBits \in Nat /\ SizeMax \in Nat \ {0} /\ SizeMax + 1 = 2^WordBits /\ SizeMax >= WordBits
<1>1. WordBits \in Exponents /\ WordBits \in Nat /\ WordBits >= 1
  BY SizesAssumption DEF Exponents
<1>2. 2^WordBits \in Nat /\ 2^WordBits > WordBits
  BY <1>1, PowerPositive
<1> QED BY <1>1, <1>2 DEF SizeMax

(* The bits of a number                                                    *)
LEMMA BitLengths ==
  ASSUME NEW size \in 1 .. SizeMax
  PROVE  /\ BitLength(size) \in 1 .. WordBits
         /\ 2^(BitLength(size) - 1) <= size /\ size < 2^BitLength(size)
<1> DEFINE S == {k \in Exponents : size >= 2^k}
<1>1. WordBits \in Nat /\ WordBits >= 1
  BY SizesAssumption
<1>2. size \in Nat /\ size < 2^WordBits
  BY SizeMaxes
<1>3. \E k \in 1 .. WordBits : 2^(k - 1) <= size /\ size < 2^k
  <2>1. SUFFICES ASSUME \A k \in 1 .. WordBits : ~ (2^(k - 1) <= size /\ size < 2^k) PROVE FALSE
    OBVIOUS
  <2>2. 0 \in S
    <3>1. 2^0 = 1
      OBVIOUS
    <3> QED BY <1>1, <3>1 DEF Exponents
  <2>3. ASSUME NEW n \in S, n < WordBits PROVE n + 1 \in S
    <3>1. n + 1 \in 1 .. WordBits /\ (n + 1) - 1 = n /\ n + 1 \in Exponents
      BY <1>1, <2>3 DEF Exponents
    <3>2. 2^n <= size
      OBVIOUS
    <3>3. ~ (size < 2^(n + 1))
      BY <2>1, <3>1, <3>2
    <3>4. 2^(n + 1) \in Nat
      BY <3>1, PowerPositive
    <3> QED BY <1>2, <3>1, <3>3, <3>4
  <2>4. S \subseteq Nat
    BY DEF Exponents
  <2> HIDE DEF S
  <2>5. 0 .. WordBits \subseteq S
    BY <1>1, <2>2, <2>3, <2>4, Induction
  <2>6. WordBits \in S
    BY <1>1, <2>5
  <2>7. size >= 2^WordBits
    BY <2>6 DEF S
  <2> QED BY <1>2, <2>7, SizeMaxes
<1> QED BY <1>3, Zenon DEF BitLength

LEMMA PowerStrict ==
  ASSUME NEW a \in Exponents, NEW b \in Exponents, a < b
  PROVE  2^a < 2^b
<1>1. a \in Nat /\ b \in Nat /\ a + 1 \in Exponents /\ a + 1 <= b
  BY SizesAssumption DEF Exponents
<1>2. 2^(a + 1) = 2 * 2^a /\ 2^a \in Nat /\ 2^a >= 1
  BY PowerStep, PowerPositive
<1>3. 2^(a + 1) <= 2^b /\ 2^b \in Nat
  BY <1>1, PowerMonotone, PowerPositive
<1> QED BY <1>2, <1>3

(* The slots of a region have a power of two of bytes.                     *)
LEMMA SlotPowers ==
  /\ MinAllocLog \in Nat /\ NumRegions \in Nat
  /\ \A z \in Regions :
       /\ z \in Nat /\ z < NumRegions
       /\ MinAllocLog + z \in Exponents /\ MinAllocLog + z < WordBits
       /\ SlotSize(z) = 2^(MinAllocLog + z)
       /\ SlotSize(z) \in Nat \ {0} /\ SlotSize(z) <= SizeMax
<1>1. /\ MinAllocLog \in Nat /\ NumRegions \in Nat /\ WordBits \in Nat /\ Table \in BOOLEAN
      /\ MinAllocLog + NumRegions < WordBits
  BY SizesAssumption
<1>2. ASSUME NEW z \in Regions
      PROVE  /\ z \in Nat /\ z < NumRegions
             /\ MinAllocLog + z \in Exponents /\ MinAllocLog + z < WordBits
             /\ SlotSize(z) = 2^(MinAllocLog + z)
             /\ SlotSize(z) \in Nat \ {0} /\ SlotSize(z) <= SizeMax
  <2>1. z \in Nat /\ z < NumRegions /\ MinAllocLog + z \in Exponents /\ MinAllocLog + z < WordBits
    BY <1>1 DEF Regions, Exponents
  <2>2. Table => SlotSize(z) = 2^(MinAllocLog + z)
    <3> HAVE Table
    <3>1. z + 1 \in 1 .. NumRegions /\ MinAllocLog + (z + 1) - 1 = MinAllocLog + z
      BY <1>1, <2>1
    <3>2. SlotSize(z) = 2^(MinAllocLog + (z + 1) - 1)
      BY <3>1 DEF SlotSize, RegionIndex, PtrSize
    <3> QED BY <3>1, <3>2, Zenon
  <2>3. SlotSize(z) = 2^(MinAllocLog + z)
    BY <1>1, <2>2 DEF SlotSize, RegionIndex, PtrSize
  <2>4. 2^(MinAllocLog + z) \in Nat /\ 2^(MinAllocLog + z) >= 1
    BY <2>1, PowerPositive
  <2>5. WordBits \in Exponents
    BY <1>1 DEF Exponents
  <2>6. 2^(MinAllocLog + z) < 2^WordBits
    BY <2>1, <2>5, PowerStrict
  <2> QED BY <2>1, <2>3, <2>4, <2>6, SizeMaxes
<1> QED BY <1>1, <1>2

(* A number is a power of two when it is the smallest of its length.       *)
LEMMA ExactPowers ==
  ASSUME NEW size \in 1 .. SizeMax
  PROVE  IsPowerOf2(size) <=> size = 2^(BitLength(size) - 1)
<1> DEFINE k == BitLength(size)
<1>1. k \in 1 .. WordBits /\ 2^(k - 1) <= size /\ size < 2^k /\ WordBits \in Nat
  BY BitLengths, SizesAssumption
<1> HIDE DEF k
<1>2. k - 1 \in 0 .. WordBits - 1 /\ k - 1 \in Exponents /\ k \in Exponents
  BY <1>1 DEF Exponents
<1>3. ASSUME NEW j \in 0 .. WordBits - 1, size = 2^j PROVE j = k - 1
  <2>1. j \in Exponents /\ j \in Nat /\ 2^j \in Nat /\ 2^k \in Nat /\ 2^(k - 1) \in Nat
    BY <1>1, <1>2, PowerPositive DEF Exponents
  <2>2. j < k
    BY <1>1, <1>2, <1>3, <2>1, PowerReflects
  <2>3. CASE j < k - 1
    BY <1>1, <1>2, <1>3, <2>1, <2>3, PowerStrict
  <2> QED BY <1>1, <2>1, <2>2, <2>3
<1>4. IsPowerOf2(size) => size = 2^(k - 1)
  BY <1>3 DEF IsPowerOf2
<1>5. size = 2^(k - 1) => IsPowerOf2(size)
  BY <1>2 DEF IsPowerOf2
<1> QED BY <1>4, <1>5 DEF k

(* A size is sent to a region, and fits into its slots.                    *)
LEMMA ClassFits ==
  ASSUME NEW padded \in 1 .. MaxHeapAlloc, NEW z \in ClassesFor(padded)
  PROVE  z \in Regions /\ padded <= SlotSize(z)
<1> DEFINE k == BitLength(padded)
           e == IsPowerOf2(padded)
<1>0. padded \in 1 .. SizeMax
  BY SizeMaxes, HeapAssumption
<1>1. /\ k \in 1 .. WordBits /\ 2^(k - 1) <= padded /\ padded < 2^k
      /\ e <=> padded = 2^(k - 1)
  BY <1>0, BitLengths, ExactPowers
<1>2. /\ MinAllocLog \in Nat /\ NumRegions \in Nat \ {0} /\ WordBits \in Nat /\ Table \in BOOLEAN
      /\ MinAllocLog + NumRegions < WordBits
  BY SizesAssumption
<1>3. z = ZeroBasedIndex(IndexForSize(padded))
  BY DEF ClassesFor
<1>4. z = IF k - MinAllocLog <= 0 THEN 0 ELSE IF e THEN k - MinAllocLog - 1 ELSE k - MinAllocLog
  BY <1>1, <1>2, <1>3 DEF ZeroBasedIndex, IndexForSize
<1> HIDE DEF k, e
<1>5. k - 1 \in Exponents /\ k \in Exponents /\ MinAllocLog \in Exponents
      /\ MinAllocLog + NumRegions - 1 \in Exponents
  BY <1>1, <1>2 DEF Exponents
<1>6. /\ 2^(k - 1) \in Nat /\ 2^k \in Nat /\ 2^MinAllocLog \in Nat
      /\ 2^(MinAllocLog + NumRegions - 1) \in Nat
  BY <1>5, PowerPositive
<1>7. padded <= 2^(MinAllocLog + NumRegions - 1)
  BY <1>6, ClassAssumption, HeapAssumption, SizeMaxes
<1>8. CASE k - MinAllocLog <= 0
  <2>1. z = 0 /\ z \in Regions /\ SlotSize(z) = 2^MinAllocLog
    BY <1>2, <1>4, <1>8, SlotPowers DEF Regions
  <2>2. 2^k <= 2^MinAllocLog
    BY <1>1, <1>2, <1>5, <1>8, PowerMonotone
  <2> QED BY <1>1, <1>6, <2>1, <2>2
<1>9. CASE k - MinAllocLog > 0 /\ e
  <2>1. z = k - MinAllocLog - 1 /\ z \in Nat /\ MinAllocLog + z = k - 1
    BY <1>1, <1>2, <1>4, <1>9
  <2>2. ~ (MinAllocLog + NumRegions - 1 < k - 1)
    <3> SUFFICES ASSUME MinAllocLog + NumRegions - 1 < k - 1 PROVE FALSE
      OBVIOUS
    <3>1. 2^(MinAllocLog + NumRegions - 1) < 2^(k - 1)
      BY <1>5, PowerStrict
    <3> QED BY <1>1, <1>6, <1>7, <1>9, <3>1
  <2>3. z \in Regions
    BY <1>1, <1>2, <2>1, <2>2 DEF Regions
  <2> QED BY <1>1, <1>9, <2>1, <2>3, SlotPowers
<1>10. CASE k - MinAllocLog > 0 /\ ~e
  <2>1. z = k - MinAllocLog /\ z \in Nat /\ MinAllocLog + z = k
    BY <1>1, <1>2, <1>4, <1>10
  <2>2. 2^(k - 1) < 2^(MinAllocLog + NumRegions - 1)
    BY <1>1, <1>6, <1>7, <1>10
  <2>3. k - 1 < MinAllocLog + NumRegions - 1
    BY <1>5, <2>2, PowerReflects
  <2>4. z \in Regions
    BY <1>1, <1>2, <2>1, <2>3 DEF Regions
  <2> QED BY <1>1, <1>6, <2>1, <2>4, SlotPowers
<1> QED BY <1>1, <1>2, <1>8, <1>9, <1>10

LEMMA ClassRegions == \A padded \in 0 .. MaxHeapAlloc : ClassesFor(padded) \subseteq Regions
<1>1. MaxHeapAlloc \in Nat
  BY SizeMaxes, HeapAssumption
<1>2. ASSUME NEW padded \in 0 .. MaxHeapAlloc, padded # 0 PROVE padded \in 1 .. MaxHeapAlloc
  BY <1>1, <1>2
<1> QED BY <1>2, ClassFits DEF ClassesFor
-----------------------------------------------------------------------------
(* What calls have in their locals                                         *)

(* What a thread's locals hold at each point of a call. *)
LocalsOK(t) ==
  /\ pc[t] \in {"popped", "skip", "push"} => <<zi[t], cur[t]>> \in Slots
  /\ pc[t] \in {"skip", "push"} => top[t] = freeList[zi[t]]
  /\ pc[t] = "push" => arg[t] = <<zi[t], cur[t]>>
  /\ pc[t] \in {"fresh", "skip"} => cur[t] >= regions[zi[t]]
  /\ pc[t] = "libcRealloc" => arg[t] \in LibcBlocks
  /\ hooks[t] <=> pc[t] = "idle"

ListsOK == \A z \in Regions : \A i \in DOMAIN freeList[z] : <<z, freeList[z][i]>> \in Slots

TypeInv == TypeOK /\ ListsOK /\ HolderBypassesHooks /\ \A t \in Threads : LocalsOK(t)

(* Table entries and offsets are numbers. *)
LEMMA SlotSizePositive == \A z \in Regions : SlotSize(z) \in Nat \ {0}
  BY SlotPowers

LEMMA OffsetNat == \A z \in Regions, k \in Nat : Offset(z, k) \in Nat /\ Offset(z, k) >= k
  <1> SUFFICES ASSUME NEW z \in Regions, NEW k \in Nat
               PROVE  Offset(z, k) \in Nat /\ Offset(z, k) >= k
    OBVIOUS
  <1> DEFINE s == SlotSize(z)
  <1>1. s \in Nat /\ s >= 1
    BY SlotSizePositive
  <1>2. \A n \in Nat : n >= 1 => k * n \in Nat /\ k * n >= k
    OBVIOUS
  <1> QED BY <1>1, <1>2 DEF Offset

(* A slot the full check lets through is a slot of the region. *)
LEMMA NotFullIsSlot ==
  ASSUME NEW z \in Regions, NEW k \in Nat, ~(Offset(z, k) >= RegionSize)
  PROVE  <<z, k>> \in Slots
  <1>1. Offset(z, k) \in Nat /\ Offset(z, k) >= k /\ Offset(z, k) < RegionSize
    BY OffsetNat, HeapAssumption
  <1>2. k \in 0 .. RegionSize
    BY <1>1, HeapAssumption
  <1> QED BY <1>1, <1>2 DEF Slots

LEMMA WrapNat == \A n \in Nat : Wrap(n) \in Nat
  BY SizeMaxes DEF Wrap

(* Released looks a zero-based index up: in the table build the one before *)
(* the region's, which for the first region is the dummy entry.            *)
LEMMA ReleasedNat == \A z \in Regions : Released(z) \in Nat
  <1> SUFFICES ASSUME NEW z \in Regions PROVE PtrSize(z) \in Nat
    BY DEF Released
  <1>1. MinAllocLog \in Nat /\ z \in Nat /\ z < NumRegions /\ NumRegions \in Nat
    BY SlotPowers
  <1>2. CASE Table /\ z \in 1 .. NumRegions
    <2>1. z - 1 \in Regions /\ MinAllocLog + (z - 1) = MinAllocLog + z - 1
      BY <1>1, <1>2 DEF Regions
    <2>2. MinAllocLog + z - 1 \in Exponents
      BY <2>1, SlotPowers
    <2> QED BY <1>2, <2>2, PowerPositive DEF PtrSize
  <1>3. CASE Table /\ z \notin 1 .. NumRegions
    BY <1>3, SizeMaxes DEF PtrSize
  <1>4. CASE ~Table
    BY <1>4, SlotPowers, PowerPositive DEF PtrSize
  <1> QED BY <1>2, <1>3, <1>4

LEMMA SeqEntry == \A s \in Seq(Nat) : \A i \in DOMAIN s : s[i] \in Nat
  OBVIOUS

LEMMA AppendEntry ==
  ASSUME NEW s \in Seq(Nat), NEW k \in Nat
  PROVE  \A i \in DOMAIN Append(s, k) :
           \/ i = Len(s) + 1 /\ Append(s, k)[i] = k
           \/ i \in DOMAIN s /\ Append(s, k)[i] = s[i]
  <1> SUFFICES ASSUME NEW i \in DOMAIN Append(s, k)
               PROVE  \/ i = Len(s) + 1 /\ Append(s, k)[i] = k
                      \/ i \in DOMAIN s /\ Append(s, k)[i] = s[i]
    OBVIOUS
  <1>1. i \in 1 .. Len(s) + 1 /\ DOMAIN s = 1 .. Len(s) /\ Len(s) \in Nat
    OBVIOUS
  <1>2. CASE i = Len(s) + 1
    BY <1>2
  <1>3. CASE i \in 1 .. Len(s)
    BY <1>1, <1>3
  <1> QED BY <1>1, <1>2, <1>3

LEMMA PagePower == PageSize \in Nat \ {0}
<1>1. PICK k \in 0 .. WordBits - 1 : PageSize = 2^k
  BY HeapAssumption DEF IsPowerOf2
<1>2. k \in Exponents
  BY SizesAssumption DEF Exponents
<1> QED BY <1>1, <1>2, PowerPositive

LEMMA RoundedNat == \A n \in Nat : \A m \in Nat \ {0} : n - (n % m) \in Nat
  OBVIOUS

-----------------------------------------------------------------------------
(* Entering a call: the arguments are well typed and the thread starts     *)
(* outside its critical section.                                           *)
Entry == {"alloc", "fallback", "libcRealloc", "free", "ret"}

LEMMA CallTyped ==
  ASSUME TypeInv, NEW t \in Threads,
         NEW op, NEW size \in Nat, NEW need \in Nat, NEW align \in Nat, NEW pass \in Nat,
         NEW ptr \in live \cup {None}, NEW label \in Entry,
         label = "libcRealloc" => ptr \in LibcBlocks,
         Call(t, Request(op, size, need, align, pass), ptr, label)
  PROVE  TypeInv'
  <1> USE DEF Call, Goto, shared, locals, ClearHooks
  <1>0. Request(op, size, need, align, pass) \in Requests
    BY DEF Request, Requests
  <1>1. TypeOK'
    BY <1>0 DEF TypeInv, TypeOK, Labels, Entry
  <1>2. ListsOK'
    BY DEF TypeInv, ListsOK
  <1>3. HolderBypassesHooks'
    BY DEF TypeInv, TypeOK, HolderBypassesHooks, Critical, Entry
  <1>4. ASSUME NEW u \in Threads PROVE LocalsOK(u)'
    BY DEF TypeInv, TypeOK, LocalsOK, Entry
  <1> QED BY <1>1, <1>2, <1>3, <1>4 DEF TypeInv

LEMMA EnterTyped ==
  ASSUME TypeInv, NEW t \in Threads, Enter(t)
  PROVE  TypeInv'
  <1>a. Sizes \subseteq Nat /\ Aligns \subseteq Nat /\ PageSize \in Nat \ {0}
    BY HeapAssumption, PagePower, SizeMaxes
  <1>1. CASE Malloc(t)
    BY <1>1, <1>a, CallTyped DEF Malloc, Entry
  <1>2. CASE Calloc(t)
    <2>1. \A n, size \in Sizes : n * size \in Nat
      BY <1>a
    <2> QED BY <1>2, <1>a, <2>1, WrapNat, CallTyped DEF Calloc, Entry
  <1>3. CASE Realloc(t)
    BY <1>3, <1>a, CallTyped DEF Realloc, Entry
  <1>4. CASE AlignedAlloc(t)
    BY <1>4, <1>a, CallTyped DEF AlignedAlloc, Entry
  <1>5. CASE PosixMemalign(t)
    BY <1>5, <1>a, CallTyped DEF PosixMemalign, Entry
  <1>6. CASE Memalign(t)
    BY <1>6, <1>a, CallTyped DEF Memalign, Entry
  <1>7. CASE Valloc(t)
    BY <1>7, <1>a, CallTyped DEF Valloc, Entry
  <1>8. CASE Pvalloc(t)
    <2> DEFINE sum(size) == Wrap(size + PageSize - 1)
    <2>1. \A size \in Sizes : size + PageSize - 1 \in Nat
      BY <1>a
    <2>2. \A size \in Sizes : sum(size) \in Nat
      BY <2>1, WrapNat
    <2>3. \A size \in Sizes : sum(size) - (sum(size) % PageSize) \in Nat
      BY <2>2, <1>a, RoundedNat
    <2> QED BY <1>8, <1>a, <2>3, CallTyped DEF Pvalloc, Entry
  <1>9. CASE Free(t)
    BY <1>9, CallTyped DEF Free, Entry
  <1> QED BY <1>1, <1>2, <1>3, <1>4, <1>5, <1>6, <1>7, <1>8, <1>9 DEF Enter
-----------------------------------------------------------------------------
(* The steps of a call. *)

LEMMA AllocRejectTyped ==
  ASSUME TypeInv, NEW t \in Threads, AllocReject(t)
  PROVE  TypeInv'
  <1> USE DEF AllocReject, Goto, shared, locals
  <1>1. TypeOK'
    BY DEF TypeInv, TypeOK, Labels, Blocks
  <1>2. ListsOK'
    BY DEF TypeInv, TypeOK, ListsOK
  <1>3. HolderBypassesHooks'
    BY HeapAssumption DEF TypeInv, TypeOK, HolderBypassesHooks, Critical
  <1>4. ASSUME NEW u \in Threads PROVE LocalsOK(u)'
    BY DEF TypeInv, TypeOK, LocalsOK, HolderBypassesHooks, Critical
  <1> QED BY <1>1, <1>2, <1>3, <1>4 DEF TypeInv

LEMMA AllocLockTyped ==
  ASSUME TypeInv, NEW t \in Threads, AllocLock(t)
  PROVE  TypeInv'
  <1> USE DEF AllocLock, Goto, shared, locals, Lock
  <1>0. Padded(t) \in 0 .. MaxHeapAlloc
    <2>1. req[t].size + 1 \in Nat
      BY DEF TypeInv, TypeOK, Requests
    <2> QED BY <2>1, WrapNat, HeapAssumption, SizeMaxes DEF Padded, Served
  <1>1. TypeOK'
    BY <1>0, ClassRegions DEF TypeInv, TypeOK, Labels, Blocks
  <1>2. ListsOK'
    BY DEF TypeInv, TypeOK, ListsOK
  <1>3. HolderBypassesHooks'
    BY HeapAssumption DEF TypeInv, TypeOK, HolderBypassesHooks, Critical, LocalsOK
  <1>4. ASSUME NEW u \in Threads PROVE LocalsOK(u)'
    BY DEF TypeInv, TypeOK, LocalsOK, HolderBypassesHooks, Critical
  <1> QED BY <1>1, <1>2, <1>3, <1>4 DEF TypeInv

LEMMA PopTakeTyped ==
  ASSUME TypeInv, NEW t \in Threads, PopTake(t)
  PROVE  TypeInv'
  <1> USE DEF PopTake, Goto, shared, locals
  <1> DEFINE z == zi[t]
             n == Len(freeList[z])
  <1>a. z \in Regions /\ freeList[z] \in Seq(Nat) /\ n \in Nat /\ n > 0
    BY DEF TypeInv, TypeOK
  <1>b. freeList[z][n] \in Nat /\ <<z, freeList[z][n]>> \in Slots
    <2>1. n \in DOMAIN freeList[z]
      BY <1>a
    <2>2. freeList[z][n] \in Nat
      BY <1>a, <2>1, SeqEntry
    <2>3. ListsOK
      BY DEF TypeInv
    <2>4. <<z, freeList[z][n]>> \in Slots
      BY <1>a, <2>1, <2>3 DEF ListsOK
    <2> QED BY <2>2, <2>4
  <1>c. /\ SubSeq(freeList[z], 1, n - 1) \in Seq(Nat)
        /\ DOMAIN SubSeq(freeList[z], 1, n - 1) = 1 .. n - 1
        /\ \A i \in 1 .. n - 1 : SubSeq(freeList[z], 1, n - 1)[i] = freeList[z][i]
    BY <1>a
  <1>1. TypeOK'
    BY <1>a, <1>b, <1>c DEF TypeInv, TypeOK, Labels, Blocks
  <1>2. ListsOK'
    <2>1. \A i \in 1 .. n - 1 : i \in DOMAIN freeList[z]
      BY <1>a
    <2> QED BY <1>a, <1>c, <2>1 DEF TypeInv, TypeOK, ListsOK
  <1>3. HolderBypassesHooks'
    BY HeapAssumption DEF TypeInv, TypeOK, HolderBypassesHooks, Critical
  <1>4. ASSUME NEW u \in Threads PROVE LocalsOK(u)'
    <2>1. CASE u = t
      <3>1. <<z, cur'[t]>> \in Slots /\ zi' = zi /\ pc'[t] = "popped" /\ ~hooks'[t]
        BY <1>b DEF TypeInv, TypeOK, HolderBypassesHooks, Critical
      <3> QED BY <2>1, <3>1 DEF LocalsOK
    <2>2. CASE u # t
      <3>1. pc[u] \notin {"skip", "push"}
        BY <2>2, HeapAssumption DEF TypeInv, TypeOK, HolderBypassesHooks, Critical
      <3>2. pc'[u] = pc[u] /\ cur'[u] = cur[u] /\ LocalsOK(u)
        BY <2>2 DEF TypeInv, TypeOK
      <3> QED BY <3>1, <3>2 DEF LocalsOK
    <2> QED BY <2>1, <2>2
  <1> QED BY <1>1, <1>2, <1>3, <1>4 DEF TypeInv

LEMMA PopFinishTyped ==
  ASSUME TypeInv, NEW t \in Threads, PopFinish(t)
  PROVE  TypeInv'
  <1> USE DEF PopFinish, Goto, shared, locals, Granted, Reprotect
  <1>a. <<zi[t], cur[t]>> \in Slots
    BY DEF TypeInv, LocalsOK
  <1>b. released' \in [Slots -> Nat]
    BY <1>a DEF TypeInv, TypeOK
  <1>1. TypeOK'
    BY <1>a, <1>b DEF TypeInv, TypeOK, Labels, Blocks
  <1>2. ListsOK'
    BY DEF TypeInv, TypeOK, ListsOK
  <1>3. HolderBypassesHooks'
    BY HeapAssumption DEF TypeInv, TypeOK, HolderBypassesHooks, Critical
  <1>4. ASSUME NEW u \in Threads PROVE LocalsOK(u)'
    BY DEF TypeInv, TypeOK, LocalsOK, HolderBypassesHooks, Critical
  <1> QED BY <1>1, <1>2, <1>3, <1>4 DEF TypeInv

LEMMA StartFreshTyped ==
  ASSUME TypeInv, NEW t \in Threads, StartFresh(t)
  PROVE  TypeInv'
  <1> USE DEF StartFresh, Goto, shared, locals
  <1>1. TypeOK'
    BY DEF TypeInv, TypeOK, Labels, Blocks
  <1>2. ListsOK'
    BY DEF TypeInv, TypeOK, ListsOK
  <1>3. HolderBypassesHooks'
    BY HeapAssumption DEF TypeInv, TypeOK, HolderBypassesHooks, Critical
  <1>4. ASSUME NEW u \in Threads PROVE LocalsOK(u)'
    BY DEF TypeInv, TypeOK, LocalsOK, HolderBypassesHooks, Critical
  <1> QED BY <1>1, <1>2, <1>3, <1>4 DEF TypeInv

LEMMA FreshFullTyped ==
  ASSUME TypeInv, NEW t \in Threads, FreshFull(t)
  PROVE  TypeInv'
  <1> USE DEF FreshFull, Goto, shared, locals
  <1>1. TypeOK'
    BY DEF TypeInv, TypeOK, Labels, Blocks
  <1>2. ListsOK'
    BY DEF TypeInv, TypeOK, ListsOK
  <1>3. HolderBypassesHooks'
    BY HeapAssumption DEF TypeInv, TypeOK, HolderBypassesHooks, Critical
  <1>4. ASSUME NEW u \in Threads PROVE LocalsOK(u)'
    BY DEF TypeInv, TypeOK, LocalsOK, HolderBypassesHooks, Critical
  <1> QED BY <1>1, <1>2, <1>3, <1>4 DEF TypeInv

LEMMA FreshTakeTyped ==
  ASSUME TypeInv, NEW t \in Threads, FreshTake(t)
  PROVE  TypeInv'
  <1> USE DEF FreshTake, Goto, shared, locals, Granted, NextFresh
  <1>a. <<zi[t], cur[t]>> \in Slots
    BY NotFullIsSlot DEF TypeInv, TypeOK, RegionFull
  <1>b. released' \in [Slots -> Nat]
    BY <1>a DEF TypeInv, TypeOK
  <1>c. regions' \in [Regions -> Nat]
    BY DEF TypeInv, TypeOK
  <1>1. TypeOK'
    BY <1>a, <1>b, <1>c DEF TypeInv, TypeOK, Labels, Blocks
  <1>2. ListsOK'
    BY DEF TypeInv, TypeOK, ListsOK
  <1>3. HolderBypassesHooks'
    BY HeapAssumption DEF TypeInv, TypeOK, HolderBypassesHooks, Critical
  <1>4. ASSUME NEW u \in Threads PROVE LocalsOK(u)'
    BY DEF TypeInv, TypeOK, LocalsOK, HolderBypassesHooks, Critical
  <1> QED BY <1>1, <1>2, <1>3, <1>4 DEF TypeInv

LEMMA FreshSkipTyped ==
  ASSUME TypeInv, NEW t \in Threads, FreshSkip(t)
  PROVE  TypeInv'
  <1> USE DEF FreshSkip, Goto, shared, locals, ReadTop
  <1>1. TypeOK'
    BY DEF TypeInv, TypeOK, Labels, Blocks
  <1>2. ListsOK'
    BY DEF TypeInv, TypeOK, ListsOK
  <1>3. HolderBypassesHooks'
    BY HeapAssumption DEF TypeInv, TypeOK, HolderBypassesHooks, Critical
  <1>a. <<zi[t], cur[t]>> \in Slots
    BY NotFullIsSlot DEF TypeInv, TypeOK, RegionFull
  <1>4. ASSUME NEW u \in Threads PROVE LocalsOK(u)'
    BY <1>a DEF TypeInv, TypeOK, LocalsOK, HolderBypassesHooks, Critical
  <1> QED BY <1>1, <1>2, <1>3, <1>4 DEF TypeInv

LEMMA PushSkippedTyped ==
  ASSUME TypeInv, NEW t \in Threads, PushSkipped(t)
  PROVE  TypeInv'
  <1> USE DEF PushSkipped, Goto, shared, locals, Push
  <1>a. /\ zi[t] \in Regions /\ cur[t] \in Nat
        /\ top[t] = freeList[zi[t]] /\ top[t] \in Seq(Nat)
        /\ <<zi[t], cur[t]>> \in Slots
    BY DEF TypeInv, TypeOK, LocalsOK
  <1>b. released' \in [Slots -> Nat]
    BY <1>a, ReleasedNat DEF TypeInv, TypeOK
  <1>c. Append(top[t], cur[t]) \in Seq(Nat)
    BY <1>a
  <1>1. TypeOK'
    BY <1>a, <1>b, <1>c DEF TypeInv, TypeOK, Labels, Blocks
  <1>2. ListsOK'
    <2>1. \A i \in DOMAIN Append(top[t], cur[t]) :
            \/ i = Len(top[t]) + 1 /\ Append(top[t], cur[t])[i] = cur[t]
            \/ i \in DOMAIN top[t] /\ Append(top[t], cur[t])[i] = top[t][i]
      BY <1>a, AppendEntry, Zenon
    <2> QED BY <1>a, <2>1 DEF TypeInv, TypeOK, ListsOK
  <1>3. HolderBypassesHooks'
    BY HeapAssumption DEF TypeInv, TypeOK, HolderBypassesHooks, Critical
  <1>4. ASSUME NEW u \in Threads PROVE LocalsOK(u)'
    BY DEF TypeInv, TypeOK, LocalsOK, HolderBypassesHooks, Critical
  <1> QED BY <1>1, <1>2, <1>3, <1>4 DEF TypeInv

LEMMA FreeLockTyped ==
  ASSUME TypeInv, NEW t \in Threads, FreeLock(t)
  PROVE  TypeInv'
  <1> USE DEF FreeLock, Goto, shared, locals, Lock, ReadTop, RegionOf
  <1>a. arg[t][1] \in Regions /\ arg[t][2] \in Nat /\ arg[t] = <<arg[t][1], arg[t][2]>>
    BY DEF Slots
  <1>1. TypeOK'
    BY <1>a DEF TypeInv, TypeOK, Labels, Blocks
  <1>2. ListsOK'
    BY DEF TypeInv, TypeOK, ListsOK
  <1>3. HolderBypassesHooks'
    BY HeapAssumption DEF TypeInv, TypeOK, HolderBypassesHooks, Critical, LocalsOK
  <1>4. ASSUME NEW u \in Threads PROVE LocalsOK(u)'
    BY <1>a DEF TypeInv, TypeOK, LocalsOK, HolderBypassesHooks, Critical
  <1> QED BY <1>1, <1>2, <1>3, <1>4 DEF TypeInv

LEMMA PushFreedTyped ==
  ASSUME TypeInv, NEW t \in Threads, PushFreed(t)
  PROVE  TypeInv'
  <1> USE DEF PushFreed, Goto, shared, locals, Push
  <1>a. /\ zi[t] \in Regions /\ cur[t] \in Nat
        /\ top[t] = freeList[zi[t]] /\ top[t] \in Seq(Nat)
        /\ <<zi[t], cur[t]>> \in Slots
    BY DEF TypeInv, TypeOK, LocalsOK
  <1>b. released' \in [Slots -> Nat]
    BY <1>a, ReleasedNat DEF TypeInv, TypeOK
  <1>c. Append(top[t], cur[t]) \in Seq(Nat)
    BY <1>a
  <1>1. TypeOK'
    BY <1>a, <1>b, <1>c DEF TypeInv, TypeOK, Labels, Blocks
  <1>2. ListsOK'
    <2>1. \A i \in DOMAIN Append(top[t], cur[t]) :
            \/ i = Len(top[t]) + 1 /\ Append(top[t], cur[t])[i] = cur[t]
            \/ i \in DOMAIN top[t] /\ Append(top[t], cur[t])[i] = top[t][i]
      BY <1>a, AppendEntry, Zenon
    <2> QED BY <1>a, <2>1 DEF TypeInv, TypeOK, ListsOK
  <1>3. HolderBypassesHooks'
    BY HeapAssumption DEF TypeInv, TypeOK, HolderBypassesHooks, Critical
  <1>4. ASSUME NEW u \in Threads PROVE LocalsOK(u)'
    BY DEF TypeInv, TypeOK, LocalsOK, HolderBypassesHooks, Critical
  <1> QED BY <1>1, <1>2, <1>3, <1>4 DEF TypeInv

LEMMA LibcFreeTyped ==
  ASSUME TypeInv, NEW t \in Threads, LibcFree(t)
  PROVE  TypeInv'
  <1> USE DEF LibcFree, Goto, shared, locals
  <1>1. TypeOK'
    BY DEF TypeInv, TypeOK, Labels, Blocks
  <1>2. ListsOK'
    BY DEF TypeInv, TypeOK, ListsOK
  <1>3. HolderBypassesHooks'
    BY HeapAssumption DEF TypeInv, TypeOK, HolderBypassesHooks, Critical
  <1>4. ASSUME NEW u \in Threads PROVE LocalsOK(u)'
    BY DEF TypeInv, TypeOK, LocalsOK, HolderBypassesHooks, Critical
  <1> QED BY <1>1, <1>2, <1>3, <1>4 DEF TypeInv

LEMMA FallbackTyped ==
  ASSUME TypeInv, NEW t \in Threads, Fallback(t)
  PROVE  TypeInv'
  <1> USE DEF Fallback, Goto, shared, locals, Granted, Answered, LibcAnswer
  <1>a. PICK block \in LibcAnswer : Fallback(t)!(block)
    OBVIOUS
  <1>b. block \in LibcBlocks \cup {None}
    OBVIOUS
  <1>c. res' \in [Threads -> Blocks \cup {None}]
    BY <1>a, <1>b DEF TypeInv, TypeOK, Blocks
  <1>d. pc' \in [Threads -> Labels]
    <2>1. PICK label \in {"ret", "free"} : pc' = [pc EXCEPT ![t] = label]
      <3>1. CASE block = None
        BY <1>a, <3>1
      <3>2. CASE block # None
        BY <1>a, <3>2
      <3> QED BY <3>1, <3>2
    <2> QED BY <2>1 DEF TypeInv, TypeOK, Labels
  <1>1. TypeOK'
    BY <1>c, <1>d DEF TypeInv, TypeOK
  <1>2. ListsOK'
    BY DEF TypeInv, TypeOK, ListsOK
  <1>3. HolderBypassesHooks'
    BY HeapAssumption DEF TypeInv, TypeOK, HolderBypassesHooks, Critical
  <1>4. ASSUME NEW u \in Threads PROVE LocalsOK(u)'
    BY DEF TypeInv, TypeOK, LocalsOK, HolderBypassesHooks, Critical
  <1> QED BY <1>1, <1>2, <1>3, <1>4 DEF TypeInv

LEMMA LibcReallocTyped ==
  ASSUME TypeInv, NEW t \in Threads, LibcRealloc(t)
  PROVE  TypeInv'
  <1> USE DEF LibcRealloc, Goto, shared, locals, LibcAnswer
  <1>1. TypeOK'
    BY DEF TypeInv, TypeOK, Labels, Blocks
  <1>2. ListsOK'
    BY DEF TypeInv, TypeOK, ListsOK
  <1>3. HolderBypassesHooks'
    BY HeapAssumption DEF TypeInv, TypeOK, HolderBypassesHooks, Critical
  <1>4. ASSUME NEW u \in Threads PROVE LocalsOK(u)'
    BY DEF TypeInv, TypeOK, LocalsOK, HolderBypassesHooks, Critical
  <1> QED BY <1>1, <1>2, <1>3, <1>4 DEF TypeInv

LEMMA ReturnTyped ==
  ASSUME TypeInv, NEW t \in Threads, Return(t)
  PROVE  TypeInv'
  <1> USE DEF Return, Goto, shared, locals
  <1>a. NoReq \in Requests /\ 0 \in Regions /\ <<>> \in Seq(Nat)
    BY SizesAssumption DEF NoReq, Requests, Regions
  <1>b. live' \subseteq Blocks
    BY DEF TypeInv, TypeOK
  <1>1. TypeOK'
    BY <1>a, <1>b DEF TypeInv, TypeOK, Labels
  <1>2. ListsOK'
    BY DEF TypeInv, TypeOK, ListsOK
  <1>3. HolderBypassesHooks'
    BY HeapAssumption DEF TypeInv, TypeOK, HolderBypassesHooks, Critical
  <1>4. ASSUME NEW u \in Threads PROVE LocalsOK(u)'
    BY DEF TypeInv, TypeOK, LocalsOK, HolderBypassesHooks, Critical
  <1> QED BY <1>1, <1>2, <1>3, <1>4 DEF TypeInv

LEMMA InitTyped == Init => TypeInv
  <1> SUFFICES ASSUME Init PROVE TypeInv
    OBVIOUS
  <1> USE DEF Init
  <1>1. NoReq \in Requests /\ 0 \in Regions /\ <<>> \in Seq(Nat)
    BY SizesAssumption DEF NoReq, Requests, Regions
  <1>2. TypeOK
    BY <1>1 DEF TypeOK, Labels
  <1>3. ListsOK
    BY DEF ListsOK
  <1>4. HolderBypassesHooks
    BY HeapAssumption DEF HolderBypassesHooks, Critical
  <1>5. \A t \in Threads : LocalsOK(t)
    BY DEF LocalsOK
  <1> QED BY <1>2, <1>3, <1>4, <1>5 DEF TypeInv

LEMMA StepTyped == TypeInv /\ [Next]_vars => TypeInv'
  <1> SUFFICES ASSUME TypeInv, [Next]_vars PROVE TypeInv'
    OBVIOUS
  <1>1. CASE UNCHANGED vars
    BY <1>1 DEF vars, TypeInv, TypeOK, ListsOK, HolderBypassesHooks, Critical, LocalsOK
  <1>2. ASSUME NEW t \in Threads, Enter(t) PROVE TypeInv'
    BY <1>2, EnterTyped
  <1>3. ASSUME NEW t \in Threads, Acquire(t) PROVE TypeInv'
    BY <1>3, AllocLockTyped, FreeLockTyped DEF Acquire
  <1>4. ASSUME NEW t \in Threads, Proceed(t) PROVE TypeInv'
    BY <1>4, AllocRejectTyped, PopTakeTyped, PopFinishTyped, StartFreshTyped,
       FreshFullTyped, FreshTakeTyped, FreshSkipTyped, PushSkippedTyped,
       PushFreedTyped, LibcFreeTyped, FallbackTyped, LibcReallocTyped, ReturnTyped
       DEF Proceed
  <1> QED BY <1>1, <1>2, <1>3, <1>4 DEF Next

LEMMA TypeInvariant == Spec => []TypeInv
  BY InitTyped, StepTyped, PTL DEF Spec

(* The types hold in every reachable state. *)
THEOREM TypeCorrect == Spec => []TypeOK
  <1>1. TypeInv => TypeOK
    BY DEF TypeInv
  <1> QED BY <1>1, TypeInvariant, PTL

(* The mutex is held exactly by the thread between lock and unlock, whose  *)
(* own hooks_active is clear, so nested malloc and free never wait for it. *)
THEOREM NestedCallsNeverLock == Spec => []HolderBypassesHooks
  <1>1. TypeInv => HolderBypassesHooks
    BY DEF TypeInv
  <1> QED BY <1>1, TypeInvariant, PTL

-----------------------------------------------------------------------------
(* Exclusive slots. *)
Inv == TypeInv /\ ExclusiveSlots

OnceIn(z) == ListedOnce(z) /\ HeldOnce(z) /\ LiveBelow(z)

LEMMA HandsAre ==
  /\ \A t \in Threads : <<"arg", t>> \in Hands /\ <<"res", t>> \in Hands /\ <<"pop", t>> \in Hands
  /\ \A h \in Hands : \E t \in Threads : h = <<"arg", t>> \/ h = <<"res", t>> \/ h = <<"pop", t>>
  BY DEF Hands

LEMMA SoundOnce == ASSUME Inv, NEW z \in Sound PROVE z \in Regions /\ OnceIn(z)
  BY DEF Inv, ExclusiveSlots, Sound, OnceIn

LEMMA ListedSlots == ASSUME ListsOK, NEW z \in Regions, NEW k \in Listed(z)
                     PROVE  <<z, k>> \in SlotsOf(z)
  BY DEF ListsOK, Listed, SlotsOf

LEMMA InHandIs ==
  /\ \A u \in Threads :
       /\ InHand(<<"arg", u>>) = arg[u] /\ InHand(<<"arg", u>>)' = arg'[u]
       /\ InHand(<<"res", u>>) = res[u] /\ InHand(<<"res", u>>)' = res'[u]
       /\ pc[u] = "popped" => InHand(<<"pop", u>>) = <<zi[u], cur[u]>>
       /\ pc[u] # "popped" => InHand(<<"pop", u>>) = None
       /\ pc'[u] = "popped" => InHand(<<"pop", u>>)' = <<zi'[u], cur'[u]>>
       /\ pc'[u] # "popped" => InHand(<<"pop", u>>)' = None
  BY DEF InHand

LEMMA SlotsOfRegion ==
  ASSUME NEW z, NEW y, NEW k, <<y, k>> \in SlotsOf(z) PROVE y = z
  BY DEF SlotsOf

LEMMA NoneIsNoSlot == ASSUME NEW z PROVE None \notin SlotsOf(z)
  BY HeapAssumption DEF SlotsOf

(* What Append and SubSeq do to the entries of a free list. *)
LEMMA AppendList ==
  ASSUME NEW seq \in Seq(Nat), NEW k \in Nat
  PROVE  /\ Len(seq) \in Nat /\ DOMAIN seq = 1 .. Len(seq)
         /\ DOMAIN Append(seq, k) = 1 .. Len(seq) + 1
         /\ Append(seq, k)[Len(seq) + 1] = k
         /\ \A i \in 1 .. Len(seq) : Append(seq, k)[i] = seq[i]
  OBVIOUS

LEMMA SubSeqList ==
  ASSUME NEW seq \in Seq(Nat), Len(seq) > 0
  PROVE  /\ Len(seq) \in Nat \ {0} /\ DOMAIN seq = 1 .. Len(seq)
         /\ DOMAIN SubSeq(seq, 1, Len(seq) - 1) = 1 .. Len(seq) - 1
         /\ \A i \in 1 .. Len(seq) - 1 : SubSeq(seq, 1, Len(seq) - 1)[i] = seq[i]
  OBVIOUS

LEMMA AppendListed ==
  ASSUME NEW z \in Regions, NEW k \in Nat, freeList[z] \in Seq(Nat),
         freeList'[z] = Append(freeList[z], k)
  PROVE  Listed(z)' = Listed(z) \cup {k}
  <1> DEFINE n == Len(freeList[z])
  <1>1. /\ n \in Nat /\ DOMAIN freeList[z] = 1 .. n /\ DOMAIN freeList'[z] = 1 .. n + 1
        /\ freeList'[z][n + 1] = k
        /\ \A i \in 1 .. n : freeList'[z][i] = freeList[z][i]
    BY AppendList
  <1>2. 1 .. n + 1 = 1 .. n \cup {n + 1}
    BY <1>1
  <1> HIDE DEF n
  <1>3. Listed(z)' = {freeList'[z][i] : i \in 1 .. n \cup {n + 1}}
    BY <1>1, <1>2 DEF Listed
  <1>4. Listed(z) = {freeList[z][i] : i \in 1 .. n}
    BY <1>1 DEF Listed
  <1> QED BY <1>1, <1>3, <1>4

LEMMA AppendOnce ==
  ASSUME NEW z \in Regions, NEW k \in Nat, freeList[z] \in Seq(Nat),
         freeList'[z] = Append(freeList[z], k), k \notin Listed(z),
         \A i, j \in DOMAIN freeList[z] : freeList[z][i] = freeList[z][j] => i = j
  PROVE  \A i, j \in DOMAIN freeList'[z] : freeList'[z][i] = freeList'[z][j] => i = j
  <1> DEFINE n == Len(freeList[z])
  <1>1. /\ n \in Nat /\ DOMAIN freeList[z] = 1 .. n /\ DOMAIN freeList'[z] = 1 .. n + 1
        /\ freeList'[z][n + 1] = k
        /\ \A i \in 1 .. n : freeList'[z][i] = freeList[z][i]
    BY AppendList
  <1>2. \A i \in 1 .. n : freeList[z][i] # k
    BY <1>1 DEF Listed
  <1>3. 1 .. n + 1 = 1 .. n \cup {n + 1}
    BY <1>1
  <1> HIDE DEF n
  <1> QED BY <1>1, <1>2, <1>3

LEMMA PoppedListed ==
  ASSUME NEW z \in Regions, freeList[z] \in Seq(Nat), Len(freeList[z]) > 0,
         freeList'[z] = SubSeq(freeList[z], 1, Len(freeList[z]) - 1),
         \A i, j \in DOMAIN freeList[z] : freeList[z][i] = freeList[z][j] => i = j
  PROVE  /\ freeList[z][Len(freeList[z])] \in Listed(z) \ Listed(z)'
         /\ Listed(z)' \subseteq Listed(z)
         /\ \A i, j \in DOMAIN freeList'[z] : freeList'[z][i] = freeList'[z][j] => i = j
  <1> DEFINE n == Len(freeList[z])
  <1>1. /\ n \in Nat \ {0} /\ DOMAIN freeList[z] = 1 .. n /\ DOMAIN freeList'[z] = 1 .. n - 1
        /\ \A i \in 1 .. n - 1 : freeList'[z][i] = freeList[z][i]
    BY SubSeqList
  <1>2. 1 .. n - 1 = 1 .. n \ {n} /\ n \in 1 .. n
    BY <1>1
  <1> HIDE DEF n
  <1>3. Listed(z)' = {freeList[z][i] : i \in 1 .. n \ {n}}
    <2>1. Listed(z)' = {freeList'[z][i] : i \in 1 .. n - 1}
      BY <1>1 DEF Listed
    <2>2. Listed(z)' = {freeList[z][i] : i \in 1 .. n - 1}
      BY <1>1, <2>1
    <2> QED BY <1>2, <2>2, Zenon
  <1>4. Listed(z) = {freeList[z][i] : i \in 1 .. n}
    BY <1>1 DEF Listed
  <1>5. freeList[z][n] \in Listed(z) \ Listed(z)' /\ Listed(z)' \subseteq Listed(z)
    BY <1>1, <1>2, <1>3, <1>4
  <1>6. \A i, j \in DOMAIN freeList'[z] : freeList'[z][i] = freeList'[z][j] => i = j
    BY <1>1, <1>2
  <1> QED BY <1>5, <1>6 DEF n

(* A step that moves slots of a region only between hands keeps them apart. *)
LEMMA Carried ==
  ASSUME TypeInv, NEW z \in Regions, OnceIn(z),
         freeList'[z] = freeList[z], live' = live, Frontier(z)' = Frontier(z),
         \A h \in Hands : InHand(h)' \in SlotsOf(z) =>
           \E g \in Hands : InHand(g) = InHand(h)',
         \A h, g \in Hands : InHand(h)' \in SlotsOf(z) /\ InHand(g)' = InHand(h)' => g = h
  PROVE  OnceIn(z)'
  <1>1. ListedOnce(z)'
    <2>1. Listed(z)' = Listed(z)
      BY DEF Listed
    <2>2. ASSUME NEW k \in Listed(z), NEW h \in Hands PROVE InHand(h)' # <<z, k>>
      <3>1. <<z, k>> \in SlotsOf(z)
        BY ListedSlots DEF TypeInv
      <3> QED BY <3>1 DEF OnceIn, ListedOnce
    <2> QED BY <2>1, <2>2 DEF OnceIn, ListedOnce
  <1>2. HeldOnce(z)'
    BY DEF OnceIn, HeldOnce, SlotsOf
  <1>3. LiveBelow(z)'
    BY DEF OnceIn, LiveBelow, SlotsOf
  <1> QED BY <1>1, <1>2, <1>3 DEF OnceIn

(* In particular one that puts no slot of the region into any hand. *)
LEMMA Quiet ==
  ASSUME TypeInv, NEW z \in Regions, OnceIn(z),
         freeList'[z] = freeList[z], live' = live, Frontier(z)' = Frontier(z),
         \A h \in Hands : InHand(h)' \in SlotsOf(z) => InHand(h)' = InHand(h)
  PROVE  OnceIn(z)'
  <1>1. \A h, g \in Hands : InHand(h)' \in SlotsOf(z) /\ InHand(g)' = InHand(h)' => g = h
    BY DEF OnceIn, HeldOnce
  <1> QED BY <1>1, Carried

LEMMA AllocRejectExclusive ==
  ASSUME Inv, NEW t \in Threads, AllocReject(t), NEW z \in Sound'
  PROVE  OnceIn(z)'
  <1> USE DEF AllocReject, Goto, shared, locals
  <1>1. z \in Regions /\ OnceIn(z) /\ TypeInv
    BY SoundOnce DEF Inv, Sound
  <1>2. Frontier(z)' = Frontier(z)
    BY HeapAssumption DEF Inv, TypeInv, TypeOK, HolderBypassesHooks, Critical, Frontier, Skipping
  <1>3. ASSUME NEW h \in Hands, InHand(h)' \in SlotsOf(z) PROVE InHand(h)' = InHand(h)
    BY <1>3, HandsAre, HeapAssumption
       DEF Inv, TypeInv, TypeOK, InHand, HolderBypassesHooks, Critical, SlotsOf
  <1> QED BY <1>1, <1>2, <1>3, Quiet

LEMMA AllocLockExclusive ==
  ASSUME Inv, NEW t \in Threads, AllocLock(t), NEW z \in Sound'
  PROVE  OnceIn(z)'
  <1> USE DEF AllocLock, Goto, shared, locals, Lock
  <1>1. z \in Regions /\ OnceIn(z) /\ TypeInv
    BY SoundOnce DEF Inv, Sound
  <1>2. Frontier(z)' = Frontier(z)
    BY HeapAssumption DEF Inv, TypeInv, TypeOK, HolderBypassesHooks, Critical, Frontier, Skipping
  <1>3. ASSUME NEW h \in Hands, InHand(h)' \in SlotsOf(z) PROVE InHand(h)' = InHand(h)
    BY <1>3, HandsAre, HeapAssumption
       DEF Inv, TypeInv, TypeOK, InHand, HolderBypassesHooks, Critical, SlotsOf
  <1> QED BY <1>1, <1>2, <1>3, Quiet

LEMMA StartFreshExclusive ==
  ASSUME Inv, NEW t \in Threads, StartFresh(t), NEW z \in Sound'
  PROVE  OnceIn(z)'
  <1> USE DEF StartFresh, Goto, shared, locals
  <1>1. z \in Regions /\ OnceIn(z) /\ TypeInv
    BY SoundOnce DEF Inv, Sound
  <1>2. Frontier(z)' = Frontier(z)
    BY HeapAssumption DEF Inv, TypeInv, TypeOK, HolderBypassesHooks, Critical, Frontier, Skipping
  <1>3. ASSUME NEW h \in Hands, InHand(h)' \in SlotsOf(z) PROVE InHand(h)' = InHand(h)
    BY <1>3, HandsAre, HeapAssumption
       DEF Inv, TypeInv, TypeOK, InHand, HolderBypassesHooks, Critical, SlotsOf
  <1> QED BY <1>1, <1>2, <1>3, Quiet

LEMMA FreshFullExclusive ==
  ASSUME Inv, NEW t \in Threads, FreshFull(t), NEW z \in Sound'
  PROVE  OnceIn(z)'
  <1> USE DEF FreshFull, Goto, shared, locals
  <1>1. z \in Regions /\ OnceIn(z) /\ TypeInv
    BY SoundOnce DEF Inv, Sound
  <1>2. Frontier(z)' = Frontier(z)
    <2>1. ASSUME zi[t] = z PROVE cur[t] = regions[z]
      <3>1. cur[t] >= regions[z] /\ cur[t] \in Nat /\ regions[z] \in Nat
        BY <2>1, <1>1 DEF TypeInv, TypeOK, LocalsOK
      <3>2. ~(cur[t] > regions[z])
        BY <2>1 DEF Sound
      <3> QED BY <3>1, <3>2
    <2> QED BY <2>1, HeapAssumption
            DEF Inv, TypeInv, TypeOK, HolderBypassesHooks, Critical, Frontier, Skipping
  <1>3. ASSUME NEW h \in Hands, InHand(h)' \in SlotsOf(z) PROVE InHand(h)' = InHand(h)
    BY <1>3, HandsAre, HeapAssumption
       DEF Inv, TypeInv, TypeOK, InHand, HolderBypassesHooks, Critical, SlotsOf
  <1> QED BY <1>1, <1>2, <1>3, Quiet

LEMMA FreshSkipExclusive ==
  ASSUME Inv, NEW t \in Threads, FreshSkip(t), NEW z \in Sound'
  PROVE  OnceIn(z)'
  <1> USE DEF FreshSkip, Goto, shared, locals, ReadTop
  <1>1. z \in Regions /\ OnceIn(z) /\ TypeInv
    BY SoundOnce DEF Inv, Sound
  <1>2. Frontier(z)' = Frontier(z)
    BY HeapAssumption DEF Inv, TypeInv, TypeOK, HolderBypassesHooks, Critical, Frontier, Skipping
  <1>3. ASSUME NEW h \in Hands, InHand(h)' \in SlotsOf(z) PROVE InHand(h)' = InHand(h)
    BY <1>3, HandsAre, HeapAssumption
       DEF Inv, TypeInv, TypeOK, InHand, HolderBypassesHooks, Critical, SlotsOf
  <1> QED BY <1>1, <1>2, <1>3, Quiet

LEMMA FreeLockExclusive ==
  ASSUME Inv, NEW t \in Threads, FreeLock(t), NEW z \in Sound'
  PROVE  OnceIn(z)'
  <1> USE DEF FreeLock, Goto, shared, locals, Lock, ReadTop, RegionOf
  <1>1. z \in Regions /\ OnceIn(z) /\ TypeInv
    BY SoundOnce DEF Inv, Sound
  <1>2. Frontier(z)' = Frontier(z)
    BY HeapAssumption DEF Inv, TypeInv, TypeOK, HolderBypassesHooks, Critical, Frontier, Skipping
  <1>3. ASSUME NEW h \in Hands, InHand(h)' \in SlotsOf(z) PROVE InHand(h)' = InHand(h)
    <2>a. PICK u \in Threads : h = <<"arg", u>> \/ h = <<"res", u>> \/ h = <<"pop", u>>
      BY HandsAre
    <2>1. CASE h = <<"arg", u>>
      BY <2>1, <1>3, HeapAssumption DEF TypeInv, TypeOK, InHand, SlotsOf, Inv
    <2>2. CASE h = <<"res", u>>
      BY <2>2, <1>3, HeapAssumption DEF TypeInv, TypeOK, InHand, SlotsOf, Inv
    <2>3. CASE h = <<"pop", u>>
      BY <2>3, <1>3, HeapAssumption DEF TypeInv, TypeOK, InHand, SlotsOf, Inv
    <2> QED BY <2>a, <2>1, <2>2, <2>3
  <1> QED BY <1>1, <1>2, <1>3, Quiet

LEMMA LibcFreeExclusive ==
  ASSUME Inv, NEW t \in Threads, LibcFree(t), NEW z \in Sound'
  PROVE  OnceIn(z)'
  <1> USE DEF LibcFree, Goto, shared, locals
  <1>1. z \in Regions /\ OnceIn(z) /\ TypeInv
    BY SoundOnce DEF Inv, Sound
  <1>2. Frontier(z)' = Frontier(z)
    BY HeapAssumption DEF Inv, TypeInv, TypeOK, HolderBypassesHooks, Critical, Frontier, Skipping
  <1>3. ASSUME NEW h \in Hands, InHand(h)' \in SlotsOf(z) PROVE InHand(h)' = InHand(h)
    BY <1>3, HandsAre, HeapAssumption
       DEF Inv, TypeInv, TypeOK, InHand, HolderBypassesHooks, Critical, SlotsOf
  <1> QED BY <1>1, <1>2, <1>3, Quiet

LEMMA FallbackExclusive ==
  ASSUME Inv, NEW t \in Threads, Fallback(t), NEW z \in Sound'
  PROVE  OnceIn(z)'
  <1> USE DEF Fallback, Goto, shared, locals, Granted, Answered, LibcAnswer
  <1>1. z \in Regions /\ OnceIn(z) /\ TypeInv
    BY SoundOnce DEF Inv, Sound
  <1>2. Frontier(z)' = Frontier(z)
    BY HeapAssumption DEF Inv, TypeInv, TypeOK, HolderBypassesHooks, Critical, Frontier, Skipping
  <1>3. ASSUME NEW h \in Hands, InHand(h)' \in SlotsOf(z) PROVE InHand(h)' = InHand(h)
    BY <1>3, HandsAre, HeapAssumption
       DEF Inv, TypeInv, TypeOK, InHand, HolderBypassesHooks, Critical, SlotsOf
  <1> QED BY <1>1, <1>2, <1>3, Quiet

LEMMA LibcReallocExclusive ==
  ASSUME Inv, NEW t \in Threads, LibcRealloc(t), NEW z \in Sound'
  PROVE  OnceIn(z)'
  <1> USE DEF LibcRealloc, Goto, shared, locals, LibcAnswer
  <1>1. z \in Regions /\ OnceIn(z) /\ TypeInv
    BY SoundOnce DEF Inv, Sound
  <1>2. Frontier(z)' = Frontier(z)
    BY HeapAssumption DEF Inv, TypeInv, TypeOK, HolderBypassesHooks, Critical, Frontier, Skipping
  <1>3. ASSUME NEW h \in Hands, InHand(h)' \in SlotsOf(z) PROVE InHand(h)' = InHand(h)
    <2>a. PICK u \in Threads : h = <<"arg", u>> \/ h = <<"res", u>> \/ h = <<"pop", u>>
      BY HandsAre
    <2>b. res'[t] \in LibcBlocks \cup {None} /\ arg'[t] \in {arg[t], None}
      BY <1>1 DEF TypeInv, TypeOK, LocalsOK
    <2>c. (LibcBlocks \cup {None}) \cap SlotsOf(z) = {}
      BY HeapAssumption DEF SlotsOf
    <2>1. CASE h = <<"arg", u>>
      BY <2>1, <1>3, HeapAssumption DEF TypeInv, TypeOK, InHand, SlotsOf, Inv
    <2>2. CASE h = <<"res", u>>
      BY <2>2, <1>3, <2>b, <2>c, HeapAssumption DEF TypeInv, TypeOK, InHand, SlotsOf, Inv
    <2>3. CASE h = <<"pop", u>>
      BY <2>3, <1>3, HeapAssumption DEF TypeInv, TypeOK, InHand, SlotsOf, Inv
    <2> QED BY <2>a, <2>1, <2>2, <2>3
  <1> QED BY <1>1, <1>2, <1>3, Quiet

LEMMA PopTakeExclusive ==
  ASSUME Inv, NEW t \in Threads, PopTake(t), NEW z \in Sound'
  PROVE  OnceIn(z)'
  <1> USE DEF PopTake, Goto, shared, locals
  <1>1. z \in Regions /\ OnceIn(z) /\ TypeInv
    BY SoundOnce DEF Inv, Sound
  <1>2. CASE z # zi[t]
    <2>1. Frontier(z)' = Frontier(z)
      BY <1>2, HeapAssumption
         DEF Inv, TypeInv, TypeOK, HolderBypassesHooks, Critical, Frontier, Skipping
    <2>2. freeList'[z] = freeList[z]
      BY <1>2, <1>1 DEF TypeInv, TypeOK
    <2>3. ASSUME NEW h \in Hands, InHand(h)' \in SlotsOf(z) PROVE InHand(h)' = InHand(h)
      <3>1. PICK u \in Threads : h = <<"arg", u>> \/ h = <<"res", u>> \/ h = <<"pop", u>>
        BY HandsAre
      <3>2. CASE h = <<"arg", u>>
        BY <1>1, <3>2, InHandIs DEF TypeInv, TypeOK
      <3>3. CASE h = <<"res", u>>
        BY <1>1, <1>2, <2>3, <3>3, InHandIs DEF TypeInv, TypeOK, SlotsOf
      <3>4. CASE h = <<"pop", u>>
        <4>1. CASE u = t
          <5>1. InHand(h)' = <<zi[t], cur'[t]>>
            BY <1>1, <3>4, <4>1, InHandIs DEF TypeInv, TypeOK
          <5> QED BY <1>2, <2>3, <5>1, SlotsOfRegion
        <4>2. CASE u # t
          BY <1>1, <3>4, <4>2, InHandIs DEF TypeInv, TypeOK
        <4> QED BY <4>1, <4>2
      <3> QED BY <3>1, <3>2, <3>3, <3>4
    <2> QED BY <1>1, <2>1, <2>2, <2>3, Quiet
  <1>3. CASE z = zi[t]
    <2> DEFINE n == Len(freeList[z])
               slot == <<z, freeList[z][n]>>
    <2>1. Frontier(z)' = Frontier(z)
      BY HeapAssumption
         DEF Inv, TypeInv, TypeOK, HolderBypassesHooks, Critical, Frontier, Skipping
    <2>2. /\ freeList[z] \in Seq(Nat) /\ n > 0
          /\ freeList'[z] = SubSeq(freeList[z], 1, n - 1)
      BY <1>1, <1>3 DEF TypeInv, TypeOK
    <2>5. ListedOnce(z) /\ HeldOnce(z) /\ LiveBelow(z)
      BY <1>1 DEF OnceIn
    <2>6. /\ freeList[z][n] \in Listed(z) \ Listed(z)' /\ Listed(z)' \subseteq Listed(z)
          /\ \A i, j \in DOMAIN freeList'[z] : freeList'[z][i] = freeList'[z][j] => i = j
      BY <1>1, <2>2, <2>5, PoppedListed DEF ListedOnce
    <2>7. slot \in SlotsOf(z)
      BY <1>1, <2>6, ListedSlots DEF TypeInv
    <2>8. \A h \in Hands : InHand(h)' = IF h = <<"pop", t>> THEN slot ELSE InHand(h)
      <3> TAKE h \in Hands
      <3>1. PICK u \in Threads : h = <<"arg", u>> \/ h = <<"res", u>> \/ h = <<"pop", u>>
        BY HandsAre
      <3>2. CASE h = <<"arg", u>>
        BY <1>1, <1>3, <3>2, InHandIs DEF TypeInv, TypeOK
      <3>3. CASE h = <<"res", u>>
        BY <1>1, <1>3, <3>3, InHandIs DEF TypeInv, TypeOK
      <3>4. CASE h = <<"pop", u>>
        BY <1>1, <1>3, <3>4, InHandIs DEF TypeInv, TypeOK
      <3> QED BY <3>1, <3>2, <3>3, <3>4
    <2>9. ListedOnce(z)'
      <3>1. \A k \in Listed(z)' : k < Frontier(z)' /\ <<z, k>> \notin live'
        BY <2>1, <2>5, <2>6 DEF ListedOnce
      <3>2. ASSUME NEW k \in Listed(z)', NEW h \in Hands PROVE InHand(h)' # <<z, k>>
        <4>1. k \in Listed(z) /\ k # freeList[z][n]
          BY <2>6
        <4>2. InHand(h) # <<z, k>> /\ slot # <<z, k>>
          BY <4>1, <2>5 DEF ListedOnce
        <4> QED BY <4>2, <2>8
      <3> QED BY <3>1, <3>2, <2>6 DEF ListedOnce
    <2>10. HeldOnce(z)'
      BY <2>1, <2>5, <2>6, <2>7, <2>8 DEF HeldOnce, ListedOnce, SlotsOf
    <2>11. LiveBelow(z)'
      BY <2>1, <2>5 DEF LiveBelow, SlotsOf
    <2> QED BY <2>9, <2>10, <2>11 DEF OnceIn
  <1> QED BY <1>2, <1>3

LEMMA PopFinishExclusive ==
  ASSUME Inv, NEW t \in Threads, PopFinish(t), NEW z \in Sound'
  PROVE  OnceIn(z)'
  <1> USE DEF PopFinish, Goto, shared, locals, Granted
  <1>1. z \in Regions /\ OnceIn(z) /\ TypeInv
    BY SoundOnce DEF Inv, Sound
  <1>2. Frontier(z)' = Frontier(z)
    BY HeapAssumption DEF Inv, TypeInv, TypeOK, HolderBypassesHooks, Critical, Frontier, Skipping
  <1>3. \A h \in Hands :
          InHand(h)' = IF h = <<"res", t>> THEN InHand(<<"pop", t>>)
                       ELSE IF h = <<"pop", t>> THEN None ELSE InHand(h)
    BY <1>1, HandsAre, HeapAssumption DEF TypeInv, TypeOK, InHand
  <1>4. <<"pop", t>> \in Hands /\ None \notin SlotsOf(z)
    BY HandsAre, HeapAssumption DEF SlotsOf
  <1>5. \A h \in Hands : InHand(h)' \in SlotsOf(z) =>
          \E g \in Hands : InHand(g) = InHand(h)'
    BY <1>3, <1>4
  <1>6. \A h, g \in Hands : InHand(h)' \in SlotsOf(z) /\ InHand(g)' = InHand(h)' => g = h
    BY <1>1, <1>3, <1>4 DEF OnceIn, HeldOnce
  <1> QED BY <1>1, <1>2, <1>5, <1>6, Carried

LEMMA FreshTakeExclusive ==
  ASSUME Inv, NEW t \in Threads, FreshTake(t), NEW z \in Sound'
  PROVE  OnceIn(z)'
  <1> USE DEF FreshTake, Goto, shared, locals, Granted, NextFresh
  <1>1. z \in Regions /\ OnceIn(z) /\ TypeInv
    BY SoundOnce DEF Inv, Sound
  <1>2. CASE z # zi[t]
    <2>1. Frontier(z)' = Frontier(z)
      BY <1>2, HeapAssumption
         DEF Inv, TypeInv, TypeOK, HolderBypassesHooks, Critical, Frontier, Skipping
    <2>2. freeList'[z] = freeList[z]
      BY <1>2, <1>1 DEF TypeInv, TypeOK
    <2>3. ASSUME NEW h \in Hands, InHand(h)' \in SlotsOf(z) PROVE InHand(h)' = InHand(h)
      <3>1. PICK u \in Threads : h = <<"arg", u>> \/ h = <<"res", u>> \/ h = <<"pop", u>>
        BY HandsAre
      <3>2. CASE h = <<"arg", u>>
        BY <1>1, <3>2, InHandIs DEF TypeInv, TypeOK
      <3>3. CASE h = <<"res", u>>
        <4>1. CASE u = t
          <5>1. InHand(h)' = <<zi[t], cur[t]>>
            BY <1>1, <3>3, <4>1, InHandIs DEF TypeInv, TypeOK
          <5> QED BY <1>2, <2>3, <5>1, SlotsOfRegion
        <4>2. CASE u # t
          BY <1>1, <3>3, <4>2, InHandIs DEF TypeInv, TypeOK
        <4> QED BY <4>1, <4>2
      <3>4. CASE h = <<"pop", u>>
        BY <1>1, <1>2, <2>3, <3>4, InHandIs, NoneIsNoSlot DEF TypeInv, TypeOK, SlotsOf
      <3> QED BY <3>1, <3>2, <3>3, <3>4
    <2> QED BY <1>1, <2>1, <2>2, <2>3, Quiet
  <1>3. CASE z = zi[t]
    <2> DEFINE slot == <<z, cur[t]>>
    <2>1. Frontier(z) = cur[t] /\ Frontier(z)' = cur[t] + 1 /\ cur[t] \in Nat
      BY <1>1, <1>3, HeapAssumption
         DEF TypeInv, TypeOK, HolderBypassesHooks, Critical, Frontier, Skipping
    <2>2. slot \in SlotsOf(z)
      BY <1>1, <1>3, NotFullIsSlot DEF TypeInv, TypeOK, RegionFull, SlotsOf
    <2>3. ListedOnce(z) /\ HeldOnce(z) /\ LiveBelow(z)
      BY <1>1 DEF OnceIn
    <2>4. \A h \in Hands : InHand(h)' = IF h = <<"res", t>> THEN slot ELSE InHand(h)
      <3> TAKE h \in Hands
      <3>1. PICK u \in Threads : h = <<"arg", u>> \/ h = <<"res", u>> \/ h = <<"pop", u>>
        BY HandsAre
      <3>2. CASE h = <<"arg", u>>
        BY <1>1, <1>3, <3>2, InHandIs DEF TypeInv, TypeOK
      <3>3. CASE h = <<"res", u>>
        BY <1>1, <1>3, <3>3, InHandIs DEF TypeInv, TypeOK
      <3>4. CASE h = <<"pop", u>>
        BY <1>1, <1>3, <3>4, InHandIs DEF TypeInv, TypeOK
      <3> QED BY <3>1, <3>2, <3>3, <3>4
    <2>5. Listed(z)' = Listed(z) /\ Listed(z) \subseteq Nat
      BY <1>1, SeqEntry DEF Listed, TypeInv, TypeOK
    <2>6. \A s \in SlotsOf(z) : s[2] \in Nat
      BY DEF SlotsOf, Slots
    <2>7. ListedOnce(z)'
      BY <2>1, <2>3, <2>4, <2>5 DEF ListedOnce
    <2>8. slot \notin live /\ \A h \in Hands : InHand(h) # slot
      BY <2>1, <2>2, <2>3 DEF HeldOnce, LiveBelow
    <2>9. HeldOnce(z)'
      BY <2>1, <2>2, <2>3, <2>4, <2>6, <2>8 DEF HeldOnce, SlotsOf
    <2>10. LiveBelow(z)'
      BY <2>1, <2>3, <2>6 DEF LiveBelow, SlotsOf
    <2> QED BY <2>7, <2>9, <2>10 DEF OnceIn
  <1> QED BY <1>2, <1>3

LEMMA PushSkippedExclusive ==
  ASSUME Inv, NEW t \in Threads, PushSkipped(t), NEW z \in Sound'
  PROVE  OnceIn(z)'
  <1> USE DEF PushSkipped, Goto, shared, locals, Push
  <1>1. z \in Regions /\ OnceIn(z) /\ TypeInv
    BY SoundOnce DEF Inv, Sound
  <1>2. CASE z # zi[t]
    <2>1. Frontier(z)' = Frontier(z)
      BY <1>2, HeapAssumption
         DEF Inv, TypeInv, TypeOK, HolderBypassesHooks, Critical, Frontier, Skipping
    <2>2. freeList'[z] = freeList[z]
      BY <1>2, <1>1 DEF TypeInv, TypeOK
    <2>3. ASSUME NEW h \in Hands, InHand(h)' \in SlotsOf(z) PROVE InHand(h)' = InHand(h)
      <3>1. PICK u \in Threads : h = <<"arg", u>> \/ h = <<"res", u>> \/ h = <<"pop", u>>
        BY HandsAre
      <3>2. CASE h = <<"arg", u>>
        BY <1>1, <3>2, InHandIs DEF TypeInv, TypeOK
      <3>3. CASE h = <<"res", u>>
        BY <1>1, <1>2, <2>3, <3>3, InHandIs DEF TypeInv, TypeOK, SlotsOf
      <3>4. CASE h = <<"pop", u>>
        BY <1>1, <1>2, <2>3, <3>4, InHandIs, NoneIsNoSlot DEF TypeInv, TypeOK, SlotsOf
      <3> QED BY <3>1, <3>2, <3>3, <3>4
    <2> QED BY <1>1, <2>1, <2>2, <2>3, Quiet
  <1>3. CASE z = zi[t]
    <2>a. /\ cur[t] \in Nat /\ freeList[z] \in Seq(Nat)
          /\ freeList'[z] = Append(freeList[z], cur[t])
      BY <1>1, <1>3 DEF TypeInv, TypeOK, LocalsOK
    <2>c. Listed(z)' = Listed(z) \cup {cur[t]}
      BY <1>1, <2>a, AppendListed
    <2>d. ListedOnce(z) /\ HeldOnce(z) /\ LiveBelow(z)
      BY <1>1 DEF OnceIn
    <2>e. Listed(z) \subseteq Nat
      BY <2>a, SeqEntry DEF Listed
    <2>f. <<z, cur[t]>> \in SlotsOf(z)
      BY <1>1, <1>3 DEF TypeInv, LocalsOK, SlotsOf
    <2>g. \A s \in SlotsOf(z) : s[2] \in Nat /\ s = <<z, s[2]>>
      BY DEF SlotsOf, Slots
    <2>1. Frontier(z) = cur[t] /\ Frontier(z)' = cur[t] + 1
      BY <1>1, <1>3, HeapAssumption
         DEF TypeInv, TypeOK, HolderBypassesHooks, Critical, Frontier, Skipping
    <2>2. \A h \in Hands : InHand(h)' = InHand(h)
      <3> TAKE h \in Hands
      <3>1. PICK u \in Threads : h = <<"arg", u>> \/ h = <<"res", u>> \/ h = <<"pop", u>>
        BY HandsAre
      <3>2. CASE h = <<"arg", u>>
        BY <1>1, <1>3, <3>2, InHandIs DEF TypeInv, TypeOK
      <3>3. CASE h = <<"res", u>>
        BY <1>1, <1>3, <3>3, InHandIs DEF TypeInv, TypeOK
      <3>4. CASE h = <<"pop", u>>
        BY <1>1, <1>3, <3>4, InHandIs DEF TypeInv, TypeOK
      <3> QED BY <3>1, <3>2, <3>3, <3>4
    <2>3. cur[t] \notin Listed(z) /\ <<z, cur[t]>> \notin live
          /\ \A h \in Hands : InHand(h) # <<z, cur[t]>>
      <3>1. ~(cur[t] < Frontier(z)) /\ <<z, cur[t]>>[2] = cur[t]
        BY <2>1, <2>a
      <3>2. cur[t] \notin Listed(z)
        BY <3>1, <2>d DEF ListedOnce
      <3>3. <<z, cur[t]>> \notin live
        BY <3>1, <2>d, <2>f DEF LiveBelow
      <3>4. ASSUME NEW h \in Hands PROVE InHand(h) # <<z, cur[t]>>
        BY <3>1, <2>d, <2>f DEF HeldOnce
      <3> QED BY <3>2, <3>3, <3>4
    <2>4. ListedOnce(z)'
      <3>1. \A i, j \in DOMAIN freeList'[z] : freeList'[z][i] = freeList'[z][j] => i = j
        BY <1>1, <2>3, <2>a, <2>d, AppendOnce DEF ListedOnce
      <3>2. \A k \in Listed(z)' : k < Frontier(z)' /\ <<z, k>> \notin live
        <4> TAKE k \in Listed(z)'
        <4>1. CASE k = cur[t]
          BY <2>1, <2>3, <2>a, <4>1
        <4>2. CASE k \in Listed(z)
          <5>1. k \in Nat /\ k < Frontier(z) /\ <<z, k>> \notin live
            BY <2>d, <2>e, <4>2 DEF ListedOnce
          <5> QED BY <2>1, <2>a, <5>1
        <4> QED BY <2>c, <4>1, <4>2
      <3>3. \A k \in Listed(z)', h \in Hands : InHand(h)' # <<z, k>>
        BY <2>2, <2>3, <2>c, <2>d DEF ListedOnce
      <3> QED BY <3>1, <3>2, <3>3 DEF ListedOnce
    <2>5. HeldOnce(z)'
      BY <2>1, <2>2, <2>d, <2>g, <2>a DEF HeldOnce, SlotsOf
    <2>6. LiveBelow(z)'
      BY <2>1, <2>d, <2>g, <2>a DEF LiveBelow, SlotsOf
    <2> QED BY <2>4, <2>5, <2>6 DEF OnceIn
  <1> QED BY <1>2, <1>3

LEMMA PushFreedExclusive ==
  ASSUME Inv, NEW t \in Threads, PushFreed(t), NEW z \in Sound'
  PROVE  OnceIn(z)'
  <1> USE DEF PushFreed, Goto, shared, locals, Push
  <1>1. z \in Regions /\ OnceIn(z) /\ TypeInv
    BY SoundOnce DEF Inv, Sound
  <1>2. CASE z # zi[t]
    <2>1. Frontier(z)' = Frontier(z)
      BY <1>2, HeapAssumption
         DEF Inv, TypeInv, TypeOK, HolderBypassesHooks, Critical, Frontier, Skipping
    <2>2. freeList'[z] = freeList[z]
      BY <1>2, <1>1 DEF TypeInv, TypeOK
    <2>3. ASSUME NEW h \in Hands, InHand(h)' \in SlotsOf(z) PROVE InHand(h)' = InHand(h)
      <3>1. PICK u \in Threads : h = <<"arg", u>> \/ h = <<"res", u>> \/ h = <<"pop", u>>
        BY HandsAre
      <3>2. CASE h = <<"arg", u>>
        <4>1. arg'[u] # None /\ InHand(h)' = arg'[u] /\ InHand(h) = arg[u]
          BY <2>3, <3>2, InHandIs, NoneIsNoSlot
        <4>2. arg'[u] = IF u = t THEN None ELSE arg[u]
          BY <1>1 DEF TypeInv, TypeOK
        <4> QED BY <4>1, <4>2
      <3>3. CASE h = <<"res", u>>
        BY <1>1, <1>2, <2>3, <3>3, InHandIs DEF TypeInv, TypeOK, SlotsOf
      <3>4. CASE h = <<"pop", u>>
        BY <1>1, <1>2, <2>3, <3>4, InHandIs, NoneIsNoSlot DEF TypeInv, TypeOK, SlotsOf
      <3> QED BY <3>1, <3>2, <3>3, <3>4
    <2> QED BY <1>1, <2>1, <2>2, <2>3, Quiet
  <1>3. CASE z = zi[t]
    <2>a. /\ cur[t] \in Nat /\ freeList[z] \in Seq(Nat)
          /\ freeList'[z] = Append(freeList[z], cur[t])
      BY <1>1, <1>3 DEF TypeInv, TypeOK, LocalsOK
    <2>c. Listed(z)' = Listed(z) \cup {cur[t]}
      BY <1>1, <2>a, AppendListed
    <2>d. ListedOnce(z) /\ HeldOnce(z) /\ LiveBelow(z)
      BY <1>1 DEF OnceIn
    <2>e. Listed(z) \subseteq Nat
      BY <2>a, SeqEntry DEF Listed
    <2>f. <<z, cur[t]>> \in SlotsOf(z)
      BY <1>1, <1>3 DEF TypeInv, LocalsOK, SlotsOf
    <2>g. \A s \in SlotsOf(z) : s[2] \in Nat /\ s = <<z, s[2]>>
      BY DEF SlotsOf, Slots
    <2>1. Frontier(z)' = Frontier(z)
      BY HeapAssumption
         DEF Inv, TypeInv, TypeOK, HolderBypassesHooks, Critical, Frontier, Skipping
    <2>2. \A h \in Hands : InHand(h)' = IF h = <<"arg", t>> THEN None ELSE InHand(h)
      <3> TAKE h \in Hands
      <3>1. PICK u \in Threads : h = <<"arg", u>> \/ h = <<"res", u>> \/ h = <<"pop", u>>
        BY HandsAre
      <3>2. CASE h = <<"arg", u>>
        BY <1>1, <1>3, <3>2, InHandIs DEF TypeInv, TypeOK
      <3>3. CASE h = <<"res", u>>
        BY <1>1, <1>3, <3>3, InHandIs DEF TypeInv, TypeOK
      <3>4. CASE h = <<"pop", u>>
        BY <1>1, <1>3, <3>4, InHandIs DEF TypeInv, TypeOK
      <3> QED BY <3>1, <3>2, <3>3, <3>4
    <2>0. <<"arg", t>> \in Hands /\ InHand(<<"arg", t>>) = <<z, cur[t]>>
      BY <1>1, <1>3, HandsAre DEF TypeInv, LocalsOK, InHand
    <2>3. /\ cur[t] \notin Listed(z) /\ <<z, cur[t]>> \notin live /\ cur[t] < Frontier(z)
          /\ \A h \in Hands : InHand(h) = <<z, cur[t]>> => h = <<"arg", t>>
      BY <2>0, <2>d, <2>f DEF ListedOnce, HeldOnce
    <2>4. ListedOnce(z)'
      <3>1. \A i, j \in DOMAIN freeList'[z] : freeList'[z][i] = freeList'[z][j] => i = j
        BY <1>1, <2>3, <2>a, <2>d, AppendOnce DEF ListedOnce
      <3>2. \A k \in Listed(z)' : k < Frontier(z) /\ <<z, k>> \notin live
        BY <2>3, <2>c, <2>d DEF ListedOnce
      <3>3. None # <<z, cur[t]>> /\ \A k \in Listed(z) : None # <<z, k>>
        BY <1>1, <2>f, ListedSlots, HeapAssumption DEF TypeInv, SlotsOf
      <3>4. \A k \in Listed(z)', h \in Hands : InHand(h)' # <<z, k>>
        BY <3>3, <2>2, <2>3, <2>c, <2>d DEF ListedOnce
      <3> QED BY <3>1, <3>2, <3>4, <2>1 DEF ListedOnce
    <2>5. HeldOnce(z)'
      BY <2>1, <2>2, <2>d, HeapAssumption DEF HeldOnce, SlotsOf
    <2>6. LiveBelow(z)'
      BY <2>1, <2>d DEF LiveBelow, SlotsOf
    <2> QED BY <2>4, <2>5, <2>6 DEF OnceIn
  <1> QED BY <1>2, <1>3

LEMMA CallExclusive ==
  ASSUME Inv, NEW t \in Threads, NEW request, NEW ptr \in live \cup {None},
         NEW label \in Entry, Call(t, request, ptr, label), NEW z \in Sound'
  PROVE  OnceIn(z)'
  <1> USE DEF Call, Goto, shared, locals
  <1>1. z \in Regions /\ OnceIn(z) /\ TypeInv
    BY SoundOnce DEF Inv, Sound
  <1>2. Frontier(z)' = Frontier(z) /\ Listed(z)' = Listed(z)
    BY HeapAssumption
       DEF Inv, TypeInv, TypeOK, HolderBypassesHooks, Critical, Frontier, Skipping, Listed
  <1>3. \A h \in Hands : InHand(h)' = IF h = <<"arg", t>> THEN ptr ELSE InHand(h)
    <2> TAKE h \in Hands
    <2>1. PICK u \in Threads : h = <<"arg", u>> \/ h = <<"res", u>> \/ h = <<"pop", u>>
      BY HandsAre
    <2>2. CASE h = <<"arg", u>>
      BY <1>1, <2>2, InHandIs DEF TypeInv, TypeOK, Entry
    <2>3. CASE h = <<"res", u>>
      BY <1>1, <2>3, InHandIs DEF TypeInv, TypeOK, Entry
    <2>4. CASE h = <<"pop", u>>
      BY <1>1, <2>4, InHandIs DEF TypeInv, TypeOK, Entry
    <2> QED BY <2>1, <2>2, <2>3, <2>4
  <1>4. ListedOnce(z) /\ HeldOnce(z) /\ LiveBelow(z)
    BY <1>1 DEF OnceIn
  <1>5. ListedOnce(z)'
    <2>1. \A k \in Listed(z) : ptr # <<z, k>>
      BY <1>1, <1>4, ListedSlots, NoneIsNoSlot DEF ListedOnce, TypeInv
    <2>2. \A k \in Listed(z)', h \in Hands : InHand(h)' # <<z, k>>
      BY <1>2, <1>3, <1>4, <2>1 DEF ListedOnce
    <2> QED BY <1>2, <1>4, <2>2 DEF ListedOnce
  <1>6. HeldOnce(z)'
    <2>1. ASSUME ptr \in SlotsOf(z)
          PROVE  ptr \in live /\ ptr[2] < Frontier(z) /\ \A g \in Hands : InHand(g) # ptr
      BY <1>4, <2>1, NoneIsNoSlot DEF HeldOnce, LiveBelow
    <2>2. ASSUME NEW h \in Hands, InHand(h)' \in SlotsOf(z)
          PROVE  /\ InHand(h)'[2] < Frontier(z) /\ InHand(h)' \notin live'
                 /\ \A g \in Hands : InHand(g)' = InHand(h)' => g = h
      <3>1. CASE h = <<"arg", t>>
        BY <1>3, <2>1, <2>2, <3>1
      <3>2. CASE h # <<"arg", t>>
        BY <1>3, <1>4, <2>1, <2>2, <3>2 DEF HeldOnce
      <3> QED BY <3>1, <3>2
    <2> QED BY <1>2, <2>2 DEF HeldOnce, SlotsOf
  <1>7. LiveBelow(z)'
    BY <1>2, <1>4 DEF LiveBelow, SlotsOf
  <1> QED BY <1>5, <1>6, <1>7 DEF OnceIn

LEMMA EnterExclusive ==
  ASSUME Inv, NEW t \in Threads, Enter(t), NEW z \in Sound'
  PROVE  OnceIn(z)'
  <1>1. CASE Malloc(t)
    BY <1>1, CallExclusive DEF Malloc, Entry
  <1>2. CASE Calloc(t)
    BY <1>2, CallExclusive DEF Calloc, Entry
  <1>3. CASE Realloc(t)
    BY <1>3, CallExclusive DEF Realloc, Entry
  <1>4. CASE AlignedAlloc(t)
    BY <1>4, CallExclusive DEF AlignedAlloc, Entry
  <1>5. CASE PosixMemalign(t)
    BY <1>5, CallExclusive DEF PosixMemalign, Entry
  <1>6. CASE Memalign(t)
    BY <1>6, CallExclusive DEF Memalign, Entry
  <1>7. CASE Valloc(t)
    BY <1>7, CallExclusive DEF Valloc, Entry
  <1>8. CASE Pvalloc(t)
    BY <1>8, CallExclusive DEF Pvalloc, Entry
  <1>9. CASE Free(t)
    BY <1>9, CallExclusive DEF Free, Entry
  <1> QED BY <1>1, <1>2, <1>3, <1>4, <1>5, <1>6, <1>7, <1>8, <1>9 DEF Enter

LEMMA ReturnExclusive ==
  ASSUME Inv, NEW t \in Threads, Return(t), NEW z \in Sound'
  PROVE  OnceIn(z)'
  <1> USE DEF Return, Goto, shared
  <1>1. z \in Regions /\ OnceIn(z) /\ TypeInv
    BY SoundOnce DEF Inv, Sound
  <1>2. Frontier(z)' = Frontier(z) /\ Listed(z)' = Listed(z)
    BY HeapAssumption
       DEF Inv, TypeInv, TypeOK, HolderBypassesHooks, Critical, Frontier, Skipping, Listed
  <1>3. \A h \in Hands : InHand(h)' = IF h \in {<<"arg", t>>, <<"res", t>>} THEN None ELSE InHand(h)
    <2> TAKE h \in Hands
    <2>1. PICK u \in Threads : h = <<"arg", u>> \/ h = <<"res", u>> \/ h = <<"pop", u>>
      BY HandsAre
    <2>2. CASE h = <<"arg", u>>
      BY <1>1, <2>2, InHandIs DEF TypeInv, TypeOK
    <2>3. CASE h = <<"res", u>>
      BY <1>1, <2>3, InHandIs DEF TypeInv, TypeOK
    <2>4. CASE h = <<"pop", u>>
      BY <1>1, <2>4, InHandIs DEF TypeInv, TypeOK
    <2> QED BY <2>1, <2>2, <2>3, <2>4
  <1>4. ListedOnce(z) /\ HeldOnce(z) /\ LiveBelow(z)
    BY <1>1 DEF OnceIn
  <1>5. /\ <<"arg", t>> \in Hands /\ InHand(<<"arg", t>>) = arg[t]
        /\ <<"res", t>> \in Hands /\ InHand(<<"res", t>>) = res[t]
    BY HandsAre, InHandIs
  <1>6. \A b \in live' : b \in live \/ b = arg[t] \/ b = res[t]
    OBVIOUS
  <1>7. ListedOnce(z)'
    <2>1. \A k \in Listed(z) : None # <<z, k>>
      BY <1>1, ListedSlots, NoneIsNoSlot DEF TypeInv
    <2>2. \A k \in Listed(z), h \in Hands : InHand(h)' # <<z, k>>
      BY <1>3, <1>4, <2>1 DEF ListedOnce
    <2>3. \A k \in Listed(z) : <<z, k>> \notin live'
      BY <1>4, <1>5, <1>6 DEF ListedOnce
    <2> QED BY <1>2, <1>4, <2>2, <2>3 DEF ListedOnce
  <1>8. HeldOnce(z)'
    <2>1. ASSUME NEW h \in Hands, InHand(h)' \in SlotsOf(z)
          PROVE  /\ InHand(h)'[2] < Frontier(z) /\ InHand(h)' \notin live'
                 /\ \A g \in Hands : InHand(g)' = InHand(h)' => g = h
      <3>1. h # <<"arg", t>> /\ h # <<"res", t>> /\ InHand(h)' = InHand(h)
        BY <1>3, <2>1, NoneIsNoSlot
      <3>2. \A g \in Hands : InHand(g)' = InHand(h)' => InHand(g)' = InHand(g)
        BY <1>3, <2>1, NoneIsNoSlot
      <3> QED BY <1>4, <1>5, <1>6, <2>1, <3>1, <3>2 DEF HeldOnce
    <2> QED BY <1>2, <2>1 DEF HeldOnce, SlotsOf
  <1>9. LiveBelow(z)'
    BY <1>2, <1>4, <1>5, <1>6 DEF LiveBelow, HeldOnce, SlotsOf
  <1> QED BY <1>7, <1>8, <1>9 DEF OnceIn
-----------------------------------------------------------------------------
LEMMA InitExclusive == Init => Inv
  <1> SUFFICES ASSUME Init PROVE ExclusiveSlots
    BY InitTyped DEF Inv
  <1>1. \A z \in Regions : DOMAIN freeList[z] = {} /\ Listed(z) = {}
    BY DEF Init, Listed
  <1>2. \A h \in Hands : InHand(h) = None
    <2> TAKE h \in Hands
    <2>1. PICK u \in Threads : h = <<"arg", u>> \/ h = <<"res", u>> \/ h = <<"pop", u>>
      BY HandsAre
    <2> QED BY <2>1 DEF Init, InHand
  <1> QED BY <1>1, <1>2, NoneIsNoSlot
          DEF Init, ExclusiveSlots, ListedOnce, HeldOnce, LiveBelow, Sound

LEMMA StepExclusive == Inv /\ [Next]_vars => Inv'
  <1> SUFFICES ASSUME Inv, [Next]_vars PROVE ExclusiveSlots'
    BY StepTyped DEF Inv
  <1> SUFFICES ASSUME NEW z \in Sound' PROVE OnceIn(z)'
    BY DEF ExclusiveSlots, OnceIn
  <1>1. CASE UNCHANGED vars
    BY <1>1, SoundOnce DEF vars, OnceIn, ListedOnce, HeldOnce, LiveBelow, Listed,
       InHand, Frontier, Skipping, Sound, SlotsOf
  <1>2. ASSUME NEW t \in Threads, Enter(t) PROVE OnceIn(z)'
    BY <1>2, EnterExclusive
  <1>3. ASSUME NEW t \in Threads, Acquire(t) PROVE OnceIn(z)'
    BY <1>3, AllocLockExclusive, FreeLockExclusive DEF Acquire
  <1>4. ASSUME NEW t \in Threads, Proceed(t) PROVE OnceIn(z)'
    BY <1>4, AllocRejectExclusive, PopTakeExclusive, PopFinishExclusive,
       StartFreshExclusive, FreshFullExclusive, FreshTakeExclusive, FreshSkipExclusive,
       PushSkippedExclusive, PushFreedExclusive, LibcFreeExclusive, FallbackExclusive,
       LibcReallocExclusive, ReturnExclusive
       DEF Proceed
  <1> QED BY <1>1, <1>2, <1>3, <1>4 DEF Next

(* No slot is handed out twice: on the free list, owned by the program and *)
(* in the hands of a call exclude one another, and below the fresh part, in *)
(* every region where no aligned request failed after skipping slots        *)
(* (lowfat_aligned_alloc and internal_free under the mutex of               *)
(* libfunctions.c:24).                                                      *)
THEOREM ExclusiveOwnership == Spec => []ExclusiveSlots
  <1>1. Inv => ExclusiveSlots
    BY DEF Inv
  <1> QED BY <1>1, InitExclusive, StepExclusive, PTL DEF Spec

-----------------------------------------------------------------------------
(* No slot is lost.  The proofs rest on the exclusive ownership above.     *)

(* What a call has in hand at each point: a result only after the C        *)
(* library or the free list gave one, an argument until it is freed or     *)
(* returned, and in a realloc that frees the old block a new one.          *)
HandsOK(t) ==
  /\ pc[t] \notin {"free", "push", "ret"} => res[t] = None
  /\ pc[t] = "idle" => arg[t] = None
  /\ pc[t] \in {"free", "push"} => res[t] # None \/ req[t].op # "realloc"

HandsInv == \A t \in Threads : HandsOK(t)

(* Every slot below the fresh part is somewhere.                           *)
Kept(z) ==
  \A s \in SlotsOf(z) : s[2] < Frontier(z) =>
    s[2] \in Listed(z) \/ s \in live \/ \E h \in Hands : InHand(h) = s

(* An unmapped slot is on the free list or popped and about to be mapped.  *)
Unmapped(z) ==
  \A s \in SlotsOf(z) : released[s] # 0 =>
    /\ Released(z) > 0
    /\ s[2] \in Listed(z) \/ \E t \in Threads : InHand(<<"pop", t>>) = s

SlotsInv == Inv /\ HandsInv /\ \A z \in Sound : Kept(z) /\ Unmapped(z)

-----------------------------------------------------------------------------
(* Hands                                                                   *)

LEMMA SlotIsSome == \A s \in Slots \cup LibcBlocks : s # None
  BY HeapAssumption

LEMMA CallHands ==
  ASSUME TypeInv, HandsInv, NEW t \in Threads, NEW request, NEW ptr, NEW label \in Entry,
         label = "free" => request.op # "realloc",
         Call(t, request, ptr, label)
  PROVE  HandsInv'
  <1> USE DEF Call, Goto, locals, Entry
  <1> SUFFICES ASSUME NEW u \in Threads PROVE HandsOK(u)'
    BY DEF HandsInv
  <1>1. HandsOK(u)
    BY DEF HandsInv
  <1>2. CASE u = t
    BY <1>1, <1>2 DEF HandsOK, TypeInv, TypeOK
  <1>3. CASE u # t
    BY <1>1, <1>3 DEF HandsOK, TypeInv, TypeOK
  <1> QED BY <1>2, <1>3

LEMMA EnterHands ==
  ASSUME TypeInv, HandsInv, NEW t \in Threads, Enter(t)
  PROVE  HandsInv'
  <1>1. CASE Malloc(t)
    BY <1>1, CallHands DEF Malloc, Entry
  <1>2. CASE Calloc(t)
    BY <1>2, CallHands DEF Calloc, Entry
  <1>3. CASE Realloc(t)
    BY <1>3, CallHands DEF Realloc, Entry
  <1>4. CASE AlignedAlloc(t)
    BY <1>4, CallHands DEF AlignedAlloc, Entry
  <1>5. CASE PosixMemalign(t)
    BY <1>5, CallHands DEF PosixMemalign, Entry
  <1>6. CASE Memalign(t)
    BY <1>6, CallHands DEF Memalign, Entry
  <1>7. CASE Valloc(t)
    BY <1>7, CallHands DEF Valloc, Entry
  <1>8. CASE Pvalloc(t)
    BY <1>8, CallHands DEF Pvalloc, Entry
  <1>9. CASE Free(t)
    BY <1>9, CallHands DEF Free, Entry, Request
  <1> QED BY <1>1, <1>2, <1>3, <1>4, <1>5, <1>6, <1>7, <1>8, <1>9 DEF Enter

LEMMA StepHands ==
  ASSUME TypeInv, HandsInv, [Next]_vars
  PROVE  HandsInv'
  <1> USE DEF Goto, locals, shared
  <1>1. CASE UNCHANGED vars
    BY <1>1 DEF vars, HandsInv, HandsOK
  <1>2. ASSUME NEW t \in Threads, Enter(t) PROVE HandsInv'
    BY <1>2, EnterHands
  <1>3. ASSUME NEW t \in Threads, Acquire(t) \/ Proceed(t) PROVE HandsInv'
    <2> SUFFICES ASSUME NEW u \in Threads PROVE HandsOK(u)'
      BY DEF HandsInv
    <2>1. HandsOK(u) /\ HandsOK(t)
      BY DEF HandsInv
    <2> USE <2>1 DEF HandsOK, TypeInv, TypeOK
    <2>2. CASE AllocReject(t)
      BY <2>2 DEF AllocReject
    <2>3. CASE AllocLock(t)
      BY <2>3 DEF AllocLock
    <2>4. CASE PopTake(t)
      BY <2>4 DEF PopTake
    <2>5. CASE PopFinish(t)
      <3>1. <<zi[t], cur[t]>> # None
        BY <2>5, SlotIsSome DEF PopFinish, LocalsOK
      <3> QED BY <2>5, <3>1 DEF PopFinish, Granted
    <2>6. CASE StartFresh(t)
      BY <2>6 DEF StartFresh
    <2>7. CASE FreshFull(t)
      BY <2>7 DEF FreshFull
    <2>8. CASE FreshTake(t)
      <3>1. <<zi[t], cur[t]>> # None
        BY <2>8, SlotIsSome, NotFullIsSlot DEF FreshTake, RegionFull
      <3> QED BY <2>8, <3>1 DEF FreshTake, Granted
    <2>9. CASE FreshSkip(t)
      BY <2>9 DEF FreshSkip
    <2>10. CASE PushSkipped(t)
      BY <2>10 DEF PushSkipped
    <2>11. CASE FreeLock(t)
      BY <2>11 DEF FreeLock
    <2>12. CASE PushFreed(t)
      BY <2>12 DEF PushFreed
    <2>13. CASE LibcFree(t)
      BY <2>13 DEF LibcFree
    <2>14. CASE Fallback(t)
      BY <2>14, SlotIsSome DEF Fallback, Answered, Granted, LibcAnswer
    <2>15. CASE LibcRealloc(t)
      BY <2>15 DEF LibcRealloc
    <2>16. CASE Return(t)
      BY <2>16 DEF Return
    <2> QED BY <1>3, <2>2, <2>3, <2>4, <2>5, <2>6, <2>7, <2>8, <2>9, <2>10, <2>11, <2>12, <2>13,
               <2>14, <2>15, <2>16 DEF Acquire, Proceed
  <1> QED BY <1>1, <1>2, <1>3 DEF Next

LEMMA InitHands == Init => HandsInv
  BY DEF Init, HandsInv, HandsOK

LEMMA HandsAlways == Spec => [](TypeInv /\ HandsInv)
  BY InitTyped, InitHands, StepTyped, StepHands, PTL DEF Spec

(* A realloc frees the old block only with a new one in hand: the action   *)
(* property that a failed realloc keeps it (libfunctions.c:282-287).       *)
THEOREM ReallocNeverLoses == Spec => ReallocKeepsOld
  <1> DEFINE Keeps(t) ==
        req[t].op = "realloc" /\ arg[t] # None /\ req[t].size > 0 /\ arg'[t] = None
          => res'[t] # None \/ pc'[t] = "idle"
  <1>1. ASSUME TypeInv, HandsInv, [Next]_vars PROVE [\A t \in Threads : Keeps(t)]_vars
    <2> USE <1>1 DEF Goto, locals, shared
    <2> SUFFICES ASSUME Next, NEW u \in Threads, req[u].op = "realloc", arg[u] # None,
                        req[u].size > 0, arg'[u] = None
                 PROVE  res'[u] # None \/ pc'[u] = "idle"
      BY DEF vars
    <2>1. TypeOK /\ HandsOK(u) /\ LocalsOK(u)
      BY DEF TypeInv, HandsInv
    <2>2. PICK t \in Threads : Enter(t) \/ Acquire(t) \/ Proceed(t)
      BY DEF Next
    <2>3. CASE Enter(t)
      <3>1. PICK request, ptr, label : Call(t, request, ptr, label)
        BY <2>3 DEF Enter, Malloc, Calloc, Realloc, AlignedAlloc, PosixMemalign, Memalign, Valloc,
                    Pvalloc, Free
      <3> QED BY <2>1, <3>1 DEF Call, HandsOK, TypeOK
    <2>4. CASE AllocReject(t) \/ AllocLock(t) \/ PopTake(t) \/ PopFinish(t) \/ StartFresh(t)
               \/ FreshFull(t) \/ FreshTake(t) \/ FreshSkip(t) \/ PushSkipped(t) \/ FreeLock(t)
               \/ Fallback(t)
      <3>1. arg' = arg
        BY <2>4 DEF AllocReject, AllocLock, PopTake, PopFinish, StartFresh, FreshFull, FreshTake,
                    FreshSkip, PushSkipped, FreeLock, Fallback
      <3> QED BY <3>1
    <2>5. CASE PushFreed(t)
      BY <2>1, <2>5 DEF PushFreed, HandsOK, TypeOK
    <2>6. CASE LibcFree(t)
      BY <2>1, <2>6 DEF LibcFree, HandsOK, TypeOK
    <2>7. CASE LibcRealloc(t)
      BY <2>1, <2>7, SlotIsSome DEF LibcRealloc, LibcAnswer, LocalsOK, TypeOK
    <2>8. CASE Return(t)
      BY <2>1, <2>8 DEF Return, TypeOK
    <2> QED BY <2>2, <2>3, <2>4, <2>5, <2>6, <2>7, <2>8 DEF Acquire, Proceed
  <1> QED BY <1>1, HandsAlways, PTL DEF Spec, ReallocKeepsOld

-----------------------------------------------------------------------------
(* No slot is lost                                                         *)

LEMMA HandNames ==
  \A h \in Hands : \E t \in Threads : h = <<"arg", t>> \/ h = <<"res", t>> \/ h = <<"pop", t>>
  BY HandsAre

LEMMA PrimedHands ==
  ASSUME NEW u \in Threads
  PROVE  /\ <<"arg", u>> \in Hands /\ InHand(<<"arg", u>>)' = arg'[u]
         /\ <<"res", u>> \in Hands /\ InHand(<<"res", u>>)' = res'[u]
         /\ <<"pop", u>> \in Hands
         /\ pc'[u] = "popped" => InHand(<<"pop", u>>)' = <<zi'[u], cur'[u]>>
  BY HandsAre, InHandIs

(* A step that takes no slot of the region from where it was.              *)
LEMMA KeptCarried ==
  ASSUME NEW z \in Regions, Kept(z), Frontier(z)' = Frontier(z),
         Listed(z) \subseteq Listed(z)',
         \A s \in SlotsOf(z) : s \in live => s \in live' \/ \E g \in Hands : InHand(g)' = s,
         \A h \in Hands : InHand(h) \in SlotsOf(z) =>
           \/ InHand(h)[2] \in Listed(z)'
           \/ InHand(h) \in live'
           \/ \E g \in Hands : InHand(g)' = InHand(h)
  PROVE  Kept(z)'
  <1> SUFFICES ASSUME NEW s \in SlotsOf(z), s[2] < Frontier(z)
               PROVE  s[2] \in Listed(z)' \/ s \in live' \/ \E h \in Hands : InHand(h)' = s
    BY DEF Kept, SlotsOf
  <1>1. s[2] \in Listed(z) \/ s \in live \/ \E h \in Hands : InHand(h) = s
    BY DEF Kept
  <1> QED BY <1>1

LEMMA QuietFrontier ==
  ASSUME Inv, NEW t \in Threads, NEW z \in Sound',
         \/ AllocReject(t) \/ AllocLock(t) \/ StartFresh(t) \/ FreshFull(t) \/ FreshSkip(t)
         \/ FreeLock(t) \/ LibcFree(t) \/ Fallback(t) \/ LibcRealloc(t)
  PROVE  Frontier(z)' = Frontier(z) /\ freeList' = freeList /\ live' = live
  <1> USE DEF Goto, shared, locals
  <1> USE HeapAssumption
          DEF Inv, TypeInv, TypeOK, HolderBypassesHooks, Critical, Frontier, Skipping
  <1>1. CASE AllocReject(t)
    BY <1>1 DEF AllocReject
  <1>2. CASE AllocLock(t)
    BY <1>2 DEF AllocLock, Lock
  <1>3. CASE StartFresh(t)
    BY <1>3 DEF StartFresh
  <1>4. CASE FreshFull(t)
    <2>1. ASSUME zi[t] = z PROVE cur[t] = regions[z]
      <3>1. cur[t] >= regions[z] /\ cur[t] \in Nat /\ regions[z] \in Nat
        BY <1>4, <2>1 DEF FreshFull, LocalsOK
      <3>2. ~(cur[t] > regions[z])
        BY <1>4, <2>1 DEF FreshFull, Sound
      <3> QED BY <3>1, <3>2
    <2> QED BY <1>4, <2>1 DEF FreshFull
  <1>5. CASE FreshSkip(t)
    BY <1>5 DEF FreshSkip
  <1>6. CASE FreeLock(t)
    BY <1>6 DEF FreeLock, Lock
  <1>7. CASE LibcFree(t)
    BY <1>7 DEF LibcFree
  <1>8. CASE Fallback(t)
    BY <1>8 DEF Fallback, Answered, Granted
  <1>9. CASE LibcRealloc(t)
    BY <1>9 DEF LibcRealloc
  <1> QED BY <1>1, <1>2, <1>3, <1>4, <1>5, <1>6, <1>7, <1>8, <1>9

LEMMA QuietHands ==
  ASSUME Inv, HandsInv, NEW t \in Threads, NEW z,
         \/ AllocReject(t) \/ AllocLock(t) \/ StartFresh(t) \/ FreshFull(t) \/ FreshSkip(t)
         \/ FreeLock(t) \/ LibcFree(t) \/ Fallback(t) \/ LibcRealloc(t),
         NEW h \in Hands, InHand(h) \in SlotsOf(z)
  PROVE  InHand(h)' = InHand(h)
  <1> USE DEF Goto, shared, locals
  <1>1. PICK u \in Threads : h = <<"arg", u>> \/ h = <<"res", u>> \/ h = <<"pop", u>>
    BY HandNames
  <1>2. HandsOK(t) /\ TypeOK /\ LocalsOK(t)
    BY DEF HandsInv, Inv, TypeInv
  <1>3. \A b \in LibcBlocks \cup {None} : b \notin SlotsOf(z)
    BY HeapAssumption DEF SlotsOf
  <1>4. CASE h = <<"arg", u>>
    <2>1. InHand(h) = arg[u] /\ InHand(h)' = arg'[u] /\ arg[u] \notin LibcBlocks
      BY <1>3, <1>4, InHandIs
    <2>2. u # t \/ arg[t] \notin LibcBlocks
      BY <2>1
    <2>3. arg'[u] = arg[u]
      BY <1>2, <2>2 DEF AllocReject, AllocLock, StartFresh, FreshFull, FreshSkip, FreeLock,
                        LibcFree, Fallback, LibcRealloc, LocalsOK, TypeOK
    <2> QED BY <2>1, <2>3
  <1>5. CASE h = <<"res", u>>
    <2>1. InHand(h) = res[u] /\ InHand(h)' = res'[u] /\ res[u] # None
      BY <1>3, <1>5, InHandIs
    <2>2. res'[u] = res[u]
      BY <1>2, <2>1 DEF AllocReject, AllocLock, StartFresh, FreshFull, FreshSkip, FreeLock,
                        LibcFree, Fallback, LibcRealloc, HandsOK, TypeOK
    <2> QED BY <2>1, <2>2
  <1>6. CASE h = <<"pop", u>>
    <2>1. pc[u] = "popped" /\ InHand(h) = <<zi[u], cur[u]>>
      BY <1>3, <1>6, InHandIs
    <2>2. u # t
      BY <2>1 DEF AllocReject, AllocLock, StartFresh, FreshFull, FreshSkip, FreeLock,
                  LibcFree, Fallback, LibcRealloc
    <2>3. pc'[u] = pc[u] /\ zi'[u] = zi[u] /\ cur'[u] = cur[u]
      BY <1>2, <2>2 DEF AllocReject, AllocLock, StartFresh, FreshFull, FreshSkip, FreeLock,
                        LibcFree, Fallback, Answered, Granted, LibcRealloc, TypeOK
    <2> QED BY <1>6, <2>1, <2>3, InHandIs
  <1> QED BY <1>1, <1>4, <1>5, <1>6

LEMMA QuietKept ==
  ASSUME Inv, HandsInv, NEW t \in Threads, NEW z \in Sound', Kept(z),
         \/ AllocReject(t) \/ AllocLock(t) \/ StartFresh(t) \/ FreshFull(t) \/ FreshSkip(t)
         \/ FreeLock(t) \/ LibcFree(t) \/ Fallback(t) \/ LibcRealloc(t)
  PROVE  Kept(z)'
  <1>1. z \in Regions
    BY DEF Sound
  <1>2. Frontier(z)' = Frontier(z) /\ freeList' = freeList /\ live' = live
    BY QuietFrontier
  <1>3. Listed(z)' = Listed(z)
    BY <1>2 DEF Listed
  <1>4. \A h \in Hands : InHand(h) \in SlotsOf(z) => InHand(h)' = InHand(h)
    BY QuietHands
  <1> QED BY <1>1, <1>2, <1>3, <1>4, KeptCarried

LEMMA CallKept ==
  ASSUME Inv, HandsInv, NEW t \in Threads, NEW z \in Sound', Kept(z),
         NEW request, NEW ptr, NEW label \in Entry, Call(t, request, ptr, label)
  PROVE  Kept(z)'
  <1> USE DEF Call, Goto, shared, locals
  <1>1. z \in Regions /\ TypeOK /\ HandsOK(t)
    BY DEF Sound, HandsInv, Inv, TypeInv
  <1>2. Frontier(z)' = Frontier(z) /\ Listed(z)' = Listed(z)
    BY HeapAssumption DEF Inv, TypeInv, TypeOK, HolderBypassesHooks, Critical, Frontier, Skipping,
       Listed, Entry
  <1>3. InHand(<<"arg", t>>)' = ptr /\ <<"arg", t>> \in Hands
    BY <1>1, PrimedHands DEF TypeOK
  <1>4. ASSUME NEW h \in Hands, InHand(h) \in SlotsOf(z) PROVE InHand(h)' = InHand(h)
    <2>1. PICK u \in Threads : h = <<"arg", u>> \/ h = <<"res", u>> \/ h = <<"pop", u>>
      BY HandNames
    <2>2. CASE h = <<"arg", u>>
      <3>1. arg[u] # None /\ InHand(h) = arg[u] /\ InHand(h)' = arg'[u]
        BY <1>4, <2>2, InHandIs, NoneIsNoSlot
      <3>2. u # t
        BY <1>1, <3>1 DEF HandsOK
      <3> QED BY <1>1, <3>1, <3>2 DEF TypeOK
    <2>3. CASE h = <<"res", u>>
      BY <2>3, InHandIs
    <2>4. CASE h = <<"pop", u>>
      <3>1. pc[u] = "popped" /\ InHand(h) = <<zi[u], cur[u]>>
        BY <1>4, <2>4, InHandIs, NoneIsNoSlot
      <3>2. pc'[u] = "popped" /\ zi'[u] = zi[u] /\ cur'[u] = cur[u]
        BY <1>1, <3>1 DEF TypeOK
      <3> QED BY <2>4, <3>1, <3>2, InHandIs
    <2> QED BY <2>1, <2>2, <2>3, <2>4
  <1> QED BY <1>1, <1>2, <1>3, <1>4, KeptCarried

LEMMA EnterKept ==
  ASSUME Inv, HandsInv, NEW t \in Threads, NEW z \in Sound', Kept(z), Enter(t)
  PROVE  Kept(z)'
  <1>1. PICK request, ptr, label : label \in Entry /\ Call(t, request, ptr, label)
    BY DEF Enter, Malloc, Calloc, Realloc, AlignedAlloc, PosixMemalign, Memalign, Valloc,
           Pvalloc, Free, Entry
  <1> QED BY <1>1, CallKept

LEMMA PoppedFrom ==
  ASSUME NEW z \in Regions, freeList[z] \in Seq(Nat), Len(freeList[z]) > 0,
         freeList'[z] = SubSeq(freeList[z], 1, Len(freeList[z]) - 1)
  PROVE  Listed(z) \subseteq Listed(z)' \cup {freeList[z][Len(freeList[z])]}
  <1> DEFINE n == Len(freeList[z])
  <1>1. /\ n \in Nat \ {0} /\ DOMAIN freeList[z] = 1 .. n /\ DOMAIN freeList'[z] = 1 .. n - 1
        /\ \A i \in 1 .. n - 1 : freeList'[z][i] = freeList[z][i]
    BY SubSeqList
  <1>2. \A i \in 1 .. n : i = n \/ i \in 1 .. n - 1
    BY <1>1
  <1> QED BY <1>1, <1>2 DEF Listed

(* In the critical section the thread's own move of a slot leaves the      *)
(* other threads' hands alone.                                             *)
LEMMA OtherHands ==
  ASSUME TypeOK, NEW t \in Threads, NEW u \in Threads, u # t,
         PopTake(t) \/ PopFinish(t) \/ FreshTake(t) \/ PushSkipped(t) \/ PushFreed(t) \/ Return(t)
  PROVE  /\ arg'[u] = arg[u] /\ res'[u] = res[u] /\ pc'[u] = pc[u] /\ zi'[u] = zi[u]
         /\ cur'[u] = cur[u]
         /\ InHand(<<"arg", u>>)' = InHand(<<"arg", u>>)
         /\ InHand(<<"res", u>>)' = InHand(<<"res", u>>)
         /\ InHand(<<"pop", u>>)' = InHand(<<"pop", u>>)
  <1>1. /\ arg'[u] = arg[u] /\ res'[u] = res[u] /\ pc'[u] = pc[u] /\ zi'[u] = zi[u]
        /\ cur'[u] = cur[u]
    BY DEF TypeOK, PopTake, PopFinish, FreshTake, PushSkipped, PushFreed, Return, Goto, Granted,
           locals
  <1> QED BY <1>1, InHandIs

LEMMA PopTakeKept ==
  ASSUME Inv, HandsInv, NEW t \in Threads, NEW z \in Sound', Kept(z), PopTake(t)
  PROVE  Kept(z)'
  <1> DEFINE last == freeList[z][Len(freeList[z])]
  <1>1. z \in Regions /\ TypeOK
    BY DEF Sound, Inv, TypeInv
  <1>2. Frontier(z)' = Frontier(z)
    BY HeapAssumption DEF PopTake, Goto, Inv, TypeInv, TypeOK, HolderBypassesHooks, Critical,
       Frontier, Skipping
  <1>3. pc'[t] = "popped" /\ zi'[t] = zi[t] /\ live' = live /\ arg' = arg /\ res' = res
        /\ pc[t] = "list"
    BY <1>1 DEF PopTake, Goto, TypeOK
  <1>4. ASSUME NEW h \in Hands, InHand(h) \in SlotsOf(z) PROVE InHand(h)' = InHand(h)
    <2>1. PICK u \in Threads : h = <<"arg", u>> \/ h = <<"res", u>> \/ h = <<"pop", u>>
      BY HandNames
    <2>2. CASE u = t
      BY <1>3, <1>4, <2>1, <2>2, InHandIs, NoneIsNoSlot
    <2>3. CASE u # t
      BY <1>1, <2>1, <2>3, OtherHands
    <2> QED BY <2>2, <2>3
  <1>5. CASE z # zi[t]
    <2>1. Listed(z)' = Listed(z)
      BY <1>1, <1>5 DEF PopTake, TypeOK, Listed
    <2> QED BY <1>1, <1>2, <1>3, <1>4, <2>1, KeptCarried
  <1>6. CASE z = zi[t]
    <2>1. /\ freeList[z] \in Seq(Nat) /\ Len(freeList[z]) > 0
          /\ freeList'[z] = SubSeq(freeList[z], 1, Len(freeList[z]) - 1) /\ cur'[t] = last
      BY <1>1, <1>6 DEF PopTake, TypeOK
    <2>2. Listed(z) \subseteq Listed(z)' \cup {last}
      BY <1>1, <2>1, PoppedFrom
    <2>3. <<"pop", t>> \in Hands /\ InHand(<<"pop", t>>)' = <<z, last>>
      BY <1>3, <1>6, <2>1, PrimedHands
    <2>4. \A s \in SlotsOf(z) : s = <<z, s[2]>>
      BY DEF SlotsOf, Slots
    <2>5. ASSUME NEW s \in SlotsOf(z), s[2] < Frontier(z)
          PROVE  s[2] \in Listed(z)' \/ s \in live' \/ \E h \in Hands : InHand(h)' = s
      <3>1. s[2] \in Listed(z) \/ s \in live \/ \E h \in Hands : InHand(h) = s
        BY <2>5 DEF Kept
      <3> QED BY <1>3, <1>4, <2>2, <2>3, <2>4, <3>1
    <2> QED BY <1>2, <2>5 DEF Kept, SlotsOf
  <1> QED BY <1>5, <1>6

LEMMA PopFinishKept ==
  ASSUME Inv, HandsInv, NEW t \in Threads, NEW z \in Sound', Kept(z), PopFinish(t)
  PROVE  Kept(z)'
  <1>1. z \in Regions /\ TypeOK /\ HandsOK(t)
    BY DEF Sound, HandsInv, Inv, TypeInv
  <1>2. Frontier(z)' = Frontier(z)
    BY HeapAssumption DEF PopFinish, Granted, Goto, locals, Inv, TypeInv, TypeOK,
       HolderBypassesHooks, Critical, Frontier, Skipping
  <1>3. live' = live /\ arg' = arg /\ freeList' = freeList /\ pc[t] = "popped"
        /\ res'[t] = <<zi[t], cur[t]>> /\ res[t] = None
    BY <1>1 DEF PopFinish, TypeOK, HandsOK
  <1>4. Listed(z)' = Listed(z)
    BY <1>3 DEF Listed
  <1>5. ASSUME NEW h \in Hands, InHand(h) \in SlotsOf(z)
        PROVE  \E g \in Hands : InHand(g)' = InHand(h)
    <2>1. PICK u \in Threads : h = <<"arg", u>> \/ h = <<"res", u>> \/ h = <<"pop", u>>
      BY HandNames
    <2>2. CASE u # t
      BY <1>1, <2>1, <2>2, OtherHands
    <2>3. CASE u = t /\ h = <<"arg", u>>
      BY <1>3, <2>3, InHandIs
    <2>4. CASE u = t /\ h = <<"res", u>>
      BY <1>3, <1>5, <2>4, InHandIs, NoneIsNoSlot
    <2>5. CASE u = t /\ h = <<"pop", u>>
      BY <1>3, <2>5, InHandIs, PrimedHands
    <2> QED BY <2>1, <2>2, <2>3, <2>4, <2>5
  <1> QED BY <1>1, <1>2, <1>3, <1>4, <1>5, KeptCarried

(* The bump pointer moves past the slot that it hands out.                 *)
LEMMA FreshTakeKept ==
  ASSUME Inv, HandsInv, NEW t \in Threads, NEW z \in Sound', Kept(z), FreshTake(t)
  PROVE  Kept(z)'
  <1>1. z \in Regions /\ TypeOK /\ HandsOK(t)
    BY DEF Sound, HandsInv, Inv, TypeInv
  <1>2. live' = live /\ arg' = arg /\ freeList' = freeList /\ pc[t] = "fresh"
        /\ res'[t] = <<zi[t], cur[t]>> /\ res[t] = None /\ cur[t] \in Nat
    BY <1>1 DEF FreshTake, TypeOK, HandsOK
  <1>3. Listed(z)' = Listed(z)
    BY <1>2 DEF Listed
  <1>4. ASSUME NEW h \in Hands, InHand(h) \in SlotsOf(z)
        PROVE  \E g \in Hands : InHand(g)' = InHand(h)
    <2>1. PICK u \in Threads : h = <<"arg", u>> \/ h = <<"res", u>> \/ h = <<"pop", u>>
      BY HandNames
    <2>2. CASE u # t
      BY <1>1, <2>1, <2>2, OtherHands
    <2>3. CASE u = t /\ h = <<"arg", u>>
      BY <1>2, <2>3, InHandIs
    <2>4. CASE u = t /\ (h = <<"res", u>> \/ h = <<"pop", u>>)
      BY <1>2, <1>4, <2>4, InHandIs, NoneIsNoSlot
    <2> QED BY <2>1, <2>2, <2>3, <2>4
  <1>5. CASE z # zi[t]
    <2>1. Frontier(z)' = Frontier(z)
      BY <1>5, HeapAssumption DEF FreshTake, Granted, Goto, locals, Inv, TypeInv, TypeOK,
         HolderBypassesHooks, Critical, Frontier, Skipping
    <2> QED BY <1>1, <1>2, <1>3, <1>4, <2>1, KeptCarried
  <1>6. CASE z = zi[t]
    <2>1. Frontier(z) = cur[t] /\ Frontier(z)' = cur[t] + 1
      BY <1>6, HeapAssumption DEF FreshTake, NextFresh, Granted, Goto, locals, Inv, TypeInv, TypeOK,
         HolderBypassesHooks, Critical, Frontier, Skipping
    <2>2. \A s \in SlotsOf(z) : s[2] \in Nat /\ s = <<z, s[2]>>
      BY DEF SlotsOf, Slots
    <2>3. <<"res", t>> \in Hands /\ InHand(<<"res", t>>)' = <<z, cur[t]>>
      BY <1>2, <1>6, PrimedHands
    <2>4. ASSUME NEW s \in SlotsOf(z), s[2] < cur[t] + 1
          PROVE  s[2] \in Listed(z)' \/ s \in live' \/ \E h \in Hands : InHand(h)' = s
      <3>1. CASE s[2] = cur[t]
        BY <2>2, <2>3, <3>1
      <3>2. CASE s[2] # cur[t]
        <4>1. s[2] < Frontier(z)
          BY <1>2, <2>1, <2>2, <2>4, <3>2
        <4>2. s[2] \in Listed(z) \/ s \in live \/ \E h \in Hands : InHand(h) = s
          BY <4>1 DEF Kept
        <4> QED BY <1>2, <1>3, <1>4, <4>2
      <3> QED BY <3>1, <3>2
    <2> QED BY <2>1, <2>4 DEF Kept, SlotsOf
  <1> QED BY <1>5, <1>6

(* A skipped slot is listed before the thread goes on to the next one.     *)
LEMMA PushSkippedKept ==
  ASSUME Inv, HandsInv, NEW t \in Threads, NEW z \in Sound', Kept(z), PushSkipped(t)
  PROVE  Kept(z)'
  <1>1. z \in Regions /\ TypeOK /\ LocalsOK(t)
    BY DEF Sound, Inv, TypeInv
  <1>2. live' = live /\ arg' = arg /\ res' = res /\ pc[t] = "skip" /\ cur[t] \in Nat
    BY <1>1 DEF PushSkipped, TypeOK
  <1>3. ASSUME NEW h \in Hands, InHand(h) \in SlotsOf(z)
        PROVE  InHand(h)' = InHand(h)
    <2>1. PICK u \in Threads : h = <<"arg", u>> \/ h = <<"res", u>> \/ h = <<"pop", u>>
      BY HandNames
    <2>2. CASE u # t
      BY <1>1, <2>1, <2>2, OtherHands
    <2>3. CASE u = t
      BY <1>2, <1>3, <2>1, <2>3, InHandIs, NoneIsNoSlot
    <2> QED BY <2>2, <2>3
  <1>4. CASE z # zi[t]
    <2>1. Frontier(z)' = Frontier(z) /\ Listed(z)' = Listed(z)
      BY <1>4, HeapAssumption DEF PushSkipped, Push, Goto, Inv, TypeInv, TypeOK,
         HolderBypassesHooks, Critical, Frontier, Skipping, Listed
    <2> QED BY <1>1, <1>2, <1>3, <2>1, KeptCarried
  <1>5. CASE z = zi[t]
    <2>1. Frontier(z) = cur[t] /\ Frontier(z)' = cur[t] + 1
      BY <1>5, HeapAssumption DEF PushSkipped, Goto, Inv, TypeInv, TypeOK,
         HolderBypassesHooks, Critical, Frontier, Skipping
    <2>2. freeList[z] \in Seq(Nat) /\ freeList'[z] = Append(freeList[z], cur[t])
      BY <1>1, <1>5 DEF PushSkipped, Push, TypeOK, LocalsOK
    <2>3. Listed(z)' = Listed(z) \cup {cur[t]}
      BY <1>1, <1>2, <2>2, AppendListed
    <2>4. \A s \in SlotsOf(z) : s[2] \in Nat
      BY DEF SlotsOf, Slots
    <2>5. ASSUME NEW s \in SlotsOf(z), s[2] < cur[t] + 1
          PROVE  s[2] \in Listed(z)' \/ s \in live' \/ \E h \in Hands : InHand(h)' = s
      <3>1. CASE s[2] = cur[t]
        BY <2>3, <3>1
      <3>2. CASE s[2] # cur[t]
        <4>1. s[2] < Frontier(z)
          BY <1>2, <2>1, <2>4, <2>5, <3>2
        <4>2. s[2] \in Listed(z) \/ s \in live \/ \E h \in Hands : InHand(h) = s
          BY <4>1 DEF Kept
        <4> QED BY <1>2, <1>3, <2>3, <4>2
      <3> QED BY <3>1, <3>2
    <2> QED BY <2>1, <2>5 DEF Kept, SlotsOf
  <1> QED BY <1>4, <1>5

LEMMA PushFreedKept ==
  ASSUME Inv, HandsInv, NEW t \in Threads, NEW z \in Sound', Kept(z), PushFreed(t)
  PROVE  Kept(z)'
  <1>1. z \in Regions /\ TypeOK /\ LocalsOK(t)
    BY DEF Sound, Inv, TypeInv
  <1>2. live' = live /\ res' = res /\ pc[t] = "push" /\ cur[t] \in Nat /\ zi[t] \in Regions
        /\ arg[t] = <<zi[t], cur[t]>>
    BY <1>1 DEF PushFreed, TypeOK, LocalsOK
  <1>y. PICK y \in Regions : y = zi[t]
    BY <1>2
  <1>3. Frontier(z)' = Frontier(z)
    BY HeapAssumption DEF PushFreed, Goto, locals, Inv, TypeInv, TypeOK,
       HolderBypassesHooks, Critical, Frontier, Skipping
  <1>4. Listed(y)' = Listed(y) \cup {cur[t]}
    <2>1. freeList[y] \in Seq(Nat) /\ freeList'[y] = Append(freeList[y], cur[t])
      BY <1>1, <1>2, <1>y DEF PushFreed, Push, TypeOK, LocalsOK
    <2> QED BY <1>2, <2>1, AppendListed
  <1>5. Listed(z) \subseteq Listed(z)'
    <2>1. CASE z # y
      BY <1>1, <1>y, <2>1 DEF PushFreed, Push, TypeOK, Listed
    <2> QED BY <1>4, <2>1
  <1>6. ASSUME NEW h \in Hands, InHand(h) \in SlotsOf(z)
        PROVE  InHand(h)[2] \in Listed(z)' \/ InHand(h)' = InHand(h)
    <2>1. PICK u \in Threads : h = <<"arg", u>> \/ h = <<"res", u>> \/ h = <<"pop", u>>
      BY HandNames
    <2>2. CASE u # t
      BY <1>1, <2>1, <2>2, OtherHands
    <2>3. CASE u = t /\ h = <<"arg", u>>
      <3>1. InHand(h) = <<zi[t], cur[t]>>
        BY <1>2, <2>3, InHandIs
      <3>2. y = z
        BY <1>6, <1>y, <3>1, SlotsOfRegion
      <3> QED BY <1>4, <3>1, <3>2
    <2>4. CASE u = t /\ h # <<"arg", u>>
      BY <1>2, <1>6, <2>1, <2>4, InHandIs, NoneIsNoSlot
    <2> QED BY <2>1, <2>2, <2>3, <2>4
  <1> QED BY <1>1, <1>2, <1>3, <1>5, <1>6, KeptCarried

LEMMA ReturnKept ==
  ASSUME Inv, HandsInv, NEW t \in Threads, NEW z \in Sound', Kept(z), Return(t)
  PROVE  Kept(z)'
  <1>1. z \in Regions /\ TypeOK
    BY DEF Sound, Inv, TypeInv
  <1>2. pc[t] = "ret" /\ live' = live \cup ({res[t], arg[t]} \ {None})
    BY DEF Return
  <1>3. Frontier(z)' = Frontier(z) /\ Listed(z)' = Listed(z)
    BY HeapAssumption DEF Return, shared, Goto, Inv, TypeInv, TypeOK, HolderBypassesHooks,
       Critical, Frontier, Skipping, Listed
  <1>4. ASSUME NEW h \in Hands, InHand(h) \in SlotsOf(z)
        PROVE  InHand(h) \in live' \/ InHand(h)' = InHand(h)
    <2>1. PICK u \in Threads : h = <<"arg", u>> \/ h = <<"res", u>> \/ h = <<"pop", u>>
      BY HandNames
    <2>2. CASE u # t
      BY <1>1, <2>1, <2>2, OtherHands
    <2>3. CASE u = t
      BY <1>2, <1>4, <2>1, <2>3, InHandIs, NoneIsNoSlot
    <2> QED BY <2>2, <2>3
  <1> QED BY <1>1, <1>2, <1>3, <1>4, KeptCarried

LEMMA StepKept ==
  ASSUME Inv, HandsInv, NEW z \in Sound', Kept(z), [Next]_vars
  PROVE  Kept(z)'
  <1>1. CASE UNCHANGED vars
    BY <1>1 DEF vars, Kept, Listed, Frontier, Skipping, InHand, SlotsOf
  <1>2. ASSUME NEW t \in Threads, Enter(t) PROVE Kept(z)'
    BY <1>2, EnterKept
  <1>3. ASSUME NEW t \in Threads, Acquire(t) \/ Proceed(t) PROVE Kept(z)'
    BY <1>3, QuietKept, PopTakeKept, PopFinishKept, FreshTakeKept, PushSkippedKept, PushFreedKept,
       ReturnKept DEF Acquire, Proceed
  <1> QED BY <1>1, <1>2, <1>3 DEF Next

-----------------------------------------------------------------------------
(* Memory in use is mapped                                                 *)

(* A step that changes no page protection in the region, lists no fewer    *)
(* slots and finishes no pop.                                              *)
LEMMA UnmappedCarried ==
  ASSUME NEW z \in Regions, Unmapped(z),
         \A s \in SlotsOf(z) : released'[s] = released[s],
         Listed(z) \subseteq Listed(z)',
         \A u \in Threads : pc[u] = "popped" /\ zi[u] = z =>
           pc'[u] = "popped" /\ zi'[u] = zi[u] /\ cur'[u] = cur[u]
  PROVE  Unmapped(z)'
  <1> SUFFICES ASSUME NEW s \in SlotsOf(z), released[s] # 0
               PROVE  /\ Released(z) > 0
                      /\ s[2] \in Listed(z)' \/ \E u \in Threads : InHand(<<"pop", u>>)' = s
    BY DEF Unmapped, SlotsOf
  <1>1. Released(z) > 0
    BY DEF Unmapped
  <1>2. CASE s[2] \in Listed(z)
    BY <1>1, <1>2
  <1>3. ASSUME NEW u \in Threads, InHand(<<"pop", u>>) = s
        PROVE  InHand(<<"pop", u>>)' = s
    <2>1. pc[u] = "popped" /\ s = <<zi[u], cur[u]>>
      BY <1>3, InHandIs, NoneIsNoSlot
    <2>2. zi[u] = z
      BY <2>1, SlotsOfRegion
    <2> QED BY <2>1, <2>2, InHandIs
  <1> QED BY <1>1, <1>2, <1>3 DEF Unmapped

LEMMA QuietUnmapped ==
  ASSUME Inv, NEW t \in Threads, NEW z \in Sound', Unmapped(z),
         \/ AllocReject(t) \/ AllocLock(t) \/ StartFresh(t) \/ FreshFull(t) \/ FreshSkip(t)
         \/ FreeLock(t) \/ LibcFree(t) \/ Fallback(t) \/ LibcRealloc(t) \/ Return(t)
  PROVE  Unmapped(z)'
  <1>1. z \in Regions /\ TypeOK
    BY DEF Sound, Inv, TypeInv
  <1>2. released' = released /\ freeList' = freeList
    BY DEF AllocReject, AllocLock, StartFresh, FreshFull, FreshSkip, FreeLock, LibcFree, Fallback,
           LibcRealloc, Return, shared
  <1>3. ASSUME NEW u \in Threads, pc[u] = "popped"
        PROVE  pc'[u] = "popped" /\ zi'[u] = zi[u] /\ cur'[u] = cur[u]
    <2>1. u # t
      BY <1>3 DEF AllocReject, AllocLock, StartFresh, FreshFull, FreshSkip, FreeLock, LibcFree,
                  Fallback, LibcRealloc, Return
    <2> QED BY <1>1, <1>3, <2>1
            DEF AllocReject, AllocLock, StartFresh, FreshFull, FreshSkip, FreeLock, LibcFree,
                Fallback, LibcRealloc, Return, Goto, Granted, Answered, locals, TypeOK
  <1>4. Listed(z)' = Listed(z)
    BY <1>2 DEF Listed
  <1> QED BY <1>1, <1>2, <1>3, <1>4, UnmappedCarried

LEMMA EnterUnmapped ==
  ASSUME Inv, NEW t \in Threads, NEW z \in Sound', Unmapped(z), Enter(t)
  PROVE  Unmapped(z)'
  <1>1. PICK request, ptr, label : label \in Entry /\ Call(t, request, ptr, label)
    BY DEF Enter, Malloc, Calloc, Realloc, AlignedAlloc, PosixMemalign, Memalign, Valloc,
           Pvalloc, Free, Entry
  <1>2. z \in Regions /\ TypeOK
    BY DEF Sound, Inv, TypeInv
  <1>3. released' = released /\ freeList' = freeList /\ zi' = zi /\ cur' = cur
    BY <1>1 DEF Call, shared, locals
  <1>4. \A u \in Threads : pc[u] = "popped" => pc'[u] = "popped"
    BY <1>1, <1>2 DEF Call, Goto, TypeOK
  <1>5. Listed(z)' = Listed(z)
    BY <1>3 DEF Listed
  <1> QED BY <1>2, <1>3, <1>4, <1>5, UnmappedCarried

LEMMA PopTakeUnmapped ==
  ASSUME Inv, NEW t \in Threads, NEW z \in Sound', Unmapped(z), PopTake(t)
  PROVE  Unmapped(z)'
  <1> DEFINE last == freeList[z][Len(freeList[z])]
  <1>1. z \in Regions /\ TypeOK
    BY DEF Sound, Inv, TypeInv
  <1>2. pc'[t] = "popped" /\ zi' = zi /\ released' = released /\ pc[t] = "list"
    BY <1>1 DEF PopTake, Goto, TypeOK
  <1>3. \A u \in Threads : u # t => InHand(<<"pop", u>>)' = InHand(<<"pop", u>>)
    BY <1>1, OtherHands
  <1>4. CASE z # zi[t]
    <2>1. Listed(z)' = Listed(z)
      BY <1>1, <1>4 DEF PopTake, TypeOK, Listed
    <2>2. \A u \in Threads : u # t => pc'[u] = pc[u] /\ cur'[u] = cur[u]
      BY <1>1, OtherHands
    <2> QED BY <1>1, <1>2, <1>4, <2>1, <2>2, UnmappedCarried
  <1>5. CASE z = zi[t]
    <2>1. /\ freeList[z] \in Seq(Nat) /\ Len(freeList[z]) > 0
          /\ freeList'[z] = SubSeq(freeList[z], 1, Len(freeList[z]) - 1) /\ cur'[t] = last
      BY <1>1, <1>5 DEF PopTake, TypeOK
    <2>2. Listed(z) \subseteq Listed(z)' \cup {last}
      BY <1>1, <2>1, PoppedFrom
    <2>3. InHand(<<"pop", t>>)' = <<z, last>> /\ InHand(<<"pop", t>>) = None
      BY <1>2, <1>5, <2>1, PrimedHands, InHandIs
    <2>4. ASSUME NEW s \in SlotsOf(z), released[s] # 0
          PROVE  /\ Released(z) > 0
                 /\ s[2] \in Listed(z)' \/ \E u \in Threads : InHand(<<"pop", u>>)' = s
      <3>1. s = <<z, s[2]>> /\ s # None
        BY NoneIsNoSlot DEF SlotsOf, Slots
      <3>2. Released(z) > 0 /\ (s[2] \in Listed(z) \/ \E u \in Threads : InHand(<<"pop", u>>) = s)
        BY <2>4 DEF Unmapped
      <3> QED BY <1>3, <2>2, <2>3, <3>1, <3>2
    <2> QED BY <1>2, <2>4 DEF Unmapped, SlotsOf
  <1> QED BY <1>4, <1>5

(* The pop maps its slot again, where the push unmapped it.                *)
LEMMA PopFinishUnmapped ==
  ASSUME Inv, NEW t \in Threads, NEW z \in Sound', Unmapped(z), PopFinish(t)
  PROVE  Unmapped(z)'
  <1>1. z \in Regions /\ TypeOK /\ pc[t] = "popped"
    BY DEF Sound, Inv, TypeInv, PopFinish
  <1>2. freeList' = freeList /\ zi' = zi /\ cur' = cur
    BY DEF PopFinish, locals
  <1>3. \A u \in Threads : u # t => pc'[u] = pc[u]
    BY <1>1, OtherHands
  <1>4. Listed(z)' = Listed(z)
    BY <1>2 DEF Listed
  <1>5. CASE z # zi[t]
    <2>1. \A s \in SlotsOf(z) : released'[s] = released[s]
      BY <1>1, <1>5 DEF PopFinish, Reprotect, TypeOK, SlotsOf
    <2> QED BY <1>1, <1>2, <1>3, <1>4, <1>5, <2>1, UnmappedCarried
  <1>6. CASE z = zi[t]
    <2>1. InHand(<<"pop", t>>) = <<z, cur[t]>>
      BY <1>1, <1>6, InHandIs
    <2>2. \A u \in Threads : u # t => InHand(<<"pop", u>>)' = InHand(<<"pop", u>>)
      BY <1>1, OtherHands
    <2>3. ASSUME NEW s \in SlotsOf(z), released'[s] # 0
          PROVE  /\ Released(z) > 0
                 /\ s[2] \in Listed(z)' \/ \E u \in Threads : InHand(<<"pop", u>>)' = s
      <3>1. released[s] # 0
        BY <1>1, <1>6, <2>3 DEF PopFinish, Reprotect, TypeOK, SlotsOf
      <3>2. Released(z) > 0 /\ (s[2] \in Listed(z) \/ \E u \in Threads : InHand(<<"pop", u>>) = s)
        BY <3>1 DEF Unmapped
      <3>3. s # <<z, cur[t]>>
        BY <1>1, <1>6, <2>3, <3>2 DEF PopFinish, Reprotect, TypeOK, SlotsOf
      <3> QED BY <1>4, <2>1, <2>2, <3>2, <3>3
    <2> QED BY <2>3 DEF Unmapped, SlotsOf
  <1> QED BY <1>5, <1>6

LEMMA FreshTakeUnmapped ==
  ASSUME Inv, NEW t \in Threads, NEW z \in Sound', Unmapped(z), FreshTake(t)
  PROVE  Unmapped(z)'
  <1>1. z \in Regions /\ TypeOK /\ pc[t] = "fresh"
    BY DEF Sound, Inv, TypeInv, FreshTake
  <1>2. freeList' = freeList /\ zi' = zi /\ cur' = cur
    BY DEF FreshTake, locals
  <1>3. \A u \in Threads : pc[u] = "popped" => pc'[u] = "popped"
    BY <1>1, OtherHands
  <1>4. Listed(z)' = Listed(z)
    BY <1>2 DEF Listed
  <1>5. ASSUME NEW s \in SlotsOf(z), released'[s] # 0 PROVE released'[s] = released[s]
    BY <1>1, <1>5 DEF FreshTake, TypeOK, SlotsOf
  <1>6. ASSUME NEW s \in SlotsOf(z), released'[s] # 0
        PROVE  /\ Released(z) > 0
               /\ s[2] \in Listed(z)' \/ \E u \in Threads : InHand(<<"pop", u>>)' = s
    <2>1. Released(z) > 0 /\ (s[2] \in Listed(z) \/ \E u \in Threads : InHand(<<"pop", u>>) = s)
      BY <1>5, <1>6 DEF Unmapped
    <2>2. ASSUME NEW u \in Threads, InHand(<<"pop", u>>) = s PROVE InHand(<<"pop", u>>)' = s
      <3>1. pc[u] = "popped" /\ s = <<zi[u], cur[u]>>
        BY <2>2, InHandIs, NoneIsNoSlot
      <3> QED BY <1>2, <1>3, <3>1, InHandIs
    <2> QED BY <1>4, <2>1, <2>2
  <1> QED BY <1>6 DEF Unmapped, SlotsOf

(* A push lists the slot that it unmaps.                                   *)
LEMMA PushUnmapped ==
  ASSUME Inv, NEW t \in Threads, NEW z \in Sound', Unmapped(z), PushSkipped(t) \/ PushFreed(t)
  PROVE  Unmapped(z)'
  <1>1. z \in Regions /\ TypeOK /\ LocalsOK(t) /\ pc[t] \in {"skip", "push"}
    BY DEF Sound, Inv, TypeInv, PushSkipped, PushFreed
  <1>2. Push(t) /\ zi' = zi /\ \A u \in Threads : u # t => pc'[u] = pc[u] /\ cur'[u] = cur[u]
    BY <1>1, OtherHands DEF PushSkipped, PushFreed, locals
  <1>3. CASE z # zi[t]
    <2>1. \A s \in SlotsOf(z) : released'[s] = released[s]
      BY <1>1, <1>2, <1>3 DEF Push, TypeOK, SlotsOf
    <2>2. Listed(z)' = Listed(z)
      BY <1>1, <1>2, <1>3 DEF Push, TypeOK, Listed
    <2> QED BY <1>1, <1>2, <2>1, <2>2, UnmappedCarried
  <1>4. CASE z = zi[t]
    <2>1. freeList[z] \in Seq(Nat) /\ freeList'[z] = Append(freeList[z], cur[t]) /\ cur[t] \in Nat
      BY <1>1, <1>2, <1>4 DEF Push, TypeOK, LocalsOK
    <2>2. Listed(z)' = Listed(z) \cup {cur[t]}
      BY <1>1, <2>1, AppendListed
    <2>3. \A u \in Threads : pc[u] = "popped" => InHand(<<"pop", u>>)' = InHand(<<"pop", u>>)
      BY <1>1, <1>2, InHandIs
    <2>4. ASSUME NEW s \in SlotsOf(z), released'[s] # 0
          PROVE  /\ Released(z) > 0
                 /\ s[2] \in Listed(z)' \/ \E u \in Threads : InHand(<<"pop", u>>)' = s
      <3>1. CASE s = <<z, cur[t]>>
        <4>1. Released(z) > 0
          BY <1>1, <1>2, <1>4, <2>4, <3>1 DEF Push, Unmapped, TypeOK, SlotsOf
        <4> QED BY <2>2, <3>1, <4>1
      <3>2. CASE s # <<z, cur[t]>>
        <4>1. released[s] # 0
          BY <1>1, <1>2, <1>4, <2>4, <3>2 DEF Push, TypeOK, SlotsOf
        <4>2. Released(z) > 0 /\ (s[2] \in Listed(z) \/ \E u \in Threads : InHand(<<"pop", u>>) = s)
          BY <4>1 DEF Unmapped
        <4>3. ASSUME NEW u \in Threads, InHand(<<"pop", u>>) = s PROVE pc[u] = "popped"
          BY <4>3, InHandIs, NoneIsNoSlot
        <4> QED BY <2>2, <2>3, <4>2, <4>3
      <3> QED BY <3>1, <3>2
    <2> QED BY <2>4 DEF Unmapped, SlotsOf
  <1> QED BY <1>3, <1>4

LEMMA StepUnmapped ==
  ASSUME Inv, NEW z \in Sound', Unmapped(z), [Next]_vars
  PROVE  Unmapped(z)'
  <1>1. CASE UNCHANGED vars
    BY <1>1 DEF vars, Unmapped, Listed, InHand, SlotsOf
  <1>2. ASSUME NEW t \in Threads, Enter(t) PROVE Unmapped(z)'
    BY <1>2, EnterUnmapped
  <1>3. ASSUME NEW t \in Threads, Acquire(t) \/ Proceed(t) PROVE Unmapped(z)'
    BY <1>3, QuietUnmapped, PopTakeUnmapped, PopFinishUnmapped, FreshTakeUnmapped, PushUnmapped
       DEF Acquire, Proceed
  <1> QED BY <1>1, <1>2, <1>3 DEF Next

-----------------------------------------------------------------------------
LEMMA InitSlots == Init => SlotsInv
  <1> SUFFICES ASSUME Init PROVE \A z \in Sound : Kept(z) /\ Unmapped(z)
    BY InitExclusive, InitHands DEF SlotsInv
  <1> TAKE z \in Sound
  <1>1. Frontier(z) = 0 /\ z \in Regions
    BY DEF Init, Frontier, Sound
  <1>2. \A s \in SlotsOf(z) : s[2] \in Nat /\ released[s] = 0
    BY DEF Init, SlotsOf, Slots
  <1>3. \A s \in SlotsOf(z) : ~(s[2] < 0)
    BY <1>2
  <1> QED BY <1>1, <1>2, <1>3 DEF Kept, Unmapped

(* A region that is sound after a step was sound before it.                *)
LEMMA StaysTainted ==
  ASSUME [Next]_vars
  PROVE  Sound' \subseteq Sound
  <1> USE DEF shared, Sound
  <1>1. CASE UNCHANGED vars
    BY <1>1 DEF vars
  <1>2. ASSUME NEW t \in Threads, Enter(t) PROVE Sound' \subseteq Sound
    <2>1. PICK request, ptr, label : Call(t, request, ptr, label)
      BY <1>2 DEF Enter, Malloc, Calloc, Realloc, AlignedAlloc, PosixMemalign, Memalign, Valloc,
                  Pvalloc, Free
    <2> QED BY <2>1 DEF Call
  <1>3. ASSUME NEW t \in Threads, FreshFull(t) PROVE Sound' \subseteq Sound
    BY <1>3 DEF FreshFull
  <1>4. ASSUME NEW t \in Threads, Acquire(t) \/ Proceed(t), ~FreshFull(t)
        PROVE  Sound' \subseteq Sound
    BY <1>4 DEF Acquire, Proceed, AllocLock, FreeLock, AllocReject, PopTake, PopFinish, StartFresh,
       FreshTake, FreshSkip, PushSkipped, PushFreed, LibcFree, Fallback, LibcRealloc, Return
  <1> QED BY <1>1, <1>2, <1>3, <1>4 DEF Next

LEMMA StepSlots == SlotsInv /\ [Next]_vars => SlotsInv'
  <1> SUFFICES ASSUME SlotsInv, [Next]_vars PROVE SlotsInv'
    OBVIOUS
  <1>1. Inv /\ HandsInv /\ TypeInv
    BY DEF SlotsInv, Inv
  <1>2. Inv' /\ HandsInv'
    BY <1>1, StepExclusive, StepHands
  <1>3. ASSUME NEW z \in Sound' PROVE Kept(z)' /\ Unmapped(z)'
    BY <1>1, StaysTainted, StepKept, StepUnmapped DEF SlotsInv
  <1> QED BY <1>2, <1>3 DEF SlotsInv

LEMMA SlotsAlways == Spec => []SlotsInv
  BY InitSlots, StepSlots, PTL DEF Spec

(* Every slot below the fresh part of a region is on the free list, owned  *)
(* by the program or in the hands of a call, for any number of threads, in *)
(* every region where no aligned request failed after skipping slots       *)
(* (lowfat_aligned_alloc, internal_free, freelist.c:20-75).                *)
THEOREM SlotsAreKept == Spec => []NoSlotLost
  <1>1. ASSUME SlotsInv, NEW s \in Slots, s[1] \in Sound, s[2] < Frontier(s[1])
        PROVE  s[2] \in Listed(s[1]) \/ s \in live \/ \E h \in Hands : InHand(h) = s
    <2>1. s \in SlotsOf(s[1])
      BY DEF SlotsOf
    <2> QED BY <1>1, <2>1 DEF SlotsInv, Kept
  <1>2. SlotsInv => NoSlotLost
    BY <1>1 DEF NoSlotLost
  <1> QED BY <1>2, SlotsAlways, PTL

(* Memory that the program owns, or that a call is about to return, is     *)
(* mapped: the munmap and PROT_NONE mmap of push (freelist.c:39-45) hit    *)
(* only slots that a later pop maps again (freelist.c:63-65).              *)
THEOREM LiveMemoryMapped == Spec => []LiveMapped
  <1>1. ASSUME SlotsInv, NEW s \in Slots, s[1] \in Sound, released[s] # 0
        PROVE  s \notin live /\ \A t \in Threads : res[t] # s
    <2> DEFINE z == s[1]
    <2>1. s \in SlotsOf(z) /\ z \in Regions /\ s = <<z, s[2]>> /\ OnceIn(z)
      BY <1>1, SoundOnce DEF SlotsInv, SlotsOf, Slots
    <2>2. s[2] \in Listed(z) \/ \E u \in Threads : InHand(<<"pop", u>>) = s
      BY <1>1, <2>1 DEF SlotsInv, Unmapped
    <2>3. \A t \in Threads : <<"res", t>> \in Hands /\ InHand(<<"res", t>>) = res[t]
                             /\ <<"pop", t>> \in Hands
      BY HandsAre, InHandIs
    <2>4. CASE s[2] \in Listed(z)
      BY <2>1, <2>3, <2>4 DEF OnceIn, ListedOnce
    <2>5. ASSUME NEW u \in Threads, InHand(<<"pop", u>>) = s
          PROVE  s \notin live /\ \A t \in Threads : res[t] # s
      <3>1. \A t \in Threads : <<"res", t>> # <<"pop", u>>
        OBVIOUS
      <3> QED BY <2>1, <2>3, <2>5, <3>1 DEF OnceIn, HeldOnce
    <2> QED BY <2>2, <2>4, <2>5
  <1>2. SlotsInv => LiveMapped
    BY <1>1 DEF LiveMapped
  <1> QED BY <1>2, SlotsAlways, PTL
=============================================================================
