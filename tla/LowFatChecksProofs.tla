-------------------------- MODULE LowFatChecksProofs --------------------------
(***************************************************************************)
(* Proofs that what the low-fat allocator hands out suits the request, and *)
(* that the checks, which recompute an object from an address alone, find  *)
(* exactly the objects that allocator and stack tables have in mind.       *)
(***************************************************************************)
EXTENDS LowFatChecks, LowFatHeapProofs

Suits(t, s) ==
  /\ req[t].need < SlotSize(s[1])
  /\ IsAligned(Offset(s[1], s[2]), req[t].align)

Searching == {"list", "popped", "fresh", "skip"}

(* What lowfat_aligned_alloc is given is enough for what the program asked *)
(* for, and the alignment, if it is not passed on, is at most the size.    *)
Asked(request) ==
  /\ request.need <= request.size
  /\ IF request.pass = 0 THEN IsPowerOf2(request.align) /\ request.align <= request.size
     ELSE request.pass = request.align

RequestOK(t) ==
  /\ req[t].size <= SizeMax
  /\ pc[t] \in Searching \cup {"alloc"} /\ req[t].size # 0 => Asked(req[t])
  /\ pc[t] \in Searching => Served(t) /\ zi[t] \in ClassesFor(Padded(t))
  /\ pc[t] = "popped" => req[t].pass = 0
  /\ res[t] \in Slots /\ req[t].size # SizeMax => Suits(t, res[t])

RequestsOK == \A t \in Threads : RequestOK(t)

-----------------------------------------------------------------------------
(* Division                                                                *)

LEMMA Division ==
  ASSUME NEW d \in Nat \ {0}, NEW n \in Nat
  PROVE  /\ n = (n \div d) * d + (n % d)
         /\ n % d \in 0 .. d - 1 /\ n \div d \in Nat
  OBVIOUS

LEMMA Quotient ==
  ASSUME NEW d \in Nat \ {0}, NEW k \in Nat, NEW r \in 0 .. d - 1
  PROVE  (k * d + r) \div d = k /\ (k * d + r) % d = r
  OBVIOUS

LEMMA Multiple ==
  ASSUME NEW d \in Nat \ {0}, NEW k \in Nat
  PROVE  (k * d) % d = 0 /\ (k * d) \div d = k /\ k * d \in Nat
  OBVIOUS

LEMMA Divides ==
  ASSUME NEW d \in Nat \ {0}, NEW n \in Nat, n % d = 0
  PROVE  \E m \in Nat : n = m * d
<1>1. n \div d \in Nat /\ n = (n \div d) * d
  OBVIOUS
<1> QED BY <1>1, Zenon

(* A power of two divides what every greater one divides.                  *)
LEMMA PowersAlign ==
  ASSUME NEW a \in Exponents, NEW b \in Exponents, a <= b, NEW k \in Nat
  PROVE  k * 2^b \in Nat /\ (k * 2^b) % 2^a = 0
<1>1. PICK q \in Nat : 2^b = q * 2^a
  BY PowerDivides
<1>2. 2^a \in Nat \ {0} /\ k * q \in Nat
  BY PowerPositive
<1>3. \A x \in Nat : k * (q * x) = (k * q) * x
  OBVIOUS
<1>4. k * 2^b = (k * q) * 2^a
  BY <1>1, <1>2, <1>3
<1> QED BY <1>2, <1>4, Multiple

-----------------------------------------------------------------------------
(* The slot a call gets                                                    *)

(* A slot of the region that a size is sent to suits every request of that *)
(* size, whose alignment is not passed on.                                 *)
LEMMA ClassSuits ==
  ASSUME TypeOK, NEW t \in Threads, RequestOK(t), Served(t), req[t].size # SizeMax,
         Asked(req[t]), NEW z \in ClassesFor(Padded(t)), NEW k \in Nat
  PROVE  /\ req[t].need < SlotSize(z)
         /\ req[t].pass = 0 => IsAligned(Offset(z, k), req[t].align)
<1> DEFINE size == req[t].size
           align == req[t].align
<1>1. /\ size \in Nat /\ req[t].need \in Nat /\ align \in Nat
      /\ size <= SizeMax /\ size # 0 /\ size # SizeMax /\ req[t].need <= size
      /\ req[t].pass = 0 => IsPowerOf2(align) /\ align <= size
  BY DEF TypeOK, Requests, RequestOK, Served, Asked
<1>2. Padded(t) = size + 1
  BY <1>1, SizeMaxes DEF Padded, Wrap
<1>3. size + 1 \in 1 .. MaxHeapAlloc
  BY <1>1, <1>2, SizeMaxes, HeapAssumption DEF Served
<1>4. z \in Regions /\ size + 1 <= SlotSize(z)
  BY <1>2, <1>3, ClassFits
<1>5. /\ MinAllocLog + z \in Exponents /\ SlotSize(z) = 2^(MinAllocLog + z)
      /\ SlotSize(z) \in Nat
  BY <1>4, SlotPowers
<1>6. req[t].need < SlotSize(z)
  BY <1>1, <1>4, <1>5
<1>7. ASSUME req[t].pass = 0 PROVE IsAligned(Offset(z, k), align)
  <2>1. PICK a \in 0 .. WordBits - 1 : align = 2^a
    BY <1>1, <1>7 DEF IsPowerOf2
  <2>2. a \in Exponents /\ a \in Nat /\ MinAllocLog + z \in Nat
    BY <1>5, SizesAssumption DEF Exponents
  <2>3. 2^a < 2^(MinAllocLog + z)
    BY <1>1, <1>4, <1>5, <1>7, <2>1
  <2>4. a <= MinAllocLog + z
    BY <1>5, <2>2, <2>3, PowerReflects
  <2>5. (k * 2^(MinAllocLog + z)) % 2^a = 0
    BY <1>5, <2>2, <2>4, PowersAlign
  <2> QED BY <1>5, <2>1, <2>5 DEF IsAligned, Offset
<1> QED BY <1>6, <1>7


LEMMA OtherRequests ==
  ASSUME RequestsOK, NEW t \in Threads,
         \A u \in Threads \ {t} : /\ req'[u] = req[u] /\ pc'[u] = pc[u] /\ zi'[u] = zi[u]
                                  /\ res'[u] = res[u],
         RequestOK(t)'
  PROVE  RequestsOK'
<1> SUFFICES ASSUME NEW u \in Threads PROVE RequestOK(u)'
  BY DEF RequestsOK
<1>1. CASE u = t
  BY <1>1
<1>2. CASE u # t
  BY <1>2 DEF RequestsOK, RequestOK, Served, Padded, Suits, Asked
<1> QED BY <1>1, <1>2

LEMMA CallRequests ==
  ASSUME TypeInv, HandsInv, RequestsOK, NEW t \in Threads,
         NEW op, NEW size \in 0 .. SizeMax, NEW need \in Nat, NEW align \in Nat, NEW pass \in Nat,
         NEW ptr, NEW label \in Entry,
         label = "alloc" /\ size # 0 => Asked(Request(op, size, need, align, pass)),
         Call(t, Request(op, size, need, align, pass), ptr, label)
  PROVE  RequestsOK'
<1> DEFINE r == Request(op, size, need, align, pass)
<1>1. /\ \A u \in Threads \ {t} : /\ req'[u] = req[u] /\ pc'[u] = pc[u] /\ zi'[u] = zi[u]
                                  /\ res'[u] = res[u]
      /\ req'[t] = r /\ pc'[t] = label /\ res'[t] = res[t] /\ pc[t] = "idle"
  BY DEF Call, Goto, locals, TypeInv, TypeOK
<1>2. res[t] = None /\ None \notin Slots
  BY <1>1, HeapAssumption DEF HandsInv, HandsOK
<1>3. r.size = size /\ size <= SizeMax
  BY SizeMaxes DEF Request
<1>4. label \notin Searching
  BY DEF Entry, Searching
<1> HIDE DEF r
<1>5. RequestOK(t)'
  BY <1>1, <1>2, <1>3, <1>4 DEF RequestOK, r, Asked, Searching
<1> QED BY <1>1, <1>5, OtherRequests

LEMMA WrapBelow == \A n \in Nat : Wrap(n) \in 0 .. SizeMax /\ (n <= SizeMax => Wrap(n) = n) /\ Wrap(n) <= n
<1> SUFFICES ASSUME NEW n \in Nat
             PROVE  Wrap(n) \in 0 .. SizeMax /\ (n <= SizeMax => Wrap(n) = n) /\ Wrap(n) <= n
  OBVIOUS
<1>1. SizeMax \in Nat
  BY SizeMaxes
<1>2. /\ n % (SizeMax + 1) \in 0 .. SizeMax /\ n % (SizeMax + 1) <= n
      /\ n <= SizeMax => n % (SizeMax + 1) = n
  BY <1>1
<1> QED BY <1>2 DEF Wrap

LEMMA OneIsPower == IsPowerOf2(1)
<1>1. 2^0 = 1 /\ 0 \in 0 .. WordBits - 1
  BY SizesAssumption
<1> QED BY <1>1 DEF IsPowerOf2

(* A positive multiple of a number is not below it.                        *)
LEMMA DivisorBelow ==
  \A d \in Nat \ {0}, n \in Nat \ {0} : n % d = 0 => d <= n
  OBVIOUS

LEMMA CallocExact ==
  ASSUME NEW nmemb \in Nat, NEW size \in Nat,
         ~ (size # 0 /\ Wrap(nmemb * size) \div size # nmemb)
  PROVE  nmemb * size <= Wrap(nmemb * size)
<1> DEFINE total == Wrap(nmemb * size)
<1>1. total \in Nat
  BY WrapNat
<1>2. size # 0 => total \div size = nmemb
  OBVIOUS
<1> HIDE DEF total
<1>3. nmemb * size <= total
  BY <1>1, <1>2
<1> QED BY <1>3 DEF total

(* A sum that wraps once                                                   *)
LEMMA WrappedOnce ==
  \A n \in Nat : SizeMax < n /\ n < 2 * (SizeMax + 1) => Wrap(n) = n - (SizeMax + 1)
<1> SUFFICES ASSUME NEW n \in Nat, SizeMax < n, n < 2 * (SizeMax + 1)
             PROVE  Wrap(n) = n - (SizeMax + 1)
  OBVIOUS
<1> DEFINE w == SizeMax + 1
<1>1. w \in Nat \ {0} /\ w <= n /\ n < 2 * w
  BY SizeMaxes
<1>2. Wrap(n) = n % w
  BY DEF Wrap
<1> HIDE DEF w
<1>3. n % w = n - w
  BY <1>1
<1> QED BY <1>2, <1>3 DEF w

(* pvalloc rounds up to whole pages, or to nothing when the sum wraps.     *)
LEMMA PagesRounded ==
  ASSUME NEW size \in 0 .. SizeMax
  PROVE  LET sum     == Wrap(size + PageSize - 1)
             rounded == sum - (sum % PageSize)
         IN  /\ rounded \in 0 .. SizeMax
             /\ rounded # 0 => size <= rounded /\ PageSize <= rounded
<1> DEFINE sum     == Wrap(size + PageSize - 1)
           rounded == sum - (sum % PageSize)
<1>1. PageSize \in Nat \ {0} /\ SizeMax \in Nat /\ size \in Nat /\ size <= SizeMax
  BY PagePower, SizeMaxes
<1>2. PageSize <= SizeMax
  <2>1. PICK k \in 0 .. WordBits - 1 : PageSize = 2^k
    BY HeapAssumption DEF IsPowerOf2
  <2>2. k \in Exponents /\ WordBits \in Exponents /\ k < WordBits
    BY SizesAssumption DEF Exponents
  <2>3. 2^k < 2^WordBits
    BY <2>2, PowerStrict
  <2> QED BY <1>1, <2>1, <2>3, SizeMaxes
<1>3. /\ sum \in 0 .. SizeMax
      /\ size + PageSize - 1 <= SizeMax => sum = size + PageSize - 1
      /\ size + PageSize - 1 > SizeMax => sum = size + PageSize - 1 - (SizeMax + 1)
  BY <1>1, <1>2, WrapBelow, WrappedOnce
<1> HIDE DEF sum
<1>4. sum \in Nat
  BY <1>1, <1>3
<1>5. sum % PageSize \in 0 .. PageSize - 1 /\ sum % PageSize <= sum
  BY <1>1, <1>4
<1>6. sum < PageSize => sum % PageSize = sum
  BY <1>1, <1>4
<1>7. sum >= PageSize => PageSize <= sum - (sum % PageSize)
  <2> DEFINE q == sum \div PageSize
  <2>1. sum = q * PageSize + (sum % PageSize) /\ q \in Nat
    BY <1>1, <1>4, Division
  <2> HIDE DEF q
  <2>2. sum >= PageSize => q >= 1
    BY <1>1, <1>4, <1>5, <2>1
  <2>3. q >= 1 => q * PageSize >= PageSize
    BY <1>1, <2>1
  <2> QED BY <1>1, <1>4, <1>5, <2>1, <2>2, <2>3
<1>8. rounded \in 0 .. SizeMax
  BY <1>1, <1>3, <1>4, <1>5
<1>9. rounded # 0 => size <= rounded /\ PageSize <= rounded
  BY <1>1, <1>2, <1>3, <1>4, <1>5, <1>6, <1>7
<1> HIDE DEF rounded
<1> QED BY <1>8, <1>9 DEF rounded, sum

LEMMA PowerNotZero == ~IsPowerOf2(0)
<1> SUFFICES ASSUME NEW k \in 0 .. WordBits - 1, 0 = 2^k PROVE FALSE
  BY DEF IsPowerOf2
<1>1. k \in Exponents
  BY SizesAssumption DEF Exponents
<1> QED BY <1>1, PowerPositive

LEMMA EnterRequests ==
  ASSUME TypeInv, HandsInv, RequestsOK, NEW t \in Threads, Enter(t)
  PROVE  RequestsOK'
<1>a. /\ Sizes \subseteq 0 .. SizeMax /\ Sizes \subseteq Nat /\ Aligns \subseteq Nat
      /\ PageSize \in Nat \ {0} /\ SizeMax \in Nat
  BY HeapAssumption, PagePower, SizeMaxes
<1>1. CASE Malloc(t)
  <2>1. PICK size \in Sizes : Call(t, Request("malloc", size, size, 1, 0), None, "alloc")
    BY <1>1 DEF Malloc
  <2>2. size # 0 => Asked(Request("malloc", size, size, 1, 0))
    BY <1>a, OneIsPower DEF Asked, Request
  <2> QED BY <1>a, <2>1, <2>2, CallRequests DEF Entry
<1>2. CASE Calloc(t)
  <2>1. PICK nmemb \in Sizes, size \in Sizes :
          LET total    == Wrap(nmemb * size)
              overflow == size # 0 /\ total \div size # nmemb
          IN  Call(t, Request("calloc", total, nmemb * size, 1, 0), None,
                   IF overflow THEN "fallback" ELSE "alloc")
    BY <1>2 DEF Calloc
  <2> DEFINE total    == Wrap(nmemb * size)
             overflow == size # 0 /\ total \div size # nmemb
             label    == IF overflow THEN "fallback" ELSE "alloc"
  <2>2. nmemb * size \in Nat /\ total \in 0 .. SizeMax /\ label \in Entry
    BY <1>a, WrapBelow DEF Entry
  <2>3. label = "alloc" => nmemb * size <= total
    BY <1>a, CallocExact
  <2>4. Call(t, Request("calloc", total, nmemb * size, 1, 0), None, label)
    BY <2>1
  <2> HIDE DEF total, label
  <2>5. label = "alloc" /\ total # 0 => Asked(Request("calloc", total, nmemb * size, 1, 0))
    BY <1>a, <2>2, <2>3, OneIsPower DEF Asked, Request
  <2> QED BY <1>a, <2>2, <2>4, <2>5, CallRequests
<1>3. CASE Realloc(t)
  <2>1. PICK size \in Sizes, ptr \in live \cup {None} :
          Call(t, Request("realloc", size, size, 1, 0), ptr,
               IF ptr \in LibcBlocks THEN "libcRealloc" ELSE "alloc")
    BY <1>3 DEF Realloc
  <2>2. size # 0 => Asked(Request("realloc", size, size, 1, 0))
    BY <1>a, OneIsPower DEF Asked, Request
  <2> QED BY <1>a, <2>1, <2>2, CallRequests DEF Entry
<1>4. CASE AlignedAlloc(t)
  <2>1. PICK size \in Sizes, align \in Aligns :
          Call(t, Request("aligned_alloc", size, size, align, 0), None,
               IF IsPowerOf2(align) /\ IsAligned(size, align) THEN "alloc" ELSE "ret")
    BY <1>4 DEF AlignedAlloc
  <2>2. IsPowerOf2(align) /\ IsAligned(size, align) /\ size # 0 =>
          Asked(Request("aligned_alloc", size, size, align, 0))
    BY <1>a, PowerNotZero, DivisorBelow DEF Asked, Request, IsAligned
  <2> QED BY <1>a, <2>1, <2>2, CallRequests DEF Entry
<1>5. CASE PosixMemalign(t)
  <2>1. PICK size \in Sizes, align \in Aligns :
          Call(t, Request("posix_memalign", size, size, align, align), None,
               IF IsPowerOf2(align) /\ IsAligned(align, PointerBytes) THEN "alloc" ELSE "ret")
    BY <1>5 DEF PosixMemalign
  <2>2. IsPowerOf2(align) => Asked(Request("posix_memalign", size, size, align, align))
    BY <1>a, PowerNotZero DEF Asked, Request
  <2> QED BY <1>a, <2>1, <2>2, CallRequests DEF Entry
<1>6. CASE Memalign(t)
  <2>1. PICK size \in Sizes, align \in Aligns :
          Call(t, Request("memalign", size, size, align, align), None,
               IF IsPowerOf2(align) THEN "alloc" ELSE "ret")
    BY <1>6 DEF Memalign
  <2>2. IsPowerOf2(align) => Asked(Request("memalign", size, size, align, align))
    BY <1>a, PowerNotZero DEF Asked, Request
  <2> QED BY <1>a, <2>1, <2>2, CallRequests DEF Entry
<1>7. CASE Valloc(t)
  <2>1. PICK size \in Sizes : Call(t, Request("valloc", size, size, PageSize, PageSize), None, "alloc")
    BY <1>7 DEF Valloc
  <2>2. Asked(Request("valloc", size, size, PageSize, PageSize))
    BY <1>a DEF Asked, Request
  <2> QED BY <1>a, <2>1, <2>2, CallRequests DEF Entry
<1>8. CASE Pvalloc(t)
  <2>1. PICK size \in Sizes :
          LET sum     == Wrap(size + PageSize - 1)
              rounded == sum - (sum % PageSize)
          IN  Call(t, Request("pvalloc", rounded, size, PageSize, 0), None, "alloc")
    BY <1>8 DEF Pvalloc
  <2> DEFINE sum     == Wrap(size + PageSize - 1)
             rounded == sum - (sum % PageSize)
  <2>2. rounded \in 0 .. SizeMax /\ (rounded # 0 => size <= rounded /\ PageSize <= rounded)
    BY <1>a, PagesRounded
  <2>3. Call(t, Request("pvalloc", rounded, size, PageSize, 0), None, "alloc")
    BY <2>1
  <2> HIDE DEF sum, rounded
  <2>4. rounded # 0 => Asked(Request("pvalloc", rounded, size, PageSize, 0))
    BY <2>2, HeapAssumption DEF Asked, Request
  <2> QED BY <1>a, <2>2, <2>3, <2>4, CallRequests DEF Entry
<1>9. CASE Free(t)
  <2>1. PICK ptr \in live \cup {None} :
          Call(t, Request("free", 0, 0, 1, 0), ptr, IF ptr = None THEN "ret" ELSE "free")
    BY <1>9 DEF Free
  <2> QED BY <1>a, <2>1, CallRequests DEF Entry
<1> QED BY <1>1, <1>2, <1>3, <1>4, <1>5, <1>6, <1>7, <1>8, <1>9 DEF Enter

-----------------------------------------------------------------------------
(* The steps of a call                                                     *)

(* Steps that change neither the request nor the class found for it, and   *)
(* return nothing from a region.                                           *)
LEMMA QuietRequests ==
  ASSUME TypeInv, RequestsOK, NEW t \in Threads,
         \/ AllocReject(t) \/ PopTake(t) \/ StartFresh(t) \/ FreshFull(t) \/ FreshSkip(t)
         \/ PushSkipped(t) \/ FreeLock(t) \/ PushFreed(t) \/ LibcFree(t)
  PROVE  RequestsOK'
<1>1. \A u \in Threads \ {t} : /\ req'[u] = req[u] /\ pc'[u] = pc[u] /\ zi'[u] = zi[u]
                               /\ res'[u] = res[u]
  BY DEF AllocReject, PopTake, StartFresh, FreshFull, FreshSkip, PushSkipped, FreeLock, PushFreed,
         LibcFree, Goto, locals, TypeInv, TypeOK
<1>2. /\ req' = req /\ res' = res
      /\ pc'[t] \in Searching => pc[t] \in Searching /\ zi' = zi
      /\ pc'[t] # "alloc"
      /\ pc'[t] = "popped" => req[t].pass = 0
  BY DEF AllocReject, PopTake, StartFresh, FreshFull, FreshSkip, PushSkipped, FreeLock, PushFreed,
         LibcFree, Goto, locals, TypeInv, TypeOK, Searching
<1>3. RequestOK(t)
  BY DEF RequestsOK
<1>4. RequestOK(t)'
  BY <1>2, <1>3 DEF RequestOK, Suits, Served, Padded, Searching
<1> QED BY <1>1, <1>4, OtherRequests

LEMMA AllocLockRequests ==
  ASSUME TypeInv, RequestsOK, NEW t \in Threads, AllocLock(t)
  PROVE  RequestsOK'
<1>1. \A u \in Threads \ {t} : /\ req'[u] = req[u] /\ pc'[u] = pc[u] /\ zi'[u] = zi[u]
                               /\ res'[u] = res[u]
  BY DEF AllocLock, Goto, TypeInv, TypeOK
<1>2. /\ req' = req /\ res' = res /\ pc[t] = "alloc" /\ pc'[t] = "list"
      /\ Served(t) /\ zi'[t] \in ClassesFor(Padded(t))
  BY DEF AllocLock, Goto, TypeInv, TypeOK
<1>3. RequestOK(t)
  BY DEF RequestsOK
<1>4. RequestOK(t)'
  BY <1>2, <1>3 DEF RequestOK, Suits, Served, Padded, Searching
<1> QED BY <1>1, <1>4, OtherRequests

LEMMA PopFinishRequests ==
  ASSUME TypeInv, RequestsOK, NEW t \in Threads, PopFinish(t)
  PROVE  RequestsOK'
<1>1. \A u \in Threads \ {t} : /\ req'[u] = req[u] /\ pc'[u] = pc[u] /\ zi'[u] = zi[u]
                               /\ res'[u] = res[u]
  BY DEF PopFinish, Granted, Goto, locals, TypeInv, TypeOK
<1>2. /\ req' = req /\ pc[t] = "popped" /\ pc'[t] \in {"free", "ret"}
      /\ res'[t] = <<zi[t], cur[t]>> /\ cur[t] \in Nat
  BY DEF PopFinish, Granted, Goto, locals, TypeInv, TypeOK
<1>3. RequestOK(t) /\ TypeOK
  BY DEF RequestsOK, TypeInv
<1>4. /\ Served(t) /\ zi[t] \in ClassesFor(Padded(t)) /\ req[t].pass = 0 /\ req[t].size # 0
      /\ Asked(req[t])
  BY <1>2, <1>3 DEF RequestOK, Searching, Served
<1>5. req[t].size # SizeMax => /\ req[t].need < SlotSize(zi[t])
                               /\ IsAligned(Offset(zi[t], cur[t]), req[t].align)
  BY <1>2, <1>3, <1>4, ClassSuits
<1>6. RequestOK(t)'
  BY <1>2, <1>3, <1>5 DEF RequestOK, Suits, Searching
<1> QED BY <1>1, <1>6, OtherRequests

LEMMA FreshTakeRequests ==
  ASSUME TypeInv, RequestsOK, NEW t \in Threads, FreshTake(t)
  PROVE  RequestsOK'
<1>1. \A u \in Threads \ {t} : /\ req'[u] = req[u] /\ pc'[u] = pc[u] /\ zi'[u] = zi[u]
                               /\ res'[u] = res[u]
  BY DEF FreshTake, Granted, Goto, locals, TypeInv, TypeOK
<1>2. /\ req' = req /\ pc[t] = "fresh" /\ pc'[t] \in {"free", "ret"}
      /\ res'[t] = <<zi[t], cur[t]>> /\ cur[t] \in Nat /\ Aligned(t)
  BY DEF FreshTake, Granted, Goto, locals, TypeInv, TypeOK
<1>3. RequestOK(t) /\ TypeOK
  BY DEF RequestsOK, TypeInv
<1>4. Served(t) /\ zi[t] \in ClassesFor(Padded(t)) /\ req[t].size # 0 /\ Asked(req[t])
  BY <1>2, <1>3 DEF RequestOK, Searching, Served
<1>5. req[t].size # SizeMax =>
        /\ req[t].need < SlotSize(zi[t])
        /\ req[t].pass = 0 => IsAligned(Offset(zi[t], cur[t]), req[t].align)
  BY <1>2, <1>3, <1>4, ClassSuits
<1>6. req[t].pass # 0 => IsAligned(Offset(zi[t], cur[t]), req[t].align)
  BY <1>2, <1>4 DEF Aligned, Asked
<1>7. RequestOK(t)'
  BY <1>2, <1>3, <1>5, <1>6 DEF RequestOK, Suits, Searching
<1> QED BY <1>1, <1>7, OtherRequests

LEMMA LibcRequests ==
  ASSUME TypeInv, RequestsOK, NEW t \in Threads, Fallback(t) \/ LibcRealloc(t)
  PROVE  RequestsOK'
<1>1. \A u \in Threads \ {t} : /\ req'[u] = req[u] /\ pc'[u] = pc[u] /\ zi'[u] = zi[u]
                               /\ res'[u] = res[u]
  BY DEF Fallback, LibcRealloc, Answered, Granted, Goto, locals, TypeInv, TypeOK
<1>2. req' = req /\ pc'[t] \in {"free", "ret"}
  BY DEF Fallback, LibcRealloc, Answered, Granted, Goto, locals, TypeInv, TypeOK
<1>3. res'[t] \in LibcBlocks \cup {None}
  BY DEF Fallback, LibcRealloc, LibcAnswer, TypeInv, TypeOK, LocalsOK
<1>4. res'[t] \notin Slots
  BY <1>3, HeapAssumption
<1>5. RequestOK(t)
  BY DEF RequestsOK
<1>6. RequestOK(t)'
  BY <1>2, <1>4, <1>5 DEF RequestOK, Searching
<1> QED BY <1>1, <1>6, OtherRequests

LEMMA ReturnRequests ==
  ASSUME TypeInv, RequestsOK, NEW t \in Threads, Return(t)
  PROVE  RequestsOK'
<1>1. \A u \in Threads \ {t} : /\ req'[u] = req[u] /\ pc'[u] = pc[u] /\ zi'[u] = zi[u]
                               /\ res'[u] = res[u]
  BY DEF Return, Goto, TypeInv, TypeOK
<1>2. req'[t] = NoReq /\ pc'[t] = "idle" /\ res'[t] = None /\ None \notin Slots
  BY HeapAssumption DEF Return, Goto, TypeInv, TypeOK
<1>3. RequestOK(t)'
  BY <1>2, SizeMaxes DEF RequestOK, Searching, NoReq
<1> QED BY <1>1, <1>3, OtherRequests

LEMMA StepRequests ==
  ASSUME TypeInv, HandsInv, RequestsOK, [Next]_vars
  PROVE  RequestsOK'
<1>1. CASE UNCHANGED vars
  BY <1>1 DEF vars, RequestsOK, RequestOK, Served, Padded, Suits
<1>2. ASSUME NEW t \in Threads, Enter(t) \/ Acquire(t) \/ Proceed(t) PROVE RequestsOK'
  BY <1>2, EnterRequests, QuietRequests, AllocLockRequests, PopFinishRequests, FreshTakeRequests,
     LibcRequests, ReturnRequests DEF Acquire, Proceed
<1> QED BY <1>1, <1>2 DEF Next

LEMMA InitRequests == Init => RequestsOK
<1>1. None \notin Slots /\ 0 <= SizeMax
  BY HeapAssumption, SizeMaxes
<1> QED BY <1>1 DEF Init, RequestsOK, RequestOK, NoReq, Searching

LEMMA RequestsAlways == Spec => [](TypeInv /\ HandsInv /\ RequestsOK)
  BY InitTyped, InitHands, InitRequests, StepTyped, StepHands, StepRequests, PTL DEF Spec

(* What the allocator returns suits the request, in both builds and for    *)
(* every entry point (libfunctions.c:113-185 and the hooks): the slot is   *)
(* larger than the request and aligned as the caller asked, also when      *)
(* aligned_alloc and pvalloc leave the alignment to the size class.        *)
THEOREM GrantsSuit == Spec => []GrantSuits
<1>1. RequestsOK => GrantSuits
  BY DEF RequestsOK, RequestOK, GrantSuits, Suits
<1> QED BY <1>1, RequestsAlways, PTL

-----------------------------------------------------------------------------
(* Where objects are                                                       *)

LEMMA RegionsFit ==
  ASSUME NEW z \in Regions
  PROVE  /\ RegionSize \in Nat \ {0} /\ NumRegions \in Nat /\ z \in Nat /\ z < NumRegions
         /\ (z + 1) * RegionSize \in Nat /\ RegionSize <= (z + 1) * RegionSize
         /\ (z + 1) * RegionSize + RegionSize <= SizeMax + 1
         /\ (NumRegions + 1) * RegionSize \in Nat
         /\ (NumRegions + 1) * RegionSize + RegionSize <= SizeMax + 1
<1> DEFINE R == RegionSize
<1>1. R \in Nat \ {0} /\ NumRegions \in Nat /\ z \in Nat /\ z < NumRegions /\ SizeMax \in Nat
  BY SlotPowers, HeapAssumption, SizeMaxes
<1>2. (NumRegions + 2) * R <= SizeMax + 1
  BY SpaceAssumption
<1> HIDE DEF R
<1>3. (z + 1) * R \in Nat /\ R <= (z + 1) * R /\ (z + 1) * R + R = (z + 2) * R
  BY <1>1
<1>4. (z + 2) * R <= (NumRegions + 2) * R
  BY <1>1
<1>5. (NumRegions + 1) * R \in Nat /\ (NumRegions + 1) * R + R = (NumRegions + 2) * R
  BY <1>1
<1>6. (z + 2) * R \in Nat /\ (NumRegions + 2) * R \in Nat
  BY <1>1
<1> QED BY <1>1, <1>2, <1>3, <1>4, <1>5, <1>6 DEF R

(* The index of an address of a region                                     *)
LEMMA IndexFound ==
  ASSUME NEW z \in Regions, NEW off \in 0 .. RegionSize - 1
  PROVE  LET index == PtrIndex((z + 1) * RegionSize + off)
         IN  /\ index = RegionIndex(z) /\ LowFatIndex(index) /\ Checked(index)
             /\ PtrSize(index) = SlotSize(z)
<1>1. z \in Nat /\ z < NumRegions /\ NumRegions \in Nat /\ RegionSize \in Nat \ {0}
  BY RegionsFit
<1>2. ((z + 1) * RegionSize + off) \div RegionSize = z + 1
  BY <1>1, Quotient
<1>3. z <= SizeMax
  <2>1. MinAllocLog + z < WordBits /\ WordBits <= SizeMax /\ MinAllocLog \in Nat
        /\ WordBits \in Nat /\ SizeMax \in Nat
    BY SlotPowers, SizeMaxes, SizesAssumption
  <2> QED BY <1>1, <2>1
<1>4. Wrap((z + 1) - 1) = z
  BY <1>1, <1>3, WrapBelow
<1>5. PtrIndex((z + 1) * RegionSize + off) = RegionIndex(z)
  BY <1>2, <1>4 DEF PtrIndex, RegionIndex
<1>6. LowFatIndex(RegionIndex(z))
  BY <1>1 DEF LowFatIndex, RegionIndex
<1> QED BY <1>5, <1>6 DEF Checked, SlotSize

LEMMA SlotsFit ==
  ASSUME NEW z \in Regions, NEW k \in Nat, k * SlotSize(z) < RegionSize
  PROVE  k * SlotSize(z) \in Nat /\ k * SlotSize(z) + SlotSize(z) <= RegionSize
<1> DEFINE S == SlotSize(z)
<1>1. S \in Nat \ {0} /\ RegionSize \in Nat \ {0} /\ RegionSize % S = 0
  BY SlotPowers, RegionsFit, SpaceAssumption
<1>2. k * S < RegionSize
  OBVIOUS
<1> HIDE DEF S
<1>3. PICK m \in Nat : RegionSize = m * S
  BY <1>1, Divides
<1>4. k < m
  BY <1>1, <1>2, <1>3
<1>5. (k + 1) * S <= m * S /\ (k + 1) * S = k * S + S /\ k * S \in Nat
  BY <1>1, <1>4
<1> QED BY <1>1, <1>3, <1>5 DEF S

(* Where an address is in a slot-sized grid                                *)
LEMMA GridPlace ==
  ASSUME NEW z \in Regions, NEW n \in Nat, NEW k \in Nat, NEW r \in 0 .. SlotSize(z) - 1
  PROVE  (n * RegionSize + k * SlotSize(z) + r) % SlotSize(z) = r
<1> DEFINE S == SlotSize(z)
<1>1. S \in Nat \ {0} /\ RegionSize \in Nat \ {0} /\ RegionSize % S = 0
  BY SlotPowers, RegionsFit, SpaceAssumption
<1>2. r \in 0 .. S - 1
  OBVIOUS
<1> HIDE DEF S
<1>3. PICK m \in Nat : RegionSize = m * S
  BY <1>1, Divides
<1>4. n * (m * S) + k * S = (n * m + k) * S /\ n * m + k \in Nat
  BY <1>1
<1>5. ((n * m + k) * S + r) % S = r
  BY <1>1, <1>2, <1>4, Quotient
<1> QED BY <1>3, <1>4, <1>5 DEF S

(* The comparison of a check, when the base and the size are those of an   *)
(* object that ends within the address space                               *)
LEMMA Compared ==
  ASSUME NEW base \in Nat, NEW S \in Nat \ {0}, base + S <= SizeMax + 1,
         NEW ptr \in Addresses, NEW width \in 1 .. S
  PROVE  Exceeds(ptr - base, S, width) <=> ~(base <= ptr /\ ptr + width <= base + S)
<1>1. SizeMax \in Nat /\ ptr \in Nat /\ ptr <= SizeMax /\ width \in Nat /\ 1 <= width /\ width <= S
  BY SizeMaxes DEF Addresses
<1>2. S - width \in Nat /\ S - width <= SizeMax
  BY <1>1
<1>3. Wrap(S - width) = S - width
  BY <1>2, WrapBelow
<1>4. CASE base <= ptr
  <2>1. ptr - base \in Nat /\ ptr - base <= SizeMax
    BY <1>1, <1>4
  <2>2. Wrap(ptr - base) = ptr - base
    BY <2>1, WrapBelow
  <2> QED BY <1>1, <1>3, <1>4, <2>2 DEF Exceeds
<1>5. CASE ptr < base
  <2> DEFINE w == SizeMax + 1
             d == ptr - base
  <2>1. w \in Nat \ {0} /\ d \in Int /\ 0 <= d + w /\ d + w < w
    BY <1>1, <1>5
  <2>2. Wrap(d) = d % w
    BY DEF Wrap
  <2> HIDE DEF w, d
  <2>3. d % w = d + w
    BY <2>1
  <2>4. Wrap(ptr - base) = ptr - base + (SizeMax + 1)
    BY <2>2, <2>3 DEF w, d
  <2> QED BY <1>1, <1>3, <1>5, <2>4 DEF Exceeds
<1> QED BY <1>1, <1>4, <1>5

LEMMA Contained ==
  ASSUME NEW base \in Nat, NEW S \in Nat \ {0}, NEW ptr \in Nat, NEW width \in Nat \ {0}
  PROVE  ptr .. ptr + width - 1 \subseteq base .. base + S - 1 <=> base <= ptr /\ ptr + width <= base + S
<1>1. ASSUME ptr .. ptr + width - 1 \subseteq base .. base + S - 1
      PROVE  base <= ptr /\ ptr + width <= base + S
  <2>1. ptr \in ptr .. ptr + width - 1 /\ ptr + width - 1 \in ptr .. ptr + width - 1
    OBVIOUS
  <2>2. ptr \in base .. base + S - 1 /\ ptr + width - 1 \in base .. base + S - 1
    BY <1>1, <2>1, Zenon
  <2> QED BY <2>2
<1>2. ASSUME base <= ptr /\ ptr + width <= base + S
      PROVE  ptr .. ptr + width - 1 \subseteq base .. base + S - 1
  BY <1>2
<1> QED BY <1>1, <1>2

(* The checks find every slot of the allocator.                            *)
LEMMA SlotBounded ==
  ASSUME NEW z \in Regions, NEW k \in Nat, k * SlotSize(z) < RegionSize
  PROVE  LET base == Address(<<z, k>>)
         IN  /\ ExactlyBounds(base .. base + SlotSize(z) - 1, base, SlotSize(z))
             /\ base \in Nat /\ base + SlotSize(z) <= SizeMax + 1
<1> DEFINE S == SlotSize(z)
           base == Address(<<z, k>>)
           object == base .. base + S - 1
<1>1. S \in Nat \ {0}
  BY SlotPowers
<1>2. /\ (z + 1) * RegionSize \in Nat /\ RegionSize <= (z + 1) * RegionSize
      /\ (z + 1) * RegionSize + RegionSize <= SizeMax + 1
      /\ RegionSize \in Nat \ {0} /\ z \in Nat
  BY RegionsFit
<1>3. k * S \in Nat /\ k * S + S <= RegionSize
  BY SlotsFit
<1>4. base = (z + 1) * RegionSize + k * S
  BY DEF Address, Offset
<1>5. base \in Nat /\ base # 0 /\ base + S <= SizeMax + 1 /\ SizeMax \in Nat
  BY <1>1, <1>2, <1>3, <1>4, SizeMaxes
<1>6. ASSUME NEW r \in 0 .. S - 1
      PROVE  LET index == PtrIndex(base + r)
             IN  /\ LowFatIndex(index) /\ Checked(index) /\ PtrSize(index) = S
                 /\ PtrBase(base + r, index) = base
  <2>1. k * S + r \in 0 .. RegionSize - 1
    BY <1>1, <1>2, <1>3
  <2>2. base + r = (z + 1) * RegionSize + (k * S + r)
    BY <1>1, <1>2, <1>3, <1>4
  <2>3. base + r = (z + 1) * RegionSize + k * S + r
    BY <1>1, <1>2, <1>3, <1>4
  <2>4. /\ LowFatIndex(PtrIndex(base + r)) /\ Checked(PtrIndex(base + r))
        /\ PtrSize(PtrIndex(base + r)) = S
    BY <2>1, <2>2, IndexFound
  <2>5. z + 1 \in Nat /\ r \in 0 .. SlotSize(z) - 1
    BY <1>2
  <2>6. ((z + 1) * RegionSize + k * SlotSize(z) + r) % SlotSize(z) = r
    BY <2>5, GridPlace
  <2>7. (base + r) % S = r
    BY <2>3, <2>6, Zenon
  <2>8. S \in Nat /\ r \in Nat /\ base \in Nat
    BY <1>1, <1>5
  <2> HIDE DEF base, S
  <2>9. (base + r) - r = base
    BY <2>8
  <2>10. PtrBase(base + r, PtrIndex(base + r)) = (base + r) - ((base + r) % S)
    BY <2>4 DEF PtrBase
  <2> QED BY <2>4, <2>7, <2>9, <2>10
<1> HIDE DEF base, S
<1>7. ASSUME NEW witness \in object
      PROVE  LET index == PtrIndex(witness)
             IN  /\ LowFatIndex(index) /\ Checked(index) /\ PtrSize(index) = S
                 /\ PtrBase(witness, index) = base
  <2>1. witness - base \in 0 .. S - 1 /\ base + (witness - base) = witness
    BY <1>1, <1>5
  <2> QED BY <1>6, <2>1
<1>8. base \in object /\ 1 \in 1 .. S
  BY <1>1, <1>5
<1>9. ASSUME NEW ptr \in Addresses, NEW width \in 1 .. S
      PROVE  Exceeds(ptr - base, S, width) <=> ~(ptr .. ptr + width - 1 \subseteq object)
  <2>1. ptr \in Nat /\ width \in Nat \ {0}
    BY <1>1, <1>5 DEF Addresses
  <2>2. Exceeds(ptr - base, S, width) <=> ~(base <= ptr /\ ptr + width <= base + S)
    BY <1>1, <1>5, Compared
  <2>3. ptr .. ptr + width - 1 \subseteq base .. base + S - 1 <=> base <= ptr /\ ptr + width <= base + S
    BY <1>1, <1>5, <2>1, Contained
  <2> QED BY <2>2, <2>3, Zenon
<1>10. ASSUME NEW ptr \in Addresses, NEW width \in 1 .. S
       PROVE  /\ RefusesDeref(base, ptr, width) <=> ~(ptr .. ptr + width - 1 \subseteq object)
              /\ \A witness \in object :
                   RefusesInner(witness, ptr, width) <=> ~(ptr .. ptr + width - 1 \subseteq object)
  BY <1>7, <1>8, <1>9 DEF RefusesDeref, RefusesInner
<1>11. ASSUME NEW ptr \in Addresses, NEW witness \in object
       PROVE  RefusesOob(witness, ptr) <=> ptr \notin object
  <2>1. ptr \in Nat /\ ptr + 1 - 1 = ptr
    BY <1>5 DEF Addresses
  <2>2. ptr .. ptr + 1 - 1 \subseteq object <=> ptr \in object
    BY <2>1
  <2> QED BY <1>8, <1>10, <2>2 DEF RefusesOob
<1>12. ASSUME NEW witness \in object
       PROVE  LowerBound(witness) = base /\ UpperBound(witness) = base + S
  BY <1>5, <1>7 DEF LowerBound, UpperBound
<1>13. ExactlyBounds(object, base, S)
  BY <1>10, <1>11, <1>12 DEF ExactlyBounds
<1> QED BY <1>5, <1>13 DEF base, S

LEMMA SlotsAreBounded == SlotsBounded
<1> SUFFICES ASSUME NEW s \in Slots PROVE ExactlyBounds(Bytes(s), Address(s), SlotSize(s[1]))
  BY DEF SlotsBounded
<1>1. s[1] \in Regions /\ s[2] \in Nat /\ s = <<s[1], s[2]>> /\ s[2] * SlotSize(s[1]) < RegionSize
  BY HeapAssumption DEF Slots, Offset
<1> QED BY <1>1, SlotBounded DEF Bytes

-----------------------------------------------------------------------------
(* Stack objects                                                           *)

LEMMA PowerLength ==
  ASSUME NEW b \in Exponents, b < WordBits
  PROVE  BitLength(2^b) = b + 1
<1> DEFINE k == BitLength(2^b)
<1>1. b \in Nat /\ WordBits \in Nat /\ WordBits \in Exponents /\ b \in 0 .. WordBits - 1
  BY SizesAssumption DEF Exponents
<1>2. 2^b \in Nat /\ 2^b >= 1 /\ 2^b < 2^WordBits
  BY <1>1, PowerPositive, PowerStrict
<1>3. 2^b \in 1 .. SizeMax
  BY <1>2, SizeMaxes
<1>4. k \in 1 .. WordBits /\ 2^b = 2^(k - 1)
  BY <1>1, <1>3, BitLengths, ExactPowers DEF IsPowerOf2
<1> HIDE DEF k
<1>5. k - 1 \in Exponents /\ k - 1 \in Nat
  BY <1>1, <1>4 DEF Exponents
<1>6. ~(b < k - 1) /\ ~(k - 1 < b)
  <2>1. 2^(k - 1) \in Nat
    BY <1>5, PowerPositive
  <2>2. ~(b < k - 1)
    BY <1>2, <1>4, <1>5, PowerStrict
  <2>3. ~(k - 1 < b)
    BY <1>2, <1>4, <1>5, PowerStrict
  <2> QED BY <2>2, <2>3
<1>7. k = b + 1
  BY <1>1, <1>4, <1>5, <1>6
<1> QED BY <1>7 DEF k

(* The stack tables give an object the slot size of one of the regions,    *)
(* and the offset that leads from the stack to that region.                *)
LEMMA StackClass ==
  ASSUME NEW size \in 1 .. MaxStackAlloc, StackSize(size) # 0
  PROVE  \E z \in Regions : /\ StackSize(size) = SlotSize(z) /\ size < SlotSize(z)
                            /\ StackOffset(size) = (z - NumRegions) * RegionSize
<1> DEFINE L == BitLength(size)
           M == MinAllocLog
           N == NumRegions
<1>1. /\ M \in Nat /\ N \in Nat \ {0} /\ WordBits \in Nat /\ M + N < WordBits
      /\ MaxHeapAlloc \in Nat /\ MaxHeapAlloc <= SizeMax /\ SizeMax \in Nat
  BY SizesAssumption, HeapAssumption, SizeMaxes
<1>2. size \in 1 .. SizeMax /\ size \in Nat
  BY <1>1 DEF MaxStackAlloc
<1>3. L \in 1 .. WordBits /\ size < 2^L
  BY <1>2, BitLengths
<1>4. StackSize(size) = IF 2^L < 2^M THEN 2^M ELSE IF 2^L > MaxHeapAlloc THEN 0 ELSE 2^L
  BY DEF StackSize, MaxStackAlloc
<1> HIDE DEF L
<1>5. L \in Exponents /\ M \in Exponents /\ M + N - 1 \in Exponents
  BY <1>1, <1>3 DEF Exponents
<1>6. 2^L \in Nat /\ 2^M \in Nat /\ 2^(M + N - 1) \in Nat
  BY <1>5, PowerPositive
<1>7. PICK z \in Regions : StackSize(size) = 2^(M + z) /\ 2^L <= 2^(M + z)
  <2>1. CASE 2^L < 2^M
    <3>1. 0 \in Regions /\ M + 0 = M
      BY <1>1 DEF Regions
    <3>2. StackSize(size) = 2^(M + 0) /\ 2^L <= 2^(M + 0)
      BY <1>4, <1>6, <2>1, <3>1
    <3> QED BY <3>1, <3>2
  <2>2. CASE ~(2^L < 2^M)
    <3>1. StackSize(size) = 2^L /\ 2^L <= MaxHeapAlloc
      BY <1>1, <1>4, <1>6, <2>2
    <3>2. 2^L <= 2^(M + N - 1)
      BY <1>1, <1>6, <3>1, ClassAssumption
    <3>3. ~(L < M) /\ ~(M + N - 1 < L)
      <4>1. ~(L < M)
        BY <1>5, <2>2, PowerStrict
      <4>2. ASSUME M + N - 1 < L PROVE FALSE
        <5>1. 2^(M + N - 1) < 2^L
          BY <1>5, <4>2, PowerStrict
        <5> QED BY <1>6, <3>2, <5>1
      <4> QED BY <4>1, <4>2
    <3>4. L - M \in Regions /\ M + (L - M) = L
      BY <1>1, <1>3, <3>3 DEF Regions
    <3>5. StackSize(size) = 2^(M + (L - M)) /\ 2^L <= 2^(M + (L - M))
      BY <1>6, <3>1, <3>4
    <3> QED BY <3>4, <3>5
  <2> QED BY <2>1, <2>2
<1>8. /\ M + z \in Exponents /\ M + z < WordBits /\ SlotSize(z) = 2^(M + z) /\ z \in Nat
      /\ SlotSize(z) \in Nat
  BY SlotPowers
<1>9. BitLength(StackSize(size)) = M + z + 1
  BY <1>7, <1>8, PowerLength
<1>10. (BitLength(StackSize(size)) - 1) - (N + M) = z - N
  BY <1>1, <1>8, <1>9
<1>11. StackOffset(size) = (z - N) * RegionSize
  BY <1>10 DEF StackOffset
<1>12. size < SlotSize(z)
  BY <1>2, <1>3, <1>6, <1>7, <1>8
<1> QED BY <1>7, <1>8, <1>11, <1>12

LEMMA StackObjectBounded ==
  ASSUME NEW size \in 1 .. MaxStackAlloc, NEW ptr \in StackPointers, StackSize(size) # 0
  PROVE  StackObjectSuits(size, ptr)
<1> DEFINE R == RegionSize
           N == NumRegions
<1>1. PICK z \in Regions : /\ StackSize(size) = SlotSize(z) /\ size < SlotSize(z)
                           /\ StackOffset(size) = (z - N) * R
  BY StackClass
<1> DEFINE S == SlotSize(z)
<1>2. /\ R \in Nat \ {0} /\ N \in Nat /\ z \in Nat /\ (z + 1) * R \in Nat /\ (N + 1) * R \in Nat
      /\ S \in Nat \ {0}
  BY RegionsFit, SlotPowers
<1>3. PICK r \in 0 .. R - 1 : ptr = (N + 1) * R + r
  <2>1. ptr \in (N + 1) * R .. (N + 1) * R + R - 1
    BY DEF StackPointers, BaseStackRegion
  <2>2. ptr - (N + 1) * R \in 0 .. R - 1 /\ ptr = (N + 1) * R + (ptr - (N + 1) * R)
    BY <1>2, <2>1
  <2> QED BY <2>2
<1>4. PICK k \in Nat, q \in 0 .. S - 1 : r = k * S + q
  <2>1. r \in Nat
    BY <1>2
  <2>2. r = (r \div S) * S + (r % S) /\ r % S \in 0 .. S - 1 /\ r \div S \in Nat
    BY <1>2, <2>1, Division
  <2> QED BY <2>2, Zenon
<1>5. k * S \in Nat /\ q \in Nat /\ r \in Nat /\ k * S <= r /\ k * S < R
  BY <1>2, <1>3, <1>4
<1>6. ptr % S = q
  <2>1. ptr = (N + 1) * R + k * S + q /\ N + 1 \in Nat
    BY <1>2, <1>3, <1>4, <1>5
  <2>2. ((N + 1) * R + k * S + q) % S = q
    BY <2>1, GridPlace
  <2> QED BY <2>1, <2>2, Zenon
<1>7. ComputeAligned(ptr, size) = (N + 1) * R + k * S
  <2>1. ComputeAligned(ptr, size) = ptr - q
    BY <1>1, <1>6 DEF ComputeAligned
  <2> QED BY <1>2, <1>3, <1>4, <1>5, <2>1
<1>8. Mirror(ComputeAligned(ptr, size), StackOffset(size)) = (z + 1) * R + k * S
  <2>1. (N + 1) * R + (z - N) * R = (z + 1) * R /\ (z - N) * R \in Int
    BY <1>2
  <2>2. Mirror(ComputeAligned(ptr, size), StackOffset(size)) = (N + 1) * R + k * S + (z - N) * R
    BY <1>1, <1>7 DEF Mirror
  <2> QED BY <1>2, <1>5, <2>1, <2>2
<1>9. Address(<<z, k>>) = (z + 1) * R + k * S
  BY DEF Address, Offset
<1>10. ExactlyBounds(Address(<<z, k>>) .. Address(<<z, k>>) + S - 1, Address(<<z, k>>), S)
  BY <1>5, SlotBounded
<1>11. ((z + 1) * R + k * S) % R = k * S /\ ((N + 1) * R + k * S) % R = k * S
  <2>1. k * S \in 0 .. R - 1 /\ z + 1 \in Nat /\ N + 1 \in Nat
    BY <1>2, <1>5
  <2> HIDE DEF S, R, N
  <2> QED BY <1>2, <2>1, Quotient
<1> HIDE DEF R, N
<1>12. Mirror(ComputeAligned(ptr, size), StackOffset(size)) % R = ComputeAligned(ptr, size) % R
  BY <1>7, <1>8, <1>11, Zenon
<1> QED BY <1>1, <1>8, <1>9, <1>10, <1>12 DEF StackObjectSuits, R

(* The allocator, the stack tables and the checks, which compute one       *)
(* layout in three ways, agree on every object, in both builds             *)
(* (table_sizes.c:64-156, computed_sizes.c:55-150, stack_utils.c:8-22): an *)
(* access is let through when and only when it is inside the object.       *)
THEOREM ObjectsAreBounded == Spec => []ObjectsBounded
<1>1. StackObjectsSuit
  BY StackObjectBounded DEF StackObjectsSuit
<1>2. ASSUME TypeInv, RequestsOK, NEW t \in Threads, pc[t] = "ret", res[t] \in Slots,
             req[t].size # SizeMax, NEW i \in 0 .. req[t].need, NEW witness \in Bytes(res[t])
      PROVE  /\ ~RefusesOob(witness, Address(res[t]) + i)
             /\ i < req[t].need => ~RefusesInner(witness, Address(res[t]) + i, 1)
  <2> DEFINE z == res[t][1]
             base == Address(res[t])
             ptr == base + i
  <2>1. req[t].need < SlotSize(z) /\ req[t].need \in Nat
    BY <1>2 DEF RequestsOK, RequestOK, Suits, TypeInv, TypeOK, Requests
  <2>2. z \in Regions /\ res[t][2] \in Nat /\ res[t] = <<z, res[t][2]>> /\ res[t][2] * SlotSize(z) < RegionSize
    BY <1>2, HeapAssumption DEF Slots, Offset
  <2>3. /\ ExactlyBounds(Bytes(res[t]), base, SlotSize(z))
        /\ base \in Nat /\ base + SlotSize(z) <= SizeMax + 1
    BY <2>2, SlotBounded DEF Bytes
  <2>4. SlotSize(z) \in Nat /\ SizeMax \in Nat
    BY <2>2, SlotPowers, SizeMaxes
  <2>5. ptr \in Addresses /\ ptr \in Bytes(res[t]) /\ ptr .. ptr + 1 - 1 \subseteq Bytes(res[t])
    BY <2>1, <2>3, <2>4 DEF Addresses, Bytes
  <2>6. 1 \in 1 .. SlotSize(z)
    BY <2>1, <2>4
  <2> HIDE DEF base, ptr, z
  <2>7. ~RefusesOob(witness, ptr) /\ ~RefusesInner(witness, ptr, 1)
    BY <1>2, <2>3, <2>5, <2>6 DEF ExactlyBounds
  <2> QED BY <2>7 DEF ptr, base
<1>3. TypeInv /\ RequestsOK => ObjectsBounded
  BY <1>1, <1>2, SlotsAreBounded DEF ObjectsBounded
<1> QED BY <1>3, RequestsAlways, PTL
===============================================================================
