----------------------- MODULE SoftBoundMetadataProofs -----------------------
(***************************************************************************)
(* Proofs about SoftBoundMetadata, for every set of words, size of the     *)
(* secondary tables and sizes of copies and elements.  The invariant says, *)
(* in the middle of a copy or an exchange of entries, of each word that    *)
(* its entry is right and stays, or where the entry that it gets still is. *)
(***************************************************************************)
EXTENDS SoftBoundMetadata, TLAPS

Copies ==
  [doing : {"copy"}, dest : Nat, from : Nat, size : Nat \ {0}, slow : BOOLEAN,
   next : Nat, left : Nat, step : {1, -1}]

Exchanges == [doing : {"exchange"}, a : Nat, b : Nat, size : Nat \ {0}, next : Nat]

Starting == [doing |-> "main"]

WorkType == work = Idle \/ work = Starting \/ work \in Copies \/ work \in Exchanges

(* A missing table stands for one that is empty.                           *)
EmptyUntabled == \A w \in Words : PrimaryIndex(2 * w) \notin tables => entries[w] = NullBounds

Right(w) == Suit(memory[w], entries[w])

(* Words whose entry a copy may write: those with a byte that is copied.   *)
Target(dest, size) == {d \in Nat : Word(dest) <= d /\ 2 * (d - Word(dest)) < size}

(* The entries that the loop has still to copy                             *)
Remaining(c) == IF c.step = 1 THEN c.next .. c.next + c.left ELSE 0 .. c.next

CopyBounds(c) ==
  IF c.step = 1 THEN c.next + c.left = EntryCount(c.size, c.slow) - 1
  ELSE c.left = c.next /\ c.next < EntryCount(c.size, c.slow)

CopyDone(w, c) == Right(w) /\ \A k \in Remaining(c) : w # Word(c.dest) + k

AwaitsCopy(w, c) ==
  \E k \in Remaining(c) :
     /\ w = Word(c.dest) + k
     /\ Word(c.from) + k \in Words \ Target(c.dest, c.size)
     /\ Suit(memory[w], entries[Word(c.from) + k])

CopyInv ==
  work \in Copies =>
    /\ CopyBounds(work)
    /\ \A w \in Words : memory[w] = Loose \/ CopyDone(w, work) \/ AwaitsCopy(w, work)

(* Offsets of the entries that are still to be exchanged                   *)
Pending(x) == {n \in x.next .. x.size - 1 : n % 2 = 0}

ExchangeDone(w, x) ==
  Right(w) /\ \A n \in Pending(x) : w # Word(x.a + n) /\ w # Word(x.b + n)

AwaitsExchange(w, x) ==
  \E n \in Pending(x) :
     \/ w = Word(x.a + n) /\ Suit(memory[w], entries[Word(x.b + n)])
     \/ w = Word(x.b + n) /\ Suit(memory[w], entries[Word(x.a + n)])

ExchangeInv ==
  work \in Exchanges =>
    /\ Range(work.a, 2 * work.size) \subseteq Halves
    /\ work.b = work.a + work.size /\ work.next % 2 = 0 /\ work.next < work.size
    /\ \A w \in Words : \/ memory[w] = Loose \/ ExchangeDone(w, work)
                        \/ work.size % 2 = 0 /\ AwaitsExchange(w, work)

AllRight ==
  /\ work = Idle => \A w \in Words : Right(w)
  /\ work = Starting => \A w \in Words \ {Environment} : Right(w)

Inductive ==
  /\ TypeOK /\ WorkType /\ ResultsBounded
  /\ EmptyUntabled /\ AllRight /\ CopyInv /\ ExchangeInv

-----------------------------------------------------------------------------
(* Words, tables and bounds                                                *)

(* A word has two halves, and the words of used halves are used.           *)
LEMMA Halved ==
  /\ \A n \in Nat : /\ Word(n) \in Nat /\ 2 * Word(n) <= n /\ n <= 2 * Word(n) + 1
                    /\ n % 2 = 0 => n = 2 * Word(n)
                    /\ n % 2 = 1 => n = 2 * Word(n) + 1
                    /\ n % 2 \in {0, 1}
  /\ \A w \in Nat : Word(2 * w) = w /\ Word(2 * w + 1) = w
  BY DEF Word

LEMMA UsedHalves ==
  /\ Words \subseteq Nat /\ \A w \in Words : w >= 1
  /\ \A u \in Halves : u \in Nat /\ Word(u) \in Words
  /\ \A u \in Nat : Word(u) \in Words => u \in Halves
  /\ \A w \in Words : 2 * w \in Halves /\ 2 * w + 1 \in Halves
<1>1. Words \subseteq Nat /\ \A w \in Words : w >= 1
  BY MetadataAssumption
<1>2. \A u \in Halves : u \in Nat /\ Word(u) \in Words
  <2>1. SUFFICES ASSUME NEW u \in Halves PROVE u \in Nat /\ Word(u) \in Words
    OBVIOUS
  <2>2. PICK w \in Words : u = 2 * w \/ u = 2 * w + 1
    BY DEF Halves
  <2>3. w \in Nat /\ Word(2 * w) = w /\ Word(2 * w + 1) = w
    BY <1>1, Halved
  <2> QED BY <2>2, <2>3
<1>3. \A u \in Nat : Word(u) \in Words => u \in Halves
  <2>1. SUFFICES ASSUME NEW u \in Nat, Word(u) \in Words PROVE u \in Halves
    OBVIOUS
  <2>2. u = 2 * Word(u) \/ u = 2 * Word(u) + 1
    BY Halved
  <2> QED BY <2>1, <2>2 DEF Halves
<1> QED BY <1>1, <1>2, <1>3 DEF Halves

(* Higher addresses are in the same table or in a later one.               *)
LEMMA TablesAscend ==
  ASSUME NEW x \in Nat, NEW y \in Nat, x <= y
  PROVE  PrimaryIndex(x) \in Nat /\ PrimaryIndex(x) <= PrimaryIndex(y)
<1> DEFINE T == TableWords
<1>1. T \in Nat /\ T > 0
  BY MetadataAssumption
<1>2. Word(x) \in Nat /\ Word(y) \in Nat /\ Word(x) <= Word(y)
  BY DEF Word
<1> HIDE DEF T
<1>3. ASSUME NEW m \in Nat, NEW n \in Nat, m <= n
      PROVE  m \div T \in Nat /\ m \div T <= n \div T
  BY <1>1, <1>3
<1> QED BY <1>2, <1>3 DEF PrimaryIndex, T

LEMMA Loaded ==
  ASSUME EmptyUntabled, NEW w \in Words
  PROVE  Load(w) = entries[w]
  BY DEF EmptyUntabled, Load

LEMMA Suiting ==
  /\ Own \in Pointers /\ Library \in Pointers /\ VaList \in Pointers /\ Loose \in Pointers
  /\ Own \in Bounds /\ Library \in Bounds /\ VaList \in Bounds
  /\ Inexact \in Bounds /\ NullBounds \in Bounds
  /\ \A b \in Bounds : Suit(Loose, b)
  /\ Suit(Own, Own) /\ Suit(VaList, VaList) /\ Suit(Library, Library) /\ Suit(Library, Inexact)
  /\ \A p \in Pointers : Suit(p, NullBounds) => p = Loose
  BY MetadataAssumption DEF Suit, Pointers, Bounds

LEMMA Counted ==
  ASSUME NEW size \in Nat \ {0}, NEW slow \in BOOLEAN
  PROVE  /\ EntryCount(size, slow) \in Nat
         /\ 2 * EntryCount(size, slow) <= size + 1
         /\ \A k \in Nat : 2 * k + 1 < size => k < EntryCount(size, slow)
  BY DEF EntryCount

LEMMA WorkKinds ==
  /\ Idle # Starting /\ Idle \notin Copies \cup Exchanges /\ Starting \notin Copies \cup Exchanges
  /\ \A c \in Copies : c.doing = "copy"
  /\ \A x \in Exchanges : x.doing = "exchange"
  /\ Idle.doing = "nothing" /\ Starting.doing = "main"
<1>1. \A c \in Copies : c.doing = "copy"
  BY DEF Copies
<1>2. \A x \in Exchanges : x.doing = "exchange"
  BY DEF Exchanges
<1>3. Idle.doing = "nothing" /\ Starting.doing = "main"
  BY DEF Idle, Starting
<1> QED BY <1>1, <1>2, <1>3

(* What is left of a copy is within the bytes that are copied.             *)
LEMMA InTarget ==
  ASSUME NEW c \in Copies, CopyBounds(c), NEW k \in Remaining(c)
  PROVE  /\ k \in Nat /\ k < EntryCount(c.size, c.slow)
         /\ 2 * k < c.size
         /\ Word(c.dest) + k \in Target(c.dest, c.size)
<1>1. /\ c.size \in Nat \ {0} /\ c.slow \in BOOLEAN /\ c.next \in Nat /\ c.left \in Nat
      /\ c.step \in {1, -1} /\ c.dest \in Nat
  BY DEF Copies
<1>2. EntryCount(c.size, c.slow) \in Nat /\ 2 * EntryCount(c.size, c.slow) <= c.size + 1
  BY <1>1, Counted
<1>3. k \in Nat /\ k < EntryCount(c.size, c.slow)
  BY <1>1, <1>2 DEF Remaining, CopyBounds
<1>4. Word(c.dest) \in Nat
  BY <1>1, Halved
<1> QED BY <1>1, <1>2, <1>3, <1>4 DEF Target

-----------------------------------------------------------------------------
(* Steps of the program and of the library                                 *)

Typed(ptr, bounds) == ptr \in Pointers /\ bounds \in Bounds /\ Suit(ptr, bounds)

(* What every step but a copy does: it yields a pointer with its bounds,   *)
(* stores a pointer with its bounds, or forgets pointers.                  *)
Yields == Keep /\ hand' \in [ptr : Pointers, bounds : Bounds] /\ Suit(hand'.ptr, hand'.bounds)
Stores == \E w \in Words, ptr \in Pointers, bounds \in Bounds :
            Suit(ptr, bounds) /\ Noticed(w, ptr, bounds)
Forgets ==
  /\ UNCHANGED <<tables, entries, hand>>
  /\ memory' \in [Words -> Pointers]
  /\ \A w \in Words : memory'[w] \in {memory[w], Loose}

Sound == Yields \/ Stores \/ Forgets

LEMMA YieldSound ==
  ASSUME NEW ptr, NEW bounds, Typed(ptr, bounds), Yield(ptr, bounds), Keep
  PROVE  Sound
  BY DEF Sound, Yields, Typed, Yield

LEMMA UnnoticedSound ==
  ASSUME TypeOK, NEW w \in Words, Unnoticed(w)
  PROVE  Sound
  BY Suiting DEF Sound, Forgets, Unnoticed, TypeOK

LEMMA NoticedSound ==
  ASSUME NEW w \in Words, NEW ptr, NEW bounds, Typed(ptr, bounds), Noticed(w, ptr, bounds)
  PROVE  Sound
  BY DEF Sound, Stores, Typed

(* The results of the wrappers, by kind                                    *)
LEMMA TypedResults ==
  /\ Typed(Own, Own) /\ Typed(VaList, VaList)
  /\ Typed(Library, Library) /\ Typed(Library, Inexact)
  /\ \A b \in Bounds : Typed(Loose, b)
  /\ TypeOK /\ ResultsBounded => Typed(hand.ptr, hand.bounds) /\ hand.bounds \in Bounds
  BY Suiting DEF Typed, TypeOK, ResultsBounded

LEMMA ResultSound ==
  ASSUME TypeOK, ResultsBounded
  PROVE  /\ OfArgument \/ OfArgumentOrNull \/ OfArgumentOrReset => Sound
         /\ \A b \in {Library, Inexact} :
              Given(b) \/ GivenOrReset(b) \/ GivenOrStale(b) \/ GivenOrNull(b) => Sound
<1>1. OfArgument \/ OfArgumentOrNull \/ OfArgumentOrReset => Sound
  BY TypedResults, YieldSound, Suiting DEF OfArgument, OfArgumentOrNull, OfArgumentOrReset
<1>2. ASSUME NEW b \in {Library, Inexact}
      PROVE  Given(b) \/ GivenOrReset(b) \/ GivenOrStale(b) \/ GivenOrNull(b) => Sound
  <2>1. Given(b) => Sound
    BY <1>2, TypedResults, YieldSound DEF Given
  <2>2. \A d \in Bounds : Yield(Loose, d) /\ Keep => Sound
    BY TypedResults, YieldSound
  <2> QED BY <2>1, <2>2, Suiting DEF GivenOrReset, GivenOrStale, GivenOrNull
<1> QED BY <1>1, <1>2

(* Every library wrapper is sound.                                         *)
LEMMA WrapperSound ==
  ASSUME TypeOK, ResultsBounded, Wrapper
  PROVE  Sound
<1>r. /\ OfArgument \/ OfArgumentOrNull \/ OfArgumentOrReset => Sound
      /\ Given(Library) \/ GivenOrReset(Library) \/ GivenOrStale(Library) \/ GivenOrNull(Library) => Sound
      /\ Given(Inexact) \/ GivenOrReset(Inexact) \/ GivenOrStale(Inexact) \/ GivenOrNull(Inexact) => Sound
  BY ResultSound
<1>y. \A p \in Pointers, b \in Bounds : Suit(p, b) /\ Yield(p, b) /\ Keep => Sound
  BY YieldSound DEF Typed
<1>n. /\ \A w \in Words : Unnoticed(w) => Sound
      /\ \A w \in Words, p \in Pointers, b \in Bounds : Suit(p, b) /\ Noticed(w, p, b) => Sound
  BY UnnoticedSound, NoticedSound DEF Typed
<1>h. hand.ptr \in Pointers /\ hand.bounds \in Bounds /\ Suit(hand.ptr, hand.bounds)
  BY DEF TypeOK, ResultsBounded
<1>s. SetEnv => Sound
  <2>1. SUFFICES ASSUME NEW ptr \in {Library, Loose}, UpdateEnvironment(ptr), UNCHANGED hand
                 PROVE  Sound
    BY DEF SetEnv
  <2>2. CASE ptr = Loose
    BY <2>1, <2>2, <1>n, MetadataAssumption DEF UpdateEnvironment, Unnoticed
  <2>3. CASE ptr # Loose
    <3>1. Noticed(Environment, Library, Library)
      BY <2>1, <2>3 DEF UpdateEnvironment, Noticed
    <3> QED BY <3>1, <1>n, Suiting, MetadataAssumption
  <2> QED BY <2>2, <2>3
<1>k. Keep /\ UNCHANGED hand => Sound
  BY <1>h DEF Sound, Forgets, Keep, TypeOK
<1>l. Allocations \/ LocalTime => Sound
  BY <1>r, <1>y, Suiting DEF Allocations, GenericAlloc, LocalTime
<1>w. ASSUME NEW w \in Words
      PROVE  /\ StrTo(w) \/ GetDelim(w) \/ GetPwUid(w) \/ PosixMemalign(w) \/ CTypeTables(w) => Sound
             /\ DlAddr(w) \/ GetAddrInfo(w) \/ Locales(w) \/ GetPwNam(w) \/ Groups(w) => Sound
             /\ GetHostByName(w) => Sound
  <2>1. StrTo(w) \/ GetDelim(w) \/ GetPwUid(w) => Sound
    BY <1>r, <1>n, <1>h, Suiting DEF StrTo, GetDelim, GetPwUid
  <2>2. PosixMemalign(w) \/ CTypeTables(w) => Sound
    BY <1>r, <1>n, <1>k, Suiting DEF PosixMemalign, CTypeTables
  <2>3. DlAddr(w) \/ GetAddrInfo(w) => Sound
    BY <1>r, <1>n, Suiting DEF DlAddr, GetAddrInfo
  <2>4. Locales(w) \/ GetPwNam(w) \/ Groups(w) \/ GetHostByName(w) => Sound
    BY <1>r, <1>n DEF Locales, GetPwNam, Groups, GetHostByName
  <2> QED BY <2>1, <2>2, <2>3, <2>4
<1>1. GetEnv \/ MkdTemp \/ Gcvt \/ BSearch \/ FGets \/ Files \/ Directories \/ ReadDir \/ GetCwd => Sound
  BY <1>r DEF GetEnv, MkdTemp, Gcvt, BSearch, FGets, Files, Directories, ReadDir, GetCwd
<1>2. SearchOrReset \/ SearchOrNull \/ StringCopies \/ StrTok \/ StrDup \/ Concatenations \/ StrStr => Sound
  BY <1>r DEF SearchOrReset, SearchOrNull, StringCopies, StrTok, StrDup, Concatenations, StrStr
<1>3. StrError \/ Signal \/ CTime \/ GmTime \/ Messages \/ ErrnoLocation \/ LanguageInfo => Sound
  BY <1>r DEF StrError, Signal, CTime, GmTime, Messages, ErrnoLocation, LanguageInfo
<1>4. CryptR \/ DlSym \/ FReopen \/ GetPass => Sound
  BY <1>r DEF CryptR, DlSym, FReopen, GetPass
<1> QED BY <1>s, <1>l, <1>w, <1>1, <1>2, <1>3, <1>4 DEF Wrapper

(* ... and so is every step of the instrumented code itself.               *)
LEMMA ProgramSound ==
  ASSUME TypeOK, ResultsBounded, EmptyUntabled, \A w \in Words : Right(w), Program
  PROVE  Sound
<1>1. CASE TakeAddress
  BY <1>1, TypedResults, YieldSound DEF TakeAddress
<1>2. ASSUME NEW w \in Words, StorePointer(w)
      PROVE  Sound
  <2>1. Noticed(w, hand.ptr, hand.bounds)
    BY <1>2 DEF StorePointer, Noticed
  <2> QED BY <2>1, TypedResults, NoticedSound
<1>3. ASSUME NEW w \in Words, LoadPointer(w) \/ ProxyLoad(w)
      PROVE  Sound
  <2>1. Load(w) = entries[w]
    BY Loaded
  <2>2. Typed(memory[w], Load(w))
    BY <2>1 DEF Typed, TypeOK, Right
  <2>3. Keep /\ Yield(memory[w], Load(w))
    BY <1>3 DEF LoadPointer, ProxyLoad
  <2> QED BY <2>2, <2>3, YieldSound
<1>4. ASSUME NEW w \in Words, StoreInteger(w)
      PROVE  Sound
  BY <1>4, UnnoticedSound DEF StoreInteger, Unnoticed
<1>5. ASSUME NEW w \in Words, ProxyStore(w)
      PROVE  Sound
  <2>1. Noticed(w, VaList, VaList)
    BY <1>5 DEF ProxyStore, Noticed
  <2> QED BY <2>1, TypedResults, NoticedSound
<1>6. ASSUME NEW dest \in Halves, NEW size \in CopySizes, MemSet(dest, size)
      PROVE  Sound
  BY <1>6, Suiting DEF MemSet, Sound, Forgets, TypeOK
<1>7. CASE Wrapper
  BY <1>7, WrapperSound
<1> QED BY <1>1, <1>2, <1>3, <1>4, <1>5, <1>6, <1>7 DEF Program

LEMMA StoreKeeps ==
  ASSUME TypeOK, EmptyUntabled, NEW w \in Words, NEW bounds \in Bounds, Store(w, bounds)
  PROVE  /\ tables' \subseteq Nat /\ tables \subseteq tables'
         /\ entries' = [entries EXCEPT ![w] = bounds] /\ entries' \in [Words -> Bounds]
         /\ EmptyUntabled'
<1>1. entries' = [entries EXCEPT ![w] = bounds] /\ tables' = tables \cup {PrimaryIndex(2 * w)}
  BY DEF Store
<1>2. entries' \in [Words -> Bounds]
  BY <1>1 DEF TypeOK
<1>3. 2 * w \in Nat /\ PrimaryIndex(2 * w) \in Nat
  BY UsedHalves, TablesAscend
<1>4. tables' \subseteq Nat /\ tables \subseteq tables'
  BY <1>1, <1>3 DEF TypeOK
<1>5. ASSUME NEW v \in Words, PrimaryIndex(2 * v) \notin tables'
      PROVE  entries'[v] = NullBounds
  BY <1>1, <1>5 DEF TypeOK, EmptyUntabled
<1> QED BY <1>1, <1>2, <1>4, <1>5 DEF EmptyUntabled

LEMMA StoreRight ==
  ASSUME TypeOK, NEW v \in Words, NEW ptr \in Pointers, NEW bounds \in Bounds, Suit(ptr, bounds),
         memory' = [memory EXCEPT ![v] = ptr], entries' = [entries EXCEPT ![v] = bounds]
  PROVE  \A w \in Words : (w # v => Right(w)) => Right(w)'
  BY DEF TypeOK, Right

LEMMA SoundKeeps ==
  ASSUME Inductive, work = Idle, UNCHANGED work, Sound
  PROVE  Inductive'
<1>w. \A w \in Words : Right(w)
  BY DEF Inductive, AllRight
<1>k. work' = Idle /\ WorkType' /\ CopyInv' /\ ExchangeInv'
  BY WorkKinds DEF WorkType, CopyInv, ExchangeInv
<1>d. work'.doing \in {"main", "nothing", "copy", "exchange"}
  BY <1>k, WorkKinds
<1>1. CASE Yields
  <2>1. UNCHANGED <<memory, tables, entries>>
    BY <1>1 DEF Yields, Keep
  <2>2. TypeOK' /\ ResultsBounded'
    BY <1>1, <1>d, <2>1 DEF Inductive, TypeOK, ResultsBounded, Yields
  <2>3. EmptyUntabled' /\ \A w \in Words : Right(w)'
    BY <1>w, <2>1 DEF Inductive, EmptyUntabled, Right
  <2> QED BY <1>k, <2>2, <2>3, WorkKinds DEF Inductive, AllRight
<1>2. CASE Stores
  <2>1. PICK v \in Words, ptr \in Pointers, bounds \in Bounds :
          Suit(ptr, bounds) /\ Noticed(v, ptr, bounds)
    BY <1>2 DEF Stores
  <2>2. memory' = [memory EXCEPT ![v] = ptr] /\ Store(v, bounds) /\ UNCHANGED hand
    BY <2>1 DEF Noticed
  <2>3. /\ tables' \subseteq Nat /\ EmptyUntabled' /\ entries' \in [Words -> Bounds]
        /\ entries' = [entries EXCEPT ![v] = bounds]
    BY <2>2, StoreKeeps DEF Inductive
  <2>4. TypeOK' /\ ResultsBounded'
    BY <1>d, <2>2, <2>3 DEF Inductive, TypeOK, ResultsBounded
  <2>5. \A w \in Words : Right(w)'
    BY <1>w, <2>1, <2>2, <2>3, StoreRight DEF Inductive
  <2> QED BY <1>k, <2>3, <2>4, <2>5, WorkKinds DEF Inductive, AllRight
<1>3. CASE Forgets
  <2>1. UNCHANGED <<tables, entries, hand>> /\ memory' \in [Words -> Pointers]
    BY <1>3 DEF Forgets
  <2>2. TypeOK' /\ ResultsBounded'
    BY <1>d, <2>1 DEF Inductive, TypeOK, ResultsBounded
  <2>3. ASSUME NEW w \in Words PROVE Right(w)'
    <3>1. memory'[w] = memory[w] \/ memory'[w] = Loose
      BY <1>3 DEF Forgets
    <3>2. entries[w] \in Bounds /\ entries' = entries
      BY <2>1 DEF Inductive, TypeOK
    <3> QED BY <1>w, <3>1, <3>2, Suiting DEF Right
  <2>4. EmptyUntabled'
    BY <2>1 DEF Inductive, EmptyUntabled
  <2> QED BY <1>k, <2>2, <2>3, <2>4, WorkKinds DEF Inductive, AllRight
<1> QED BY <1>1, <1>2, <1>3 DEF Sound

-----------------------------------------------------------------------------
(* Copies                                                                  *)

(* What the memory holds after a copy: a word has lost its pointer, or is  *)
(* out of the copy's reach, or has the pointer of its source, which is     *)
(* itself out of reach.                                                    *)
Copied(after, dest, from, size) ==
  \A w \in Words :
    \/ after[w] = Loose
    \/ after[w] = memory[w] /\ (w \notin Target(dest, size) \/ from % 2 # 0)
    \/ \E k \in Nat : /\ from % 2 = 0 /\ 2 * k + 1 < size /\ w = Word(dest) + k
                      /\ Word(from) + k \in Words \ Target(dest, size)
                      /\ after[w] = memory[Word(from) + k]

(* From the first call on to the loop, or to the early return: every word  *)
(* has its metadata or will get it.                                        *)
LEMMA CopyBegins ==
  ASSUME TypeOK, EmptyUntabled, \A w \in Words : Right(w),
         NEW dest \in Nat, NEW from \in Nat, NEW size \in Nat \ {0},
         Copied(memory', dest, from, size), memory' \in [Words -> Pointers],
         CopyMetadata(dest, from, size), UNCHANGED entries
  PROVE  /\ tables' \subseteq Nat /\ EmptyUntabled' /\ WorkType'
         /\ work'.doing \in {"nothing", "copy"}
         /\ CopyInv' /\ ExchangeInv' /\ AllRight'
<1> DEFINE crosses == \/ PrimaryIndex(from) # PrimaryIndex(from + size)
                      \/ PrimaryIndex(dest) # PrimaryIndex(dest + size)
<1>e. \A w \in Words : /\ entries[w] \in Bounds
                       /\ memory'[w] = Loose => Right(w)'
                       /\ memory'[w] = memory[w] => Right(w)'
  BY Suiting DEF TypeOK, Right
<1>1. CASE from % 2 # 0 \/ (~crosses /\ PrimaryIndex(from) \notin tables)
  <2>1. work' = Idle /\ UNCHANGED tables
    BY <1>1 DEF CopyMetadata
  <2>2. ASSUME NEW w \in Words PROVE Right(w)'
    <3>1. CASE memory'[w] = Loose \/ memory'[w] = memory[w]
      BY <3>1, <1>e
    <3>2. CASE ~(memory'[w] = Loose \/ memory'[w] = memory[w])
      <4>1. PICK k \in Nat : /\ from % 2 = 0 /\ 2 * k + 1 < size
                             /\ Word(from) + k \in Words
                             /\ memory'[w] = memory[Word(from) + k]
        BY <3>2 DEF Copied
      <4> DEFINE f == Word(from) + k
      <4>2. from = 2 * Word(from)
        BY <4>1, Halved
      <4>3. 2 * f \in Nat /\ from <= 2 * f /\ 2 * f <= from + size /\ from + size \in Nat
        <5>1. PICK v \in Nat : v = Word(from)
          BY Halved
        <5>2. from = 2 * v /\ f = v + k
          BY <4>2, <5>1
        <5> HIDE DEF f
        <5> QED BY <4>1, <5>2
      <4>4. /\ PrimaryIndex(from) <= PrimaryIndex(2 * f) /\ PrimaryIndex(2 * f) <= PrimaryIndex(from + size)
            /\ PrimaryIndex(from) \in Nat /\ PrimaryIndex(2 * f) \in Nat
        BY <4>3, TablesAscend
      <4>5. PrimaryIndex(from) = PrimaryIndex(from + size) /\ PrimaryIndex(from) \notin tables
        BY <1>1, <4>1
      <4>6. PrimaryIndex(2 * f) = PrimaryIndex(from)
        BY <4>4, <4>5
      <4>7. f \in Words /\ entries[f] = NullBounds
        BY <4>1, <4>5, <4>6 DEF EmptyUntabled
      <4>8. Suit(memory[f], NullBounds) /\ memory[f] \in Pointers
        BY <4>7 DEF Right, TypeOK
      <4>9. memory[f] = Loose
        BY <4>8, Suiting
      <4> QED BY <4>1, <4>9, <3>2
    <3> QED BY <3>1, <3>2
  <2>3. tables' \subseteq Nat /\ EmptyUntabled'
    BY <2>1 DEF TypeOK, EmptyUntabled
  <2> QED BY <2>1, <2>2, <2>3, WorkKinds DEF WorkType, CopyInv, ExchangeInv, AllRight
<1>2. CASE ~(from % 2 # 0 \/ (~crosses /\ PrimaryIndex(from) \notin tables))
  <2>1. PICK forward \in BOOLEAN, slow \in BOOLEAN :
          CopyLoop(dest, from, size, forward, slow)
    BY <1>2 DEF CopyMetadata
  <2>2. tables' = tables \/ tables' = tables \cup {PrimaryIndex(dest)}
    BY <1>2 DEF CopyMetadata
  <2>3. tables' \subseteq Nat /\ EmptyUntabled'
    <3>1. PrimaryIndex(dest) \in Nat
      BY TablesAscend
    <3>2. tables' \subseteq Nat /\ tables \subseteq tables'
      BY <2>2, <3>1 DEF TypeOK
    <3> QED BY <3>2 DEF EmptyUntabled
  <2> DEFINE last == EntryCount(size, slow) - 1
  <2>4. EntryCount(size, slow) \in Nat /\ \A k \in Nat : 2 * k + 1 < size => k <= last
    BY Counted
  <2>5. CASE last < 0
    <3>1. work' = Idle
      BY <2>1, <2>5 DEF CopyLoop
    <3>2. \A k \in Nat : ~(2 * k + 1 < size)
      BY <2>4, <2>5
    <3>3. \A w \in Words : Right(w)'
      BY <1>e, <3>2 DEF Copied
    <3> QED BY <2>3, <3>1, <3>3, WorkKinds DEF WorkType, CopyInv, ExchangeInv, AllRight
  <2>6. CASE last >= 0
    <3> DEFINE next == IF forward THEN 0 ELSE last
               step == IF forward THEN 1 ELSE -1
    <3>1. work' = [doing |-> "copy", dest |-> dest, from |-> from, size |-> size, slow |-> slow,
                   next |-> next, left |-> last, step |-> step]
      BY <2>1, <2>4, <2>6 DEF CopyLoop
    <3>2. last \in Nat /\ next \in Nat /\ step \in {1, -1}
      BY <2>4, <2>6
    <3> HIDE DEF last, next, step
    <3>3. work' \in Copies
      BY <3>1, <3>2 DEF Copies
    <3>4. /\ work'.dest = dest /\ work'.from = from /\ work'.size = size /\ work'.slow = slow
          /\ work'.next = next /\ work'.left = last /\ work'.step = step
      BY <3>1
    <3>5. CopyBounds(work') /\ Remaining(work') = 0 .. last
      BY <2>4, <3>2, <3>4 DEF CopyBounds, Remaining, last, next, step
    <3>6. ASSUME NEW w \in Words
          PROVE  (memory[w] = Loose \/ CopyDone(w, work) \/ AwaitsCopy(w, work))'
      <4>1. CASE memory'[w] = Loose
        BY <4>1
      <4>2. CASE memory'[w] = memory[w] /\ w \notin Target(dest, size)
        <5>1. \A k \in Remaining(work') : Word(dest) + k \in Target(dest, size)
          BY <3>3, <3>4, <3>5, InTarget
        <5>2. \A k \in Remaining(work') : w # Word(dest) + k
          BY <4>2, <5>1
        <5> QED BY <1>e, <3>4, <4>2, <5>2 DEF CopyDone
      <4>3. CASE \E k \in Nat : /\ from % 2 = 0 /\ 2 * k + 1 < size /\ w = Word(dest) + k
                                /\ Word(from) + k \in Words \ Target(dest, size)
                                /\ memory'[w] = memory[Word(from) + k]
        <5>1. PICK k \in Nat : /\ 2 * k + 1 < size /\ w = Word(dest) + k
                               /\ Word(from) + k \in Words \ Target(dest, size)
                               /\ memory'[w] = memory[Word(from) + k]
          BY <4>3
        <5>2. k \in Remaining(work')
          BY <2>4, <3>2, <3>5, <5>1 DEF last
        <5>3. Suit(memory'[w], entries'[Word(from) + k])
          BY <5>1 DEF Right
        <5> QED BY <3>4, <5>1, <5>2, <5>3 DEF AwaitsCopy
      <4> QED BY <4>1, <4>2, <4>3, <1>2 DEF Copied
    <3>7. CopyInv'
      BY <3>5, <3>6 DEF CopyInv
    <3> QED BY <2>3, <3>3, <3>7, WorkKinds DEF WorkType, ExchangeInv, AllRight
  <2> QED BY <2>4, <2>5, <2>6
<1> QED BY <1>1, <1>2

(* The bytes of a word, and the copies that reach it                       *)
LEMMA Reach ==
  ASSUME NEW dest \in Nat, NEW size \in Nat \ {0}, NEW w \in Nat
  PROVE  /\ w \in Target(dest, size) => 2 * w \in Range(dest, size) \/ 2 * w + 1 = dest
         /\ dest % 2 = 0 /\ w \in Target(dest, size) => 2 * w \in Range(dest, size)
<1>1. PICK d \in Nat : d = Word(dest) /\ (dest = 2 * d \/ dest = 2 * d + 1) /\ (dest % 2 = 0 => dest = 2 * d)
  BY Halved
<1>2. w \in Target(dest, size) => d <= w /\ 2 * (w - d) < size
  BY <1>1 DEF Target
<1> QED BY <1>1, <1>2 DEF Range

LEMMA MoveCopied ==
  ASSUME TypeOK, NEW dest \in Halves, NEW from \in Halves, NEW size \in CopySizes,
         MemMove(dest, from, size)
  PROVE  memory' \in [Words -> Pointers] /\ Copied(memory', dest, from, size)
<1>0. /\ dest \in Nat /\ from \in Nat /\ size \in Nat \ {0} /\ Words \subseteq Nat
      /\ Range(from, size) \subseteq Halves
  BY UsedHalves, MetadataAssumption DEF MemMove
<1> DEFINE R == Range(dest, size)
           followed == from % 2 = 0 /\ R \cap Range(from, size) = {}
           origin(u) == IF u \in R THEN u - dest + from ELSE u
<1>m. memory' = [w \in Words |-> IF ~followed /\ 2 * w \in R THEN Loose ELSE Moved(origin)[w]]
  BY DEF MemMove
<1>o. \A w \in Words :
        Moved(origin)[w] = IF /\ origin(2 * w) % 2 = 0 /\ origin(2 * w + 1) = origin(2 * w) + 1
                              /\ Word(origin(2 * w)) \in Words
                           THEN memory[Word(origin(2 * w))] ELSE Loose
  BY DEF Moved
<1>t. memory' \in [Words -> Pointers]
  BY <1>m, <1>o, Suiting DEF TypeOK
<1>c. ASSUME NEW w \in Words, memory'[w] # Loose
      PROVE  \/ memory'[w] = memory[w] /\ (w \notin Target(dest, size) \/ from % 2 # 0)
             \/ \E k \in Nat : /\ from % 2 = 0 /\ 2 * k + 1 < size /\ w = Word(dest) + k
                               /\ Word(from) + k \in Words \ Target(dest, size)
                               /\ memory'[w] = memory[Word(from) + k]
  <2>0. w \in Nat /\ Word(2 * w) = w
    BY <1>0, Halved
  <2>1. /\ 2 * w \in R => followed
        /\ origin(2 * w) % 2 = 0 /\ origin(2 * w + 1) = origin(2 * w) + 1
        /\ memory'[w] = memory[Word(origin(2 * w))] /\ Word(origin(2 * w)) \in Words
    BY <1>c, <1>m, <1>o
  <2>2. CASE 2 * w \notin R
    <3>1. memory'[w] = memory[w] /\ origin(2 * w + 1) = 2 * w + 1
      BY <2>0, <2>1, <2>2
    <3>2. 2 * w + 1 = dest => from % 2 # 0
      <4>1. SUFFICES ASSUME 2 * w + 1 = dest PROVE from % 2 # 0
        OBVIOUS
      <4>2. 2 * w + 1 \in R
        BY <1>0, <2>0, <4>1 DEF Range
      <4>3. from = 2 * w + 1
        BY <1>0, <2>0, <3>1, <4>1, <4>2
      <4> QED BY <2>0, <4>3
    <3>3. w \in Target(dest, size) => 2 * w + 1 = dest
      BY <1>0, <2>0, <2>2, Reach
    <3> QED BY <3>1, <3>2, <3>3
  <2>3. CASE 2 * w \in R
    <3>1. followed /\ from % 2 = 0 /\ origin(2 * w) = 2 * w - dest + from
      BY <2>1, <2>3
    <3>2. 2 * w + 1 \in R
      <4>1. SUFFICES ASSUME 2 * w + 1 \notin R PROVE FALSE
        OBVIOUS
      <4>2. dest = from
        BY <1>0, <2>0, <2>1, <3>1, <4>1
      <4>3. dest \in R /\ dest \in Range(from, size)
        BY <1>0, <4>2 DEF Range
      <4> QED BY <3>1, <4>3
    <3>3. PICK f \in Nat, d \in Nat : f = Word(from) /\ from = 2 * f /\ d = Word(dest) /\ dest % 2 \in {0, 1}
                                      /\ (dest = 2 * d \/ dest = 2 * d + 1)
      BY <1>0, <3>1, Halved
    <3>4. dest = 2 * d
      BY <1>0, <2>0, <2>1, <3>1, <3>3
    <3> DEFINE k == w - d
    <3>5. dest <= 2 * w /\ 2 * w + 1 <= dest + size - 1
      BY <1>0, <2>0, <2>3, <3>2 DEF Range
    <3>6. k \in Nat /\ 2 * k + 1 < size /\ w = d + k /\ origin(2 * w) = 2 * (f + k)
      BY <1>0, <2>0, <3>1, <3>3, <3>4, <3>5
    <3> HIDE DEF k
    <3>7. f + k \in Words /\ memory'[w] = memory[f + k]
      <4>1. PICK o : o = origin(2 * w)
        OBVIOUS
      <4>2. memory'[w] = memory[Word(o)] /\ Word(o) \in Words /\ o = 2 * (f + k)
        BY <2>1, <3>6, <4>1
      <4>3. f + k \in Nat
        BY <3>6
      <4>4. Word(2 * (f + k)) = f + k
        BY <4>3, Halved
      <4> QED BY <4>2, <4>4
    <3>8. 2 * (f + k) \in Range(from, size)
      BY <1>0, <3>3, <3>6 DEF Range
    <3>9. f + k \notin Target(dest, size)
      <4>1. dest % 2 = 0
        BY <3>4
      <4> QED BY <1>0, <3>1, <3>3, <3>6, <3>8, <4>1, Reach
    <3> QED BY <3>1, <3>3, <3>6, <3>7, <3>9
  <2> QED BY <2>2, <2>3
<1> QED BY <1>t, <1>c DEF Copied

(* realloc: the block moved, stayed, or was refused                        *)
LEMMA ReallocCopied ==
  ASSUME TypeOK, NEW from \in Halves, NEW old \in CopySizes, NEW size \in CopySizes,
         Realloc(from, old, size)
  PROVE  \/ Keep /\ UNCHANGED work /\ Yield(Own, Own)
         \/ /\ Yield(Own, Own) \/ Yield(Loose, Inexact)
            /\ memory' \in [Words -> Pointers] /\ UNCHANGED entries
            /\ \E dest \in Nat : CopyMetadata(dest, from, size) /\ Copied(memory', dest, from, size)
<1>0. /\ from \in Nat /\ size \in Nat \ {0} /\ old \in Nat \ {0} /\ Words \subseteq Nat
      /\ from % 2 = 0 /\ Range(from, old) \subseteq Halves
  BY UsedHalves, MetadataAssumption DEF Realloc
<1>1. CASE Yield(Own, Own) /\ Keep /\ UNCHANGED work
  BY <1>1
<1>2. CASE /\ size \in RefusedSizes
           /\ Yield(Loose, Inexact) /\ CopyMetadata(0, from, size) /\ UNCHANGED <<memory, entries>>
  <2>1. ASSUME NEW w \in Words PROVE w \notin Target(0, size)
    <3>1. size < 2 * w /\ w \in Nat
      BY <1>2, MetadataAssumption
    <3>2. 2 * w \notin Range(0, size)
      BY <1>0, <3>1 DEF Range
    <3> QED BY <1>0, <3>1, <3>2, Reach
  <2>2. Copied(memory', 0, from, size) /\ memory' \in [Words -> Pointers]
    BY <1>2, <2>1 DEF Copied, TypeOK
  <2> QED BY <1>2, <2>2
<1>3. ASSUME NEW dest \in Halves, dest % 2 = 0,
             Range(dest, size) \cap Range(from, old) = {},
             memory' = LET kept == IF old < size THEN old ELSE size
                           origin(u) == IF u \in Range(dest, kept) THEN u - dest + from
                                        ELSE IF u \in Range(dest, size) \cup Range(from, old) THEN -1 ELSE u
                       IN  Moved(origin)
      PROVE  memory' \in [Words -> Pointers] /\ Copied(memory', dest, from, size)
  <2> DEFINE kept == IF old < size THEN old ELSE size
             K == Range(dest, kept)
             L == Range(dest, size) \cup Range(from, old)
             origin(u) == IF u \in K THEN u - dest + from ELSE IF u \in L THEN -1 ELSE u
  <2>0. dest \in Nat /\ kept \in Nat /\ kept <= size /\ kept <= old
    BY <1>0, UsedHalves
  <2>o. \A w \in Words :
          memory'[w] = IF /\ origin(2 * w) % 2 = 0 /\ origin(2 * w + 1) = origin(2 * w) + 1
                          /\ Word(origin(2 * w)) \in Words
                       THEN memory[Word(origin(2 * w))] ELSE Loose
    BY <1>3 DEF Moved
  <2>t. memory' \in [Words -> Pointers]
    <3>1. \A w \in Words : memory'[w] \in Pointers
      BY <2>o, Suiting DEF TypeOK
    <3>2. memory' = [w \in Words |-> memory'[w]]
      BY <1>3 DEF Moved
    <3> QED BY <3>1, <3>2
  <2> HIDE DEF kept
  <2>c. ASSUME NEW w \in Words, memory'[w] # Loose
        PROVE  \/ memory'[w] = memory[w] /\ (w \notin Target(dest, size) \/ from % 2 # 0)
               \/ \E k \in Nat : /\ from % 2 = 0 /\ 2 * k + 1 < size /\ w = Word(dest) + k
                                 /\ Word(from) + k \in Words \ Target(dest, size)
                                 /\ memory'[w] = memory[Word(from) + k]
    <3>0. w \in Nat /\ Word(2 * w) = w
      BY <1>0, Halved
    <3>1. /\ origin(2 * w) % 2 = 0 /\ origin(2 * w + 1) = origin(2 * w) + 1
          /\ memory'[w] = memory[Word(origin(2 * w))] /\ Word(origin(2 * w)) \in Words
      BY <2>c, <2>o
    <3>2. CASE 2 * w \notin K
      <4>1. 2 * w \notin L /\ origin(2 * w) = 2 * w
        <5>1. SUFFICES ASSUME 2 * w \in L PROVE FALSE
          BY <3>2
        <5>2. origin(2 * w) = -1
          BY <3>2, <5>1
        <5> QED BY <3>1, <5>2
      <4>2. memory'[w] = memory[w]
        BY <3>0, <3>1, <4>1
      <4> QED BY <1>0, <1>3, <2>0, <3>0, <4>1, <4>2, Reach
    <3>3. CASE 2 * w \in K
      <4>1. origin(2 * w) = 2 * w - dest + from
        BY <3>3
      <4>2. 2 * w + 1 \in K
        <5>1. SUFFICES ASSUME 2 * w + 1 \notin K PROVE FALSE
          OBVIOUS
        <5>2. origin(2 * w + 1) = -1 \/ origin(2 * w + 1) = 2 * w + 1
          BY <5>1
        <5>3. dest <= 2 * w
          BY <2>0, <3>0, <3>3 DEF Range
        <5>4. dest = from
          BY <1>0, <2>0, <3>0, <3>1, <4>1, <5>2, <5>3
        <5>5. dest \in Range(dest, size) /\ dest \in Range(from, old)
          BY <1>0, <2>0, <5>4 DEF Range
        <5> QED BY <1>3, <5>5
      <4>3. PICK f \in Nat, d \in Nat : f = Word(from) /\ from = 2 * f /\ d = Word(dest) /\ dest = 2 * d
        BY <1>0, <1>3, <2>0, Halved
      <4> DEFINE k == w - d
      <4>4. dest <= 2 * w /\ 2 * w + 1 <= dest + kept - 1
        BY <2>0, <3>0, <3>3, <4>2 DEF Range
      <4>5. /\ k \in Nat /\ 2 * k + 1 < size /\ 2 * k < old /\ w = d + k
            /\ origin(2 * w) = 2 * (f + k)
        BY <1>0, <2>0, <3>0, <4>1, <4>3, <4>4
      <4> HIDE DEF k
      <4>6. f + k \in Words /\ memory'[w] = memory[f + k]
        <5>1. PICK o : o = origin(2 * w)
          OBVIOUS
        <5>2. memory'[w] = memory[Word(o)] /\ Word(o) \in Words /\ o = 2 * (f + k)
          BY <3>1, <4>5, <5>1
        <5>3. f + k \in Nat
          BY <4>5
        <5>4. Word(2 * (f + k)) = f + k
          BY <5>3, Halved
        <5> QED BY <5>2, <5>4
      <4>7. 2 * (f + k) \in Range(from, old)
        BY <1>0, <4>3, <4>5 DEF Range
      <4>8. f + k \notin Target(dest, size)
        <5>1. f + k \in Nat
          BY <4>5
        <5>2. PICK o : o = 2 * (f + k)
          OBVIOUS
        <5>3. o \notin Range(dest, size)
          BY <1>3, <4>7, <5>2
        <5> QED BY <1>0, <1>3, <2>0, <5>1, <5>2, <5>3, Reach
      <4> QED BY <1>0, <4>3, <4>5, <4>6, <4>8
    <3> QED BY <3>2, <3>3
  <2> QED BY <2>t, <2>c DEF Copied
<1>4. ASSUME NEW dest \in Halves, dest % 2 = 0,
             Range(dest, size) \cap Range(from, old) = {}, Yield(Own, Own),
             memory' = LET kept == IF old < size THEN old ELSE size
                           origin(u) == IF u \in Range(dest, kept) THEN u - dest + from
                                        ELSE IF u \in Range(dest, size) \cup Range(from, old) THEN -1 ELSE u
                       IN  Moved(origin),
             CopyMetadata(dest, from, size), UNCHANGED entries
      PROVE  /\ memory' \in [Words -> Pointers]
             /\ \E d \in Nat : CopyMetadata(d, from, size) /\ Copied(memory', d, from, size)
  <2>1. memory' \in [Words -> Pointers] /\ Copied(memory', dest, from, size)
    BY <1>3, <1>4
  <2>2. dest \in Nat
    BY UsedHalves
  <2> QED BY <1>4, <2>1, <2>2
<1> QED BY <1>1, <1>2, <1>4 DEF Realloc

(* One entry more: a word whose entry is written gets the right one, and   *)
(* the entries that other words wait for stay.                             *)
LEMMA EntryCopied ==
  ASSUME Inductive, CopyEntry
  PROVE  /\ tables' \subseteq Nat /\ entries' \in [Words -> Bounds]
         /\ EmptyUntabled' /\ WorkType' /\ work'.doing \in {"nothing", "copy"}
         /\ CopyInv' /\ ExchangeInv' /\ AllRight'
         /\ \A w \in Words : entries'[w] # entries[w] =>
              \E u \in Range(work.dest, work.size) : Word(u) = w
<1>0. work \in Copies
  <2>1. work.doing = "copy"
    BY DEF CopyEntry
  <2> QED BY <2>1, WorkKinds DEF Inductive, WorkType
<1>t. /\ work.dest \in Nat /\ work.from \in Nat /\ work.size \in Nat \ {0} /\ work.slow \in BOOLEAN
      /\ work.next \in Nat /\ work.left \in Nat /\ work.step \in {1, -1}
  BY <1>0 DEF Copies
<1>n. PICK d \in Nat, f \in Nat : d = Word(work.dest) + work.next /\ f = Word(work.from) + work.next
  <2>1. Word(work.dest) \in Nat /\ Word(work.from) \in Nat
    BY <1>t, Halved
  <2> QED BY <1>t, <2>1
<1> DEFINE skipped == work.slow /\ PrimaryIndex(2 * f) \notin tables
<1>a. /\ tables' = IF skipped THEN tables ELSE tables \cup {PrimaryIndex(2 * d)}
      /\ entries' = IF skipped \/ ~Tracked(d) THEN entries
                    ELSE [entries EXCEPT ![d] = IF Tracked(f) THEN entries[Source(f)] ELSE NullBounds]
      /\ work' = IF work.left = 0 THEN Idle
                 ELSE [work EXCEPT !.next = @ + work.step, !.left = @ - 1]
      /\ UNCHANGED <<memory, hand>>
  BY <1>n DEF CopyEntry
<1>b. CopyBounds(work) /\ work.next \in Remaining(work)
  BY <1>0, <1>t DEF Inductive, CopyInv, Remaining
<1>d. d \in Target(work.dest, work.size) /\ 2 * work.next < work.size
  BY <1>0, <1>b, <1>n, InTarget
<1>e. entries \in [Words -> Bounds] /\ memory \in [Words -> Pointers] /\ tables \subseteq Nat
  BY DEF Inductive, TypeOK
<1>1. tables' \subseteq Nat /\ tables \subseteq tables'
  <2>1. 2 * d \in Nat /\ PrimaryIndex(2 * d) \in Nat
    BY <1>n, TablesAscend
  <2> QED BY <1>a, <1>e, <2>1
<1>2. entries' \in [Words -> Bounds] /\ \A w \in Words : w # d => entries'[w] = entries[w]
  BY <1>a, <1>e, Suiting DEF Tracked, Source
<1>3. EmptyUntabled'
  <2>1. ASSUME NEW w \in Words, PrimaryIndex(2 * w) \notin tables'
        PROVE  entries'[w] = NullBounds
    <3>1. entries[w] = NullBounds
      BY <1>1, <2>1 DEF Inductive, EmptyUntabled
    <3>2. entries' = entries \/ w # d
      BY <1>a, <2>1
    <3> QED BY <1>2, <3>1, <3>2
  <2> QED BY <2>1 DEF EmptyUntabled
<1>4. d \in Words /\ f \in Words /\ Suit(memory[d], entries[f]) => Right(d)'
  <2>1. SUFFICES ASSUME d \in Words, f \in Words, Suit(memory[d], entries[f]) PROVE Right(d)'
    OBVIOUS
  <2>2. CASE skipped
    <3>1. entries[f] = NullBounds
      BY <2>1, <2>2 DEF Inductive, EmptyUntabled
    <3>2. memory[d] = Loose
      BY <1>e, <2>1, <3>1, Suiting
    <3>3. memory'[d] = Loose /\ entries'[d] \in Bounds
      BY <1>2, <1>a, <2>1, <3>2
    <3> QED BY <3>3, Suiting DEF Right
  <2>3. CASE ~skipped
    <3>1. entries'[d] = entries[f]
      BY <1>a, <1>e, <2>1, <2>3 DEF Tracked, Source
    <3> QED BY <1>a, <2>1, <3>1 DEF Right
  <2> QED BY <2>2, <2>3
<1> DEFINE rest == Remaining(work) \ {work.next}
<1>5. ASSUME NEW w \in Words
      PROVE  \/ memory'[w] = Loose
             \/ Right(w)' /\ \A k \in rest : w # Word(work.dest) + k
             \/ \E k \in rest : /\ w = Word(work.dest) + k
                                /\ Word(work.from) + k \in Words \ Target(work.dest, work.size)
                                /\ Suit(memory'[w], entries'[Word(work.from) + k])
  <2>1. CASE memory[w] = Loose
    BY <2>1, <1>a
  <2>2. CASE CopyDone(w, work)
    <3>1. Right(w) /\ \A k \in Remaining(work) : w # Word(work.dest) + k
      BY <2>2 DEF CopyDone
    <3>2. w # d
      BY <3>1, <1>b, <1>n
    <3>3. Right(w)'
      BY <1>2, <1>a, <3>1, <3>2 DEF Right
    <3> QED BY <3>1, <3>3
  <2>3. CASE AwaitsCopy(w, work)
    <3>1. PICK k \in Remaining(work) : /\ w = Word(work.dest) + k
                                       /\ Word(work.from) + k \in Words \ Target(work.dest, work.size)
                                       /\ Suit(memory[w], entries[Word(work.from) + k])
      BY <2>3 DEF AwaitsCopy
    <3>2. CASE k = work.next
      <4>1. w = d /\ f \in Words /\ Suit(memory[d], entries[f])
        BY <3>1, <3>2, <1>n
      <4>2. Right(w)'
        BY <1>4, <4>1
      <4>3. \A j \in rest : j \in Nat /\ j # work.next
        BY <1>0, <1>b, InTarget
      <4>4. \A j \in rest : w # Word(work.dest) + j
        <5>1. PICK q \in Nat : q = Word(work.dest)
          BY <1>t, Halved
        <5> HIDE DEF rest
        <5> QED BY <1>t, <3>1, <3>2, <4>3, <5>1
      <4> QED BY <4>2, <4>4
    <3>3. CASE k # work.next
      <4>1. Word(work.from) + k \in Words /\ Word(work.from) + k # d
        BY <1>d, <3>1
      <4>2. entries'[Word(work.from) + k] = entries[Word(work.from) + k]
        BY <1>2, <4>1
      <4>3. k \in rest /\ memory'[w] = memory[w]
        BY <1>a, <3>1, <3>3
      <4> HIDE DEF rest
      <4> QED BY <3>1, <4>2, <4>3
    <3> QED BY <3>2, <3>3
  <2> QED BY <2>1, <2>2, <2>3, <1>0 DEF Inductive, CopyInv
<1>6. ASSUME NEW w \in Words, entries'[w] # entries[w]
      PROVE  \E u \in Range(work.dest, work.size) : Word(u) = w
  <2>1. w = d
    BY <1>2, <1>6
  <2>2. PICK q \in Nat : q = Word(work.dest) /\ (work.dest = 2 * q \/ work.dest = 2 * q + 1)
    BY <1>t, Halved
  <2>3. work.dest + 2 * work.next \in Range(work.dest, work.size)
    BY <1>t, <1>d DEF Range
  <2>4. Word(2 * w) = w /\ Word(2 * w + 1) = w
    BY <1>n, <2>1, Halved
  <2>5. work.dest + 2 * work.next = 2 * w \/ work.dest + 2 * work.next = 2 * w + 1
    BY <1>t, <1>n, <2>1, <2>2
  <2> QED BY <2>3, <2>4, <2>5
<1>7. CASE work.left = 0
  <2>1. work' = Idle /\ rest = {}
    BY <1>a, <1>b, <1>t, <1>7 DEF CopyBounds, Remaining
  <2>2. ASSUME NEW w \in Words PROVE Right(w)'
    <3>1. entries'[w] \in Bounds
      BY <1>2
    <3>2. memory'[w] = Loose \/ Right(w)'
      BY <1>5, <2>1
    <3> QED BY <3>1, <3>2, Suiting DEF Right
  <2> QED BY <1>1, <1>2, <1>3, <1>6, <2>1, <2>2, WorkKinds DEF WorkType, CopyInv, ExchangeInv, AllRight
<1>8. CASE work.left # 0
  <2>1. work' = [work EXCEPT !.next = @ + work.step, !.left = @ - 1]
    BY <1>a, <1>8
  <2>2. work.next + work.step \in Nat /\ work.left - 1 \in Nat
    BY <1>b, <1>t, <1>8 DEF CopyBounds
  <2>3. work' \in Copies
    BY <1>0, <2>1, <2>2 DEF Copies
  <2>4. /\ work'.dest = work.dest /\ work'.from = work.from /\ work'.size = work.size
        /\ work'.slow = work.slow /\ work'.step = work.step
        /\ work'.next = work.next + work.step /\ work'.left = work.left - 1
    BY <1>0, <2>1 DEF Copies
  <2>5. CopyBounds(work')
    <3>1. EntryCount(work.size, work.slow) \in Nat
      BY <1>t, Counted
    <3> QED BY <1>b, <1>t, <1>8, <2>4, <3>1 DEF CopyBounds
  <2>6. Remaining(work') = rest
    <3>1. CASE work.step = 1
      BY <1>b, <1>t, <1>8, <2>4, <3>1 DEF CopyBounds, Remaining
    <3>2. CASE work.step = -1
      BY <1>b, <1>t, <1>8, <2>4, <3>2 DEF CopyBounds, Remaining
    <3> QED BY <1>t, <3>1, <3>2
  <2> HIDE DEF rest
  <2>7. ASSUME NEW w \in Words
        PROVE  (memory[w] = Loose \/ CopyDone(w, work) \/ AwaitsCopy(w, work))'
    <3>1. CASE memory'[w] = Loose
      BY <3>1
    <3>2. CASE Right(w)' /\ \A k \in rest : w # Word(work.dest) + k
      BY <2>4, <2>6, <3>2 DEF CopyDone
    <3>3. CASE \E k \in rest : /\ w = Word(work.dest) + k
                               /\ Word(work.from) + k \in Words \ Target(work.dest, work.size)
                               /\ Suit(memory'[w], entries'[Word(work.from) + k])
      BY <2>4, <2>6, <3>3 DEF AwaitsCopy
    <3> QED BY <1>5, <3>1, <3>2, <3>3
  <2>8. CopyInv'
    BY <2>5, <2>7 DEF CopyInv
  <2>9. /\ work'.doing = "copy" /\ work' # Idle /\ work' # Starting
        /\ work' \notin Exchanges
    BY <2>3, WorkKinds
  <2> QED BY <1>1, <1>2, <1>3, <1>6, <2>3, <2>8, <2>9 DEF WorkType, ExchangeInv, AllRight
<1> QED BY <1>7, <1>8

-----------------------------------------------------------------------------
(* Exchanges                                                               *)

(* The words at even offsets of the two elements, of an even size: they    *)
(* are distinct, and each has its counterpart in the other element.        *)
LEMMA Counterparts ==
  ASSUME NEW a \in Nat, NEW size \in Nat \ {0}, size % 2 = 0,
         NEW m \in 0 .. size - 1, NEW n \in 0 .. size - 1, m % 2 = 0, n % 2 = 0
  PROVE  /\ Word(a + m) # Word(a + size + n)
         /\ m # n => Word(a + m) # Word(a + n) /\ Word(a + size + m) # Word(a + size + n)
<1>1. PICK h \in Nat, i \in Nat, j \in Nat : size = 2 * h /\ m = 2 * i /\ n = 2 * j
  <2>1. size \in Nat /\ m \in Nat /\ n \in Nat
    OBVIOUS
  <2>2. /\ Word(size) \in Nat /\ Word(m) \in Nat /\ Word(n) \in Nat
        /\ size = 2 * Word(size) /\ m = 2 * Word(m) /\ n = 2 * Word(n)
    BY <2>1, Halved
  <2> QED BY <2>2
<1>2. PICK q \in Nat : q = Word(a) /\ (a = 2 * q \/ a = 2 * q + 1)
  BY Halved
<1>3. /\ Word(2 * (q + i)) = q + i /\ Word(2 * (q + i) + 1) = q + i
      /\ Word(2 * (q + j)) = q + j /\ Word(2 * (q + j) + 1) = q + j
      /\ Word(2 * (q + h + i)) = q + h + i /\ Word(2 * (q + h + i) + 1) = q + h + i
      /\ Word(2 * (q + h + j)) = q + h + j /\ Word(2 * (q + h + j) + 1) = q + h + j
  <2>1. q + i \in Nat /\ q + j \in Nat /\ q + h + i \in Nat /\ q + h + j \in Nat
    OBVIOUS
  <2> QED BY <2>1, Halved
<1>4. /\ a + m = 2 * (q + i) \/ a + m = 2 * (q + i) + 1
      /\ a + n = 2 * (q + j) \/ a + n = 2 * (q + j) + 1
      /\ a + size + m = 2 * (q + h + i) \/ a + size + m = 2 * (q + h + i) + 1
      /\ a + size + n = 2 * (q + h + j) \/ a + size + n = 2 * (q + h + j) + 1
  BY <1>1, <1>2
<1>5. /\ Word(a + m) = q + i /\ Word(a + n) = q + j
      /\ Word(a + size + m) = q + h + i /\ Word(a + size + n) = q + h + j
  BY <1>3, <1>4
<1>6. i < h /\ j < h /\ (m # n => i # j)
  BY <1>1
<1> QED BY <1>5, <1>6

(* The bytes of two elements are exchanged: the words inside them have one *)
(* another's pointers, those across a boundary have none.                  *)
LEMMA ElementsExchanged ==
  ASSUME TypeOK, \A w \in Words : Right(w),
         NEW a \in Halves, NEW size \in ElementSizes, ExchangeElements(a, size)
  PROVE  /\ memory' \in [Words -> Pointers]
         /\ work' \in Exchanges /\ ExchangeInv'
<1>0. /\ a \in Nat /\ size \in Nat \ {0} /\ Words \subseteq Nat
      /\ Range(a, 2 * size) \subseteq Halves /\ UNCHANGED entries
  BY UsedHalves, MetadataAssumption DEF ExchangeElements
<1> DEFINE b == a + size
           A == Range(a, size)
           B == Range(b, size)
           origin(u) == IF u \in A THEN u + size ELSE IF u \in B THEN u - size ELSE u
<1>o. \A w \in Words :
        memory'[w] = IF /\ origin(2 * w) % 2 = 0 /\ origin(2 * w + 1) = origin(2 * w) + 1
                        /\ Word(origin(2 * w)) \in Words
                     THEN memory[Word(origin(2 * w))] ELSE Loose
  BY DEF ExchangeElements, Moved
<1>t. memory' \in [Words -> Pointers]
  <2>1. \A w \in Words : memory'[w] \in Pointers
    BY <1>o, Suiting DEF TypeOK
  <2>2. memory' = [w \in Words |-> memory'[w]]
    BY DEF ExchangeElements, Moved
  <2> QED BY <2>1, <2>2
<1>w. work' = [doing |-> "exchange", a |-> a, b |-> b, size |-> size, next |-> 0]
  BY DEF ExchangeElements
<1>x. work' \in Exchanges
  BY <1>0, <1>w DEF Exchanges
<1>f. work'.a = a /\ work'.b = b /\ work'.size = size /\ work'.next = 0
  BY <1>w
<1>p. Pending(work') = {n \in 0 .. size - 1 : n % 2 = 0}
  BY <1>f DEF Pending
<1>c. ASSUME NEW w \in Words, memory'[w] # Loose
      PROVE  ExchangeDone(w, work)' \/ (size % 2 = 0 /\ AwaitsExchange(w, work)')
  <2>0. w \in Nat /\ Word(2 * w) = w /\ Word(2 * w + 1) = w
    BY <1>0, Halved
  <2>1. /\ origin(2 * w) % 2 = 0 /\ origin(2 * w + 1) = origin(2 * w) + 1
        /\ memory'[w] = memory[Word(origin(2 * w))] /\ Word(origin(2 * w)) \in Words
    BY <1>c, <1>o
  <2>2. CASE 2 * w \in A
    <3>1. origin(2 * w) = 2 * w + size /\ 2 * w + 1 \in A
      BY <1>0, <2>0, <2>1, <2>2 DEF Range
    <3>2. size % 2 = 0
      BY <1>0, <2>0, <2>1, <3>1
    <3>3. PICK h \in Nat : size = 2 * h
      BY <1>0, <3>2, Halved
    <3>4. PICK n \in Pending(work') : a + n = 2 * w \/ a + n = 2 * w + 1
      <4>1. a <= 2 * w /\ 2 * w + 1 <= a + size - 1
        BY <1>0, <2>0, <2>2, <3>1 DEF Range
      <4>2. CASE a % 2 = 0
        <5>1. PICK n : n = 2 * w - a
          OBVIOUS
        <5>2. n \in 0 .. size - 1 /\ n % 2 = 0 /\ a + n = 2 * w
          BY <1>0, <2>0, <4>1, <4>2, <5>1
        <5> QED BY <1>p, <5>2
      <4>3. CASE a % 2 = 1
        <5>1. PICK n : n = 2 * w + 1 - a
          OBVIOUS
        <5>2. n \in 0 .. size - 1 /\ n % 2 = 0 /\ a + n = 2 * w + 1
          BY <1>0, <2>0, <4>1, <4>3, <5>1
        <5> QED BY <1>p, <5>2
      <4> QED BY <1>0, <4>2, <4>3, Halved
    <3>5. n \in Nat
      BY <1>p
    <3>6. b + n = 2 * (w + h) \/ b + n = 2 * (w + h) + 1
      BY <1>0, <2>0, <3>3, <3>4, <3>5
    <3>7. w + h \in Nat /\ Word(2 * (w + h)) = w + h /\ Word(2 * (w + h) + 1) = w + h
      <4>1. w + h \in Nat
        BY <2>0
      <4> QED BY <4>1, Halved
    <3>8. Word(a + n) = w /\ Word(b + n) = w + h
      BY <2>0, <3>4, <3>6, <3>7
    <3>9. w + h \in Words /\ memory'[w] = memory[w + h]
      <4>1. PICK o : o = origin(2 * w)
        OBVIOUS
      <4>2. memory'[w] = memory[Word(o)] /\ Word(o) \in Words /\ o = 2 * (w + h)
        BY <2>0, <2>1, <3>1, <3>3, <4>1
      <4> QED BY <3>7, <4>2
    <3>10. Suit(memory'[w], entries'[Word(b + n)])
      BY <1>0, <3>8, <3>9 DEF Right
    <3> QED BY <1>f, <3>2, <3>4, <3>8, <3>10 DEF AwaitsExchange
  <2>3. CASE 2 * w \notin A /\ 2 * w \in B
    <3>1. origin(2 * w) = 2 * w - size /\ 2 * w + 1 \in B
      BY <1>0, <2>0, <2>1, <2>3 DEF Range
    <3>2. size % 2 = 0
      BY <1>0, <2>0, <2>1, <3>1
    <3>3. PICK h \in Nat : size = 2 * h
      BY <1>0, <3>2, Halved
    <3>4. PICK n \in Pending(work') : b + n = 2 * w \/ b + n = 2 * w + 1
      <4>1. b <= 2 * w /\ 2 * w + 1 <= b + size - 1
        BY <1>0, <2>0, <2>3, <3>1 DEF Range
      <4>2. CASE b % 2 = 0
        <5>1. PICK n : n = 2 * w - b
          OBVIOUS
        <5>2. n \in 0 .. size - 1 /\ n % 2 = 0 /\ b + n = 2 * w
          BY <1>0, <2>0, <4>1, <4>2, <5>1
        <5> QED BY <1>p, <5>2
      <4>3. CASE b % 2 = 1
        <5>1. PICK n : n = 2 * w + 1 - b
          OBVIOUS
        <5>2. n \in 0 .. size - 1 /\ n % 2 = 0 /\ b + n = 2 * w + 1
          BY <1>0, <2>0, <4>1, <4>3, <5>1
        <5> QED BY <1>p, <5>2
      <4> QED BY <1>0, <4>2, <4>3, Halved
    <3>5. n \in Nat
      BY <1>p
    <3>6. a + n = 2 * (w - h) \/ a + n = 2 * (w - h) + 1
      BY <1>0, <2>0, <3>3, <3>4, <3>5
    <3>7. w - h \in Nat /\ Word(2 * (w - h)) = w - h /\ Word(2 * (w - h) + 1) = w - h
      <4>1. w - h \in Nat
        BY <1>0, <2>0, <2>3, <3>3 DEF Range
      <4> QED BY <4>1, Halved
    <3>8. Word(b + n) = w /\ Word(a + n) = w - h
      BY <2>0, <3>4, <3>6, <3>7
    <3>9. w - h \in Words /\ memory'[w] = memory[w - h]
      <4>1. PICK o : o = origin(2 * w)
        OBVIOUS
      <4>2. memory'[w] = memory[Word(o)] /\ Word(o) \in Words /\ o = 2 * (w - h)
        BY <2>0, <2>1, <3>1, <3>3, <4>1
      <4> QED BY <3>7, <4>2
    <3>10. Suit(memory'[w], entries'[Word(a + n)])
      BY <1>0, <3>8, <3>9 DEF Right
    <3> QED BY <1>f, <3>2, <3>4, <3>8, <3>10 DEF AwaitsExchange
  <2>4. CASE 2 * w \notin A /\ 2 * w \notin B
    <3>1. memory'[w] = memory[w] /\ 2 * w + 1 \notin A /\ 2 * w + 1 \notin B
      BY <1>0, <2>0, <2>1, <2>4 DEF Range
    <3>2. ASSUME NEW n \in Pending(work') PROVE w # Word(a + n) /\ w # Word(b + n)
      <4>1. n \in Nat /\ a + n \in A /\ b + n \in B
        BY <1>0, <1>p DEF Range
      <4>2. \A u \in Nat : Word(u) = w => u = 2 * w \/ u = 2 * w + 1
        BY Halved
      <4>3. a + n \in Nat /\ b + n \in Nat
        BY <1>0, <4>1
      <4> QED BY <2>4, <3>1, <4>1, <4>2, <4>3
    <3>3. Right(w)'
      BY <1>0, <3>1 DEF Right
    <3> QED BY <1>f, <3>2, <3>3 DEF ExchangeDone
  <2> QED BY <2>2, <2>3, <2>4
<1>e. ExchangeInv'
  <2>1. 0 % 2 = 0 /\ 0 < size
    BY <1>0
  <2> QED BY <1>0, <1>c, <1>f, <2>1 DEF ExchangeInv
<1> QED BY <1>t, <1>x, <1>e

(* One pair of entries more changes places; the pairs that follow are      *)
(* other words.                                                            *)
LEMMA EntryExchanged ==
  ASSUME Inductive, ExchangeEntry
  PROVE  /\ tables' \subseteq Nat /\ entries' \in [Words -> Bounds]
         /\ EmptyUntabled' /\ WorkType' /\ work'.doing \in {"nothing", "exchange"}
         /\ CopyInv' /\ ExchangeInv' /\ AllRight'
         /\ \A w \in Words : entries'[w] # entries[w] =>
              \E u \in Range(work.a, 2 * work.size) : Word(u) = w
<1>0. work \in Exchanges
  <2>1. work.doing = "exchange"
    BY DEF ExchangeEntry
  <2> QED BY <2>1, WorkKinds DEF Inductive, WorkType
<1>i. /\ Range(work.a, 2 * work.size) \subseteq Halves
      /\ work.b = work.a + work.size /\ work.next % 2 = 0 /\ work.next < work.size
      /\ \A w \in Words : \/ memory[w] = Loose \/ ExchangeDone(w, work)
                          \/ work.size % 2 = 0 /\ AwaitsExchange(w, work)
  BY <1>0 DEF Inductive, ExchangeInv
<1>t. work.a \in Nat /\ work.size \in Nat \ {0} /\ work.next \in Nat
  BY <1>0 DEF Exchanges
<1>r. work.a + work.next \in Range(work.a, 2 * work.size) /\ work.b + work.next \in Range(work.a, 2 * work.size)
  BY <1>i, <1>t DEF Range
<1>n. PICK v \in Words, u \in Words : v = Word(work.a + work.next) /\ u = Word(work.b + work.next)
  BY <1>i, <1>r, UsedHalves
<1>e. entries \in [Words -> Bounds] /\ memory \in [Words -> Pointers] /\ tables \subseteq Nat
  BY DEF Inductive, TypeOK
<1>a. /\ entries' = [entries EXCEPT ![v] = entries[u], ![u] = entries[v]]
      /\ tables' = tables \cup {PrimaryIndex(2 * v), PrimaryIndex(2 * u)}
      /\ work' = IF work.next + 2 >= work.size THEN Idle ELSE [work EXCEPT !.next = @ + 2]
      /\ UNCHANGED <<memory, hand>>
  <2>1. Load(v) = entries[v] /\ Load(u) = entries[u]
    BY Loaded DEF Inductive
  <2> QED BY <1>n, <2>1 DEF ExchangeEntry, Exchanged
<1>1. tables' \subseteq Nat /\ tables \subseteq tables'
  <2>1. PrimaryIndex(2 * v) \in Nat /\ PrimaryIndex(2 * u) \in Nat
    BY UsedHalves, TablesAscend
  <2> QED BY <1>a, <1>e, <2>1
<1>2. /\ entries' \in [Words -> Bounds] /\ \A w \in Words : w # v /\ w # u => entries'[w] = entries[w]
      /\ entries'[u] = entries[v] /\ entries'[v] = entries[u]
  BY <1>a, <1>e
<1>3. EmptyUntabled'
  <2>1. ASSUME NEW w \in Words, PrimaryIndex(2 * w) \notin tables'
        PROVE  entries'[w] = NullBounds
    <3>1. entries[w] = NullBounds /\ w # v /\ w # u
      BY <1>1, <1>a, <2>1 DEF Inductive, EmptyUntabled
    <3> QED BY <1>2, <3>1
  <2> QED BY <2>1 DEF EmptyUntabled
<1>4. ASSUME NEW w \in Words, entries'[w] # entries[w]
      PROVE  \E x \in Range(work.a, 2 * work.size) : Word(x) = w
  BY <1>2, <1>4, <1>n, <1>r
<1> DEFINE rest == Pending(work) \ {work.next}
<1>p. /\ \A n \in Pending(work) : n \in 0 .. work.size - 1 /\ n % 2 = 0 /\ n >= work.next
      /\ work.next \in Pending(work)
  BY <1>i, <1>t DEF Pending
<1>c. ASSUME NEW m \in Pending(work), NEW n \in Pending(work), work.size % 2 = 0
      PROVE  /\ Word(work.a + m) # Word(work.b + n)
             /\ m # n => Word(work.a + m) # Word(work.a + n) /\ Word(work.b + m) # Word(work.b + n)
  BY <1>c, <1>i, <1>p, <1>t, Counterparts
<1>w. \A n \in Pending(work) : Word(work.a + n) \in Words /\ Word(work.b + n) \in Words
  <2>1. SUFFICES ASSUME NEW n \in Pending(work)
                 PROVE  Word(work.a + n) \in Words /\ Word(work.b + n) \in Words
    OBVIOUS
  <2>2. work.a + n \in Range(work.a, 2 * work.size) /\ work.b + n \in Range(work.a, 2 * work.size)
    BY <1>i, <1>p, <1>t DEF Range
  <2> QED BY <1>i, <2>2, UsedHalves
<1>5. ASSUME NEW w \in Words
      PROVE  \/ memory'[w] = Loose
             \/ Right(w)' /\ \A n \in rest : w # Word(work.a + n) /\ w # Word(work.b + n)
             \/ /\ work.size % 2 = 0
                /\ \E n \in rest :
                     \/ w = Word(work.a + n) /\ Suit(memory'[w], entries'[Word(work.b + n)])
                     \/ w = Word(work.b + n) /\ Suit(memory'[w], entries'[Word(work.a + n)])
  <2>1. CASE memory[w] = Loose
    BY <2>1, <1>a
  <2>2. CASE ExchangeDone(w, work)
    <3>1. Right(w) /\ \A n \in Pending(work) : w # Word(work.a + n) /\ w # Word(work.b + n)
      BY <2>2 DEF ExchangeDone
    <3>2. w # v /\ w # u
      BY <3>1, <1>n, <1>p
    <3>3. Right(w)'
      BY <1>2, <1>a, <3>1, <3>2 DEF Right
    <3> QED BY <3>1, <3>3
  <2>3. CASE work.size % 2 = 0 /\ AwaitsExchange(w, work)
    <3>1. PICK n \in Pending(work) :
            \/ w = Word(work.a + n) /\ Suit(memory[w], entries[Word(work.b + n)])
            \/ w = Word(work.b + n) /\ Suit(memory[w], entries[Word(work.a + n)])
      BY <2>3 DEF AwaitsExchange
    <3>2. CASE n = work.next
      <4>1. \/ w = v /\ Suit(memory[w], entries[u])
            \/ w = u /\ Suit(memory[w], entries[v])
        BY <1>n, <3>1, <3>2
      <4>2. Right(w)'
        BY <1>2, <1>a, <4>1 DEF Right
      <4>3. \A j \in rest : w # Word(work.a + j) /\ w # Word(work.b + j)
        <5>1. SUFFICES ASSUME NEW j \in Pending(work), j # work.next
                       PROVE  w # Word(work.a + j) /\ w # Word(work.b + j)
          OBVIOUS
        <5>2. Word(work.a + j) # u /\ v # Word(work.b + j) /\ Word(work.a + j) # v /\ Word(work.b + j) # u
          BY <1>c, <1>n, <1>p, <2>3, <5>1
        <5> QED BY <4>1, <5>2
      <4> QED BY <4>2, <4>3
    <3>3. CASE n # work.next
      <4>1. /\ Word(work.a + n) # v /\ Word(work.b + n) # u
            /\ Word(work.a + n) # u /\ Word(work.b + n) # v
        BY <1>c, <1>n, <1>p, <2>3, <3>3
      <4>2. /\ entries'[Word(work.a + n)] = entries[Word(work.a + n)]
            /\ entries'[Word(work.b + n)] = entries[Word(work.b + n)]
        BY <1>2, <1>w, <4>1
      <4>3. n \in rest /\ memory'[w] = memory[w]
        BY <1>a, <3>3
      <4> HIDE DEF rest
      <4> QED BY <2>3, <3>1, <4>2, <4>3
    <3> QED BY <3>2, <3>3
  <2> QED BY <1>i, <2>1, <2>2, <2>3
<1>6. CASE work.next + 2 >= work.size
  <2>1. work' = Idle /\ rest = {}
    BY <1>a, <1>i, <1>t, <1>6 DEF Pending
  <2>2. ASSUME NEW w \in Words PROVE Right(w)'
    <3>1. entries'[w] \in Bounds
      BY <1>2
    <3>2. memory'[w] = Loose \/ Right(w)'
      BY <1>5, <2>1
    <3> QED BY <3>1, <3>2, Suiting DEF Right
  <2> QED BY <1>1, <1>2, <1>3, <1>4, <2>1, <2>2, WorkKinds
        DEF WorkType, CopyInv, ExchangeInv, AllRight
<1>7. CASE ~(work.next + 2 >= work.size)
  <2>1. work' = [work EXCEPT !.next = @ + 2]
    BY <1>a, <1>7
  <2>2. work' \in Exchanges
    BY <1>0, <1>t, <2>1 DEF Exchanges
  <2>3. work'.a = work.a /\ work'.b = work.b /\ work'.size = work.size /\ work'.next = work.next + 2
    BY <1>0, <2>1 DEF Exchanges
  <2>4. Pending(work') = rest
    BY <1>i, <1>t, <2>3 DEF Pending
  <2>5. work'.next % 2 = 0 /\ work'.next < work'.size
    BY <1>i, <1>t, <1>7, <2>3
  <2> HIDE DEF rest
  <2>6. ASSUME NEW w \in Words
        PROVE  (\/ memory[w] = Loose \/ ExchangeDone(w, work)
                \/ work.size % 2 = 0 /\ AwaitsExchange(w, work))'
    <3>1. CASE memory'[w] = Loose
      BY <3>1
    <3>2. CASE Right(w)' /\ \A n \in rest : w # Word(work.a + n) /\ w # Word(work.b + n)
      BY <2>3, <2>4, <3>2 DEF ExchangeDone
    <3>3. CASE /\ work.size % 2 = 0
               /\ \E n \in rest :
                    \/ w = Word(work.a + n) /\ Suit(memory'[w], entries'[Word(work.b + n)])
                    \/ w = Word(work.b + n) /\ Suit(memory'[w], entries'[Word(work.a + n)])
      BY <2>3, <2>4, <3>3 DEF AwaitsExchange
    <3> QED BY <1>5, <3>1, <3>2, <3>3
  <2>7. ExchangeInv'
    BY <1>i, <2>3, <2>5, <2>6 DEF ExchangeInv
  <2>8. work'.doing = "exchange" /\ work' # Idle /\ work' # Starting /\ work' \notin Copies
    <3>1. \A c \in Copies : c.doing # "exchange"
      BY WorkKinds
    <3> QED BY <2>2, <3>1, WorkKinds
  <2> QED BY <1>1, <1>2, <1>3, <1>4, <2>2, <2>7, <2>8 DEF WorkType, CopyInv, AllRight
<1> QED BY <1>6, <1>7

-----------------------------------------------------------------------------
(* The inductive invariant                                                 *)

LEMMA InitInductive == Init => Inductive
<1> SUFFICES ASSUME Init PROVE Inductive
  OBVIOUS
<1>1. /\ memory = [w \in Words |-> IF w = Environment THEN Library ELSE Loose]
      /\ tables = {} /\ entries = [w \in Words |-> NullBounds]
      /\ hand = [ptr |-> Loose, bounds |-> NullBounds] /\ work = Starting
  BY DEF Init, Starting
<1>2. TypeOK /\ ResultsBounded
  BY <1>1, Suiting DEF TypeOK, ResultsBounded, Starting
<1>3. EmptyUntabled /\ \A w \in Words \ {Environment} : Right(w)
  BY <1>1, Suiting DEF EmptyUntabled, Right
<1> QED BY <1>1, <1>2, <1>3, WorkKinds DEF Inductive, WorkType, AllRight, CopyInv, ExchangeInv

LEMMA NextInductive ==
  ASSUME Inductive, [Next]_vars
  PROVE  Inductive'
<1>1. CASE UNCHANGED vars
  <2>1. UNCHANGED <<memory, tables, entries, hand, work>>
    BY <1>1 DEF vars
  <2>2. TypeOK' /\ ResultsBounded' /\ EmptyUntabled' /\ WorkType'
    BY <2>1 DEF Inductive, TypeOK, ResultsBounded, EmptyUntabled, WorkType
  <2>3. AllRight'
    BY <2>1 DEF Inductive, AllRight, Right
  <2>4. CopyInv'
    BY <2>1 DEF Inductive, CopyInv, CopyDone, AwaitsCopy, Right
  <2>5. ExchangeInv'
    BY <2>1 DEF Inductive, ExchangeInv, ExchangeDone, AwaitsExchange, Right
  <2> QED BY <2>2, <2>3, <2>4, <2>5 DEF Inductive
<1>2. CASE Main
  <2>1. /\ work.doing = "main" /\ work' = Idle /\ UNCHANGED hand
        /\ memory' = [memory EXCEPT ![Environment] = Library] /\ Store(Environment, Library)
    BY <1>2, MetadataAssumption DEF Main, UpdateEnvironment
  <2>2. work = Starting
    BY <2>1, WorkKinds DEF Inductive, WorkType
  <2>3. Environment \in Words
    BY MetadataAssumption
  <2>4. /\ tables' \subseteq Nat /\ EmptyUntabled' /\ entries' \in [Words -> Bounds]
        /\ entries' = [entries EXCEPT ![Environment] = Library]
    BY <2>1, <2>3, StoreKeeps, Suiting DEF Inductive
  <2>5. \A w \in Words : Right(w)'
    BY <2>1, <2>2, <2>3, <2>4, StoreRight, Suiting DEF Inductive, AllRight
  <2>6. TypeOK' /\ ResultsBounded'
    BY <2>1, <2>3, <2>4, Suiting, WorkKinds DEF Inductive, TypeOK, ResultsBounded
  <2> QED BY <2>1, <2>4, <2>5, <2>6, WorkKinds
        DEF Inductive, WorkType, AllRight, CopyInv, ExchangeInv
<1>3. CASE work = Idle /\ Program /\ UNCHANGED work
  <2>1. Sound
    BY <1>3, ProgramSound DEF Inductive, AllRight
  <2> QED BY <1>3, <2>1, SoundKeeps
<1>4. CASE work = Idle /\ Copying
  <2>0. TypeOK /\ EmptyUntabled /\ ResultsBounded /\ \A w \in Words : Right(w)
    BY <1>4 DEF Inductive, AllRight
  <2>c. ASSUME NEW dest \in Nat, NEW from \in Nat, NEW size \in Nat \ {0},
               CopyMetadata(dest, from, size), Copied(memory', dest, from, size),
               memory' \in [Words -> Pointers], UNCHANGED entries,
               Yield(Own, Own) \/ Yield(Loose, Inexact)
        PROVE  Inductive'
    <3>1. /\ tables' \subseteq Nat /\ EmptyUntabled' /\ WorkType'
          /\ work'.doing \in {"nothing", "copy"}
          /\ CopyInv' /\ ExchangeInv' /\ AllRight'
      BY <2>0, <2>c, CopyBegins
    <3>2. TypeOK' /\ ResultsBounded'
      BY <2>0, <2>c, <3>1, Suiting DEF TypeOK, ResultsBounded, Yield
    <3> QED BY <3>1, <3>2 DEF Inductive
  <2>1. ASSUME NEW dest \in Halves, NEW from \in Halves, NEW size \in CopySizes,
               MemMove(dest, from, size)
        PROVE  Inductive'
    <3>1. memory' \in [Words -> Pointers] /\ Copied(memory', dest, from, size)
      BY <2>0, <2>1, MoveCopied
    <3>2. dest \in Nat /\ from \in Nat /\ size \in Nat \ {0}
      BY UsedHalves, MetadataAssumption
    <3>3. CopyMetadata(dest, from, size) /\ Yield(Own, Own) /\ UNCHANGED entries
      BY <2>1 DEF MemMove
    <3> QED BY <2>c, <3>1, <3>2, <3>3
  <2>2. ASSUME NEW from \in Halves, NEW old \in CopySizes, NEW size \in CopySizes,
               Realloc(from, old, size)
        PROVE  Inductive'
    <3>1. from \in Nat /\ size \in Nat \ {0}
      BY UsedHalves, MetadataAssumption
    <3>2. CASE Keep /\ UNCHANGED work /\ Yield(Own, Own)
      <4>1. Sound
        BY <3>2, TypedResults, YieldSound
      <4> QED BY <1>4, <3>2, <4>1, SoundKeeps
    <3>3. CASE /\ Yield(Own, Own) \/ Yield(Loose, Inexact)
               /\ memory' \in [Words -> Pointers] /\ UNCHANGED entries
               /\ \E dest \in Nat : CopyMetadata(dest, from, size) /\ Copied(memory', dest, from, size)
      BY <2>c, <3>1, <3>3
    <3> QED BY <2>0, <2>2, <3>2, <3>3, ReallocCopied
  <2>3. ASSUME NEW a \in Halves, NEW size \in ElementSizes, ExchangeElements(a, size)
        PROVE  Inductive'
    <3>1. memory' \in [Words -> Pointers] /\ work' \in Exchanges /\ ExchangeInv'
      BY <2>0, <2>3, ElementsExchanged
    <3>2. UNCHANGED <<tables, entries>> /\ Yield(Own, Own)
      BY <2>3 DEF ExchangeElements
    <3>3. work'.doing = "exchange" /\ work' # Idle /\ work' # Starting /\ work' \notin Copies
      <4>1. \A c \in Copies : c.doing # "exchange"
        BY WorkKinds
      <4> QED BY <3>1, <4>1, WorkKinds
    <3>4. TypeOK' /\ ResultsBounded'
      BY <2>0, <3>1, <3>2, <3>3, Suiting DEF TypeOK, ResultsBounded, Yield
    <3>5. EmptyUntabled'
      BY <2>0, <3>2 DEF EmptyUntabled
    <3> QED BY <3>1, <3>3, <3>4, <3>5 DEF Inductive, WorkType, CopyInv, AllRight
  <2> QED BY <1>4, <2>1, <2>2, <2>3 DEF Copying
<1>5. CASE CopyEntry
  <2>1. /\ tables' \subseteq Nat /\ entries' \in [Words -> Bounds]
        /\ EmptyUntabled' /\ WorkType' /\ work'.doing \in {"nothing", "copy"}
        /\ CopyInv' /\ ExchangeInv' /\ AllRight'
    BY <1>5, EntryCopied
  <2>2. UNCHANGED <<memory, hand>>
    BY <1>5 DEF CopyEntry
  <2>3. TypeOK' /\ ResultsBounded'
    BY <2>1, <2>2 DEF Inductive, TypeOK, ResultsBounded
  <2> QED BY <2>1, <2>3 DEF Inductive
<1>6. CASE ExchangeEntry
  <2>1. /\ tables' \subseteq Nat /\ entries' \in [Words -> Bounds]
        /\ EmptyUntabled' /\ WorkType' /\ work'.doing \in {"nothing", "exchange"}
        /\ CopyInv' /\ ExchangeInv' /\ AllRight'
    BY <1>6, EntryExchanged
  <2>2. UNCHANGED <<memory, hand>>
    BY <1>6 DEF ExchangeEntry
  <2>3. TypeOK' /\ ResultsBounded'
    BY <2>1, <2>2 DEF Inductive, TypeOK, ResultsBounded
  <2> QED BY <2>1, <2>3 DEF Inductive
<1> QED BY <1>1, <1>2, <1>3, <1>4, <1>5, <1>6 DEF Next, Loop

LEMMA AlwaysInductive == Spec => []Inductive
  BY InitInductive, NextInductive, PTL DEF Spec

(* The kinds of pointers and bounds, and the phases of a copy.             *)
THEOREM TypeCorrect == Spec => []TypeOK
<1>1. Inductive => TypeOK
  BY DEF Inductive
<1> QED BY <1>1, AlwaysInductive, PTL

(* Every pointer that instrumented code has in a register has the bounds   *)
(* of its object, whichever wrapper returned it.                           *)
THEOREM ResultsHaveBounds == Spec => []ResultsBounded
<1>1. Inductive => ResultsBounded
  BY DEF Inductive
<1> QED BY <1>1, AlwaysInductive, PTL

(* Every word that holds a pointer is loaded with the bounds of its        *)
(* object, whatever was stored, copied, reallocated and sorted before: the *)
(* loops over entries keep, of each word, a right entry or its source.     *)
THEOREM MetadataFollowsPointers == Spec => []MetadataFollows
<1>1. Inductive => MetadataFollows
  BY Loaded DEF Inductive, AllRight, Right, MetadataFollows
<1> QED BY <1>1, AlwaysInductive, PTL

(* The metadata of a va_list is its proxy's, also after a copy or a sort:  *)
(* the assertion of __softboundcets_proxy_metadata_load holds.             *)
THEOREM ProxiesAreFound == Spec => []ProxiesFound
<1>1. Inductive => ProxiesFound
  BY Loaded DEF Inductive, AllRight, Right, ProxiesFound, Suit
<1> QED BY <1>1, AlwaysInductive, PTL

(* Copies and exchanges of entries write none of a word outside the bytes  *)
(* that were copied, for every size, alignment and border of tables.       *)
THEOREM NeighboursAreKept == Spec => NeighboursKept
<1>1. ASSUME Inductive, Loop, NEW w \in Words, entries'[w] # entries[w]
      PROVE  \E u \in Footprint : Word(u) = w
  <2>1. CASE CopyEntry
    <3>1. work.doing = "copy"
      BY <2>1 DEF CopyEntry
    <3>2. Footprint = Range(work.dest, work.size)
      BY <3>1 DEF Footprint
    <3> QED BY <1>1, <2>1, <3>2, EntryCopied
  <2>2. CASE ExchangeEntry
    <3>1. work.doing = "exchange"
      BY <2>2 DEF ExchangeEntry
    <3>2. Footprint = Range(work.a, 2 * work.size)
      BY <3>1 DEF Footprint
    <3> QED BY <1>1, <2>2, <3>2, EntryExchanged
  <2> QED BY <1>1, <2>1, <2>2 DEF Loop
<1>2. Inductive /\ [Next]_vars =>
        [Loop => \A w \in Words : entries'[w] # entries[w] => \E u \in Footprint : Word(u) = w]_vars
  BY <1>1
<1> QED BY <1>2, AlwaysInductive, PTL DEF Spec, NeighboursKept
=============================================================================
