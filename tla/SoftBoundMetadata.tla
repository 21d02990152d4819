-------------------------- MODULE SoftBoundMetadata --------------------------
(***************************************************************************)
(* In-memory metadata of SoftBound in its spatial configuration: the       *)
(* two-level trie of softbound/src/softboundcets_common.c, the copies that *)
(* memcpy and its kin make of it, and the library wrappers of              *)
(* softboundcets_wrappers.c that write pointers to memory or return them.  *)
(*                                                                         *)
(* A word is eight bytes; addresses count half words, so that an object    *)
(* can be misaligned.  A pointer is the object it points into, and its     *)
(* metadata is right when it has that object's bounds.  What the memory    *)
(* really holds and what the trie says of it are kept side by side.        *)
(***************************************************************************)
EXTENDS Integers

CONSTANTS
  Words,        \* words of memory that the program uses; none at address 0
  TableWords,   \* words that a secondary table covers (2^22)
  Environment,  \* the word of the environment array and argv
  CopySizes,    \* sizes of copies and blocks, in half words
  RefusedSizes, \* sizes that the C library refuses to reallocate a block to
  ElementSizes, \* sizes of the elements that qsort sorts
  Own,          \* an object of instrumented code
  Library,      \* an object that the library hands out
  VaList,       \* a va_list, which has a proxy for metadata
  Loose,        \* no pointer, or one whose metadata the code does not keep up
  Inexact,      \* the bounds of a library object, too wide or too narrow
  NullBounds    \* the bounds of no object

Pointers == {Own, Library, VaList, Loose}
Bounds == {Own, Library, VaList, Inexact, NullBounds}

Range(addr, size) == addr .. addr + size - 1
Word(addr) == addr \div 2
Halves == {2 * w : w \in Words} \cup {2 * w + 1 : w \in Words}

(* The index of an address in the primary table: ptr >> 25 *)
PrimaryIndex(addr) == Word(addr) \div TableWords

(* A refused size is less than the lowest address in use: the copy to      *)
(* address 0 after the failure would overwrite entries of used words.      *)
ASSUME MetadataAssumption ==
  /\ Words \subseteq Nat \ {0} /\ Environment \in Words
  /\ TableWords \in Nat \ {0}
  /\ CopySizes \cup ElementSizes \subseteq Nat \ {0}
  /\ RefusedSizes \subseteq CopySizes
  /\ \A size \in RefusedSizes, w \in Words : size < 2 * w
  /\ Own \notin {Library, VaList, Loose, Inexact, NullBounds}
  /\ Library \notin {VaList, Loose, Inexact, NullBounds}
  /\ VaList \notin {Loose, Inexact, NullBounds}
  /\ Loose \notin {Inexact, NullBounds} /\ Inexact # NullBounds

VARIABLES
  memory,   \* memory[w]: the pointer that is in word w, if any
  tables,   \* primary indices that have a secondary table
  entries,  \* entries[w]: the metadata kept for word w
  hand,     \* a pointer in a register of instrumented code, with its metadata
  work      \* the loop over metadata that is being executed

vars == <<memory, tables, entries, hand, work>>

Idle == [doing |-> "nothing"]

Init ==
  /\ memory = [w \in Words |-> IF w = Environment THEN Library ELSE Loose]
  /\ tables = {} /\ entries = [w \in Words |-> NullBounds]
  /\ hand = [ptr |-> Loose, bounds |-> NullBounds]
  /\ work = [doing |-> "main"]

-----------------------------------------------------------------------------
(* The trie *)

(* __softboundcets_metadata_store *)
Store(w, bounds) ==
  /\ entries' = [entries EXCEPT ![w] = bounds]
  /\ tables' = tables \cup {PrimaryIndex(2 * w)}

(* Faulty variant: without a table the bounds are left unset. *)
Load_Unset(w) == IF PrimaryIndex(2 * w) \in tables THEN entries[w] ELSE Loose

(* __softboundcets_metadata_load *)
Load(w) == IF PrimaryIndex(2 * w) \in tables THEN entries[w] ELSE NullBounds

Yield(ptr, bounds) == hand' = [ptr |-> ptr, bounds |-> bounds]

Keep == UNCHANGED <<memory, tables, entries>>

-----------------------------------------------------------------------------
(* Start-up: the entries of the environment and of argv *)

UpdateEnvironment(ptr) ==
  /\ memory' = [memory EXCEPT ![Environment] = ptr]
  /\ IF ptr = Loose THEN UNCHANGED <<tables, entries>> ELSE Store(Environment, ptr)

Main ==
  /\ work.doing = "main"
  /\ UpdateEnvironment(Library)
  /\ work' = Idle
  /\ UNCHANGED hand

-----------------------------------------------------------------------------
(* Instrumented code *)

TakeAddress == Yield(Own, Own) /\ Keep

StorePointer(w) ==
  /\ hand.ptr # VaList
  /\ memory' = [memory EXCEPT ![w] = hand.ptr]
  /\ Store(w, hand.bounds)
  /\ UNCHANGED hand

LoadPointer(w) == memory[w] # VaList /\ Yield(memory[w], Load(w)) /\ Keep

StoreInteger(w) ==
  /\ memory' = [memory EXCEPT ![w] = Loose]
  /\ UNCHANGED <<tables, entries, hand>>

(* va_start: the proxy is kept as the base of the va_list's metadata. *)
ProxyStore(w) ==
  /\ memory' = [memory EXCEPT ![w] = VaList]
  /\ Store(w, VaList)
  /\ UNCHANGED hand

ProxyLoad(w) == memory[w] = VaList /\ Yield(VaList, Load(w)) /\ Keep

-----------------------------------------------------------------------------
(* Copies.  Memory is copied at once; the entries follow one at a time.    *)

(* What memory holds once every half word u has what was in origin(u). *)
Moved(origin(_)) ==
  [w \in Words |->
     LET u == origin(2 * w)
     IN  IF u % 2 = 0 /\ origin(2 * w + 1) = u + 1 /\ Word(u) \in Words THEN memory[Word(u)] ELSE Loose]

(* Faulty variant: one entry more than there are words. *)
EntryCount_Excess(size, slow) == size \div 2 + 1

(* The loop copies the entry of a last partial word, memcpy does not. *)
EntryCount(size, slow) == IF slow THEN (size + 1) \div 2 ELSE size \div 2

CopyLoop(dest, from, size, forward, slow) ==
  LET last == EntryCount(size, slow) - 1
  IN  work' = IF last < 0 THEN Idle
              ELSE [doing |-> "copy", dest |-> dest, from |-> from, size |-> size, slow |-> slow,
                    next |-> IF forward THEN 0 ELSE last, left |-> last,
                    step |-> IF forward THEN 1 ELSE -1]

(* __softboundcets_copy_metadata, up to its loop or its memcpy.  The order *)
(* in which memcpy copies overlapping entries is undefined.                *)
CopyMetadata(dest, from, size) ==
  LET crosses == \/ PrimaryIndex(from) # PrimaryIndex(from + size)
                 \/ PrimaryIndex(dest) # PrimaryIndex(dest + size)
  IN  IF from % 2 # 0 \/ (~crosses /\ PrimaryIndex(from) \notin tables)
      THEN work' = Idle /\ UNCHANGED tables
      ELSE IF crosses
      THEN CopyLoop(dest, from, size, TRUE, TRUE) /\ UNCHANGED tables
      ELSE /\ tables' = tables \cup {PrimaryIndex(dest)}
           /\ \E forward \in BOOLEAN : CopyLoop(dest, from, size, forward, FALSE)

(* Entries of words that the program does not use are not represented. *)
Tracked(w) == w \in Words

(* Faulty variant: the entry of the next word is copied. *)
Source_Next(w) == IF w + 1 \in Words THEN w + 1 ELSE w

Source(w) == w

CopyEntry ==
  LET d == Word(work.dest) + work.next
      f == Word(work.from) + work.next
      skipped == work.slow /\ PrimaryIndex(2 * f) \notin tables
  IN  /\ work.doing = "copy"
      /\ tables' = IF skipped THEN tables ELSE tables \cup {PrimaryIndex(2 * d)}
      /\ entries' = IF skipped \/ ~Tracked(d) THEN entries
                    ELSE [entries EXCEPT ![d] = IF Tracked(f) THEN entries[Source(f)] ELSE NullBounds]
      /\ work' = IF work.left = 0 THEN Idle
                 ELSE [work EXCEPT !.next = @ + work.step, !.left = @ - 1]
      /\ UNCHANGED <<memory, hand>>

(* memcpy, mempcpy and memmove return their first argument's metadata.     *)
(* Pointers moved with a source that is not a multiple of eight are left   *)
(* without their metadata, and overlapping entries may be garbled.         *)
MemMove(dest, from, size) ==
  LET origin(u) == IF u \in Range(dest, size) THEN u - dest + from ELSE u
      moved     == Moved(origin)
      followed  == from % 2 = 0 /\ Range(dest, size) \cap Range(from, size) = {}
  IN  /\ Range(dest, size) \cup Range(from, size) \subseteq Halves
      /\ memory' = [w \in Words |->
           IF ~followed /\ 2 * w \in Range(dest, size) THEN Loose ELSE moved[w]]
      /\ CopyMetadata(dest, from, size)
      /\ Yield(Own, Own)
      /\ UNCHANGED entries

(* A block of the given old size in place, moved, or left alone: the       *)
(* metadata is copied for the new size, and also to address 0 after a      *)
(* failure.                                                                *)
Realloc(from, old, size) ==
  /\ from % 2 = 0 /\ Range(from, old) \subseteq Halves
  /\ \/ Yield(Own, Own) /\ Keep /\ UNCHANGED work
     \/ \E dest \in Halves :
          LET kept == IF old < size THEN old ELSE size
              origin(u) == IF u \in Range(dest, kept) THEN u - dest + from
                           ELSE IF u \in Range(dest, size) \cup Range(from, old) THEN -1 ELSE u
          IN  /\ dest % 2 = 0 /\ Range(dest, size) \subseteq Halves
              /\ Range(dest, size) \cap Range(from, old) = {}
              /\ memory' = Moved(origin)
              /\ Yield(Own, Own)
              /\ CopyMetadata(dest, from, size)
              /\ UNCHANGED entries
     \/ /\ size \in RefusedSizes
        /\ Yield(Loose, Inexact) /\ CopyMetadata(0, from, size) /\ UNCHANGED <<memory, entries>>

(* memset, and free: what was in the range is no pointer any more. *)
MemSet(dest, size) ==
  /\ Range(dest, size) \subseteq Halves
  /\ memory' = [w \in Words |-> IF {2 * w, 2 * w + 1} \cap Range(dest, size) = {} THEN memory[w] ELSE Loose]
  /\ UNCHANGED <<tables, entries, hand>>

(* qsort exchanges the bytes of two elements, then their entries.  The     *)
(* comparator, which runs between the exchanges, is any code.              *)
ExchangeElements(a, size) ==
  LET b == a + size
      origin(u) == IF u \in Range(a, size) THEN u + size
                   ELSE IF u \in Range(b, size) THEN u - size ELSE u
  IN  /\ Range(a, 2 * size) \subseteq Halves
      /\ memory' = Moved(origin)
      /\ work' = [doing |-> "exchange", a |-> a, b |-> b, size |-> size, next |-> 0]
      /\ Yield(Own, Own)
      /\ UNCHANGED <<tables, entries>>

(* Faulty variant: the second element gets its own metadata back. *)
Exchanged_Lost(v, w) == [entries EXCEPT ![v] = Load(w)]

(* Both entries are read before either is written. *)
Exchanged(v, w) == [entries EXCEPT ![v] = Load(w), ![w] = Load(v)]

ExchangeEntry ==
  LET v == Word(work.a + work.next)
      w == Word(work.b + work.next)
  IN  /\ work.doing = "exchange"
      /\ entries' = Exchanged(v, w)
      /\ tables' = tables \cup {PrimaryIndex(2 * v), PrimaryIndex(2 * w)}
      /\ work' = IF work.next + 2 >= work.size THEN Idle ELSE [work EXCEPT !.next = @ + 2]
      /\ UNCHANGED <<memory, hand>>

-----------------------------------------------------------------------------
(* Library wrappers by what they do with the metadata of their result.     *)
(* The argument of interest is in hand; slot 0 of the shadow stack, which  *)
(* a wrapper may leave as it is, has the metadata of any earlier call.     *)

(* Faulty variant: the result gets the bounds of another argument. *)
OfArgument_Other == Yield(hand.ptr, NullBounds) /\ Keep

(* A pointer into the argument's object *)
OfArgument == Yield(hand.ptr, hand.bounds) /\ Keep

OfArgumentOrNull == OfArgument \/ (Yield(Loose, hand.bounds) /\ Keep)
OfArgumentOrReset == OfArgument \/ (Yield(Loose, NullBounds) /\ Keep)

Given(bounds) == Yield(Library, bounds) /\ Keep
GivenOrReset(bounds) == Given(bounds) \/ (Yield(Loose, NullBounds) /\ Keep)
GivenOrStale(bounds) == Given(bounds) \/ \E stale \in Bounds : Yield(Loose, stale) /\ Keep
GivenOrNull(bounds) == Given(bounds) \/ (Yield(Loose, bounds) /\ Keep)

(* The library stores a pointer that the wrapper does not know of. *)
Unnoticed(w) ==
  /\ memory' = [memory EXCEPT ![w] = Loose]
  /\ UNCHANGED <<tables, entries, hand>>

(* ... and one whose metadata the wrapper stores. *)
Noticed(w, ptr, bounds) ==
  /\ memory' = [memory EXCEPT ![w] = ptr]
  /\ Store(w, bounds)
  /\ UNCHANGED hand

GetEnv == GivenOrReset(Library)
SetEnv == (\E ptr \in {Library, Loose} : UpdateEnvironment(ptr)) /\ UNCHANGED hand
MkdTemp == OfArgumentOrNull
StrTo(w) == Noticed(w, hand.ptr, hand.bounds)
Gcvt == OfArgument
BSearch == OfArgumentOrReset

FGets == OfArgumentOrNull
Files == GivenOrStale(Library)
(* A getdelim that fails may have moved the buffer already. *)
GetDelim(w) == Noticed(w, Library, Inexact) \/ Unnoticed(w)
Directories == GivenOrStale(Inexact)
ReadDir == GivenOrStale(Library)
Locales(w) == Given(Inexact) \/ Unnoticed(w)
GetPwNam(w) == GivenOrStale(Library) \/ Unnoticed(w)
(* Its strings have their metadata stored; those of the others do not. *)
GetPwUid(w) == GivenOrReset(Library) \/ Noticed(w, Library, Library)
Groups(w) == GivenOrStale(Library) \/ Unnoticed(w)
GetCwd == OfArgumentOrNull

SearchOrReset == OfArgumentOrReset
SearchOrNull == OfArgumentOrNull
StringCopies == OfArgument
StrTok == GivenOrReset(Library)
StrDup == GivenOrReset(Library)
Concatenations == OfArgument
StrStr == OfArgumentOrReset
StrError == Given(Library)
Signal == GivenOrReset(Library)

GenericAlloc == (Yield(Own, Own) \/ Yield(Loose, NullBounds)) /\ Keep
Allocations == GenericAlloc
PosixMemalign(w) == Noticed(w, Own, Own) \/ (Keep /\ UNCHANGED hand)

LocalTime == Given(Library) \/ (Yield(Loose, Inexact) /\ Keep)
CTime == GivenOrReset(Library)
GmTime == GivenOrReset(Inexact)
(* The table's pointer is in a word of the library. *)
CTypeTables(w) == Given(Library) \/ Noticed(w, Library, Library)
Messages == Given(Inexact)
GetHostByName(w) == GivenOrNull(Inexact) \/ Unnoticed(w)
ErrnoLocation == Given(Inexact)
LanguageInfo == Given(Library)
CryptR == OfArgumentOrReset
DlSym == GivenOrNull(Inexact)
(* Two of the four pointers that dladdr stores get metadata. *)
DlAddr(w) == Noticed(w, Library, Inexact) \/ Noticed(w, Loose, NullBounds) \/ Unnoticed(w)
FReopen == OfArgumentOrReset
GetAddrInfo(w) ==
  Noticed(w, Library, Library) \/ Noticed(w, Library, Inexact) \/ Noticed(w, Loose, NullBounds)
GetPass == GivenOrReset(Inexact)

Wrapper ==
  \/ GetEnv \/ SetEnv \/ MkdTemp \/ Gcvt \/ BSearch \/ FGets \/ Files \/ Directories
  \/ ReadDir \/ GetCwd \/ SearchOrReset \/ SearchOrNull
  \/ StringCopies \/ StrTok \/ StrDup \/ Concatenations \/ StrStr \/ StrError \/ Signal
  \/ Allocations \/ LocalTime \/ CTime \/ GmTime \/ Messages \/ ErrnoLocation
  \/ LanguageInfo \/ CryptR \/ DlSym \/ FReopen \/ GetPass
  \/ \E w \in Words :
       \/ StrTo(w) \/ GetDelim(w) \/ GetPwUid(w) \/ PosixMemalign(w) \/ CTypeTables(w)
       \/ DlAddr(w) \/ GetAddrInfo(w) \/ Locales(w) \/ GetPwNam(w) \/ Groups(w)
       \/ GetHostByName(w)

-----------------------------------------------------------------------------
Program ==
  \/ TakeAddress
  \/ \E w \in Words :
       \/ StorePointer(w) \/ LoadPointer(w) \/ StoreInteger(w) \/ ProxyStore(w) \/ ProxyLoad(w)
  \/ \E dest \in Halves, size \in CopySizes : MemSet(dest, size)
  \/ hand.ptr # VaList /\ Wrapper

Copying ==
  \/ \E dest, from \in Halves, size \in CopySizes : MemMove(dest, from, size)
  \/ \E from \in Halves, old, size \in CopySizes : Realloc(from, old, size)
  \/ \E a \in Halves, size \in ElementSizes : ExchangeElements(a, size)

Loop == CopyEntry \/ ExchangeEntry

Next ==
  \/ Main
  \/ work = Idle /\ Program /\ UNCHANGED work
  \/ work = Idle /\ Copying
  \/ Loop

Spec == Init /\ [][Next]_vars
-----------------------------------------------------------------------------
(* Properties *)

TypeOK ==
  /\ memory \in [Words -> Pointers]
  /\ tables \subseteq Nat
  /\ entries \in [Words -> Bounds]
  /\ hand \in [ptr : Pointers, bounds : Bounds]
  /\ work.doing \in {"main", "nothing", "copy", "exchange"}

Suit(ptr, bounds) ==
  /\ ptr \in {Own, VaList} => bounds = ptr
  /\ ptr = Library => bounds \in {Library, Inexact}

(* Every pointer has its metadata: whatever the program stored, copied,    *)
(* reallocated, sorted and passed through the library, a word that holds a *)
(* pointer is loaded with the bounds of the object it points into, also    *)
(* where entries of earlier pointers are left in the trie                  *)
(* (softboundcets_common.c:69-314 and the wrappers).                       *)
MetadataFollows ==
  work = Idle => \A w \in Words : memory[w] # VaList => Suit(memory[w], Load(w))

(* The assertion of __softboundcets_proxy_metadata_load that the bound is  *)
(* INVALID_MEM_VALUE (softboundcets_common.c:545): the metadata of a       *)
(* va_list, also of a copied or sorted one, is a proxy's.                  *)
ProxiesFound == work = Idle => \A w \in Words : memory[w] = VaList => Load(w) = VaList

(* What instrumented code has in a register got there with its bounds,     *)
(* whichever wrapper returned it.                                          *)
ResultsBounded == Suit(hand.ptr, hand.bounds)

(* A copy of metadata never reaches the entry of a word outside the bytes  *)
(* that were copied, however its ends are aligned (the loop rounds up,     *)
(* softboundcets_common.c:245).                                            *)
Footprint ==
  IF work.doing = "copy" THEN Range(work.dest, work.size)
  ELSE IF work.doing = "exchange" THEN Range(work.a, 2 * work.size) ELSE {}

NeighboursKept ==
  [][Loop => \A w \in Words : entries'[w] # entries[w] => \E u \in Footprint : Word(u) = w]_vars
=============================================================================
