---------------------------- MODULE SplayRuntime ----------------------------
(***************************************************************************)
(* The splay run-time around its tree (splay/src/splay.c, libfunctions.c): *)
(* the replaced malloc family, the objects that instrumented code and      *)
(* start-up register, the checks, the bounds queries with their one-entry  *)
(* cache, and the look-up of unknown witnesses in /proc/self/maps.  The    *)
(* tree is the abstract map of IntervalMap, which SplayTree implements.    *)
(* The run-time is sequential: tree and cache are shared and unlocked, so  *)
(* that threads using it race.                                             *)
(***************************************************************************)
EXTENDS Integers, FiniteSets

CONSTANTS
  Top,         \* the largest address, which stands for WIDE_UPPER too
  NullBound,   \* NULLPTR_BOUND
  Increase,    \* INCREASE_MALLOC_SIZE
  HeapArea,    \* where the C library puts its blocks: [base, bound)
  StackArea,   \* the program stack
  Symbols,     \* objects nm finds in the binary
  LibraryObjects,  \* objects that instrumented libraries register
  Argv,        \* the argv array and its strings
  Mappings,    \* file-backed mappings of other files in /proc/self/maps
  Requests,    \* sizes that the program asks for
  Members,     \* nmemb arguments of calloc
  Alignments,
  Witnesses,   \* pointers given to checks and queries
  AccessSizes,
  Absent, None

Addresses == 0 .. Top
Intervals == [base : Addresses, bound : Addresses]

(* What the run-time ends the program for, besides a conflict.             *)
Failures ==
  {"null allocation", "null dereference", "dereference", "outflow", "pvalloc", "unresolved"}

(* What the cache holds, and what a pair of queries has answered so far.   *)
Entries == [witness : Addresses, base : Addresses, bound : Addresses]
Answers == [witness : Addresses, lower : Addresses, upper : Addresses \cup {None}]

ASSUME RuntimeAssumption ==
  /\ Top \in Nat /\ NullBound \in 1 .. Top /\ Increase \in Nat
  /\ HeapArea \in Intervals /\ StackArea \in Intervals
  /\ UNION {Symbols, LibraryObjects, Argv, Mappings} \subseteq Intervals
  /\ Requests \cup Members \cup AccessSizes \cup Alignments \subseteq Nat
  /\ Witnesses \subseteq Addresses
  /\ Absent \notin Intervals /\ None \notin Intervals \cup Addresses \cup Failures \cup Entries \cup Answers

Statics == Symbols \cup LibraryObjects \cup Mappings

Apart(c, d) == c.bound <= d.base \/ d.bound <= c.base
Inside(c, d) == d.base <= c.base /\ c.bound <= d.bound

(* The layout of a process: heap, stack and static data lie apart, argv is *)
(* on the stack, and static objects that share bytes are one inside the    *)
(* other (aliases, or the objects in a mapped file).                       *)
ASSUME LayoutAssumption ==
  /\ HeapArea.base <= HeapArea.bound /\ StackArea.base <= StackArea.bound
  /\ Apart(HeapArea, StackArea)
  /\ \A a \in Argv : a.base < a.bound /\ Inside(a, StackArea)
  /\ \A a, b \in Argv : a = b \/ Apart(a, b)
  /\ \A s \in Statics : s.base <= s.bound /\ Apart(s, HeapArea) /\ Apart(s, StackArea)
  /\ \A s, t \in Statics : Apart(s, t) \/ Inside(s, t) \/ Inside(t, s)

VARIABLES
  map,         \* __memTree
  phase,       \* "load" before __libc_start_main, "setup" in it, "run" after
  todo,        \* what is left to register at start-up
  blocks,      \* the program's heap: bytes asked for, bytes taken, and
               \* whether the tree has been told since it was set up
  stack,       \* the stack objects of the functions that run
  globals,     \* global objects registered since the tree was set up
  cache,       \* __prev_witness, __prev_lower, __prev_upper; None if not
               \* __prev_available
  asked,       \* history: the last get_lower and the get_upper after it
  refused,     \* the insertion that met a conflict and ended the program
  failure      \* why the run-time ended the program

vars == <<map, phase, todo, blocks, stack, globals, cache, asked, refused, failure>>
tree == <<map, refused>>
program == <<phase, todo, blocks, stack, globals>>

M == INSTANCE IntervalMap WITH answer <- Absent, Conflict <- None

-----------------------------------------------------------------------------
(* Operations on the tree *)

(* IB_ERROR: the program ends at a conflict. *)
InsertStrict(new) ==
  IF M!Overlapping(new) = {}
  THEN map' = map \cup {new} /\ UNCHANGED refused
  ELSE refused' = new /\ UNCHANGED map

(* IB_EXTEND: one of the overlapped intervals grows, the others go. *)
InsertMerge(new) ==
  /\ IF M!Overlapping(new) = {}
     THEN map' = map \cup {new}
     ELSE \E c \in M!Overlapping(new) : map' = (map \ M!Overlapping(new)) \cup {M!Hull(c, new)}
  /\ UNCHANGED refused

(* Faulty variant: stack objects are merged as globals are. *)
InsertReplace_Merges(new) == InsertMerge(new)

(* IB_REPLACE *)
InsertReplace(new) == map' = (map \ M!Overlapping(new)) \cup {new} /\ UNCHANGED refused

Remove(val) == map' = map \ M!Holding(val) /\ UNCHANGED refused

IsNull(ptr) == ptr < NullBound

MappingsAt(val) == {f \in Mappings : f.base <= val /\ val < f.bound}

(* Faulty variant: a mapping reaches one byte further. *)
GetNode_PastMapping(witness, n) ==
  \/ n \in M!Holding(witness) /\ UNCHANGED tree
  \/ /\ M!Holding(witness) = {} /\ n \in MappingsAt(witness)
     /\ InsertStrict([n EXCEPT !.bound = @ + 1])
  \/ /\ M!Holding(witness) = {} /\ MappingsAt(witness) = {} /\ n = Absent
     /\ UNCHANGED tree

(* The node of a witness: a witness that no object holds is looked up      *)
(* among the mapped files, and the whole mapping becomes an object.        *)
GetNode(witness, n) ==
  \/ n \in M!Holding(witness) /\ UNCHANGED tree
  \/ M!Holding(witness) = {} /\ n \in MappingsAt(witness) /\ InsertStrict(n)
  \/ /\ M!Holding(witness) = {} /\ MappingsAt(witness) = {} /\ n = Absent
     /\ UNCHANGED tree

Nodes == map \cup Mappings \cup {Absent}

-----------------------------------------------------------------------------
(* Start-up *)

Running == failure = None /\ refused = None

Init ==
  /\ map = {} /\ refused = None
  /\ phase = "load" /\ todo = {}
  /\ blocks = {} /\ stack = {} /\ globals = {}
  /\ cache = None /\ asked = None /\ failure = None

(* What libraries registered before main's start-up is forgotten. *)
Setup ==
  /\ phase = "load"
  /\ map' = {}
  /\ phase' = "setup" /\ todo' = Symbols \cup Argv
  /\ blocks' = {[b EXCEPT !.known = FALSE] : b \in blocks}
  /\ globals' = {}
  /\ UNCHANGED <<stack, refused>>

InsertSymbol(s) ==
  /\ phase = "setup" /\ s \in todo \cap Symbols
  /\ todo' = todo \ {s}
  /\ InsertMerge(s)
  /\ globals' = globals \cup {s}
  /\ UNCHANGED <<phase, blocks, stack>>

InsertArgument(a) ==
  /\ phase = "setup" /\ todo \subseteq Argv /\ a \in todo
  /\ todo' = todo \ {a}
  /\ InsertStrict(a)
  /\ UNCHANGED <<phase, blocks, stack, globals>>

Enter ==
  /\ phase = "setup" /\ todo = {}
  /\ phase' = "run"
  /\ UNCHANGED <<tree, todo, blocks, stack, globals>>

-----------------------------------------------------------------------------
(* The malloc family *)

(* The C library's blocks lie in its area and apart from each other, also  *)
(* those of no bytes, which get pointers of their own.                     *)
Taken(bytes) == IF bytes = 0 THEN 1 ELSE bytes

Available(base, end, others) ==
  /\ HeapArea.base <= base /\ end <= HeapArea.bound
  /\ \A b \in others : end <= b.base \/ b.end <= base

Block(base, size, taken) ==
  [base |-> base, bound |-> base + size, end |-> base + taken, known |-> TRUE]

Interval(object) == [base |-> object.base, bound |-> object.bound]

(* A hook asks the C library for more bytes and registers size of them. *)
Allocated(size, bytes, alignment) ==
  \E base \in Addresses :
    /\ base % alignment = 0 /\ Available(base, base + Taken(bytes), blocks)
    /\ InsertStrict([base |-> base, bound |-> base + size])
    /\ blocks' = blocks \cup {Block(base, size, Taken(bytes))}
    /\ UNCHANGED <<phase, todo, stack, globals, failure>>

(* NULL from the C library is an allocation at the null pointer. *)
OutOfMemory == failure' = "null allocation" /\ UNCHANGED <<program, tree>>

Malloc(size) ==
  /\ phase # "setup"
  /\ Allocated(size, size + Increase, 1) \/ OutOfMemory

Calloc(nmemb, size) ==
  /\ phase = "run"
  /\ Allocated(nmemb * size, nmemb * (size + Increase), 1) \/ OutOfMemory

Memalign(alignment, size) ==
  /\ phase = "run"
  /\ Allocated(size, size + Increase, alignment) \/ OutOfMemory

(* A failed posix_memalign registers nothing. *)
PosixMemalign(alignment, size) ==
  /\ phase = "run"
  /\ \/ Allocated(size, size + Increase, alignment)
     \/ UNCHANGED <<program, tree, failure>>

(* Faulty variant: the old block stays registered. *)
Realloc_KeepsOld(b, size) ==
  /\ phase = "run"
  /\ \/ \E base \in Addresses :
          /\ Available(base, base + Taken(size + Increase), blocks \ {b})
          /\ InsertStrict([base |-> base, bound |-> base + size])
          /\ blocks' = (blocks \ {b}) \cup {Block(base, size, Taken(size + Increase))}
          /\ UNCHANGED <<phase, todo, stack, globals, failure>>
     \/ OutOfMemory

(* The old block is removed before the C library is asked, which answers   *)
(* in place or with a block apart from the old one.                        *)
Realloc(b, size) ==
  /\ phase = "run"
  /\ \/ \E base \in Addresses :
          LET new  == [base |-> base, bound |-> base + size]
              rest == map \ M!Holding(b.base)
          IN  /\ Available(base, base + Taken(size + Increase), IF base = b.base THEN blocks \ {b} ELSE blocks)
              /\ IF M!Overlapping(new) \cap rest = {}
                 THEN map' = rest \cup {new} /\ UNCHANGED refused
                 ELSE map' = rest /\ refused' = new
              /\ blocks' = (blocks \ {b}) \cup {Block(base, size, Taken(size + Increase))}
              /\ UNCHANGED <<phase, todo, stack, globals, failure>>
     \/ Remove(b.base) /\ failure' = "null allocation" /\ UNCHANGED program

(* Faulty variant: the tree is not told. *)
FreeBlock_KeepsNode(b) ==
  /\ phase = "run"
  /\ blocks' = blocks \ {b}
  /\ UNCHANGED <<tree, phase, todo, stack, globals, failure>>

(* free of a block the tree does not know removes nothing and goes on. *)
FreeBlock(b) ==
  /\ phase = "run"
  /\ Remove(b.base)
  /\ blocks' = blocks \ {b}
  /\ UNCHANGED <<phase, todo, stack, globals, failure>>

(* pvalloc, and before start-up every hook but malloc: their functions of  *)
(* the C library have not been looked up yet.                              *)
Unsupported ==
  /\ phase # "setup"
  /\ failure' \in IF phase = "run" THEN {"pvalloc"} ELSE {"pvalloc", "unresolved"}
  /\ UNCHANGED <<program, tree>>

-----------------------------------------------------------------------------
(* Stack and global objects of instrumented code *)

(* The stack grows downwards; returned objects are never removed. *)
AllocOrReplace(new) ==
  /\ phase = "run"
  /\ new.base < new.bound /\ Inside(new, StackArea)
  /\ \A o \in stack \cup Argv : new.bound <= o.base
  /\ InsertReplace(new)
  /\ stack' = stack \cup {new}
  /\ UNCHANGED <<phase, todo, blocks, globals, failure>>

FunctionReturns ==
  /\ \E o \in stack :
       /\ \A p \in stack : o.base <= p.base
       /\ stack' = stack \ {o}
  /\ UNCHANGED <<tree, phase, todo, blocks, globals, failure>>

(* An undefined weak symbol is at address zero. *)
AllocOrMerge(g) ==
  /\ phase # "setup"
  /\ IF g.base = 0
     THEN UNCHANGED <<tree, program, failure>>
     ELSE IF IsNull(g.base)
     THEN failure' = "null allocation" /\ UNCHANGED <<tree, program>>
     ELSE /\ InsertMerge(g)
          /\ globals' = globals \cup {g}
          /\ UNCHANGED <<phase, todo, blocks, stack, failure>>

-----------------------------------------------------------------------------
(* Checks *)

(* Faulty variant: one byte past the object may be accessed. *)
Outside_OffByOne(n, ptr, size) == ptr < n.base \/ (ptr + size) % (Top + 1) > n.bound + 1

(* The sum may wrap. *)
Outside(n, ptr, size) == ptr < n.base \/ (ptr + size) % (Top + 1) > n.bound

CheckDereference(witness, ptr, size) ==
  /\ \/ IsNull(ptr) /\ failure' = "null dereference" /\ UNCHANGED tree
     \/ /\ ~IsNull(ptr)
        /\ \E n \in Nodes :
             /\ GetNode(witness, n)
             /\ failure' = IF n # Absent /\ Outside(n, ptr, size) THEN "dereference" ELSE None
  /\ UNCHANGED program

CheckInbounds(witness, ptr) ==
  /\ \/ /\ IsNull(ptr) /\ UNCHANGED tree
        /\ failure' = IF IsNull(witness) THEN None ELSE "outflow"
     \/ /\ ~IsNull(ptr)
        /\ \E n \in Nodes :
             /\ GetNode(witness, n)
             /\ failure' = IF n # Absent /\ (ptr < n.base \/ ptr >= n.bound) THEN "outflow" ELSE None
  /\ UNCHANGED program

-----------------------------------------------------------------------------
(* Queries *)

Wide == [base |-> 0, bound |-> Top]

BoundsOf(n) == IF n = Absent THEN Wide ELSE n

Hit(witness) == cache # None /\ cache.witness = witness

(* Faulty variant: the entry stays available. *)
CacheAfterHit_Kept == cache

CacheAfterHit == None

(* A query fills the cache, and the next one for the same witness empties  *)
(* it: result(b) is what the query answers and records.                    *)
GetBound(witness, result(_)) ==
  \/ /\ IsNull(witness)
     /\ asked' = result([base |-> 0, bound |-> 0])
     /\ UNCHANGED <<tree, cache>>
  \/ /\ ~IsNull(witness) /\ Hit(witness)
     /\ asked' = result(cache)
     /\ cache' = CacheAfterHit
     /\ UNCHANGED tree
  \/ /\ ~IsNull(witness) /\ ~Hit(witness)
     /\ \E n \in Nodes :
          /\ GetNode(witness, n)
          /\ asked' = IF refused' = None THEN result(BoundsOf(n)) ELSE None
          /\ cache' = [witness |-> witness, base |-> BoundsOf(n).base, bound |-> BoundsOf(n).bound]

GetLower(witness) ==
  GetBound(witness, LAMBDA b : [witness |-> witness, lower |-> b.base, upper |-> None])

GetUpper(witness) ==
  GetBound(witness, LAMBDA b : [witness |-> witness, lower |-> asked.lower, upper |-> b.bound])

GetMaxByteOffset(witness) ==
  /\ IF IsNull(witness) THEN UNCHANGED tree ELSE \E n \in Nodes : GetNode(witness, n)
  /\ UNCHANGED <<program, failure>>

-----------------------------------------------------------------------------
Operation ==
  \/ Setup /\ UNCHANGED failure
  \/ \E o \in todo : (InsertSymbol(o) \/ InsertArgument(o)) /\ UNCHANGED failure
  \/ Enter /\ UNCHANGED failure
  \/ \E size \in Requests :
       \/ Malloc(size)
       \/ \E nmemb \in Members : Calloc(nmemb, size)
       \/ \E alignment \in Alignments : Memalign(alignment, size) \/ PosixMemalign(alignment, size)
       \/ \E b \in blocks : Realloc(b, size)
  \/ \E b \in blocks : FreeBlock(b)
  \/ Unsupported
  \/ \E new \in Intervals : AllocOrReplace(new)
  \/ FunctionReturns
  \/ \E g \in Symbols \cup LibraryObjects : AllocOrMerge(g)
  \/ /\ phase # "setup"
     /\ \E witness \in Witnesses :
          \/ GetMaxByteOffset(witness)
          \/ \E ptr \in Witnesses :
               \/ CheckInbounds(witness, ptr)
               \/ \E size \in AccessSizes : CheckDereference(witness, ptr, size)

(* Bounds are asked for in pairs, as the cache presumes. *)
AskBounds ==
  \/ asked = None /\ phase # "setup" /\ \E witness \in Witnesses : GetLower(witness)
  \/ asked # None /\ asked.upper = None /\ GetUpper(asked.witness)

UseBounds ==
  /\ asked # None /\ asked.upper # None
  /\ asked' = None
  /\ UNCHANGED <<tree, cache>>

Next ==
  /\ Running
  /\ \/ asked = None /\ Operation /\ UNCHANGED <<cache, asked>>
     \/ (AskBounds \/ UseBounds) /\ UNCHANGED <<program, failure>>

Spec == Init /\ [][Next]_vars
-----------------------------------------------------------------------------
(* Properties *)

TypeOK ==
  /\ map \subseteq Intervals
  /\ phase \in {"load", "setup", "run"}
  /\ todo \subseteq Symbols \cup Argv
  /\ blocks \subseteq [base : Addresses, bound : Addresses, end : Addresses, known : BOOLEAN]
  /\ stack \subseteq Intervals
  /\ globals \subseteq Symbols \cup LibraryObjects
  /\ cache \in Entries \cup {None}
  /\ asked \in Answers \cup {None}
  /\ refused \in Intervals \cup {None}
  /\ failure \in Failures \cup {None}

Known == {b \in blocks : b.known}
Registered == IF phase = "load" THEN {} ELSE Argv \ todo
Locals == {Interval(b) : b \in Known} \cup stack \cup Registered

(* Whatever was inserted, merged, replaced or removed since start-up, the  *)
(* tree has the exact bounds of every block, of every stack object of a    *)
(* function that runs and of the arguments of main, and each global lies   *)
(* in one of its objects (splay.c:431-520, the hooks of libfunctions.c).   *)
LiveTracked ==
  refused = None /\ failure # "null allocation" =>
    /\ Locals \subseteq map
    /\ \A g \in globals : \E c \in map : c.base <= g.base /\ g.bound <= c.bound

(* Freed and moved blocks are forgotten (libfunctions.c:119, 206): an      *)
(* address of the heap that the tree resolves belongs to a block that the  *)
(* program still owns.                                                     *)
NoStaleHeap ==
  \A val \in HeapArea.base .. HeapArea.bound - 1 :
    \A c \in M!Holding(val) : \E b \in Known : Interval(b) = c

(* "Trying to insert a conflicting element!" (tree.c:327) is reached only  *)
(* through an object of no bytes that the tree could not remove, or by a   *)
(* file mapping around objects that a library registered.                  *)
ConflictExplained ==
  refused # None =>
    \E c \in M!Overlapping(refused) : c.base = c.bound \/ refused \in Mappings

(* The same assertion taken at its word: it is not reached. *)
NoConflict == refused = None

(* A dereference check whose witness points into a live block or stack     *)
(* object passes exactly the accesses inside that object, and never those  *)
(* in a neighbour (splay.c:302), as long as ptr + size does not wrap.      *)
ChecksExact ==
  refused = None /\ failure # "null allocation" =>
    \A o \in Locals : \A witness \in o.base .. o.bound - 1 :
      \A ptr \in Addresses, size \in AccessSizes : ptr + size <= Top =>
        ((\E n \in M!Holding(witness) : Outside(n, ptr, size)) <=> (ptr < o.base \/ ptr + size > o.bound))

(* "Storage for caching lookups via get_lower/upper" (splay.c:346): both   *)
(* answers of a pair are the bounds of the object that holds the witness   *)
(* now, whatever pairs, frees and reallocations came before.               *)
PairsAgree ==
  asked # None =>
    LET w    == asked.witness
        here == IF IsNull(w) THEN {[base |-> 0, bound |-> 0]}
                ELSE IF M!Holding(w) = {} THEN {Wide} ELSE M!Holding(w)
    IN  \E c \in here : asked.lower = c.base /\ asked.upper \in {None, c.bound}
=============================================================================
