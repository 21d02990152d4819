------------------------- MODULE SplayRuntimeProofs -------------------------
(***************************************************************************)
(* Proofs about SplayRuntime, for every layout of a process that           *)
(* LayoutAssumption allows, every set of requests, members and witnesses.  *)
(* The invariant says of every object of the tree where it comes from:     *)
(* heap, stack, or static data, which lie apart.                           *)
(***************************************************************************)
EXTENDS SplayRuntime, TLAPS

Disjoint == \A c, d \in map : M!Overlap(c, d) => c = d

InHeap(c) == Inside(c, HeapArea) /\ c.base < HeapArea.bound

(* An object of the heap is a block that the tree was told of, or one of   *)
(* no bytes, which the tree cannot remove.                                 *)
HeapObject(c) == InHeap(c) /\ (c.base = c.bound \/ \E b \in Known : c = Interval(b))

StackObject(c) == Inside(c, StackArea) /\ c.base < c.bound

Classes == \A c \in map : HeapObject(c) \/ StackObject(c) \/ c \in Statics

(* The blocks of the C library.                                            *)
Blocks ==
  /\ \A b \in blocks : /\ HeapArea.base <= b.base /\ b.end <= HeapArea.bound
                       /\ b.base <= b.bound /\ b.bound <= b.end /\ b.base < b.end
  /\ \A b, d \in blocks : b = d \/ b.end <= d.base \/ d.end <= b.base

Stack == \A o \in stack : StackObject(o)

Phases ==
  /\ phase # "run" => stack = {}
  /\ phase # "setup" => todo = {}
  /\ phase = "setup" => map \subseteq Statics \cup Registered

Tracked ==
  refused = None /\ failure # "null allocation" =>
    /\ Locals \subseteq map
    /\ \A g \in globals : \E c \in map \cap Statics : Inside(g, c)

(* The cache holds something only between the two queries of a pair.       *)
Cached ==
  Running =>
    /\ asked = None => cache = None
    /\ asked # None =>
         /\ asked.upper # None => cache = None
         /\ asked.upper = None /\ IsNull(asked.witness) => cache = None
         /\ asked.upper = None /\ ~IsNull(asked.witness) =>
              /\ cache # None /\ cache.witness = asked.witness
              /\ \E c \in IF M!Holding(asked.witness) = {} THEN {Wide} ELSE M!Holding(asked.witness) :
                   asked.lower = c.base /\ cache.base = c.base /\ cache.bound = c.bound

ObjectTypes ==
  /\ map \subseteq Intervals
  /\ phase \in {"load", "setup", "run"}
  /\ todo \subseteq Symbols \cup Argv
  /\ blocks \subseteq [base : Addresses, bound : Addresses, end : Addresses, known : BOOLEAN]
  /\ stack \subseteq Intervals
  /\ globals \subseteq Symbols \cup LibraryObjects
  /\ refused \in Intervals \cup {None}

Objects ==
  /\ ObjectTypes
  /\ Disjoint /\ Classes /\ Blocks /\ Stack /\ Phases
  /\ Tracked /\ ConflictExplained

Inductive == TypeOK /\ Objects /\ Cached /\ PairsAgree

-----------------------------------------------------------------------------
(* The layout of a process                                                 *)

LEMMA Typed ==
  /\ Top \in Nat /\ Increase \in Nat /\ NullBound \in Nat
  /\ \A c \in Intervals : c.base \in Nat /\ c.bound \in Nat /\ c.base <= Top /\ c.bound <= Top
  /\ \A x, y \in Addresses : [base |-> x, bound |-> y] \in Intervals
  /\ Addresses \subseteq Nat
  /\ HeapArea \in Intervals /\ StackArea \in Intervals
  /\ Statics \subseteq Intervals /\ Argv \subseteq Intervals
  /\ Mappings \subseteq Statics /\ Symbols \subseteq Statics /\ LibraryObjects \subseteq Statics
  BY RuntimeAssumption DEF Intervals, Addresses, Statics

LEMMA NotFailed == Running => failure # "null allocation" /\ refused = None
  BY RuntimeAssumption DEF Running, Failures

LEMMA SameInterval ==
  ASSUME NEW c \in Intervals, NEW d \in Intervals, c.base = d.base, c.bound = d.bound
  PROVE  c = d
  BY DEF Intervals

LEMMA HeapApart ==
  ASSUME NEW c \in Intervals, NEW d \in Intervals, InHeap(c), StackObject(d) \/ d \in Statics
  PROVE  ~M!Overlap(c, d) /\ ~M!Overlap(d, c)
  BY Typed, LayoutAssumption DEF InHeap, StackObject, Inside, Apart, M!Overlap

LEMMA StackApart ==
  ASSUME NEW c \in Intervals, NEW d \in Statics, StackObject(c)
  PROVE  ~M!Overlap(c, d) /\ ~M!Overlap(d, c) /\ c # d
  BY Typed, LayoutAssumption DEF StackObject, Inside, Apart, M!Overlap

LEMMA ArgumentsOnStack ==
  \A a \in Argv : StackObject(a) /\ a \notin Statics
  BY Typed, LayoutAssumption DEF StackObject, Inside, Apart

(* Merging two static objects keeps one of them: the other is inside it.   *)
LEMMA HullOfNested ==
  ASSUME NEW c \in Statics, NEW d \in Statics, M!Overlap(c, d)
  PROVE  \/ Inside(c, d) /\ M!Hull(c, d) = d
         \/ Inside(d, c) /\ M!Hull(c, d) = c
  <1>1. Inside(c, d) \/ Inside(d, c)
    BY Typed, LayoutAssumption DEF Apart, M!Overlap
  <1>2. c \in Intervals /\ d \in Intervals
    BY Typed
  <1>3. /\ M!Hull(c, d).base = M!Lower(c.base, d.base)
        /\ M!Hull(c, d).bound = M!Upper(c.bound, d.bound)
        /\ M!Hull(c, d) = [base |-> M!Lower(c.base, d.base), bound |-> M!Upper(c.bound, d.bound)]
    BY DEF M!Hull
  <1>4. CASE Inside(c, d)
    <2>1. M!Lower(c.base, d.base) = d.base /\ M!Upper(c.bound, d.bound) = d.bound
      BY <1>2, <1>4, Typed DEF Inside, M!Lower, M!Upper
    <2> QED BY <1>2, <1>3, <1>4, <2>1 DEF Intervals
  <1>5. CASE Inside(d, c)
    <2>1. M!Lower(c.base, d.base) = c.base /\ M!Upper(c.bound, d.bound) = c.bound
      BY <1>2, <1>5, Typed DEF Inside, M!Lower, M!Upper
    <2> QED BY <1>2, <1>3, <1>5, <2>1 DEF Intervals
  <1> QED BY <1>1, <1>4, <1>5

-----------------------------------------------------------------------------
(* Operations on the tree                                                  *)

LEMMA JoinsDisjoint ==
  ASSUME Disjoint, NEW rest \in SUBSET map, NEW new, \A d \in rest : ~M!Overlap(d, new),
         map' = rest \cup {new}
  PROVE  Disjoint'
  <1>1. \A d \in rest : ~M!Overlap(new, d)
    BY DEF M!Overlap
  <1>2. ASSUME NEW c \in map', NEW d \in map', M!Overlap(c, d) PROVE c = d
    <2>1. CASE c \in rest /\ d \in rest
      BY <1>2, <2>1 DEF Disjoint
    <2>2. CASE c = new \/ d = new
      BY <1>1, <1>2, <2>2
    <2> QED BY <2>1, <2>2
  <1> QED BY <1>2 DEF Disjoint, M!Overlap

LEMMA SubsetDisjoint ==
  ASSUME Disjoint, map' \subseteq map
  PROVE  Disjoint'
  BY DEF Disjoint, M!Overlap

(* An insertion that meets no object adds one, the others end the program. *)
LEMMA StrictStep ==
  ASSUME map \subseteq Intervals, Disjoint, refused = None,
         NEW new \in Intervals, InsertStrict(new)
  PROVE  /\ map' \subseteq Intervals /\ Disjoint' /\ refused' \in Intervals \cup {None}
         /\ map \subseteq map' /\ map' \subseteq map \cup {new}
         /\ refused' = None => new \in map'
         /\ refused' # None => refused' = new /\ map' = map /\ M!Overlapping(new) # {}
  <1>1. CASE M!Overlapping(new) = {}
    <2>1. map' = map \cup {new} /\ refused' = None
      BY <1>1 DEF InsertStrict
    <2>2. \A d \in map : ~M!Overlap(d, new)
      BY <1>1 DEF M!Overlapping, M!Overlap
    <2>3. Disjoint'
      BY <2>1, <2>2, JoinsDisjoint
    <2> QED BY <2>1, <2>3
  <1>2. CASE M!Overlapping(new) # {}
    <2>1. map' = map /\ refused' = new
      BY <1>2 DEF InsertStrict
    <2>2. Disjoint'
      BY <2>1, SubsetDisjoint
    <2> QED BY <1>2, <2>1, <2>2, RuntimeAssumption
  <1> QED BY <1>1, <1>2

(* What start-up and instrumented code merge: static objects.              *)
LEMMA MergeStep ==
  ASSUME map \subseteq Intervals, Disjoint, Classes, NEW g \in Statics, InsertMerge(g)
  PROVE  /\ map' \subseteq Intervals /\ Disjoint' /\ refused' = refused
         /\ map' \subseteq map \cup {g}
         /\ \A c \in map : InHeap(c) \/ StackObject(c) => c \in map'
         /\ \E c \in map' \cap Statics : Inside(g, c)
         /\ \A h \in Statics : (\E c \in map \cap Statics : Inside(h, c))
                                 => \E c \in map' \cap Statics : Inside(h, c)
  <1> USE Typed
  <1>g. g \in Intervals /\ refused' = refused /\ Inside(g, g)
    BY DEF InsertMerge, Inside
  <1>1. ASSUME NEW c \in M!Overlapping(g)
        PROVE  c \in map /\ c \in Statics /\ M!Overlap(c, g) /\ ~InHeap(c) /\ ~StackObject(c)
    <2>1. c \in map /\ M!Overlap(c, g) /\ c \in Intervals
      BY DEF M!Overlapping, M!Overlap
    <2>2. ~InHeap(c)
      BY <1>g, <2>1, HeapApart
    <2>3. ~StackObject(c)
      BY <2>1, StackApart
    <2> QED BY <2>1, <2>2, <2>3 DEF Classes, HeapObject
  <1>2. ASSUME NEW d \in map \ M!Overlapping(g) PROVE ~M!Overlap(d, g)
    BY DEF M!Overlapping, M!Overlap
  <1>3. CASE M!Overlapping(g) = {}
    <2>1. map' = map \cup {g}
      BY <1>3 DEF InsertMerge
    <2>2. \A d \in map : ~M!Overlap(d, g)
      BY <1>2, <1>3
    <2>3. Disjoint'
      BY <2>1, <2>2, JoinsDisjoint
    <2> QED BY <1>g, <2>1, <2>3
  <1>4. CASE M!Overlapping(g) # {}
    <2>1. PICK c \in M!Overlapping(g) : map' = (map \ M!Overlapping(g)) \cup {M!Hull(c, g)}
      BY <1>4 DEF InsertMerge
    <2>2. c \in map /\ c \in Statics /\ M!Overlap(c, g) /\ c \in Intervals
      BY <1>1
    <2> DEFINE rest == map \ M!Overlapping(g)
    <2>3. \A d \in map : InHeap(d) \/ StackObject(d) => d \in rest
      BY <1>1
    <2>4. CASE Inside(c, g) /\ M!Hull(c, g) = g
      <3>1. map' = rest \cup {g}
        BY <2>1, <2>4
      <3>2. Disjoint'
        BY <1>2, <3>1, JoinsDisjoint
      <3>3. ASSUME NEW h \in Statics, NEW d \in map \cap Statics, Inside(h, d)
            PROVE  \E e \in map' \cap Statics : Inside(h, e)
        <4>1. CASE d \in rest
          BY <3>1, <3>3, <4>1
        <4>2. CASE d \in M!Overlapping(g)
          <5>1. M!Overlap(d, g) /\ d \in Intervals /\ h \in Intervals
            BY <1>1, <4>2
          <5>2. Inside(d, g)
            <6>1. CASE Inside(g, d)
              <7>1. M!Overlap(c, d)
                BY <1>g, <2>2, <2>4, <5>1, <6>1 DEF Inside, M!Overlap
              <7>2. c = d
                BY <2>2, <7>1 DEF Disjoint
              <7> QED BY <2>4, <7>2
            <6>2. CASE ~Inside(g, d)
              BY <5>1, <6>2, HullOfNested
            <6> QED BY <6>1, <6>2
          <5>3. Inside(h, g)
            BY <1>g, <3>3, <5>1, <5>2 DEF Inside
          <5> QED BY <3>1, <5>3
        <4> QED BY <4>1, <4>2
      <3> QED BY <1>g, <2>3, <3>1, <3>2, <3>3
    <2>5. CASE Inside(g, c) /\ M!Hull(c, g) = c
      <3>1. ASSUME NEW d \in M!Overlapping(g) PROVE d = c
        <4>1. d \in map /\ d \in Intervals /\ M!Overlap(d, g)
          BY <1>1
        <4>2. M!Overlap(d, c)
          BY <1>g, <2>2, <2>5, <4>1 DEF Inside, M!Overlap
        <4> QED BY <2>2, <4>1, <4>2 DEF Disjoint
      <3>2. map' = map
        BY <2>1, <2>2, <2>5, <3>1
      <3>3. Disjoint'
        BY <3>2, SubsetDisjoint
      <3> QED BY <1>g, <2>2, <2>5, <3>2, <3>3
    <2> QED BY <2>2, <2>4, <2>5, HullOfNested
  <1> QED BY <1>3, <1>4

(* The node of a witness: at most one file mapping joins the tree.         *)
LEMMA NodeStep ==
  ASSUME map \subseteq Intervals, Disjoint, refused = None,
         NEW witness, NEW n \in Nodes, GetNode(witness, n)
  PROVE  /\ map' \subseteq Intervals /\ Disjoint' /\ refused' \in Intervals \cup {None}
         /\ map \subseteq map' /\ map' \subseteq map \cup Mappings
         /\ refused' # None => refused' \in Mappings /\ map' = map /\ M!Overlapping(refused') # {}
         /\ refused' = None => \/ n \in M!Holding(witness)'
                               \/ n = Absent /\ M!Holding(witness)' = {}
  <1>1. CASE n \in M!Holding(witness) /\ UNCHANGED tree
    <2>1. map' = map /\ refused' = refused
      BY <1>1 DEF tree
    <2> QED BY <1>1, <2>1, SubsetDisjoint DEF M!Holding
  <1>2. CASE n \in MappingsAt(witness) /\ InsertStrict(n)
    <2>1. n \in Mappings /\ n.base <= witness /\ witness < n.bound /\ n \in Intervals
      BY <1>2, Typed DEF MappingsAt
    <2>2. /\ map' \subseteq Intervals /\ Disjoint' /\ refused' \in Intervals \cup {None}
          /\ map \subseteq map' /\ map' \subseteq map \cup {n}
          /\ refused' = None => n \in map'
          /\ refused' # None => refused' = n /\ map' = map /\ M!Overlapping(n) # {}
      BY <1>2, <2>1, StrictStep
    <2>3. n \in map' => n \in M!Holding(witness)'
      BY <2>1 DEF M!Holding
    <2> QED BY <2>1, <2>2, <2>3
  <1>3. CASE M!Holding(witness) = {} /\ n = Absent /\ UNCHANGED tree
    <2>1. map' = map /\ refused' = refused
      BY <1>3 DEF tree
    <2> QED BY <1>3, <2>1, SubsetDisjoint DEF M!Holding
  <1> QED BY <1>1, <1>2, <1>3 DEF GetNode

(* No address lies in two objects.                                         *)
LEMMA OneHolds ==
  ASSUME map \subseteq Intervals, Disjoint, NEW val \in Nat,
         NEW c \in M!Holding(val), NEW d \in M!Holding(val)
  PROVE  c = d
  <1>1. /\ c \in map /\ d \in map /\ c.base <= val /\ val < c.bound
        /\ d.base <= val /\ val < d.bound
    BY DEF M!Holding
  <1>2. M!Overlap(c, d)
    BY <1>1, Typed DEF M!Overlap
  <1> QED BY <1>1, <1>2 DEF Disjoint

-----------------------------------------------------------------------------
(* Steps that leave the program's objects alone                            *)

(* A larger tree, of the same classes, keeps what is said of the objects.  *)
LEMMA TreeGrows ==
  ASSUME Objects, Running, UNCHANGED program,
         map' \subseteq Intervals, Disjoint', refused' \in Intervals \cup {None},
         map \subseteq map', map' \subseteq map \cup Statics,
         refused' # None => refused' \in Mappings /\ map' = map /\ M!Overlapping(refused') # {}
  PROVE  Objects'
  <1>u. /\ phase' = phase /\ todo' = todo /\ blocks' = blocks /\ stack' = stack
        /\ globals' = globals
    BY DEF program
  <1>1. Known' = Known /\ Registered' = Registered /\ Locals' = Locals
    BY <1>u DEF Known, Registered, Locals
  <1>2. ObjectTypes'
    BY <1>u DEF Objects, ObjectTypes
  <1>3. Classes'
    BY <1>1 DEF Objects, Classes, HeapObject
  <1>4. Blocks' /\ Stack'
    BY <1>u DEF Objects, Blocks, Stack
  <1>5. Phases'
    BY <1>u, <1>1 DEF Objects, Phases
  <1>6. Tracked'
    <2>1. Locals \subseteq map /\ \A g \in globals : \E c \in map \cap Statics : Inside(g, c)
      BY NotFailed DEF Objects, Tracked, Running
    <2> QED BY <1>u, <1>1, <2>1 DEF Tracked
  <1>7. ConflictExplained'
    <2>1. ASSUME refused' # None PROVE refused' \in Mappings /\ M!Overlapping(refused)' # {}
      BY <2>1 DEF M!Overlapping
    <2> QED BY <2>1 DEF ConflictExplained
  <1> QED BY <1>2, <1>3, <1>4, <1>5, <1>6, <1>7 DEF Objects

LEMMA ProgramEnds ==
  ASSUME Objects, Running, UNCHANGED <<program, tree>>
  PROVE  Objects'
  <1>1. map' = map /\ refused' = None /\ refused = None
    BY DEF tree, Running
  <1>2. UNCHANGED program /\ map \subseteq Intervals /\ Disjoint
    BY DEF Objects, ObjectTypes
  <1>3. Disjoint'
    BY <1>1, <1>2, SubsetDisjoint
  <1> QED BY <1>1, <1>2, <1>3, TreeGrows

LEMMA LookUp ==
  ASSUME Objects, Running, NEW witness, NEW n \in Nodes, GetNode(witness, n), UNCHANGED program
  PROVE  Objects'
  <1>1. map \subseteq Intervals /\ Disjoint /\ refused = None
    BY DEF Objects, ObjectTypes, Running
  <1> QED BY <1>1, NodeStep, TreeGrows, Typed

-----------------------------------------------------------------------------
(* The malloc family                                                       *)

(* What an allocation can meet: objects of no bytes, and the block that it *)
(* was allowed to share.                                                   *)
LEMMA WhatABlockMeets ==
  ASSUME Objects, NEW base \in Addresses, NEW size \in Nat, NEW taken \in Nat,
         0 < taken, size <= taken, NEW others \in SUBSET blocks,
         Available(base, base + taken, others)
  PROVE  LET new == [base |-> base, bound |-> base + size]
         IN  /\ new \in Intervals /\ InHeap(new)
             /\ Block(base, size, taken) \in
                  [base : Addresses, bound : Addresses, end : Addresses, known : BOOLEAN]
             /\ \A c \in M!Overlapping(new) :
                  /\ c \in map
                  /\ c.base = c.bound \/ \E b \in Known \ others : c = Interval(b)
  <1> DEFINE new == [base |-> base, bound |-> base + size]
  <1> USE Typed
  <1>1. /\ HeapArea.base <= base /\ base + taken <= HeapArea.bound /\ base \in Nat
        /\ HeapArea.base \in Nat /\ HeapArea.bound \in Nat /\ HeapArea.bound <= Top
        /\ \A b \in others : base + taken <= b.base \/ b.end <= base
    BY DEF Available
  <1>2. base + size \in Addresses /\ base + taken \in Addresses
    BY <1>1 DEF Addresses
  <1>3. new \in Intervals /\ new.base = base /\ new.bound = base + size
    BY <1>2
  <1>4. InHeap(new)
    BY <1>1, <1>3 DEF InHeap, Inside
  <1>5. Block(base, size, taken) \in [base : Addresses, bound : Addresses, end : Addresses, known : BOOLEAN]
    BY <1>2 DEF Block
  <1>6. ASSUME NEW c \in M!Overlapping(new)
        PROVE  c \in map /\ (c.base = c.bound \/ \E b \in Known \ others : c = Interval(b))
    <2>1. c \in map /\ c \in Intervals /\ M!Overlap(c, new)
      BY DEF M!Overlapping, M!Overlap, Objects, ObjectTypes
    <2>2. HeapObject(c)
      BY <1>3, <1>4, <2>1, HeapApart DEF Objects, Classes
    <2>3. ASSUME NEW b \in Known, c = Interval(b) PROVE b \notin others
      <3>1. b \in blocks /\ c.base = b.base /\ c.bound = b.bound
        BY <2>3 DEF Known, Interval
      <3>2. b.base \in Nat /\ b.bound \in Nat /\ b.end \in Nat /\ b.bound <= b.end
        BY <3>1 DEF Objects, ObjectTypes, Blocks
      <3>3. b.base < base + size /\ base < b.bound
        BY <1>3, <2>1, <3>1 DEF M!Overlap
      <3> QED BY <1>1, <3>2, <3>3
    <2> QED BY <2>1, <2>2, <2>3 DEF HeapObject
  <1> QED BY <1>3, <1>4, <1>5, <1>6

LEMMA AllocatedStep ==
  ASSUME Objects, Running, phase # "setup",
         NEW size \in Nat, NEW bytes \in Nat, size <= bytes, NEW alignment,
         Allocated(size, bytes, alignment)
  PROVE  Objects'
  <1> DEFINE taken == Taken(bytes)
  <1>1. taken \in Nat /\ 0 < taken /\ size <= taken
    BY DEF Taken
  <1> HIDE DEF taken
  <1>2. PICK base \in Addresses :
          /\ Available(base, base + taken, blocks)
          /\ InsertStrict([base |-> base, bound |-> base + size])
          /\ blocks' = blocks \cup {Block(base, size, taken)}
    BY DEF Allocated, taken
  <1> DEFINE new == [base |-> base, bound |-> base + size]
             block == Block(base, size, taken)
  <1>3. /\ new \in Intervals /\ InHeap(new)
        /\ block \in [base : Addresses, bound : Addresses, end : Addresses, known : BOOLEAN]
        /\ \A c \in M!Overlapping(new) : c.base = c.bound
    BY <1>1, <1>2, WhatABlockMeets DEF Known
  <1>u. phase' = phase /\ todo' = todo /\ stack' = stack /\ globals' = globals /\ failure' = failure
    BY DEF Allocated
  <1>4. /\ map' \subseteq Intervals /\ Disjoint' /\ refused' \in Intervals \cup {None}
        /\ map \subseteq map' /\ map' \subseteq map \cup {new}
        /\ refused' = None => new \in map'
        /\ refused' # None => refused' = new /\ map' = map /\ M!Overlapping(new) # {}
    BY <1>2, <1>3, StrictStep DEF Objects, ObjectTypes, Running
  <1>b. /\ block.base = base /\ block.bound = base + size /\ block.end = base + taken
        /\ block.known /\ Interval(block) = new
    BY DEF Block, Interval
  <1>5. Known' = Known \cup {block}
    BY <1>2, <1>b DEF Known
  <1>6. Registered' = Registered /\ Locals' = Locals \cup {new}
    BY <1>u, <1>5, <1>b DEF Registered, Locals
  <1>7. ObjectTypes'
    BY <1>2, <1>3, <1>4, <1>u DEF Objects, ObjectTypes
  <1>8. Classes'
    <2>1. ASSUME NEW c \in map PROVE HeapObject(c)' \/ StackObject(c) \/ c \in Statics
      BY <1>5 DEF Objects, Classes, HeapObject
    <2>2. HeapObject(new)'
      BY <1>3, <1>5, <1>b DEF HeapObject
    <2> QED BY <1>4, <2>1, <2>2 DEF Classes
  <1>9. Blocks'
    <2>1. /\ HeapArea.base <= base /\ base + taken <= HeapArea.bound
          /\ \A b \in blocks : base + taken <= b.base \/ b.end <= base
      BY <1>2 DEF Available
    <2>2. base \in Nat
      BY Typed
    <2>3. /\ HeapArea.base <= block.base /\ block.end <= HeapArea.bound
          /\ block.base <= block.bound /\ block.bound <= block.end /\ block.base < block.end
      BY <1>1, <1>b, <2>1, <2>2
    <2>4. \A b \in blocks : block.end <= b.base \/ b.end <= block.base
      BY <1>b, <2>1
    <2> QED BY <1>2, <2>3, <2>4 DEF Objects, Blocks
  <1>10. Stack' /\ Phases'
    BY <1>u DEF Objects, Stack, Phases
  <1>11. Tracked'
    <2>1. Locals \subseteq map /\ \A g \in globals : \E c \in map \cap Statics : Inside(g, c)
      BY NotFailed DEF Objects, Tracked
    <2> QED BY <1>4, <1>6, <1>u, <2>1 DEF Tracked
  <1>12. ConflictExplained'
    <2>1. ASSUME refused' # None PROVE \E c \in M!Overlapping(refused)' : c.base = c.bound
      BY <1>3, <1>4, <2>1 DEF M!Overlapping
    <2> QED BY <2>1 DEF ConflictExplained
  <1> QED BY <1>4, <1>7, <1>8, <1>9, <1>10, <1>11, <1>12 DEF Objects

LEMMA MoreIsAsked ==
  ASSUME NEW nmemb \in Nat, NEW size \in Nat, NEW more \in Nat
  PROVE  /\ nmemb * size \in Nat /\ nmemb * (size + more) \in Nat
         /\ nmemb * size <= nmemb * (size + more)
  OBVIOUS

LEMMA AllocationStep ==
  ASSUME Objects, Running, NEW size \in Requests,
         \/ Malloc(size)
         \/ \E nmemb \in Members : Calloc(nmemb, size)
         \/ \E alignment \in Alignments : Memalign(alignment, size) \/ PosixMemalign(alignment, size)
  PROVE  Objects'
  <1>1. size \in Nat /\ Members \subseteq Nat /\ Increase \in Nat
    BY RuntimeAssumption
  <1>2. size + Increase \in Nat /\ size <= size + Increase
    BY <1>1
  <1>3. CASE OutOfMemory
    BY <1>3, ProgramEnds DEF OutOfMemory
  <1>4. CASE Malloc(size)
    BY <1>1, <1>2, <1>3, <1>4, AllocatedStep DEF Malloc
  <1>5. ASSUME NEW nmemb \in Members, Calloc(nmemb, size) PROVE Objects'
    BY <1>1, <1>3, <1>5, MoreIsAsked, AllocatedStep DEF Calloc
  <1>6. ASSUME NEW alignment \in Alignments, Memalign(alignment, size) PROVE Objects'
    BY <1>1, <1>2, <1>3, <1>6, AllocatedStep DEF Memalign
  <1>7. ASSUME NEW alignment \in Alignments, PosixMemalign(alignment, size) PROVE Objects'
    BY <1>1, <1>2, <1>7, AllocatedStep, ProgramEnds DEF PosixMemalign
  <1> QED BY <1>4, <1>5, <1>6, <1>7

(* What the tree has at the base of a block is that block's own object.    *)
LEMMA HeldAtBlock ==
  ASSUME Objects, NEW b \in blocks
  PROVE  /\ \A c \in M!Holding(b.base) : /\ c = Interval(b) /\ b \in Known /\ InHeap(c)
                                         /\ c \notin Statics /\ ~StackObject(c)
         /\ \A d \in Known : d # b => Interval(d) \notin M!Holding(b.base)
         /\ b.base < b.bound => \A c \in map : c = Interval(b) => c \in M!Holding(b.base)
  <1> USE Typed
  <1>1. /\ b.base \in Nat /\ b.bound \in Nat /\ b.end \in Nat
        /\ HeapArea.base <= b.base /\ b.base < b.end /\ b.end <= HeapArea.bound
        /\ HeapArea.base \in Nat /\ HeapArea.bound \in Nat
    <2>1. b.base \in Nat /\ b.bound \in Nat /\ b.end \in Nat
      BY DEF Objects, ObjectTypes
    <2> QED BY <2>1 DEF Objects, Blocks
  <1>2. ASSUME NEW d \in Known, d # b PROVE ~(d.base <= b.base /\ b.base < d.bound)
    <2>1. d \in blocks /\ d.base \in Nat /\ d.bound \in Nat /\ d.end \in Nat
      BY DEF Known, Objects, ObjectTypes
    <2>2. d.bound <= d.end /\ (b.end <= d.base \/ d.end <= b.base)
      BY <1>2, <2>1 DEF Objects, Blocks
    <2> QED BY <1>1, <2>1, <2>2
  <1>3. ASSUME NEW d PROVE Interval(d).base = d.base /\ Interval(d).bound = d.bound
    BY DEF Interval
  <1>4. ASSUME NEW c \in M!Holding(b.base)
        PROVE  /\ c = Interval(b) /\ b \in Known /\ InHeap(c)
               /\ c \notin Statics /\ ~StackObject(c)
    <2>1. c \in map /\ c \in Intervals /\ c.base <= b.base /\ b.base < c.bound
      BY DEF M!Holding, Objects, ObjectTypes
    <2>2. c \notin Statics
      BY <1>1, <2>1, LayoutAssumption DEF Apart
    <2>3. ~StackObject(c)
      BY <1>1, <2>1, LayoutAssumption DEF Apart, StackObject, Inside
    <2>4. HeapObject(c)
      BY <2>1, <2>2, <2>3 DEF Objects, Classes
    <2>e. c.base # c.bound
      BY <1>1, <2>1
    <2>5. PICK d \in Known : c = Interval(d)
      BY <2>4, <2>e DEF HeapObject
    <2>6. d = b
      BY <1>2, <1>3, <2>1, <2>5
    <2> QED BY <2>2, <2>3, <2>4, <2>5, <2>6 DEF HeapObject
  <1>5. \A d \in Known : d # b => Interval(d) \notin M!Holding(b.base)
    BY <1>2, <1>3 DEF M!Holding
  <1>6. b.base < b.bound => \A c \in map : c = Interval(b) => c \in M!Holding(b.base)
    BY <1>1, <1>3 DEF M!Holding
  <1> QED BY <1>4, <1>5, <1>6

(* The tree and the program's objects after the node of a block is gone.   *)
LEMMA WithoutBlock ==
  ASSUME Objects, Running, NEW b \in blocks
  PROVE  LET rest == map \ M!Holding(b.base)
         IN  /\ \A c \in rest : \/ InHeap(c) /\ c.base = c.bound
                                \/ \E d \in Known \ {b} : InHeap(c) /\ c = Interval(d)
                                \/ StackObject(c)
                                \/ c \in Statics
             /\ {Interval(d) : d \in Known \ {b}} \cup stack \cup Registered \subseteq rest
             /\ \A g \in globals : \E c \in rest \cap Statics : Inside(g, c)
  <1> DEFINE rest == map \ M!Holding(b.base)
  <1>1. Locals \subseteq map /\ \A g \in globals : \E c \in map \cap Statics : Inside(g, c)
    BY NotFailed DEF Objects, Tracked
  <1>2. ASSUME NEW c \in rest
        PROVE  \/ InHeap(c) /\ c.base = c.bound
               \/ \E d \in Known \ {b} : InHeap(c) /\ c = Interval(d)
               \/ StackObject(c)
               \/ c \in Statics
    <2>1. CASE HeapObject(c) /\ c = Interval(b)
      <3>1. c.base = b.base /\ c.bound = b.bound /\ ~(b.base < b.bound)
        BY <2>1, HeldAtBlock DEF Interval
      <3>2. b.base \in Nat /\ b.bound \in Nat /\ b.base <= b.bound
        BY Typed DEF Objects, ObjectTypes, Blocks
      <3> QED BY <2>1, <3>1, <3>2 DEF HeapObject
    <2>2. CASE HeapObject(c) /\ c # Interval(b)
      BY <2>2 DEF HeapObject
    <2> QED BY <2>1, <2>2 DEF Objects, Classes
  <1>3. \A o \in stack \cup Registered : StackObject(o)
    BY ArgumentsOnStack DEF Objects, Stack, Registered
  <1>4. {Interval(d) : d \in Known \ {b}} \cup stack \cup Registered \subseteq rest
    <2>1. \A d \in Known \ {b} : Interval(d) \in rest
      BY <1>1, HeldAtBlock DEF Locals
    <2>2. \A o \in stack \cup Registered : o \in rest
      BY <1>1, <1>3, HeldAtBlock DEF Locals
    <2> QED BY <2>1, <2>2
  <1>5. \A g \in globals : \E c \in rest \cap Statics : Inside(g, c)
    BY <1>1, HeldAtBlock
  <1> QED BY <1>2, <1>4, <1>5

LEMMA FreeStep ==
  ASSUME Objects, Running, NEW b \in blocks, FreeBlock(b)
  PROVE  Objects'
  <1> DEFINE rest == map \ M!Holding(b.base)
  <1>1. map' = rest /\ refused' = refused /\ refused = None /\ phase = "run"
    BY DEF FreeBlock, Remove, Running
  <1>u. /\ phase' = phase /\ todo' = todo /\ stack' = stack /\ globals' = globals
        /\ failure' = failure /\ blocks' = blocks \ {b}
    BY DEF FreeBlock
  <1>2. Known' = Known \ {b} /\ Registered' = Registered
    BY <1>u DEF Known, Registered
  <1>3. Locals' = {Interval(d) : d \in Known \ {b}} \cup stack \cup Registered
    BY <1>2, <1>u DEF Locals
  <1>4. ObjectTypes'
    BY <1>1, <1>u DEF Objects, ObjectTypes
  <1>5. Disjoint'
    BY <1>1, SubsetDisjoint DEF Objects
  <1>6. Classes'
    <2>1. ASSUME NEW c \in rest PROVE HeapObject(c)' \/ StackObject(c) \/ c \in Statics
      BY <1>2, WithoutBlock DEF HeapObject
    <2> QED BY <1>1, <2>1 DEF Classes
  <1>7. Blocks' /\ Stack' /\ Phases'
    BY <1>1, <1>u DEF Objects, Blocks, Stack, Phases
  <1>8. Tracked'
    BY <1>1, <1>3, <1>u, WithoutBlock DEF Tracked
  <1>9. ConflictExplained'
    BY <1>1 DEF ConflictExplained
  <1> QED BY <1>4, <1>5, <1>6, <1>7, <1>8, <1>9 DEF Objects

(* A realloc that gets no memory has removed the block's object already.   *)
LEMMA ReallocFails ==
  ASSUME Objects, Running, NEW b \in blocks,
         Remove(b.base), failure' = "null allocation", UNCHANGED program, phase = "run"
  PROVE  Objects'
  <1> DEFINE rest == map \ M!Holding(b.base)
  <1>1. map' = rest /\ refused' = refused /\ refused = None
    BY DEF Remove, Running
  <1>u. /\ phase' = phase /\ todo' = todo /\ stack' = stack /\ globals' = globals
        /\ blocks' = blocks
    BY DEF program
  <1>2. Known' = Known
    BY <1>u DEF Known
  <1>4. ObjectTypes'
    BY <1>1, <1>u DEF Objects, ObjectTypes
  <1>5. Disjoint'
    BY <1>1, SubsetDisjoint DEF Objects
  <1>6. Classes'
    BY <1>1, <1>2 DEF Objects, Classes, HeapObject
  <1>7. Blocks' /\ Stack' /\ Phases'
    BY <1>1, <1>u DEF Objects, Blocks, Stack, Phases
  <1>8. Tracked' /\ ConflictExplained'
    BY <1>1 DEF Tracked, ConflictExplained
  <1> QED BY <1>4, <1>5, <1>6, <1>7, <1>8 DEF Objects

(* A realloc in place or to a block apart from all others.                 *)
LEMMA ReallocMoves ==
  ASSUME Objects, Running, phase = "run", NEW b \in blocks, NEW size \in Nat, NEW taken \in Nat,
         0 < taken, size <= taken, NEW base \in Addresses,
         Available(base, base + taken, IF base = b.base THEN blocks \ {b} ELSE blocks),
         LET new  == [base |-> base, bound |-> base + size]
             rest == map \ M!Holding(b.base)
         IN  IF M!Overlapping(new) \cap rest = {}
             THEN map' = rest \cup {new} /\ UNCHANGED refused
             ELSE map' = rest /\ refused' = new,
         blocks' = (blocks \ {b}) \cup {Block(base, size, taken)},
         UNCHANGED <<phase, todo, stack, globals, failure>>
  PROVE  Objects'
  <1> DEFINE new   == [base |-> base, bound |-> base + size]
             rest  == map \ M!Holding(b.base)
             block == Block(base, size, taken)
             others == IF base = b.base THEN blocks \ {b} ELSE blocks
  <1>1. /\ new \in Intervals /\ InHeap(new)
        /\ block \in [base : Addresses, bound : Addresses, end : Addresses, known : BOOLEAN]
        /\ \A c \in M!Overlapping(new) :
             c \in map /\ (c.base = c.bound \/ \E d \in Known \ others : c = Interval(d))
    BY WhatABlockMeets
  <1>2. \A c \in M!Overlapping(new) \cap rest : c.base = c.bound
    <2>1. \A d \in Known \ others : d = b
      BY DEF Known
    <2>2. ASSUME NEW c \in rest, c = Interval(b) PROVE c.base = c.bound
      <3>1. c.base = b.base /\ c.bound = b.bound /\ ~(b.base < b.bound)
        BY <2>2, HeldAtBlock DEF Interval
      <3>2. b.base \in Nat /\ b.bound \in Nat /\ b.base <= b.bound
        BY Typed DEF Objects, ObjectTypes, Blocks
      <3> QED BY <3>1, <3>2
    <2> QED BY <1>1, <2>1, <2>2
  <1>u. phase' = phase /\ todo' = todo /\ stack' = stack /\ globals' = globals /\ failure' = failure
    OBVIOUS
  <1>b. /\ block.base = base /\ block.bound = base + size /\ block.end = base + taken
        /\ block.known /\ Interval(block) = new
    BY DEF Block, Interval
  <1>m. /\ map' \subseteq rest \cup {new} /\ rest \subseteq map'
        /\ refused' = None => map' = rest \cup {new}
        /\ refused' # None => refused' = new /\ map' = rest /\ M!Overlapping(new) \cap rest # {}
        /\ refused' \in {None, new}
    <2>0. refused = None
      BY DEF Running
    <2>1. CASE M!Overlapping(new) \cap rest = {}
      <3>1. map' = rest \cup {new} /\ refused' = None
        BY <2>0, <2>1
      <3> QED BY <3>1
    <2>2. CASE M!Overlapping(new) \cap rest # {}
      <3>1. map' = rest /\ refused' = new
        BY <2>2
      <3>2. new # None
        BY <1>1, RuntimeAssumption
      <3> QED BY <2>2, <3>1, <3>2
    <2> QED BY <2>1, <2>2
  <1>3. Known' = (Known \ {b}) \cup {block}
    BY <1>b DEF Known
  <1>4. Registered' = Registered
    BY <1>u DEF Registered
  <1>5. Locals' = {Interval(d) : d \in Known \ {b}} \cup {new} \cup stack \cup Registered
    BY <1>u, <1>3, <1>4, <1>b DEF Locals
  <1>6. ObjectTypes'
    BY <1>1, <1>m, <1>u DEF Objects, ObjectTypes
  <1>7. Disjoint'
    <2>1. CASE M!Overlapping(new) \cap rest = {}
      <3>1. \A d \in rest : ~M!Overlap(d, new)
        BY <2>1 DEF M!Overlapping, M!Overlap
      <3>2. map' = rest \cup {new} /\ rest \in SUBSET map
        BY <2>1
      <3> HIDE DEF rest, new
      <3> QED BY <3>1, <3>2, JoinsDisjoint DEF Objects
    <2>2. CASE M!Overlapping(new) \cap rest # {}
      <3>1. map' \subseteq map
        BY <2>2
      <3> QED BY <3>1, SubsetDisjoint DEF Objects
    <2> QED BY <2>1, <2>2
  <1>8. Classes'
    <2>1. ASSUME NEW c \in rest PROVE HeapObject(c)' \/ StackObject(c) \/ c \in Statics
      BY <1>3, WithoutBlock DEF HeapObject
    <2>2. HeapObject(new)'
      BY <1>1, <1>3, <1>b DEF HeapObject
    <2> QED BY <1>m, <2>1, <2>2 DEF Classes
  <1>9. Blocks'
    <2>1. /\ HeapArea.base <= base /\ base + taken <= HeapArea.bound
          /\ \A d \in blocks \ {b} : base + taken <= d.base \/ d.end <= base
      BY DEF Available
    <2>2. base \in Nat
      BY Typed
    <2>3. /\ HeapArea.base <= block.base /\ block.end <= HeapArea.bound
          /\ block.base <= block.bound /\ block.bound <= block.end /\ block.base < block.end
      BY <1>b, <2>1, <2>2
    <2>4. \A d \in blocks \ {b} : block.end <= d.base \/ d.end <= block.base
      BY <1>b, <2>1
    <2>5. blocks' = (blocks \ {b}) \cup {block}
      OBVIOUS
    <2> HIDE DEF block
    <2> QED BY <2>3, <2>4, <2>5 DEF Objects, Blocks
  <1>10. Stack' /\ Phases'
    BY <1>u DEF Objects, Stack, Phases
  <1>11. Tracked'
    <2>1. ASSUME refused' = None PROVE Locals' \subseteq map'
      BY <1>5, <1>m, <2>1, WithoutBlock
    <2>2. \A g \in globals' : \E c \in map' \cap Statics : Inside(g, c)
      BY <1>m, <1>u, WithoutBlock
    <2> QED BY <2>1, <2>2 DEF Tracked
  <1>12. ConflictExplained'
    <2>1. ASSUME refused' # None PROVE \E c \in M!Overlapping(refused)' : c.base = c.bound
      BY <1>2, <1>m, <2>1 DEF M!Overlapping
    <2> QED BY <2>1 DEF ConflictExplained
  <1> QED BY <1>6, <1>7, <1>8, <1>9, <1>10, <1>11, <1>12 DEF Objects

LEMMA ReallocStep ==
  ASSUME Objects, Running, NEW b \in blocks, NEW size \in Requests, Realloc(b, size)
  PROVE  Objects'
  <1>1. size \in Nat /\ size + Increase \in Nat /\ size <= size + Increase
    BY RuntimeAssumption
  <1>2. Taken(size + Increase) \in Nat /\ 0 < Taken(size + Increase) /\ size <= Taken(size + Increase)
    BY <1>1 DEF Taken
  <1>3. CASE Remove(b.base) /\ failure' = "null allocation" /\ UNCHANGED program
    BY <1>3, ReallocFails DEF Realloc
  <1>4. ASSUME ~(Remove(b.base) /\ failure' = "null allocation" /\ UNCHANGED program)
        PROVE  Objects'
    <2>1. PICK base \in Addresses :
            LET new  == [base |-> base, bound |-> base + size]
                rest == map \ M!Holding(b.base)
            IN  /\ Available(base, base + Taken(size + Increase), IF base = b.base THEN blocks \ {b} ELSE blocks)
                /\ IF M!Overlapping(new) \cap rest = {}
                   THEN map' = rest \cup {new} /\ UNCHANGED refused
                   ELSE map' = rest /\ refused' = new
                /\ blocks' = (blocks \ {b}) \cup {Block(base, size, Taken(size + Increase))}
                /\ UNCHANGED <<phase, todo, stack, globals, failure>>
      BY <1>4 DEF Realloc
    <2>2. phase = "run"
      BY DEF Realloc
    <2> QED BY <1>1, <1>2, <2>1, <2>2, ReallocMoves
  <1> QED BY <1>3, <1>4

-----------------------------------------------------------------------------
(* Stack and global objects, and start-up                                  *)

(* A stack object replaces what dead frames left, and nothing else.        *)
LEMMA ReplaceStep ==
  ASSUME Objects, Running, NEW new \in Intervals, AllocOrReplace(new)
  PROVE  Objects'
  <1> DEFINE gone == M!Overlapping(new)
             rest == map \ gone
  <1>1. map' = rest \cup {new} /\ refused' = None /\ phase = "run" /\ StackObject(new)
    BY DEF AllocOrReplace, InsertReplace, StackObject, Running
  <1>u. /\ phase' = phase /\ todo' = todo /\ blocks' = blocks /\ stack' = stack \cup {new}
        /\ globals' = globals
    BY DEF AllocOrReplace
  <1>2. Known' = Known /\ Registered' = Registered /\ Locals' = Locals \cup {new}
    BY <1>u DEF Known, Registered, Locals
  <1>3. ObjectTypes'
    BY <1>1, <1>u DEF Objects, ObjectTypes
  <1>4. Disjoint'
    <2>1. \A d \in rest : ~M!Overlap(d, new)
      BY DEF M!Overlapping, M!Overlap
    <2>2. rest \in SUBSET map
      OBVIOUS
    <2> HIDE DEF rest
    <2> QED BY <1>1, <2>1, <2>2, JoinsDisjoint DEF Objects
  <1>5. Classes'
    BY <1>1, <1>2 DEF Objects, Classes, HeapObject
  <1>6. Blocks' /\ Stack' /\ Phases'
    BY <1>1, <1>u DEF Objects, Blocks, Stack, Phases
  <1>7. ASSUME NEW c \in gone PROVE c \in map /\ c \in Intervals /\ M!Overlap(c, new)
    BY DEF M!Overlapping, M!Overlap, Objects, ObjectTypes
  <1>8. \A c \in gone : c \notin Statics
    BY <1>1, <1>7, StackApart
  <1>9. Locals \cap gone = {}
    <2>1. \A o \in stack \cup Registered : o \notin gone
      <3>1. \A o \in stack \cup Registered : new.bound <= o.base /\ o \in Intervals
        BY Typed DEF AllocOrReplace, Registered, Objects, ObjectTypes
      <3> QED BY <1>7, <3>1, Typed DEF M!Overlap
    <2>2. ASSUME NEW b \in Known PROVE Interval(b) \notin gone
      <3>1. /\ b \in blocks /\ Interval(b) \in Intervals
            /\ Interval(b).base = b.base /\ Interval(b).bound = b.bound
        BY Typed DEF Known, Objects, ObjectTypes, Interval
      <3>2. /\ b.base \in Nat /\ b.bound \in Nat /\ b.end \in Nat
            /\ HeapArea.base \in Nat /\ HeapArea.bound \in Nat
        BY <3>1, Typed DEF Objects, ObjectTypes
      <3>3. InHeap(Interval(b))
        BY <3>1, <3>2 DEF Objects, Blocks, InHeap, Inside
      <3> QED BY <1>1, <1>7, <3>1, <3>3, HeapApart
    <2> QED BY <2>1, <2>2 DEF Locals
  <1>10. Tracked'
    <2>1. Locals \subseteq map /\ \A g \in globals : \E c \in map \cap Statics : Inside(g, c)
      BY NotFailed DEF Objects, Tracked
    <2>2. Locals' \subseteq map'
      BY <1>1, <1>2, <1>9, <2>1
    <2>3. \A g \in globals' : \E c \in map' \cap Statics : Inside(g, c)
      BY <1>1, <1>u, <1>8, <2>1
    <2> QED BY <2>2, <2>3 DEF Tracked
  <1>11. ConflictExplained'
    BY <1>1 DEF ConflictExplained
  <1> QED BY <1>3, <1>4, <1>5, <1>6, <1>10, <1>11 DEF Objects

LEMMA ReturnStep ==
  ASSUME Objects, Running, FunctionReturns
  PROVE  Objects'
  <1>1. PICK o \in stack : stack' = stack \ {o}
    BY DEF FunctionReturns
  <1>u. /\ phase' = phase /\ todo' = todo /\ blocks' = blocks /\ map' = map /\ refused' = refused
        /\ globals' = globals /\ refused = None
    BY DEF FunctionReturns, tree, Running
  <1>2. Known' = Known /\ Registered' = Registered /\ Locals' \subseteq Locals
    BY <1>1, <1>u DEF Known, Registered, Locals
  <1>3. ObjectTypes'
    BY <1>1, <1>u DEF Objects, ObjectTypes
  <1>4. Disjoint'
    BY <1>u, SubsetDisjoint DEF Objects
  <1>5. Classes'
    BY <1>u, <1>2 DEF Objects, Classes, HeapObject
  <1>6. Blocks' /\ Stack' /\ Phases'
    BY <1>1, <1>u, <1>2 DEF Objects, Blocks, Stack, Phases
  <1>7. Tracked'
    BY <1>u, <1>2, NotFailed DEF Objects, Tracked
  <1>8. ConflictExplained'
    BY <1>u DEF ConflictExplained
  <1> QED BY <1>3, <1>4, <1>5, <1>6, <1>7, <1>8 DEF Objects

(* A static object is merged, by start-up or by instrumented code.         *)
LEMMA MergedStep ==
  ASSUME Objects, Running, NEW g \in Symbols \cup LibraryObjects,
         InsertMerge(g), globals' = globals \cup {g},
         UNCHANGED <<phase, blocks, stack>>, todo' \subseteq todo, Registered' = Registered,
         phase # "setup" => todo' = todo
  PROVE  Objects'
  <1>1. g \in Statics /\ map \subseteq Intervals /\ Disjoint /\ Classes
    BY DEF Statics, Objects, ObjectTypes
  <1>2. /\ map' \subseteq Intervals /\ Disjoint' /\ refused' = refused
        /\ map' \subseteq map \cup {g}
        /\ \A c \in map : InHeap(c) \/ StackObject(c) => c \in map'
        /\ \E c \in map' \cap Statics : Inside(g, c)
        /\ \A h \in Statics : (\E c \in map \cap Statics : Inside(h, c))
                                => \E c \in map' \cap Statics : Inside(h, c)
    BY <1>1, MergeStep
  <1>3. refused' = None
    BY <1>2 DEF Running
  <1>4. Known' = Known /\ Locals' = Locals
    BY DEF Known, Locals
  <1>5. ObjectTypes'
    BY <1>2 DEF Objects, ObjectTypes
  <1>6. Classes'
    BY <1>1, <1>2, <1>4 DEF Classes, HeapObject
  <1>7. Blocks' /\ Stack' /\ Phases'
    BY <1>1, <1>2 DEF Objects, Blocks, Stack, Phases
  <1>8. Tracked'
    <2>1. Locals \subseteq map /\ \A h \in globals : \E c \in map \cap Statics : Inside(h, c)
      BY NotFailed DEF Objects, Tracked
    <2>2. ASSUME NEW o \in Locals PROVE InHeap(o) \/ StackObject(o)
      <3>1. CASE o \in stack \cup Registered
        BY <3>1, ArgumentsOnStack DEF Objects, Stack, Registered
      <3>2. ASSUME NEW b \in Known, o = Interval(b) PROVE InHeap(o)
        <4>1. b \in blocks /\ o.base = b.base /\ o.bound = b.bound
          BY <3>2 DEF Known, Interval
        <4>2. /\ b.base \in Nat /\ b.bound \in Nat /\ b.end \in Nat
              /\ HeapArea.base \in Nat /\ HeapArea.bound \in Nat
          BY <4>1, Typed DEF Objects, ObjectTypes
        <4>3. /\ HeapArea.base <= b.base /\ b.bound <= b.end /\ b.base < b.end
              /\ b.end <= HeapArea.bound
          BY <4>1 DEF Objects, Blocks
        <4> QED BY <4>1, <4>2, <4>3 DEF InHeap, Inside
      <3> QED BY <3>1, <3>2 DEF Locals
    <2>3. globals' \subseteq Statics
      BY DEF Objects, ObjectTypes, Statics
    <2>4. Locals' \subseteq map'
      BY <1>2, <1>4, <2>1, <2>2
    <2>5. ASSUME NEW h \in globals' PROVE \E c \in map' \cap Statics : Inside(h, c)
      <3>1. h = g \/ h \in globals
        OBVIOUS
      <3> QED BY <1>2, <2>1, <2>3, <3>1
    <2> QED BY <2>4, <2>5 DEF Tracked
  <1>9. ConflictExplained'
    BY <1>3 DEF ConflictExplained
  <1> QED BY <1>2, <1>5, <1>6, <1>7, <1>8, <1>9 DEF Objects

LEMMA MergeGlobal ==
  ASSUME Objects, Running, NEW g \in Symbols \cup LibraryObjects, AllocOrMerge(g)
  PROVE  Objects'
  <1>1. CASE UNCHANGED <<tree, program>>
    BY <1>1, ProgramEnds
  <1>2. CASE /\ InsertMerge(g) /\ globals' = globals \cup {g}
             /\ UNCHANGED <<phase, todo, blocks, stack, failure>>
    <2>1. Registered' = Registered
      BY <1>2 DEF Registered
    <2> QED BY <1>2, <2>1, MergedStep
  <1> QED BY <1>1, <1>2 DEF AllocOrMerge

(* Start-up forgets the tree, and with it the blocks that it held.         *)
LEMMA SetupStep ==
  ASSUME Objects, Running, Setup
  PROVE  Objects'
  <1>1. /\ map' = {} /\ phase = "load" /\ phase' = "setup" /\ todo' = Symbols \cup Argv
        /\ blocks' = {[b EXCEPT !.known = FALSE] : b \in blocks} /\ globals' = {}
        /\ stack' = stack /\ refused' = refused /\ stack = {} /\ refused = None
    BY DEF Setup, Running, Objects, Phases
  <1>2. \A b \in blocks' : \E d \in blocks :
          /\ b.base = d.base /\ b.bound = d.bound /\ b.end = d.end /\ b.known = FALSE
          /\ b = [d EXCEPT !.known = FALSE]
    BY <1>1 DEF Objects, ObjectTypes
  <1>3. Known' = {} /\ Registered' = {} /\ Locals' = {}
    <2>1. Known' = {}
      BY <1>2 DEF Known
    <2>2. Registered' = {}
      BY <1>1 DEF Registered
    <2> QED BY <1>1, <2>1, <2>2 DEF Locals
  <1>4. ObjectTypes'
    <2>1. blocks' \subseteq [base : Addresses, bound : Addresses, end : Addresses, known : BOOLEAN]
      BY <1>1 DEF Objects, ObjectTypes
    <2> QED BY <1>1, <2>1 DEF Objects, ObjectTypes
  <1>5. Disjoint'
    BY <1>1, SubsetDisjoint DEF Objects
  <1>6. Classes' /\ Stack' /\ Phases' /\ Tracked' /\ ConflictExplained'
    BY <1>1, <1>3 DEF Classes, Stack, Phases, Tracked, ConflictExplained
  <1>7. Blocks'
    <2>1. \A b \in blocks' : /\ HeapArea.base <= b.base /\ b.end <= HeapArea.bound
                             /\ b.base <= b.bound /\ b.bound <= b.end /\ b.base < b.end
      BY <1>2 DEF Objects, Blocks
    <2>2. ASSUME NEW b \in blocks', NEW d \in blocks', b # d
          PROVE  b.end <= d.base \/ d.end <= b.base
      <3>1. PICK b1 \in blocks : b.base = b1.base /\ b.end = b1.end /\ b = [b1 EXCEPT !.known = FALSE]
        BY <1>2
      <3>2. PICK d1 \in blocks : d.base = d1.base /\ d.end = d1.end /\ d = [d1 EXCEPT !.known = FALSE]
        BY <1>2
      <3>3. b1 # d1
        BY <2>2, <3>1, <3>2
      <3> QED BY <3>1, <3>2, <3>3 DEF Objects, Blocks
    <2> QED BY <2>1, <2>2 DEF Blocks
  <1> QED BY <1>4, <1>5, <1>6, <1>7 DEF Objects

LEMMA SymbolStep ==
  ASSUME Objects, Running, NEW s \in todo, InsertSymbol(s)
  PROVE  Objects'
  <1>1. /\ s \in Symbols /\ phase = "setup" /\ todo' = todo \ {s} /\ InsertMerge(s)
        /\ globals' = globals \cup {s} /\ UNCHANGED <<phase, blocks, stack>>
    BY DEF InsertSymbol
  <1>2. s \notin Argv
    BY <1>1, ArgumentsOnStack, Typed
  <1>3. Registered' = Registered
    BY <1>1, <1>2 DEF Registered
  <1> QED BY <1>1, <1>3, MergedStep

(* No conflict at start-up: arguments lie apart, and nothing else is there. *)
LEMMA ArgumentStep ==
  ASSUME Objects, Running, NEW a \in todo, InsertArgument(a)
  PROVE  Objects'
  <1>1. /\ a \in Argv /\ a \in Intervals /\ phase = "setup" /\ todo' = todo \ {a} /\ InsertStrict(a)
        /\ phase' = phase /\ blocks' = blocks /\ stack' = stack /\ globals' = globals
    BY Typed DEF InsertArgument
  <1>2. M!Overlapping(a) = {}
    <2>1. ASSUME NEW c \in M!Overlapping(a) PROVE FALSE
      <3>1. c \in map /\ c \in Intervals /\ M!Overlap(c, a)
        BY DEF M!Overlapping, M!Overlap, Objects, ObjectTypes
      <3>2. c \in Statics \cup Registered
        BY <1>1, <3>1 DEF Objects, Phases
      <3>3. c \notin Statics
        BY <1>1, <3>1, ArgumentsOnStack, StackApart
      <3>4. c \in Argv /\ c # a
        BY <1>1, <3>2, <3>3 DEF Registered
      <3>5. c.bound <= a.base \/ a.bound <= c.base
        BY <1>1, <3>4, LayoutAssumption DEF Apart
      <3> QED BY <1>1, <3>1, <3>5, Typed DEF M!Overlap
    <2> QED BY <2>1
  <1>3. map' = map \cup {a} /\ refused' = None
    BY <1>1, <1>2 DEF InsertStrict, Running
  <1>4. Known' = Known /\ Registered' = Registered \cup {a} /\ Locals' = Locals \cup {a}
    <2>1. Known' = Known /\ Registered' = Registered \cup {a}
      BY <1>1 DEF Known, Registered
    <2> QED BY <1>1, <2>1 DEF Locals
  <1>5. ObjectTypes'
    BY <1>1, <1>3 DEF Objects, ObjectTypes
  <1>6. Disjoint'
    <2>1. \A d \in map : ~M!Overlap(d, a)
      BY <1>2 DEF M!Overlapping, M!Overlap
    <2> QED BY <1>3, <2>1, JoinsDisjoint DEF Objects
  <1>7. Classes'
    BY <1>1, <1>3, <1>4, ArgumentsOnStack DEF Objects, Classes, HeapObject
  <1>8. Blocks' /\ Stack' /\ Phases'
    BY <1>1, <1>3, <1>4 DEF Objects, Blocks, Stack, Phases
  <1>9. Tracked'
    <2>1. Locals \subseteq map /\ \A g \in globals : \E c \in map \cap Statics : Inside(g, c)
      BY NotFailed DEF Objects, Tracked
    <2> QED BY <1>1, <1>3, <1>4, <2>1 DEF Tracked
  <1>10. ConflictExplained'
    BY <1>3 DEF ConflictExplained
  <1> QED BY <1>5, <1>6, <1>7, <1>8, <1>9, <1>10 DEF Objects

LEMMA EnterStep ==
  ASSUME Objects, Running, Enter
  PROVE  Objects'
  <1>1. /\ phase = "setup" /\ todo = {} /\ phase' = "run" /\ map' = map /\ refused' = refused
        /\ todo' = todo /\ blocks' = blocks /\ stack' = stack /\ globals' = globals
        /\ refused = None
    BY DEF Enter, tree, Running
  <1>2. Known' = Known /\ Registered' = Registered /\ Locals' = Locals
    BY <1>1 DEF Known, Registered, Locals
  <1>3. ObjectTypes'
    BY <1>1 DEF Objects, ObjectTypes
  <1>4. Disjoint'
    BY <1>1, SubsetDisjoint DEF Objects
  <1>5. Classes'
    BY <1>1, <1>2 DEF Objects, Classes, HeapObject
  <1>6. Blocks' /\ Stack' /\ Phases'
    BY <1>1 DEF Objects, Blocks, Stack, Phases
  <1>7. Tracked' /\ ConflictExplained'
    BY <1>1, <1>2, NotFailed DEF Objects, Tracked, ConflictExplained
  <1> QED BY <1>3, <1>4, <1>5, <1>6, <1>7 DEF Objects

-----------------------------------------------------------------------------
(* Checks and queries                                                      *)

LEMMA CheckStep ==
  ASSUME Objects, Running, NEW witness \in Witnesses,
         \/ GetMaxByteOffset(witness)
         \/ \E ptr \in Witnesses :
              \/ CheckInbounds(witness, ptr)
              \/ \E size \in AccessSizes : CheckDereference(witness, ptr, size)
  PROVE  Objects' /\ failure' \in Failures \cup {None}
  <1> USE DEF Failures
  <1>1. CASE GetMaxByteOffset(witness)
    BY <1>1, LookUp, ProgramEnds DEF GetMaxByteOffset, Running
  <1>2. ASSUME NEW ptr \in Witnesses, CheckInbounds(witness, ptr)
        PROVE  Objects' /\ failure' \in Failures \cup {None}
    BY <1>2, LookUp, ProgramEnds DEF CheckInbounds
  <1>3. ASSUME NEW ptr \in Witnesses, NEW size \in AccessSizes, CheckDereference(witness, ptr, size)
        PROVE  Objects' /\ failure' \in Failures \cup {None}
    BY <1>3, LookUp, ProgramEnds DEF CheckDereference
  <1> QED BY <1>1, <1>2, <1>3

LEMMA OperationStep ==
  ASSUME Objects, Running, Operation
  PROVE  Objects'
  <1>1. ASSUME NEW size \in Requests, NEW b \in blocks, Realloc(b, size) PROVE Objects'
    BY <1>1, ReallocStep
  <1>2. CASE Unsupported
    BY <1>2, ProgramEnds DEF Unsupported
  <1>3. ASSUME NEW size \in Requests,
               \/ Malloc(size)
               \/ \E nmemb \in Members : Calloc(nmemb, size)
               \/ \E alignment \in Alignments : Memalign(alignment, size) \/ PosixMemalign(alignment, size)
        PROVE  Objects'
    BY <1>3, AllocationStep
  <1> QED BY <1>1, <1>2, <1>3, SetupStep, SymbolStep, ArgumentStep, EnterStep, FreeStep, ReplaceStep,
             ReturnStep, MergeGlobal, CheckStep DEF Operation

LEMMA OperationFails ==
  ASSUME Running, Objects, Operation
  PROVE  failure' \in Failures \cup {None}
  <1> USE DEF Failures, Running
  <1>1. ASSUME NEW size \in Requests, Malloc(size) PROVE failure' \in Failures \cup {None}
    BY <1>1 DEF Malloc, Allocated, OutOfMemory
  <1>2. ASSUME NEW size \in Requests, NEW nmemb \in Members, Calloc(nmemb, size)
        PROVE  failure' \in Failures \cup {None}
    BY <1>2 DEF Calloc, Allocated, OutOfMemory
  <1>3. ASSUME NEW size \in Requests, NEW alignment \in Alignments,
               Memalign(alignment, size) \/ PosixMemalign(alignment, size)
        PROVE  failure' \in Failures \cup {None}
    BY <1>3 DEF Memalign, PosixMemalign, Allocated, OutOfMemory
  <1>4. ASSUME NEW size \in Requests, NEW b \in blocks, Realloc(b, size)
        PROVE  failure' \in Failures \cup {None}
    BY <1>4 DEF Realloc
  <1>5. ASSUME NEW b \in blocks, FreeBlock(b) PROVE failure' \in Failures \cup {None}
    BY <1>5 DEF FreeBlock
  <1>6. CASE Unsupported
    BY <1>6 DEF Unsupported
  <1>7. ASSUME NEW new \in Intervals, AllocOrReplace(new) PROVE failure' \in Failures \cup {None}
    BY <1>7 DEF AllocOrReplace
  <1>8. CASE FunctionReturns
    BY <1>8 DEF FunctionReturns
  <1>9. ASSUME NEW g \in Symbols \cup LibraryObjects, AllocOrMerge(g)
        PROVE  failure' \in Failures \cup {None}
    BY <1>9 DEF AllocOrMerge
  <1>10. CASE UNCHANGED failure
    BY <1>10
  <1> QED BY <1>1, <1>2, <1>3, <1>4, <1>5, <1>6, <1>7, <1>8, <1>9, <1>10, CheckStep DEF Operation

(* A query that does not hit the cache answers with the object that holds  *)
(* the witness after the look-up.                                          *)
LEMMA LookedUp ==
  ASSUME Objects, Running, NEW witness \in Addresses, NEW n \in Nodes, GetNode(witness, n),
         refused' = None
  PROVE  /\ BoundsOf(n) \in Intervals
         /\ BoundsOf(n) \in IF M!Holding(witness)' = {} THEN {Wide} ELSE M!Holding(witness)'
  <1>1. /\ map' \subseteq Intervals
        /\ \/ n \in M!Holding(witness)'
           \/ n = Absent /\ M!Holding(witness)' = {}
    BY NodeStep DEF Objects, ObjectTypes, Running
  <1>2. CASE n \in M!Holding(witness)'
    <2>1. n \in map'
      BY <1>2 DEF M!Holding
    <2>2. n \in Intervals /\ n # Absent
      BY <1>1, <2>1, RuntimeAssumption
    <2> QED BY <1>2, <2>2 DEF BoundsOf
  <1>3. CASE n = Absent /\ M!Holding(witness)' = {}
    <2>1. Wide \in Intervals
      BY Typed, RuntimeAssumption DEF Wide, Addresses
    <2> QED BY <1>3, <2>1 DEF BoundsOf
  <1> QED BY <1>1, <1>2, <1>3

LEMMA NodeBounds ==
  ASSUME Objects, NEW n \in Nodes
  PROVE  BoundsOf(n) \in Intervals
  <1>1. Wide \in Intervals
    BY Typed, RuntimeAssumption DEF Wide, Addresses
  <1> QED BY <1>1, Typed DEF BoundsOf, Nodes, Objects, ObjectTypes

LEMMA LowerStep ==
  ASSUME Inductive, Running, asked = None, NEW witness \in Witnesses, GetLower(witness),
         UNCHANGED <<program, failure>>
  PROVE  Inductive'
  <1>1. witness \in Addresses /\ cache = None /\ 0 \in Addresses
    BY RuntimeAssumption DEF Inductive, Cached, Addresses
  <1>2. failure' \in Failures \cup {None} /\ failure' = None /\ refused = None /\ asked = None
    BY DEF Inductive, TypeOK, Running
  <1>3. CASE IsNull(witness)
    <2>1. /\ asked' = [witness |-> witness, lower |-> 0, upper |-> None]
          /\ UNCHANGED tree /\ cache' = None
      BY <1>1, <1>3 DEF GetLower, GetBound
    <2>2. Objects'
      BY <2>1, ProgramEnds DEF Inductive
    <2>3. asked' # None /\ asked'.witness = witness /\ asked'.lower = 0 /\ asked'.upper = None
      <3>1. asked' \in Answers
        BY <1>1, <2>1 DEF Answers
      <3> QED BY <2>1, <3>1, RuntimeAssumption
    <2>4. Cached'
      BY <1>3, <2>1, <2>3 DEF Cached, IsNull
    <2>5. PairsAgree'
      BY <1>3, <2>3 DEF PairsAgree, IsNull
    <2>6. TypeOK'
      BY <1>1, <1>2, <2>1, <2>2 DEF Objects, ObjectTypes, TypeOK, Answers
    <2> QED BY <2>2, <2>4, <2>5, <2>6 DEF Inductive
  <1>4. CASE ~IsNull(witness)
    <2>1. ~Hit(witness)
      BY <1>1 DEF Hit
    <2>2. PICK n \in Nodes :
            /\ GetNode(witness, n)
            /\ asked' = IF refused' = None
                        THEN [witness |-> witness, lower |-> BoundsOf(n).base, upper |-> None]
                        ELSE None
            /\ cache' = [witness |-> witness, base |-> BoundsOf(n).base, bound |-> BoundsOf(n).bound]
      BY <1>4, <2>1 DEF GetLower, GetBound
    <2>3. Objects'
      BY <2>2, LookUp DEF Inductive
    <2>4. BoundsOf(n).base \in Addresses /\ BoundsOf(n).bound \in Addresses
      BY NodeBounds DEF Inductive, Intervals
    <2>5. TypeOK'
      BY <1>1, <1>2, <2>2, <2>3, <2>4 DEF Objects, ObjectTypes, TypeOK, Answers, Entries
    <2>6. CASE refused' # None
      BY <2>2, <2>3, <2>5, <2>6 DEF Inductive, Cached, PairsAgree, Running
    <2>7. CASE refused' = None
      <3>1. BoundsOf(n) \in IF M!Holding(witness)' = {} THEN {Wide} ELSE M!Holding(witness)'
        BY <1>1, <2>2, <2>7, LookedUp DEF Inductive
      <3>2. /\ asked'.witness = witness /\ asked'.lower = BoundsOf(n).base /\ asked'.upper = None
            /\ cache'.witness = witness /\ cache'.base = BoundsOf(n).base
            /\ cache'.bound = BoundsOf(n).bound
        BY <2>2, <2>7
      <3>3. asked' # None /\ cache' # None
        BY <1>1, <2>2, <2>4, <2>7, RuntimeAssumption DEF Answers, Entries
      <3>4. Cached'
        BY <1>4, <3>1, <3>2, <3>3 DEF Cached, IsNull, M!Holding
      <3>5. PairsAgree'
        BY <1>4, <3>1, <3>2 DEF PairsAgree, IsNull, M!Holding
      <3> QED BY <2>3, <2>5, <3>4, <3>5 DEF Inductive
    <2> QED BY <2>6, <2>7
  <1> QED BY <1>3, <1>4

LEMMA UpperStep ==
  ASSUME Inductive, Running, asked # None, asked.upper = None, GetUpper(asked.witness),
         UNCHANGED <<program, failure>>
  PROVE  Inductive'
  <1> DEFINE witness == asked.witness
  <1>1. asked \in Answers /\ witness \in Addresses /\ asked.lower \in Addresses /\ 0 \in Addresses
    BY RuntimeAssumption DEF Inductive, TypeOK, Answers, Addresses
  <1>2. failure' = None /\ refused = None
    BY DEF Running
  <1>3. CASE IsNull(witness)
    <2>1. /\ asked' = [witness |-> witness, lower |-> asked.lower, upper |-> 0]
          /\ UNCHANGED tree /\ cache' = cache /\ cache = None
      BY <1>3 DEF GetUpper, GetBound, Inductive, Cached
    <2>2. Objects'
      BY <2>1, ProgramEnds DEF Inductive
    <2>3. asked' \in Answers /\ asked' # None /\ asked'.upper # None
      <3>1. asked' \in Answers
        BY <1>1, <2>1 DEF Answers
      <3> QED BY <1>1, <2>1, <3>1, RuntimeAssumption
    <2>4. Cached'
      BY <2>1, <2>3 DEF Cached
    <2>5. asked.lower = 0
      BY <1>3 DEF Inductive, PairsAgree
    <2>6. PairsAgree'
      BY <1>3, <2>1, <2>5 DEF PairsAgree, IsNull
    <2>7. TypeOK'
      BY <1>2, <2>1, <2>2, <2>3 DEF Objects, ObjectTypes, TypeOK
    <2> QED BY <2>2, <2>4, <2>6, <2>7 DEF Inductive
  <1>4. CASE ~IsNull(witness)
    <2>1. PICK c \in IF M!Holding(witness) = {} THEN {Wide} ELSE M!Holding(witness) :
            /\ asked.lower = c.base /\ cache.base = c.base /\ cache.bound = c.bound
            /\ cache # None /\ cache.witness = witness
      BY <1>4 DEF Inductive, Cached
    <2>2. Hit(witness)
      BY <2>1 DEF Hit
    <2>3. /\ asked' = [witness |-> witness, lower |-> asked.lower, upper |-> cache.bound]
          /\ UNCHANGED tree /\ cache' = None
      BY <1>4, <2>2 DEF GetUpper, GetBound, CacheAfterHit
    <2>4. Objects'
      BY <2>3, ProgramEnds DEF Inductive
    <2>5. cache.bound \in Addresses
      BY <2>1 DEF Inductive, TypeOK, Entries
    <2>6. asked' \in Answers /\ asked' # None /\ asked'.upper # None
      <3>1. asked' \in Answers
        BY <1>1, <2>3, <2>5 DEF Answers
      <3> QED BY <2>3, <2>5, <3>1, RuntimeAssumption
    <2>7. Cached'
      BY <2>3, <2>6 DEF Cached
    <2>8. PairsAgree'
      <3>1. M!Holding(witness)' = M!Holding(witness)
        BY <2>3 DEF tree, M!Holding
      <3>2. asked'.witness = witness /\ asked'.lower = asked.lower /\ asked'.upper = cache.bound
        BY <2>3
      <3> QED BY <1>4, <2>1, <3>1, <3>2 DEF PairsAgree, IsNull, M!Holding
    <2>9. TypeOK'
      BY <1>2, <2>3, <2>4, <2>6 DEF Objects, ObjectTypes, TypeOK
    <2> QED BY <2>4, <2>7, <2>8, <2>9 DEF Inductive
  <1> QED BY <1>3, <1>4

LEMMA UseStep ==
  ASSUME Inductive, Running, UseBounds, UNCHANGED <<program, failure>>
  PROVE  Inductive'
  <1>1. /\ cache = None /\ cache' = None /\ asked' = None /\ failure' = None
        /\ UNCHANGED tree
    BY DEF UseBounds, Inductive, Cached, Running
  <1>2. Objects'
    BY <1>1, ProgramEnds DEF Inductive
  <1> QED BY <1>1, <1>2 DEF Inductive, Objects, ObjectTypes, TypeOK, Cached, PairsAgree

LEMMA InitInductive == Init => Inductive
  <1> SUFFICES ASSUME Init PROVE Inductive
    OBVIOUS
  <1>1. Known = {} /\ Registered = {} /\ Locals = {}
    <2>1. Known = {} /\ Registered = {}
      BY DEF Init, Known, Registered
    <2> QED BY <2>1 DEF Init, Locals
  <1>2. ObjectTypes /\ TypeOK
    BY DEF Init, ObjectTypes, TypeOK
  <1>3. Disjoint /\ Classes /\ Blocks /\ Stack /\ Phases /\ Tracked /\ ConflictExplained
    BY <1>1 DEF Init, Disjoint, Classes, Blocks, Stack, Phases, Tracked, ConflictExplained
  <1> QED BY <1>2, <1>3 DEF Init, Inductive, Objects, Cached, PairsAgree

LEMMA StepInductive ==
  ASSUME Inductive, [Next]_vars
  PROVE  Inductive'
  <1>1. ASSUME Running, asked = None, Operation, UNCHANGED <<cache, asked>> PROVE Inductive'
    <2>1. Objects' /\ failure' \in Failures \cup {None}
      BY <1>1, OperationStep, OperationFails DEF Inductive
    <2>2. cache = None
      BY <1>1 DEF Inductive, Cached
    <2> QED BY <1>1, <2>1, <2>2 DEF Inductive, Objects, ObjectTypes, TypeOK, Cached, PairsAgree
  <1>2. ASSUME Running, AskBounds, UNCHANGED <<program, failure>> PROVE Inductive'
    BY <1>2, LowerStep, UpperStep DEF AskBounds
  <1>3. ASSUME Running, UseBounds, UNCHANGED <<program, failure>> PROVE Inductive'
    BY <1>3, UseStep
  <1>4. CASE UNCHANGED vars
    <2>u. /\ map' = map /\ phase' = phase /\ todo' = todo /\ blocks' = blocks /\ stack' = stack
          /\ globals' = globals /\ cache' = cache /\ asked' = asked /\ refused' = refused
          /\ failure' = failure
      BY <1>4 DEF vars
    <2>1. Known' = Known /\ Registered' = Registered /\ Locals' = Locals
      BY <2>u DEF Known, Registered, Locals
    <2>2. TypeOK' /\ ObjectTypes'
      BY <2>u DEF Inductive, Objects, TypeOK, ObjectTypes
    <2>3. Disjoint'
      BY <2>u, SubsetDisjoint DEF Inductive, Objects
    <2>4. Classes' /\ Blocks' /\ Stack' /\ Phases'
      BY <2>u, <2>1 DEF Inductive, Objects, Classes, HeapObject, Blocks, Stack, Phases
    <2>5. Tracked'
      BY <2>u, <2>1 DEF Inductive, Objects, Tracked
    <2>6. \A val : M!Holding(val)' = M!Holding(val) /\ M!Overlapping(val)' = M!Overlapping(val)
      BY <2>u DEF M!Holding, M!Overlapping
    <2>7. ConflictExplained'
      <3>1. M!Overlapping(refused)' = M!Overlapping(refused)
        BY <2>u DEF M!Overlapping
      <3> QED BY <2>u, <3>1 DEF Inductive, Objects, ConflictExplained
    <2>8. Cached'
      BY <2>u DEF Inductive, Cached, Running, M!Holding
    <2>9. PairsAgree'
      BY <2>u DEF Inductive, PairsAgree, M!Holding
    <2> QED BY <2>2, <2>3, <2>4, <2>5, <2>7, <2>8, <2>9 DEF Inductive, Objects
  <1> QED BY <1>1, <1>2, <1>3, <1>4 DEF Next

-----------------------------------------------------------------------------
LEMMA AlwaysInductive == Spec => []Inductive
  BY InitInductive, StepInductive, PTL DEF Spec

(* Every variable keeps its type: no operation of splay.c or libfunctions.c *)
(* leaves an interval outside the addresses, or a cache entry half filled.  *)
THEOREM TypeCorrect == Spec => []TypeOK
  <1>1. Inductive => TypeOK
    BY DEF Inductive
  <1> QED BY <1>1, AlwaysInductive, PTL

(* The tree has the exact bounds of every live block, stack object and     *)
(* argument, and covers every global (splay.c:431-520), for any layout in  *)
(* which overlapping static objects are nested.                            *)
THEOREM LiveObjectsTracked == Spec => []LiveTracked
  <1>1. Inductive => LiveTracked
    BY DEF Inductive, Objects, Tracked, LiveTracked, Inside
  <1> QED BY <1>1, AlwaysInductive, PTL

(* An address of the heap that the tree resolves belongs to a block that   *)
(* the program still owns (libfunctions.c:119, 206).                       *)
THEOREM FreedBlocksForgotten == Spec => []NoStaleHeap
  <1>1. ASSUME Inductive, NEW val \in HeapArea.base .. HeapArea.bound - 1, NEW c \in M!Holding(val)
        PROVE  \E b \in Known : Interval(b) = c
    <2>1. /\ c \in map /\ c \in Intervals /\ c.base <= val /\ val < c.bound
          /\ val \in Int /\ HeapArea.base <= val /\ val < HeapArea.bound
          /\ HeapArea.base \in Nat /\ HeapArea.bound \in Nat /\ c.base \in Nat /\ c.bound \in Nat
      BY <1>1, Typed DEF M!Holding, Inductive, Objects, ObjectTypes
    <2>2. c \notin Statics
      BY <2>1, LayoutAssumption DEF Apart
    <2>3. ~StackObject(c)
      BY <2>1, Typed, LayoutAssumption DEF Apart, StackObject, Inside
    <2>4. HeapObject(c) /\ c.base # c.bound
      BY <1>1, <2>1, <2>2, <2>3 DEF Inductive, Objects, Classes
    <2> QED BY <2>4 DEF HeapObject
  <1>2. Inductive => NoStaleHeap
    BY <1>1 DEF NoStaleHeap
  <1> QED BY <1>2, AlwaysInductive, PTL

(* The conflict of tree.c:327 needs an object of no bytes, or a file       *)
(* mapping around objects that were registered before it.                  *)
THEOREM ConflictsAreExplained == Spec => []ConflictExplained
  <1>1. Inductive => ConflictExplained
    BY DEF Inductive, Objects
  <1> QED BY <1>1, AlwaysInductive, PTL

LEMMA SumDoesNotWrap ==
  ASSUME NEW ptr \in Nat, NEW size \in Nat, ptr + size <= Top
  PROVE  (ptr + size) % (Top + 1) = ptr + size
  BY Typed

(* A dereference check through a live object passes exactly the accesses   *)
(* inside it (splay.c:302), as long as ptr + size does not wrap.           *)
THEOREM ChecksAreExact == Spec => []ChecksExact
  <1>1. ASSUME Inductive, refused = None /\ failure # "null allocation",
               NEW o \in Locals, NEW witness \in o.base .. o.bound - 1,
               NEW ptr \in Addresses, NEW size \in AccessSizes, ptr + size <= Top
        PROVE  (\E n \in M!Holding(witness) : Outside(n, ptr, size))
                 <=> (ptr < o.base \/ ptr + size > o.bound)
    <2>1. o \in map /\ o \in Intervals /\ map \subseteq Intervals /\ Disjoint
      BY <1>1 DEF Inductive, Objects, ObjectTypes, Tracked
    <2>2. o.base \in Nat /\ o.bound \in Nat /\ witness \in Nat /\ o.base <= witness /\ witness < o.bound
      BY <2>1, Typed
    <2>3. o \in M!Holding(witness)
      BY <2>1, <2>2 DEF M!Holding
    <2>4. \A n \in M!Holding(witness) : n = o
      BY <2>1, <2>2, <2>3, OneHolds
    <2>5. ptr \in Nat /\ size \in Nat /\ (ptr + size) % (Top + 1) = ptr + size
      BY <1>1, Typed, RuntimeAssumption, SumDoesNotWrap
    <2>6. Outside(o, ptr, size) <=> (ptr < o.base \/ ptr + size > o.bound)
      BY <2>5 DEF Outside
    <2> QED BY <2>3, <2>4, <2>6
  <1>2. Inductive => ChecksExact
    BY <1>1 DEF ChecksExact
  <1> QED BY <1>2, AlwaysInductive, PTL

(* The two answers of a pair of bounds queries are those of one object,    *)
(* the one that holds the witness now (splay.c:346-416).                   *)
THEOREM PairsBelongTogether == Spec => []PairsAgree
  <1>1. Inductive => PairsAgree
    BY DEF Inductive
  <1> QED BY <1>1, AlwaysInductive, PTL
=============================================================================
