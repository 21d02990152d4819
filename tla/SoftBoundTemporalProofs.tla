------------------------ MODULE SoftBoundTemporalProofs ------------------------
(***************************************************************************)
(* Proofs about SoftBoundTemporal, for every number of locks, of entries   *)
(* of the free map, of keys and of addresses.                              *)
(***************************************************************************)
EXTENDS SoftBoundTemporal, FiniteSetTheorems, WellFoundedInduction, SequenceTheorems, TLAPS

Places == 0 .. FreeMapEntries - 1
Maps == [Places -> {0, 2} \cup Addresses]
Frame == [key : Nat, lock : Nat]

(* Functions that run have the locks from the first on, in their order,    *)
(* and no lock above holds a key.                                          *)
FramesPlaced ==
  /\ Len(frames) <= StackEntries
  /\ stopped = "no" => stackTop = Len(frames)
  /\ \A i \in 1 .. Len(frames) :
       /\ frames[i].lock = i - 1
       /\ frames[i].key \in FirstKey .. keyCounter - 1
       /\ stackLocks[i - 1] = frames[i].key
  /\ \A i, j \in 1 .. Len(frames) : i < j => frames[i].key # frames[j].key
  /\ \A l \in 0 .. StackEntries - 1 : l >= Len(frames) => stackLocks[l] = 0

(* No running function has the key of one that returned. *)
ReturnedApart ==
  \A f \in returned :
    /\ f.key \in FirstKey .. keyCounter - 1 /\ f.lock \in 0 .. StackEntries - 1
    /\ \A i \in 1 .. Len(frames) : frames[i].key # f.key

(* Locks of blocks are below the next one and hold the blocks' keys. *)
BlocksLocked ==
  \A block \in blocks :
    /\ block.lock < newLocation /\ block.lock < LockEntries
    /\ heapLocks[block.lock] = block.key

(* A probe for the pointer reaches it before it meets an empty entry. *)
Reachable(map, key, addr) ==
  \E d \in Distances :
    /\ map[Index(key, d)] = addr
    /\ \A e \in Distances : e < d => map[Index(key, e)] # 0

BlocksMapped ==
  /\ \A b, c \in blocks : b.addr = c.addr => b = c
  /\ stopped = "no" => \A block \in blocks : Reachable(freeMap, block.key, block.addr)

(* Every lock handed out went with an entry that is still in use. *)
Filled(map) == {i \in Places : map[i] \notin {0, 2}}
LocksCounted == stopped = "no" => newLocation <= Cardinality(Filled(freeMap))

IInv == TypeOK /\ FramesPlaced /\ ReturnedApart /\ BlocksLocked /\ BlocksMapped /\ LocksCounted

-----------------------------------------------------------------------------
(* Probing *)

(* A set of numbers that is not empty has a least one, which Min gives. *)
LEMMA LeastNumber ==
  ASSUME NEW S \in SUBSET Nat, S # {}
  PROVE  Min(S) \in S /\ \A x \in S : Min(S) <= x
<1>1. PICK x \in S : \A y \in S : ~ (<<y, x>> \in OpToRel(<, Nat))
  BY NatLessThanWellFounded, WFMin, Zenon
<1>2. \A y \in S : <<y, x>> \in OpToRel(<, Nat) <=> y < x
  BY DEF OpToRel
<1>3. \A y \in S : x <= y
  <2>1. TAKE y \in S
  <2>2. ~ (y < x)
    BY <1>1, <1>2
  <2>3. y \in Nat /\ x \in Nat
    OBVIOUS
  <2> QED BY <2>2, <2>3
<1> QED
  BY <1>3 DEF Min

(* Probing stays inside the map. *)
LEMMA IndexInMap ==
  ASSUME NEW key \in Nat, NEW d \in Distances
  PROVE  Index(key, d) \in Places
BY TemporalAssumption DEF Index, Distances, Places

(* Where a probe ends: at the nearest entry with one of the tags. *)
LEMMA ProbeEnds ==
  ASSUME NEW map, NEW key \in Nat, NEW tags
  PROVE  \/ /\ Probe(map, key, tags) = {}
            /\ \A d \in Distances : map[Index(key, d)] \notin tags
         \/ \E d \in Distances :
              /\ Probe(map, key, tags) = {Index(key, d)}
              /\ map[Index(key, d)] \in tags
              /\ \A e \in Distances : e < d => map[Index(key, e)] \notin tags
<1> DEFINE hits == {d \in Distances : map[Index(key, d)] \in tags}
<1>1. CASE hits = {}
  BY <1>1 DEF Probe
<1>2. CASE hits # {}
  <2>1. hits \in SUBSET Nat
    BY TemporalAssumption DEF Distances
  <2>2. Min(hits) \in hits /\ \A x \in hits : Min(hits) <= x
    <3> HIDE DEF hits
    <3> QED BY <1>2, <2>1, LeastNumber
  <2>3. \A e \in Distances : e < Min(hits) => map[Index(key, e)] \notin tags
    <3>1. SUFFICES ASSUME NEW e \in Distances, e < Min(hits), e \in hits PROVE FALSE
      OBVIOUS
    <3>2. e \in Nat /\ Min(hits) \in Nat
      BY <2>1, <2>2, <3>1
    <3> QED BY <2>2, <3>1, <3>2
  <2>4. Probe(map, key, tags) = {Index(key, Min(hits))}
    BY <1>2 DEF Probe
  <2> QED BY <2>2, <2>3, <2>4
<1> QED BY <1>1, <1>2

(* A pointer that is reachable is found, and at once. *)
LEMMA ReachableFound ==
  ASSUME NEW key \in Nat, NEW addr, addr # 0, Reachable(freeMap, key, addr)
  PROVE  FoundAtOnce(key, addr)
<1>1. PICK d \in Distances : /\ freeMap[Index(key, d)] = addr
                             /\ \A e \in Distances : e < d => freeMap[Index(key, e)] # 0
  BY DEF Reachable
<1>2. Distances \subseteq Nat
  BY TemporalAssumption DEF Distances
<1>3. PICK f \in Distances : /\ Found(key, addr) = {Index(key, f)}
                             /\ freeMap[Index(key, f)] = addr
                             /\ \A e \in Distances : e < f => freeMap[Index(key, e)] # addr
  BY <1>1, ProbeEnds DEF Found
<1>4. f <= d
  BY <1>1, <1>2, <1>3
<1>5. PICK g \in Distances : /\ Probe(freeMap, key, {0, addr}) = {Index(key, g)}
                             /\ freeMap[Index(key, g)] \in {0, addr}
                             /\ \A e \in Distances : e < g => freeMap[Index(key, e)] \notin {0, addr}
  BY <1>1, ProbeEnds
<1>6. g <= f
  BY <1>2, <1>3, <1>5
<1>7. freeMap[Index(key, g)] = addr
  <2>1. CASE g = d BY <1>1, <2>1
  <2>2. CASE g < d BY <1>1, <1>5, <2>2
  <2> QED BY <1>2, <1>4, <1>6, <2>1, <2>2
<1>8. g = f
  BY <1>2, <1>3, <1>6, <1>7
<1> QED
  BY <1>3, <1>5, <1>8 DEF FoundAtOnce

-----------------------------------------------------------------------------
(* The free map *)

(* An insertion that succeeds puts the pointer in a vacant entry that it   *)
(* reaches before any empty one.                                           *)
LEMMA AddsOne ==
  ASSUME NEW map \in Maps, NEW key \in Nat, NEW addr \in Addresses \cup {NULL},
         stopped = "no", AddToFreeMap(map, key, addr)
  PROVE  /\ freeMap' \in Maps
         /\ stopped' = "no" =>
              /\ addr \in Addresses
              /\ \E d \in Distances :
                   /\ Index(key, d) \in Places /\ map[Index(key, d)] \in {0, 2}
                   /\ freeMap' = [map EXCEPT ![Index(key, d)] = addr]
                   /\ \A e \in Distances : e < d => map[Index(key, e)] # 0
<1>1. CASE addr = NULL
  BY <1>1 DEF AddToFreeMap, Stop
<1>2. CASE addr # NULL /\ Vacant(map, key) = {}
  BY <1>2 DEF AddToFreeMap, Stop
<1>3. CASE addr # NULL /\ Vacant(map, key) # {}
  <2>1. PICK d \in Distances : /\ Vacant(map, key) = {Index(key, d)}
                               /\ map[Index(key, d)] \in {0, 2}
                               /\ \A e \in Distances : e < d => map[Index(key, e)] \notin {0, 2}
    BY <1>3, ProbeEnds DEF Vacant, Removed
  <2>2. freeMap' = [map EXCEPT ![Index(key, d)] = addr]
    BY <1>3, <2>1 DEF AddToFreeMap
  <2>3. Index(key, d) \in Places
    BY IndexInMap
  <2> QED BY <1>3, <2>1, <2>2, <2>3 DEF Maps, NULL
<1> QED BY <1>1, <1>2, <1>3

(* A removal changes one entry, which held the pointer. *)
LEMMA RemovesOne ==
  ASSUME freeMap \in Maps, NEW key \in Nat, NEW addr, Found(key, addr) # {}
  PROVE  /\ RemovedFromFreeMap(key, addr) \in Maps
         /\ \E i \in Places : /\ freeMap[i] = addr
                             /\ RemovedFromFreeMap(key, addr) = [freeMap EXCEPT ![i] = 2]
<1>1. PICK d \in Distances : Found(key, addr) = {Index(key, d)} /\ freeMap[Index(key, d)] = addr
  BY ProbeEnds DEF Found
<1>2. Index(key, d) \in Places
  BY IndexInMap
<1>3. RemovedFromFreeMap(key, addr) = [freeMap EXCEPT ![Index(key, d)] = 2]
  BY <1>1 DEF RemovedFromFreeMap, Maps, Removed
<1> QED BY <1>1, <1>2, <1>3 DEF Maps

(* A pointer stays reachable while its entry is kept and no entry becomes  *)
(* empty.                                                                  *)
LEMMA StaysReachable ==
  ASSUME NEW map \in Maps, NEW key \in Nat, NEW addr, Reachable(map, key, addr),
         NEW place \in Places, NEW value, map[place] # addr, value # 0
  PROVE  Reachable([map EXCEPT ![place] = value], key, addr)
<1>1. PICK d \in Distances : /\ map[Index(key, d)] = addr
                             /\ \A e \in Distances : e < d => map[Index(key, e)] # 0
  BY DEF Reachable
<1> DEFINE new == [map EXCEPT ![place] = value]
<1>2. \A e \in Distances : /\ Index(key, e) \in Places
                           /\ new[Index(key, e)] = IF Index(key, e) = place THEN value ELSE map[Index(key, e)]
  BY IndexInMap DEF Maps
<1>3. new[Index(key, d)] = addr
  BY <1>1, <1>2
<1>4. \A e \in Distances : e < d => new[Index(key, e)] # 0
  BY <1>1, <1>2
<1> QED BY <1>3, <1>4 DEF Reachable

(* What an insertion makes reachable *)
LEMMA ReachesAdded ==
  ASSUME NEW map \in Maps, NEW key \in Nat, NEW addr, NEW d \in Distances,
         Index(key, d) \in Places, addr # 0,
         \A e \in Distances : e < d => map[Index(key, e)] # 0
  PROVE  Reachable([map EXCEPT ![Index(key, d)] = addr], key, addr)
<1> DEFINE new == [map EXCEPT ![Index(key, d)] = addr]
<1>1. new[Index(key, d)] = addr
  BY DEF Maps
<1>2. \A e \in Distances : e < d => new[Index(key, e)] # 0
  BY IndexInMap DEF Maps
<1> QED BY <1>1, <1>2 DEF Reachable

(* Counting entries in use *)
LEMMA FilledBounded ==
  ASSUME NEW map
  PROVE  /\ IsFiniteSet(Filled(map)) /\ Cardinality(Filled(map)) \in Nat
         /\ Cardinality(Filled(map)) <= FreeMapEntries
<1>1. IsFiniteSet(Places) /\ Cardinality(Places) = FreeMapEntries
  BY FS_Interval, TemporalAssumption DEF Places
<1> QED BY <1>1, FS_Subset, FS_CardinalityType DEF Filled

(* An insertion uses one entry more. *)
LEMMA AddingFills ==
  ASSUME NEW map \in Maps, NEW i \in Places, map[i] \in {0, 2}, NEW addr \in Addresses
  PROVE  Cardinality(Filled([map EXCEPT ![i] = addr])) = Cardinality(Filled(map)) + 1
<1>1. Filled([map EXCEPT ![i] = addr]) = Filled(map) \cup {i}
  BY TemporalAssumption DEF Filled, Maps
<1>2. i \notin Filled(map)
  BY DEF Filled
<1> QED BY <1>1, <1>2, FilledBounded, FS_AddElement

(* A removal uses at most one entry less. *)
LEMMA RemovingFrees ==
  ASSUME NEW map \in Maps, NEW i \in Places
  PROVE  Cardinality(Filled([map EXCEPT ![i] = 2])) >= Cardinality(Filled(map)) - 1
<1>1. Filled([map EXCEPT ![i] = 2]) = Filled(map) \ {i}
  BY DEF Filled, Maps
<1> DEFINE old == Filled(map)
<1>2. IsFiniteSet(old) /\ Cardinality(old) \in Nat
  BY FilledBounded
<1>3. Cardinality(old \ {i}) = IF i \in old THEN Cardinality(old) - 1 ELSE Cardinality(old)
  BY <1>2, FS_RemoveElement
<1>4. Cardinality(old \ {i}) >= Cardinality(old) - 1
  <2> HIDE DEF old
  <2> QED BY <1>2, <1>3
<1> QED BY <1>1, <1>4

-----------------------------------------------------------------------------
(* What an allocation and a move leave in the free map *)

(* Other pointers stay reachable, the new one becomes so, and one entry    *)
(* more is in use.                                                         *)
LEMMA AddKeeps ==
  ASSUME NEW map \in Maps, NEW key \in Nat, NEW addr \in Addresses \cup {NULL},
         stopped = "no", AddToFreeMap(map, key, addr), stopped' = "no"
  PROVE  /\ addr \in Addresses
         /\ Cardinality(Filled(freeMap')) = Cardinality(Filled(map)) + 1
         /\ Reachable(freeMap', key, addr)
         /\ \A k \in Nat, a \in Addresses : Reachable(map, k, a) => Reachable(freeMap', k, a)
<1>1. PICK d \in Distances :
        /\ addr \in Addresses
        /\ Index(key, d) \in Places /\ map[Index(key, d)] \in {0, 2}
        /\ freeMap' = [map EXCEPT ![Index(key, d)] = addr]
        /\ \A e \in Distances : e < d => map[Index(key, e)] # 0
  BY AddsOne
<1>2. addr # 0 /\ \A a \in Addresses : a \notin {0, 2}
  BY <1>1, TemporalAssumption
<1>3. Cardinality(Filled(freeMap')) = Cardinality(Filled(map)) + 1
  BY <1>1, AddingFills
<1>4. Reachable(freeMap', key, addr)
  BY <1>1, <1>2, ReachesAdded
<1>5. ASSUME NEW k \in Nat, NEW a \in Addresses, Reachable(map, k, a)
      PROVE  Reachable(freeMap', k, a)
  BY <1>1, <1>2, <1>5, StaysReachable
<1> QED BY <1>1, <1>3, <1>4, <1>5

(* As many entries as before stay in use, and every pointer but the moved  *)
(* one stays reachable.                                                    *)
LEMMA MoveKeeps ==
  ASSUME freeMap \in Maps, stopped = "no", NEW key \in Nat, NEW from,
         NEW dest \in Addresses \cup {NULL}, Move(key, from, dest)
  PROVE  /\ freeMap' \in Maps
         /\ stopped' = "no" =>
              /\ dest \in Addresses
              /\ Cardinality(Filled(freeMap')) >= Cardinality(Filled(freeMap))
              /\ Reachable(freeMap', key, dest)
              /\ \A k \in Nat, a \in Addresses \ {from} :
                   Reachable(freeMap, k, a) => Reachable(freeMap', k, a)
<1>1. CASE Found(key, from) = {}
  BY <1>1 DEF Move, Stop
<1>2. CASE Found(key, from) # {}
  <2> DEFINE map == RemovedFromFreeMap(key, from)
  <2>1. map \in Maps /\ AddToFreeMap(map, key, dest)
    BY <1>2, RemovesOne DEF Move
  <2>2. PICK i \in Places : freeMap[i] = from /\ map = [freeMap EXCEPT ![i] = 2]
    BY <1>2, RemovesOne
  <2>3. ASSUME NEW k \in Nat, NEW a \in Addresses \ {from}, Reachable(freeMap, k, a)
        PROVE  Reachable(map, k, a)
    <3>1. freeMap[i] # a /\ k \in Nat /\ 2 # 0
      BY <2>2, <2>3
    <3>2. Reachable([freeMap EXCEPT ![i] = 2], k, a)
      BY <2>2, <2>3, <3>1, StaysReachable
    <3> QED BY <2>2, <3>2
  <2>4. Cardinality(Filled(map)) >= Cardinality(Filled(freeMap)) - 1
    BY <2>2, RemovingFrees
  <2>5. Cardinality(Filled(map)) \in Nat /\ Cardinality(Filled(freeMap)) \in Nat
    BY FilledBounded
  <2>6. freeMap' \in Maps
    <3> HIDE DEF map
    <3> QED BY <2>1, AddsOne
  <2>7. ASSUME stopped' = "no"
        PROVE  /\ dest \in Addresses
               /\ Cardinality(Filled(freeMap')) = Cardinality(Filled(map)) + 1
               /\ Reachable(freeMap', key, dest)
               /\ \A k \in Nat, a \in Addresses : Reachable(map, k, a) => Reachable(freeMap', k, a)
    <3> HIDE DEF map
    <3> QED BY <2>1, <2>7, AddKeeps
  <2> HIDE DEF map
  <2> QED BY <2>3, <2>4, <2>5, <2>6, <2>7
<1> QED BY <1>1, <1>2

-----------------------------------------------------------------------------
(* The inductive invariant: initial states *)

(* No function runs, no block lives, all locks and entries are empty. *)
LEMMA InitEstablishes ==
  ASSUME Init
  PROVE  IInv
<1>1. TypeOK
  BY TemporalAssumption, EmptySeq DEF Init, TypeOK, FirstKey
<1>2. FramesPlaced
  BY TemporalAssumption DEF Init, FramesPlaced
<1>3. ReturnedApart /\ BlocksLocked /\ BlocksMapped
  BY DEF Init, ReturnedApart, BlocksLocked, BlocksMapped
<1>4. LocksCounted
  BY FilledBounded DEF Init, LocksCounted
<1> QED BY <1>1, <1>2, <1>3, <1>4 DEF IInv

-----------------------------------------------------------------------------
(* Functions *)

(* What happens to functions does not concern the blocks. *)
LEMMA BlocksUntouched ==
  ASSUME IInv, UNCHANGED <<table, blocks>>, stopped' = "no" => stopped = "no"
  PROVE  BlocksLocked' /\ BlocksMapped' /\ LocksCounted'
<1>1. /\ newLocation' = newLocation /\ heapLocks' = heapLocks
      /\ freeMap' = freeMap /\ blocks' = blocks
  BY DEF table
<1>2. BlocksLocked'
  BY <1>1 DEF IInv, BlocksLocked
<1>3. BlocksMapped'
  <2>1. \A b, c \in blocks' : b.addr = c.addr => b = c
    BY <1>1 DEF IInv, BlocksMapped
  <2>2. ASSUME stopped' = "no", NEW block \in blocks'
        PROVE  Reachable(freeMap', block.key, block.addr)
    BY <1>1, <2>2 DEF IInv, BlocksMapped
  <2> QED BY <2>1, <2>2 DEF BlocksMapped
<1>4. LocksCounted'
  BY <1>1 DEF IInv, LocksCounted
<1> QED BY <1>2, <1>3, <1>4

(* A function gets the next lock and a fresh key. *)
LEMMA EnterKeeps ==
  ASSUME IInv, stopped = "no", StackMemoryAllocation
  PROVE  IInv'
<1> USE DEF FirstKey
<1>0. MaxKeys \in Nat /\ StackEntries \in Nat
  BY TemporalAssumption
<1>1. /\ keyCounter \in Nat /\ keyCounter >= 2 /\ keyCounter <= MaxKeys /\ keyCounter' = keyCounter + 1
      /\ stackTop = Len(frames) /\ stackTop' = stackTop + 1
      /\ Len(frames) \in Nat /\ Len(frames) <= StackEntries
      /\ frames \in Seq(Frame) /\ stackLocks \in [0 .. StackEntries - 1 -> Nat]
      /\ MaxKeys \in Nat /\ StackEntries \in Nat
  <2>1. keyCounter <= MaxKeys /\ keyCounter' = keyCounter + 1 /\ stackTop' = stackTop + 1
    BY DEF StackMemoryAllocation
  <2>2. stackTop = Len(frames) /\ Len(frames) <= StackEntries
    BY DEF IInv, FramesPlaced
  <2>3. /\ keyCounter \in 2 .. MaxKeys + 1 /\ stackLocks \in [0 .. StackEntries - 1 -> Nat]
        /\ frames \in Seq(Frame)
    BY DEF IInv, TypeOK, Frame
  <2>4. Len(frames) \in Nat
    BY <2>3
  <2> QED BY <1>0, <2>1, <2>2, <2>3, <2>4
<1>u. /\ UNCHANGED <<table, blocks, returned>> /\ returned' = returned
      /\ newLocation' = newLocation /\ heapLocks' = heapLocks
      /\ freeMap' = freeMap /\ blocks' = blocks
  BY DEF StackMemoryAllocation, table
<1>2. BlocksLocked' /\ BlocksMapped' /\ LocksCounted'
  BY <1>u, BlocksUntouched
<1>3. CASE stackTop \in DOMAIN stackLocks
  <2> DEFINE frame == [key |-> keyCounter, lock |-> stackTop]
  <2>1. /\ stackLocks' = [stackLocks EXCEPT ![stackTop] = keyCounter]
        /\ frames' = Append(frames, frame) /\ stopped' = stopped
    BY <1>3 DEF StackMemoryAllocation
  <2>2. frame \in Frame /\ frame.key = keyCounter /\ frame.lock = stackTop
    BY <1>1 DEF Frame
  <2>3. stackTop < StackEntries /\ stackTop \in 0 .. StackEntries - 1
    BY <1>1, <1>3
  <2>4. /\ frames' \in Seq(Frame) /\ Len(frames') = Len(frames) + 1
        /\ \A i \in 1 .. Len(frames) : frames'[i] = frames[i]
        /\ frames'[Len(frames) + 1] = frame
    <3> HIDE DEF frame
    <3> QED BY <1>1, <2>1, <2>2, AppendProperties
  <2>5. stackLocks' \in [0 .. StackEntries - 1 -> Nat]
    BY <1>1, <2>1
  <2>6. TypeOK'
    <3>1. keyCounter' \in 2 .. MaxKeys + 1 /\ stackTop' \in 0 .. StackEntries + 1
      BY <1>1
    <3> QED BY <1>u, <2>4, <2>5, <3>1 DEF IInv, TypeOK, Frame
  <2>7. FramesPlaced'
    <3>1. Len(frames') <= StackEntries /\ stackTop' = Len(frames')
      BY <1>1, <2>3, <2>4
    <3>2. ASSUME NEW i \in 1 .. Len(frames')
          PROVE  /\ frames'[i].lock = i - 1 /\ frames'[i].key \in 2 .. keyCounter' - 1
                 /\ stackLocks'[i - 1] = frames'[i].key
      <4>1. CASE i = Len(frames) + 1
        BY <1>1, <2>1, <2>2, <2>3, <2>4, <4>1
      <4>2. CASE i \in 1 .. Len(frames)
        <5>1. /\ frames[i].lock = i - 1 /\ frames[i].key \in 2 .. keyCounter - 1
              /\ stackLocks[i - 1] = frames[i].key
          BY <4>2 DEF IInv, FramesPlaced
        <5>2. stackLocks'[i - 1] = stackLocks[i - 1]
          BY <1>1, <2>1, <4>2
        <5> QED BY <1>1, <2>4, <4>2, <5>1, <5>2
      <4> QED BY <1>1, <2>4, <4>1, <4>2
    <3>3. ASSUME NEW i \in 1 .. Len(frames'), NEW j \in 1 .. Len(frames'), i < j
          PROVE  frames'[i].key # frames'[j].key
      <4>1. i \in 1 .. Len(frames) /\ frames'[i].key \in 2 .. keyCounter - 1
        BY <1>1, <2>4, <3>3 DEF IInv, FramesPlaced
      <4>2. CASE j = Len(frames) + 1
        BY <1>1, <2>2, <2>4, <4>1, <4>2
      <4>3. CASE j \in 1 .. Len(frames)
        BY <2>4, <3>3, <4>1, <4>3 DEF IInv, FramesPlaced
      <4> QED BY <1>1, <2>4, <4>2, <4>3
    <3>4. ASSUME NEW l \in 0 .. StackEntries - 1, l >= Len(frames')
          PROVE  stackLocks'[l] = 0
      BY <1>1, <2>1, <2>4, <3>4 DEF IInv, FramesPlaced
    <3> QED BY <3>1, <3>2, <3>3, <3>4 DEF FramesPlaced
  <2>8. ReturnedApart'
    <3>1. ASSUME NEW f \in returned', NEW i \in 1 .. Len(frames')
          PROVE  frames'[i].key # f.key
      <4>1. f.key \in 2 .. keyCounter - 1
        BY <1>u DEF IInv, ReturnedApart
      <4>2. CASE i = Len(frames) + 1
        BY <1>1, <2>2, <2>4, <4>1, <4>2
      <4>3. CASE i \in 1 .. Len(frames)
        BY <1>u, <2>4, <4>3 DEF IInv, ReturnedApart
      <4> QED BY <1>1, <2>4, <4>2, <4>3
    <3>2. ASSUME NEW f \in returned'
          PROVE  f.key \in 2 .. keyCounter' - 1 /\ f.lock \in 0 .. StackEntries - 1
      BY <1>1, <1>u DEF IInv, ReturnedApart
    <3> QED BY <3>1, <3>2 DEF ReturnedApart
  <2> QED BY <1>2, <2>6, <2>7, <2>8 DEF IInv
<1>4. CASE stackTop \notin DOMAIN stackLocks
  <2>1. /\ stopped' = "past the stack locks"
        /\ stackLocks' = stackLocks /\ frames' = frames
    BY <1>4 DEF StackMemoryAllocation, Stop
  <2>2. TypeOK'
    <3>1. keyCounter' \in 2 .. MaxKeys + 1 /\ stackTop' \in 0 .. StackEntries + 1
      BY <1>1
    <3> QED BY <1>u, <2>1, <3>1 DEF IInv, TypeOK
  <2>3. FramesPlaced'
    <3>1. \A i \in 1 .. Len(frames) : frames[i].key \in 2 .. keyCounter' - 1
      BY <1>1 DEF IInv, FramesPlaced
    <3> QED BY <2>1, <3>1 DEF IInv, FramesPlaced
  <2>4. ReturnedApart'
    <3>1. \A f \in returned : f.key \in 2 .. keyCounter' - 1
      BY <1>1 DEF IInv, ReturnedApart
    <3> QED BY <1>u, <2>1, <3>1 DEF IInv, ReturnedApart
  <2> QED BY <1>2, <2>2, <2>3, <2>4 DEF IInv
<1> QED BY <1>3, <1>4

(* The lock of the function that returns is cleared. *)
LEMMA ReturnKeeps ==
  ASSUME IInv, stopped = "no", StackMemoryDeallocation
  PROVE  IInv'
<1> USE DEF FirstKey
<1> DEFINE n == Len(frames)
<1>1. /\ frames \in Seq(Frame) /\ frames # <<>> /\ n \in Nat \ {0} /\ n <= StackEntries
      /\ stackTop = n /\ stackTop' = n - 1
      /\ stackLocks \in [0 .. StackEntries - 1 -> Nat] /\ StackEntries \in Nat
  BY TemporalAssumption, EmptySeq DEF IInv, TypeOK, FramesPlaced, StackMemoryDeallocation, Below, Frame
<1>u. /\ UNCHANGED <<table, blocks>> /\ keyCounter' = keyCounter /\ stopped' = stopped
      /\ newLocation' = newLocation /\ heapLocks' = heapLocks
      /\ freeMap' = freeMap /\ blocks' = blocks
  BY DEF StackMemoryDeallocation, table
<1>2. BlocksLocked' /\ BlocksMapped' /\ LocksCounted'
  BY <1>u, BlocksUntouched
<1>3. /\ stackLocks' = [stackLocks EXCEPT ![n - 1] = 0]
      /\ stackLocks' \in [0 .. StackEntries - 1 -> Nat]
  BY <1>1 DEF StackMemoryDeallocation, Cleared, Below
<1>4. /\ frames' \in Seq(Frame) /\ Len(frames') = n - 1
      /\ \A i \in 1 .. n - 1 : frames'[i] = frames[i]
  <2>1. frames' = SubSeq(frames, 1, n - 1)
    BY DEF StackMemoryDeallocation
  <2> QED BY <1>1, <2>1
<1>5. /\ returned' = returned \cup {frames[n]} /\ frames[n] \in Frame
      /\ frames[n].lock = n - 1 /\ frames[n].key \in 2 .. keyCounter - 1
  BY <1>1 DEF StackMemoryDeallocation, IInv, FramesPlaced
<1>6. TypeOK'
  <2>1. stackTop' \in 0 .. StackEntries + 1
    BY <1>1
  <2> QED BY <1>u, <1>3, <1>4, <1>5, <2>1 DEF IInv, TypeOK, Frame
<1>d. \A i, j \in 1 .. n : i < j => frames[i].key # frames[j].key
  BY DEF IInv, FramesPlaced
<1>7. FramesPlaced'
  <2>1. Len(frames') <= StackEntries /\ stackTop' = Len(frames')
    BY <1>1, <1>4
  <2>2. ASSUME NEW i \in 1 .. Len(frames')
        PROVE  /\ frames'[i].lock = i - 1 /\ frames'[i].key \in 2 .. keyCounter' - 1
               /\ stackLocks'[i - 1] = frames'[i].key
    <3>1. i \in 1 .. n /\ i < n
      BY <1>1, <1>4
    <3>2. stackLocks'[i - 1] = stackLocks[i - 1]
      BY <1>1, <1>3, <3>1
    <3> QED BY <1>1, <1>u, <1>4, <3>1, <3>2 DEF IInv, FramesPlaced
  <2>3. ASSUME NEW i \in 1 .. Len(frames'), NEW j \in 1 .. Len(frames'), i < j
        PROVE  frames'[i].key # frames'[j].key
    <3>1. i \in 1 .. n - 1 /\ j \in 1 .. n - 1 /\ i \in 1 .. n /\ j \in 1 .. n
      BY <1>1, <1>4
    <3>2. frames[i].key # frames[j].key
      BY <1>d, <2>3, <3>1
    <3> QED BY <1>4, <3>1, <3>2
  <2>4. ASSUME NEW l \in 0 .. StackEntries - 1, l >= Len(frames')
        PROVE  stackLocks'[l] = 0
    BY <1>1, <1>3, <1>4, <2>4 DEF IInv, FramesPlaced
  <2> QED BY <2>1, <2>2, <2>3, <2>4 DEF FramesPlaced
<1>8. ReturnedApart'
  <2>1. ASSUME NEW f \in returned', NEW i \in 1 .. Len(frames')
        PROVE  frames'[i].key # f.key
    <3>1. i \in 1 .. n /\ i < n
      BY <1>1, <1>4
    <3>2. CASE f = frames[n]
      <4>1. n \in 1 .. n
        BY <1>1
      <4> QED BY <1>d, <1>1, <1>4, <3>1, <3>2, <4>1
    <3>3. CASE f \in returned
      BY <1>1, <1>4, <3>1, <3>3 DEF IInv, ReturnedApart
    <3> QED BY <1>5, <3>2, <3>3
  <2>2. ASSUME NEW f \in returned'
        PROVE  f.key \in 2 .. keyCounter' - 1 /\ f.lock \in 0 .. StackEntries - 1
    <3>1. CASE f = frames[n]
      BY <1>1, <1>u, <1>5, <3>1
    <3>2. CASE f \in returned
      BY <1>1, <1>u, <3>2 DEF IInv, ReturnedApart
    <3> QED BY <1>5, <3>1, <3>2
  <2> QED BY <2>1, <2>2 DEF ReturnedApart
<1> QED BY <1>2, <1>6, <1>7, <1>8 DEF IInv

-----------------------------------------------------------------------------
(* Heap blocks *)

(* A key that was given out stays one that was given out. *)
LEMMA KeysGrow ==
  ASSUME NEW old \in Nat, NEW new \in Nat, new >= old, NEW k \in FirstKey .. old - 1
  PROVE  k \in FirstKey .. new - 1
BY DEF FirstKey

(* What happens to blocks does not concern the functions. *)
LEMMA FunctionsUntouched ==
  ASSUME IInv, stopped = "no", UNCHANGED stack,
         keyCounter' \in Nat, keyCounter' >= keyCounter
  PROVE  FramesPlaced' /\ ReturnedApart'
<1>1. /\ stackTop' = stackTop /\ stackLocks' = stackLocks
      /\ frames' = frames /\ returned' = returned
  BY DEF stack
<1>2. keyCounter \in Nat
  BY TemporalAssumption DEF IInv, TypeOK, FirstKey
<1>3. ASSUME NEW k \in FirstKey .. keyCounter - 1
      PROVE  k \in FirstKey .. keyCounter' - 1
  BY <1>2, KeysGrow
<1>4. FramesPlaced'
  BY <1>1, <1>3 DEF IInv, FramesPlaced
<1>5. ReturnedApart'
  BY <1>1, <1>3 DEF IInv, ReturnedApart
<1> QED BY <1>4, <1>5

(* A block gets a fresh key, the next lock and a vacant entry. *)
LEMMA MemoryAllocationKeeps ==
  ASSUME IInv, stopped = "no", NEW addr \in Addresses, MemoryAllocation(addr)
  PROVE  IInv'
<1>1. /\ keyCounter \in FirstKey .. MaxKeys /\ keyCounter' = keyCounter + 1
      /\ addr \notin Occupied /\ newLocation' = newLocation + 1 /\ UNCHANGED stack
      /\ newLocation \in Nat /\ heapLocks \in [0 .. LockEntries - 1 -> Nat]
      /\ freeMap \in Maps /\ blocks \subseteq [addr : Addresses, key : Nat, lock : Nat]
      /\ keyCounter \in Nat /\ LockEntries \in Nat /\ addr # NULL
  <2>1. keyCounter <= MaxKeys /\ keyCounter' = keyCounter + 1 /\ addr \notin Occupied
    BY DEF MemoryAllocation
  <2>2. newLocation' = newLocation + 1 /\ UNCHANGED stack
    BY DEF MemoryAllocation, AllocateLockLocation
  <2>3. /\ newLocation \in Nat /\ heapLocks \in [0 .. LockEntries - 1 -> Nat]
        /\ freeMap \in Maps /\ blocks \subseteq [addr : Addresses, key : Nat, lock : Nat]
        /\ keyCounter \in FirstKey .. MaxKeys + 1
    BY DEF IInv, TypeOK, Maps, Places
  <2> QED BY <2>1, <2>2, <2>3, TemporalAssumption DEF FirstKey, NULL
<1>2. FramesPlaced' /\ ReturnedApart'
  BY <1>1, FunctionsUntouched
<1>3. /\ keyCounter' \in FirstKey .. MaxKeys + 1 /\ newLocation' \in Nat
      /\ stackTop' = stackTop /\ stackLocks' = stackLocks
      /\ frames' = frames /\ returned' = returned
  BY <1>1, TemporalAssumption DEF stack, FirstKey
<1>4. CASE newLocation \in DOMAIN heapLocks
  <2> DEFINE new == [addr |-> addr, key |-> keyCounter, lock |-> newLocation]
  <2>1. /\ heapLocks' = [heapLocks EXCEPT ![newLocation] = keyCounter]
        /\ AddToFreeMap(freeMap, keyCounter, addr) /\ blocks' = blocks \cup {new}
    BY <1>4 DEF MemoryAllocation
  <2>2. new \in [addr : Addresses, key : Nat, lock : Nat]
    BY <1>1
  <2>3. newLocation < LockEntries /\ newLocation \in 0 .. LockEntries - 1
    BY <1>1, <1>4
  <2>4. freeMap' \in Maps
    BY <1>1, <2>1, AddsOne
  <2>5. TypeOK'
    <3>1. heapLocks' \in [0 .. LockEntries - 1 -> Nat]
      BY <1>1, <2>1
    <3>2. blocks' \subseteq [addr : Addresses, key : Nat, lock : Nat]
      BY <1>1, <2>1, <2>2
    <3> QED BY <1>3, <2>4, <3>1, <3>2 DEF IInv, TypeOK, Maps, Places
  <2>6. BlocksLocked'
    <3>1. ASSUME NEW block \in blocks
          PROVE  /\ block.lock < newLocation' /\ block.lock < LockEntries
                 /\ heapLocks'[block.lock] = block.key
      <4>1. /\ block.lock < newLocation /\ block.lock < LockEntries /\ block.lock \in Nat
            /\ heapLocks[block.lock] = block.key
        BY <1>1 DEF IInv, BlocksLocked
      <4>2. block.lock \in 0 .. LockEntries - 1 /\ block.lock # newLocation
        BY <1>1, <4>1
      <4> QED BY <1>1, <2>1, <4>1, <4>2
    <3>2. /\ new.lock < newLocation' /\ new.lock < LockEntries
          /\ heapLocks'[new.lock] = new.key
      BY <1>1, <2>1, <2>3
    <3> HIDE DEF new
    <3> QED BY <2>1, <3>1, <3>2 DEF BlocksLocked
  <2>7. BlocksMapped'
    <3>1. ASSUME NEW b \in blocks', NEW c \in blocks', b.addr = c.addr
          PROVE  b = c
      <4>1. \A block \in blocks : block.addr # new.addr
        BY <1>1 DEF Occupied
      <4> HIDE DEF new
      <4> QED BY <2>1, <3>1, <4>1 DEF IInv, BlocksMapped
    <3>2. ASSUME stopped' = "no", NEW block \in blocks'
          PROVE  Reachable(freeMap', block.key, block.addr)
      <4>1. /\ Reachable(freeMap', keyCounter, addr)
            /\ \A k \in Nat, a \in Addresses : Reachable(freeMap, k, a) => Reachable(freeMap', k, a)
        BY <1>1, <2>1, <3>2, AddKeeps
      <4>2. CASE block = new
        BY <4>1, <4>2
      <4>3. CASE block \in blocks
        <5>1. block.key \in Nat /\ block.addr \in Addresses
          BY <1>1, <4>3
        <5>2. Reachable(freeMap, block.key, block.addr)
          BY <4>3 DEF IInv, BlocksMapped
        <5> QED BY <4>1, <5>1, <5>2
      <4> QED BY <2>1, <4>2, <4>3
    <3> QED BY <3>1, <3>2 DEF BlocksMapped
  <2>8. LocksCounted'
    <3>1. SUFFICES ASSUME stopped' = "no" PROVE newLocation' <= Cardinality(Filled(freeMap'))
      BY DEF LocksCounted
    <3>2. Cardinality(Filled(freeMap')) = Cardinality(Filled(freeMap)) + 1
      BY <1>1, <2>1, <3>1, AddKeeps
    <3>3. Cardinality(Filled(freeMap)) \in Nat /\ newLocation <= Cardinality(Filled(freeMap))
      BY FilledBounded DEF IInv, LocksCounted
    <3> QED BY <1>1, <3>2, <3>3
  <2> QED BY <1>2, <2>5, <2>6, <2>7, <2>8 DEF IInv
<1>5. CASE newLocation \notin DOMAIN heapLocks
  <2>1. /\ stopped' = "past the heap locks"
        /\ heapLocks' = heapLocks /\ freeMap' = freeMap /\ blocks' = blocks
    BY <1>5 DEF MemoryAllocation, Stop
  <2>2. TypeOK'
    BY <1>3, <2>1 DEF IInv, TypeOK
  <2>3. BlocksLocked'
    <3>1. \A l \in Nat : l < newLocation => l < newLocation'
      BY <1>1
    <3> QED BY <1>1, <2>1, <3>1 DEF IInv, BlocksLocked
  <2>4. BlocksMapped'
    BY <2>1 DEF IInv, BlocksMapped
  <2>5. LocksCounted'
    BY <2>1 DEF LocksCounted
  <2> QED BY <1>2, <2>2, <2>3, <2>4, <2>5 DEF IInv
<1> QED BY <1>4, <1>5

(* free leaves everything but the block. *)
LEMMA FreeKeeps ==
  ASSUME IInv, stopped = "no", NEW block \in blocks, Free(block)
  PROVE  IInv'
<1>1. /\ blocks' \subseteq blocks /\ stopped' = stopped /\ keyCounter' = keyCounter
      /\ stackTop' = stackTop /\ stackLocks' = stackLocks
      /\ frames' = frames /\ returned' = returned
      /\ newLocation' = newLocation /\ heapLocks' = heapLocks /\ freeMap' = freeMap
  BY DEF Free, stack, table
<1>2. TypeOK'
  BY <1>1 DEF IInv, TypeOK
<1>3. FramesPlaced' /\ ReturnedApart'
  BY <1>1 DEF IInv, FramesPlaced, ReturnedApart
<1>4. BlocksLocked'
  BY <1>1 DEF IInv, BlocksLocked
<1>5. BlocksMapped'
  <2>1. \A b, c \in blocks' : b.addr = c.addr => b = c
    BY <1>1 DEF IInv, BlocksMapped
  <2>2. \A b \in blocks' : Reachable(freeMap', b.key, b.addr)
    BY <1>1 DEF IInv, BlocksMapped
  <2> QED BY <2>1, <2>2 DEF BlocksMapped
<1>6. LocksCounted'
  BY <1>1 DEF IInv, LocksCounted
<1> QED BY <1>2, <1>3, <1>4, <1>5, <1>6 DEF IInv

(* A move, of whatever block, concerns the free map only. *)
LEMMA MoveDisturbs ==
  ASSUME IInv, stopped = "no", NEW key \in Nat, NEW from,
         NEW dest \in Addresses \cup {NULL}, Move(key, from, dest)
  PROVE  /\ FramesPlaced' /\ ReturnedApart' /\ LocksCounted'
         /\ newLocation' = newLocation /\ heapLocks' = heapLocks
         /\ blocks' \subseteq [addr : Addresses, key : Nat, lock : Nat] => TypeOK'
         /\ stopped' = "no" =>
              /\ dest \in Addresses /\ Reachable(freeMap', key, dest)
              /\ \A b \in blocks : b.addr # from => Reachable(freeMap', b.key, b.addr)
<1>1. /\ keyCounter' = keyCounter /\ stackTop' = stackTop /\ stackLocks' = stackLocks
      /\ frames' = frames /\ returned' = returned /\ UNCHANGED stack
      /\ newLocation' = newLocation /\ heapLocks' = heapLocks
  BY DEF Move, stack
<1>2. /\ keyCounter \in Nat /\ newLocation \in Nat /\ freeMap \in Maps
      /\ blocks \subseteq [addr : Addresses, key : Nat, lock : Nat]
  BY TemporalAssumption DEF IInv, TypeOK, FirstKey, Maps, Places
<1>3. FramesPlaced' /\ ReturnedApart'
  <2>1. keyCounter' \in Nat /\ keyCounter' >= keyCounter
    BY <1>1, <1>2
  <2> QED BY <1>1, <2>1, FunctionsUntouched
<1>4. freeMap' \in Maps
  BY <1>2, MoveKeeps
<1>5. blocks' \subseteq [addr : Addresses, key : Nat, lock : Nat] => TypeOK'
  BY <1>1, <1>4 DEF IInv, TypeOK, Maps, Places
<1>6. ASSUME stopped' = "no"
      PROVE  /\ dest \in Addresses /\ Reachable(freeMap', key, dest)
             /\ Cardinality(Filled(freeMap')) >= Cardinality(Filled(freeMap))
             /\ \A k \in Nat, a \in Addresses \ {from} :
                  Reachable(freeMap, k, a) => Reachable(freeMap', k, a)
  BY <1>2, <1>6, MoveKeeps
<1>7. ASSUME stopped' = "no", NEW b \in blocks, b.addr # from
      PROVE  Reachable(freeMap', b.key, b.addr)
  <2>1. b.key \in Nat /\ b.addr \in Addresses \ {from}
    BY <1>2, <1>7
  <2>2. Reachable(freeMap, b.key, b.addr)
    BY DEF IInv, BlocksMapped
  <2> QED BY <1>6, <1>7, <2>1, <2>2
<1>8. LocksCounted'
  <2>1. SUFFICES ASSUME stopped' = "no" PROVE newLocation' <= Cardinality(Filled(freeMap'))
    BY DEF LocksCounted
  <2>2. newLocation <= Cardinality(Filled(freeMap))
    BY DEF IInv, LocksCounted
  <2>3. Cardinality(Filled(freeMap)) \in Nat /\ Cardinality(Filled(freeMap')) \in Nat
    BY FilledBounded
  <2>4. Cardinality(Filled(freeMap')) >= Cardinality(Filled(freeMap))
    BY <1>6, <2>1
  <2> QED BY <1>1, <1>2, <2>2, <2>3, <2>4
<1> QED BY <1>1, <1>3, <1>5, <1>6, <1>7, <1>8

(* A block that moves keeps key and lock and has its entry moved. *)
LEMMA ReallocKeeps ==
  ASSUME IInv, stopped = "no", NEW block \in blocks,
         NEW dest \in Addresses \cup {NULL}, Realloc(block, dest)
  PROVE  IInv'
<1> DEFINE moved == [block EXCEPT !.addr = dest]
<1>1. /\ blocks \subseteq [addr : Addresses, key : Nat, lock : Nat]
      /\ block.addr \in Addresses /\ block.key \in Nat /\ block.lock \in Nat
      /\ block \in [addr : Addresses, key : Nat, lock : Nat]
  BY DEF IInv, TypeOK
<1>2. /\ dest \notin Occupied /\ Move(block.key, block.addr, dest)
      /\ blocks' = IF dest = NULL THEN blocks ELSE (blocks \ {block}) \cup {moved}
  BY DEF Realloc
<1>3. /\ FramesPlaced' /\ ReturnedApart' /\ LocksCounted'
      /\ newLocation' = newLocation /\ heapLocks' = heapLocks
      /\ blocks' \subseteq [addr : Addresses, key : Nat, lock : Nat] => TypeOK'
      /\ stopped' = "no" =>
           /\ dest \in Addresses /\ Reachable(freeMap', block.key, dest)
           /\ \A b \in blocks : b.addr # block.addr => Reachable(freeMap', b.key, b.addr)
  BY <1>1, <1>2, MoveDisturbs
<1>4. CASE dest = NULL
  <2>1. blocks' = blocks /\ stopped' # "no"
    BY <1>2, <1>3, <1>4, TemporalAssumption DEF NULL
  <2>2. BlocksLocked'
    BY <1>3, <2>1 DEF IInv, BlocksLocked
  <2>3. BlocksMapped'
    BY <2>1 DEF IInv, BlocksMapped
  <2> QED BY <1>1, <1>3, <2>1, <2>2, <2>3 DEF IInv
<1>5. CASE dest # NULL
  <2>1. /\ dest \in Addresses /\ blocks' = (blocks \ {block}) \cup {moved}
        /\ moved.addr = dest /\ moved.key = block.key /\ moved.lock = block.lock
        /\ moved \in [addr : Addresses, key : Nat, lock : Nat]
    BY <1>1, <1>2, <1>5
  <2> HIDE DEF moved
  <2>2. TypeOK'
    BY <1>1, <1>3, <2>1
  <2>3. BlocksLocked'
    BY <1>3, <2>1 DEF IInv, BlocksLocked
  <2>4. BlocksMapped'
    <3>1. \A b \in blocks : b.addr # dest /\ (b.addr = block.addr => b = block)
      BY <1>2 DEF IInv, BlocksMapped, Occupied
    <3>2. \A b, c \in blocks' : b.addr = c.addr => b = c
      BY <2>1, <3>1 DEF IInv, BlocksMapped
    <3>3. ASSUME stopped' = "no", NEW b \in blocks'
          PROVE  Reachable(freeMap', b.key, b.addr)
      BY <1>3, <2>1, <3>1, <3>3
    <3> QED BY <3>2, <3>3 DEF BlocksMapped
  <2> QED BY <1>3, <2>2, <2>3, <2>4 DEF IInv
<1> QED BY <1>4, <1>5

(* A move of something that is no block: another block is not mistaken for *)
(* it, because none is at its address.                                     *)
LEMMA OtherMoveKeeps ==
  ASSUME IInv, stopped = "no", NEW key \in Nat, NEW from, NEW dest \in Addresses,
         from \notin Occupied, Move(key, from, dest), blocks' = blocks
  PROVE  IInv'
<1>1. /\ FramesPlaced' /\ ReturnedApart' /\ LocksCounted'
      /\ newLocation' = newLocation /\ heapLocks' = heapLocks
      /\ blocks' \subseteq [addr : Addresses, key : Nat, lock : Nat] => TypeOK'
      /\ stopped' = "no" =>
           \A b \in blocks : b.addr # from => Reachable(freeMap', b.key, b.addr)
  BY MoveDisturbs
<1>2. TypeOK'
  BY <1>1 DEF IInv, TypeOK
<1>3. BlocksLocked'
  BY <1>1 DEF IInv, BlocksLocked
<1>4. BlocksMapped'
  <2>1. \A b \in blocks : b.addr # from
    BY DEF Occupied
  <2>2. \A b, c \in blocks' : b.addr = c.addr => b = c
    BY DEF IInv, BlocksMapped
  <2>3. ASSUME stopped' = "no", NEW b \in blocks'
        PROVE  Reachable(freeMap', b.key, b.addr)
    BY <1>1, <2>1, <2>3
  <2> QED BY <2>2, <2>3 DEF BlocksMapped
<1> QED BY <1>1, <1>2, <1>3, <1>4 DEF IInv

-----------------------------------------------------------------------------
(* The inductive invariant: steps *)

(* A step that changes nothing *)
LEMMA StutterKeeps ==
  ASSUME IInv, UNCHANGED vars
  PROVE  IInv'
<1>1. /\ keyCounter' = keyCounter /\ stopped' = stopped /\ blocks' = blocks
      /\ stackTop' = stackTop /\ stackLocks' = stackLocks
      /\ frames' = frames /\ returned' = returned
      /\ newLocation' = newLocation /\ heapLocks' = heapLocks /\ freeMap' = freeMap
  BY DEF vars, stack, table
<1>2. UNCHANGED <<table, blocks>>
  BY <1>1 DEF table
<1>3. BlocksLocked' /\ BlocksMapped' /\ LocksCounted'
  BY <1>1, <1>2, BlocksUntouched
<1>4. TypeOK'
  BY <1>1 DEF IInv, TypeOK
<1>5. FramesPlaced' /\ ReturnedApart'
  BY <1>1 DEF IInv, FramesPlaced, ReturnedApart
<1> QED BY <1>3, <1>4, <1>5 DEF IInv

(* Every step *)
LEMMA NextKeeps ==
  ASSUME IInv, [Next]_vars
  PROVE  IInv'
<1>1. CASE UNCHANGED vars
  BY <1>1, StutterKeeps
<1>2. ASSUME Next
      PROVE  IInv'
  <2>1. stopped = "no" /\ keyCounter \in Nat
    BY <1>2, TemporalAssumption DEF Next, IInv, TypeOK, FirstKey
  <2>2. CASE Main \/ Enter
    BY <2>1, <2>2, EnterKeeps DEF Main, Enter
  <2>3. CASE StackMemoryDeallocation
    BY <2>1, <2>3, ReturnKeeps
  <2>4. ASSUME NEW dest \in Addresses, MemoryAllocation(dest)
        PROVE  IInv'
    BY <2>1, <2>4, MemoryAllocationKeeps
  <2>5. ASSUME NEW dest \in Addresses, ReallocNull(dest)
        PROVE  IInv'
    <3>1. Move(0, NULL, dest) /\ blocks' = blocks /\ 0 \in Nat
      BY <2>5 DEF ReallocNull
    <3>2. NULL \notin Occupied
      BY TemporalAssumption DEF IInv, TypeOK, Occupied, NULL
    <3> QED BY <2>1, <3>1, <3>2, OtherMoveKeeps
  <2>6. ASSUME NEW key \in 0 .. keyCounter - 1, NEW from \in Addresses, NEW dest \in Addresses,
               ReallocForeign(key, from, dest)
        PROVE  IInv'
    <3>1. Move(key, from, dest) /\ blocks' = blocks /\ from \notin Occupied
      BY <2>6 DEF ReallocForeign
    <3>2. key \in Nat
      BY <2>1
    <3> QED BY <2>1, <3>1, <3>2, OtherMoveKeeps
  <2>7. ASSUME NEW block \in blocks, Free(block)
        PROVE  IInv'
    BY <2>1, <2>7, FreeKeeps
  <2>8. ASSUME NEW block \in blocks, NEW dest \in Addresses \cup {NULL}, Realloc(block, dest)
        PROVE  IInv'
    BY <2>1, <2>8, ReallocKeeps
  <2> QED BY <1>2, <2>2, <2>3, <2>4, <2>5, <2>6, <2>7, <2>8 DEF Next, Run
<1> QED BY <1>1, <1>2

(* The invariant holds in every reachable state. *)
THEOREM Inductive == Spec => []IInv
<1>1. Init => IInv
  BY InitEstablishes
<1>2. IInv /\ [Next]_vars => IInv'
  BY NextKeeps
<1> QED BY <1>1, <1>2, PTL DEF Spec

-----------------------------------------------------------------------------
(* What follows from it *)

(* The counters, locks, the free map and the history keep their types.     *)
THEOREM TypeCorrect == Spec => []TypeOK
<1>1. IInv => TypeOK
  BY DEF IInv
<1> QED BY <1>1, Inductive, PTL

(* A pointer to a variable of a running function or to a live block passes *)
(* the dereference check (softboundcets_temporal.c:82), however many       *)
(* functions, blocks and locks there are.                                  *)
THEOREM LivePointersPass == Spec => []LiveAccepted
<1>1. ASSUME IInv PROVE LiveAccepted
  <2>1. \A i \in 1 .. Len(frames) : Accepts(stackLocks, frames[i])
    BY <1>1 DEF IInv, FramesPlaced, Accepts
  <2>2. \A block \in blocks : Accepts(heapLocks, block)
    BY <1>1 DEF IInv, BlocksLocked, Accepts
  <2> QED BY <2>1, <2>2 DEF LiveAccepted
<1> QED BY <1>1, Inductive, PTL

(* A pointer to a variable of a function that returned never passes again, *)
(* although its lock is handed out to later functions                      *)
(* (softboundcets_temporal.c:149-159, 210-223): a lock holds no key, or    *)
(* that of the function that runs and has it, and keys are not reused.     *)
THEOREM DanglingPointersFail == Spec => []ReturnedRejected
<1>1. ASSUME IInv PROVE ReturnedRejected
  <2>1. SUFFICES ASSUME NEW f \in returned PROVE stackLocks[f.lock] # f.key
    BY DEF ReturnedRejected, Accepts
  <2>2. /\ keyCounter \in Nat /\ StackEntries \in Nat /\ Len(frames) \in Nat
        /\ f.key \in 2 .. keyCounter - 1 /\ f.lock \in 0 .. StackEntries - 1
        /\ \A i \in 1 .. Len(frames) : frames[i].key # f.key
    BY <1>1, TemporalAssumption DEF IInv, TypeOK, ReturnedApart, FirstKey
  <2>3. CASE f.lock >= Len(frames)
    <3>1. stackLocks[f.lock] = 0
      BY <1>1, <2>2, <2>3 DEF IInv, FramesPlaced
    <3> QED BY <2>2, <3>1
  <2>4. CASE f.lock < Len(frames)
    <3>1. f.lock + 1 \in 1 .. Len(frames) /\ (f.lock + 1) - 1 = f.lock
      BY <2>2, <2>4
    <3>2. stackLocks[f.lock] = frames[f.lock + 1].key
      BY <1>1, <3>1 DEF IInv, FramesPlaced
    <3> QED BY <2>2, <3>1, <3>2
  <2> QED BY <2>2, <2>3, <2>4
<1> QED BY <1>1, Inductive, PTL

(* Every live block is found in the free map under its key, whatever keys  *)
(* collide with it and whatever moved or was left behind before            *)
(* (softboundcets_temporal.c:247-312).                                     *)
THEOREM LiveBlocksFound == Spec => []BlocksFindable
<1>1. ASSUME IInv PROVE BlocksFindable
  <2>1. SUFFICES ASSUME stopped = "no", NEW block \in blocks
                 PROVE  FoundAtOnce(block.key, block.addr)
    BY DEF BlocksFindable
  <2>2. block.key \in Nat /\ block.addr # 0
    BY <1>1, TemporalAssumption DEF IInv, TypeOK
  <2>3. Reachable(freeMap, block.key, block.addr)
    BY <1>1, <2>1 DEF IInv, BlocksMapped
  <2> QED BY <2>2, <2>3, ReachableFound
<1> QED BY <1>1, Inductive, PTL

(* With more locks than entries of the free map, the locks of blocks do    *)
(* not run out before insertions into the map fail to end                  *)
(* (softboundcets_temporal.c:182-192): every lock handed out occupies an   *)
(* entry.                                                                  *)
THEOREM LocksNeverRunOut == Spec => []LocksSuffice
<1>1. ASSUME IInv PROVE LocksSuffice
  <2>1. SUFFICES ASSUME stopped = "no" PROVE newLocation < LockEntries
    BY DEF LocksSuffice
  <2>2. newLocation \in Nat /\ newLocation <= Cardinality(Filled(freeMap))
    BY <1>1, <2>1 DEF IInv, TypeOK, LocksCounted
  <2>3. Cardinality(Filled(freeMap)) \in Nat /\ Cardinality(Filled(freeMap)) <= FreeMapEntries
    BY FilledBounded
  <2> QED BY <2>2, <2>3, TemporalAssumption
<1> QED BY <1>1, Inductive, PTL
=============================================================================
