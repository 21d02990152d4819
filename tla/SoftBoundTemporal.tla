-------------------------- MODULE SoftBoundTemporal --------------------------
(***************************************************************************)
(* Keys and locks of SoftBound in a configuration with temporal safety     *)
(* (softbound/src/softboundcets_temporal.c), the free map that records     *)
(* which key a heap block has, and the wrappers that allocate.  Every      *)
(* object gets a fresh key and a lock, a location that holds the key while *)
(* the object lives; a check compares the key of a pointer with what is in *)
(* its lock.                                                               *)
(*                                                                         *)
(* The build is one with MIRT_CONTINUE_ON_FATAL, where a failure is        *)
(* reported and the program goes on: in any other, main stops with         *)
(* "Missing implementation for enviornment variable access"                *)
(* (softboundcets.c:84-106).  Assertions are enabled.                      *)
(*                                                                         *)
(* frames, blocks and returned are history: the functions that run, the    *)
(* heap blocks that were not freed, and the functions that returned.       *)
(***************************************************************************)
EXTENDS Integers, Sequences, FiniteSets, FiniteSetsExt

CONSTANTS
  LockEntries,     \* __SOFTBOUNDCETS_N_TEMPORAL_ENTRIES
  StackEntries,    \* __SOFTBOUNDCETS_N_STACK_TEMPORAL_ENTRIES
  FreeMapEntries,  \* __SOFTBOUNDCETS_N_FREE_MAP_ENTRIES
  Addresses,       \* addresses of heap blocks
  MaxKeys          \* bound of the model: the last key given out

NULL == 0
FirstKey == 2

(* There are twice as many locks as entries of the free map. *)
ASSUME TemporalAssumption ==
  /\ FreeMapEntries \in Nat \ {0} /\ StackEntries \in Nat \ {0}
  /\ LockEntries \in Nat /\ LockEntries > FreeMapEntries
  /\ Addresses \subseteq Nat \ {0, 1, 2} /\ MaxKeys \in Nat \ {0}

VARIABLES
  keyCounter,   \* __softboundcets_key_id_counter
  stackTop,     \* __softboundcets_stack_temporal_space_begin, an index
  stackLocks,   \* what the locks of functions hold
  newLocation,  \* __softboundcets_lock_new_location, an index
  heapLocks,    \* what the locks of heap blocks hold
  freeMap,      \* __softboundcets_free_map_table
  frames,       \* key and lock of the functions that run, the outermost first
  returned,     \* key and lock of the functions that returned
  blocks,       \* address, key and lock of the live heap blocks
  stopped       \* why the program stopped, "no" if it has not

table == <<newLocation, heapLocks, freeMap>>
stack == <<stackTop, stackLocks, frames, returned>>
vars == <<keyCounter, stack, table, blocks, stopped>>

Occupied == {block.addr : block \in blocks}

(* __softboundcets_temporal_initialize_datastructures *)
Init ==
  /\ keyCounter = FirstKey
  /\ stackTop = 0 /\ stackLocks = [i \in 0 .. StackEntries - 1 |-> 0]
  /\ newLocation = 0 /\ heapLocks = [i \in 0 .. LockEntries - 1 |-> 0]
  /\ freeMap = [i \in 0 .. FreeMapEntries - 1 |-> 0]
  /\ frames = <<>> /\ returned = {} /\ blocks = {}
  /\ stopped = "no"

Stop(why) == stopped' = why

-----------------------------------------------------------------------------
(* Functions *)

(* A function that has no lock left writes past the end of their mapping.  *)
StackMemoryAllocation ==
  /\ keyCounter <= MaxKeys
  /\ keyCounter' = keyCounter + 1
  /\ stackTop' = stackTop + 1
  /\ IF stackTop \in DOMAIN stackLocks
     THEN /\ stackLocks' = [stackLocks EXCEPT ![stackTop] = keyCounter]
          /\ frames' = Append(frames, [key |-> keyCounter, lock |-> stackTop])
          /\ UNCHANGED stopped
     ELSE Stop("past the stack locks") /\ UNCHANGED <<stackLocks, frames>>
  /\ UNCHANGED <<table, blocks, returned>>

(* main takes a key for argv before it calls the program's main. *)
Main == frames = <<>> /\ returned = {} /\ StackMemoryAllocation

Enter == frames # <<>> /\ StackMemoryAllocation

(* Faulty variant: one word for the key, one for the lock. *)
Below_Pair(top) == top - 2

Below(top) == top - 1

(* Faulty variant: the lock is cleared before the stack shrinks. *)
Cleared_First(top) == IF top \in DOMAIN stackLocks THEN [stackLocks EXCEPT ![top] = 0] ELSE stackLocks

Cleared(top) == [stackLocks EXCEPT ![Below(top)] = 0]

(* __softboundcets_stack_memory_deallocation; main does it last. *)
StackMemoryDeallocation ==
  /\ frames # <<>>
  /\ stackTop' = Below(stackTop)
  /\ stackLocks' = Cleared(stackTop)
  /\ frames' = SubSeq(frames, 1, Len(frames) - 1)
  /\ returned' = returned \cup {frames[Len(frames)]}
  /\ UNCHANGED <<keyCounter, table, blocks, stopped>>

-----------------------------------------------------------------------------
(* The free map *)

(* Probing starts at the key and comes back to its first entry. *)
Distances == 0 .. FreeMapEntries
Index(key, distance) == (key + distance) % FreeMapEntries

(* Where a probe for one of the tags ends; at no distance if it fails. *)
Probe(map, key, tags) ==
  LET hits == {d \in Distances : map[Index(key, d)] \in tags}
  IN  IF hits = {} THEN {} ELSE {Index(key, Min(hits))}

Removed == 2

(* Faulty variant: no probing, a collision overwrites the entry. *)
Vacant_Unprobed(map, key) == {Index(key, 0)}

Vacant(map, key) == Probe(map, key, {0, Removed})

(* __softboundcets_add_to_free_map.  In a full map probing never ends.     *)
AddToFreeMap(map, key, addr) ==
  LET places == Vacant(map, key)
  IN  CASE addr = NULL -> Stop("assertion") /\ freeMap' = map
        [] addr # NULL /\ places = {} -> Stop("probing") /\ freeMap' = map
        [] OTHER -> /\ freeMap' = [map EXCEPT ![CHOOSE i \in places : TRUE] = addr]
                    /\ UNCHANGED stopped

(* Entries are recognised by the pointer in them, whatever key they were   *)
(* entered for.  One that comes after an empty entry is removed, too, but  *)
(* a failure is reported: "free map does not have the key".                *)
Found(key, addr) == Probe(freeMap, key, {addr})
FoundAtOnce(key, addr) == Found(key, addr) # {} /\ Probe(freeMap, key, {0, addr}) = Found(key, addr)

RemovedFromFreeMap(key, addr) ==
  [i \in DOMAIN freeMap |-> IF i \in Found(key, addr) THEN Removed ELSE freeMap[i]]

-----------------------------------------------------------------------------
(* Heap blocks *)

(* Faulty variant: the same location is handed out again. *)
AllocateLockLocation_Kept == newLocation

(* __softboundcets_allocate_lock_location: no location is ever given back. *)
AllocateLockLocation == newLocation + 1

(* __softboundcets_memory_allocation, by malloc, calloc, memalign, mmap,   *)
(* strdup and the like.  The lock is written before the free map is asked. *)
MemoryAllocation(addr) ==
  /\ addr \notin Occupied /\ keyCounter <= MaxKeys
  /\ keyCounter' = keyCounter + 1
  /\ newLocation' = AllocateLockLocation
  /\ IF newLocation \in DOMAIN heapLocks
     THEN /\ heapLocks' = [heapLocks EXCEPT ![newLocation] = keyCounter]
          /\ AddToFreeMap(freeMap, keyCounter, addr)
          /\ blocks' = blocks \cup {[addr |-> addr, key |-> keyCounter, lock |-> newLocation]}
     ELSE Stop("past the heap locks") /\ UNCHANGED <<heapLocks, freeMap, blocks>>
  /\ UNCHANGED stack

(* Faulty variant: the entry is removed, the lock is not given back. *)
Free_Unregisters(block) ==
  /\ blocks' = blocks \ {block}
  /\ freeMap' = RemovedFromFreeMap(block.key, block.addr)
  /\ UNCHANGED <<keyCounter, stack, newLocation, heapLocks, stopped>>

(* free leaves the lock and the entry in the free map as they are. *)
Free(block) ==
  /\ blocks' = blocks \ {block}
  /\ UNCHANGED <<keyCounter, stack, table, stopped>>

(* The end of realloc when the block has moved, or the call has failed.    *)
(* What is not in the map is looked for without end.                       *)
Move(key, from, dest) ==
  /\ IF Found(key, from) = {} THEN Stop("probing") /\ UNCHANGED freeMap
     ELSE AddToFreeMap(RemovedFromFreeMap(key, from), key, dest)
  /\ UNCHANGED <<keyCounter, stack, newLocation, heapLocks>>

(* The block keeps its key and its lock.  One that stays where it is       *)
(* changes nothing; a realloc that fails gives NULL to the free map.       *)
Realloc(block, dest) ==
  /\ dest \notin Occupied
  /\ Move(block.key, block.addr, dest)
  /\ blocks' = IF dest = NULL THEN blocks
               ELSE (blocks \ {block}) \cup {[block EXCEPT !.addr = dest]}

(* A block of the library has the key of globals, 1; one of posix_memalign,*)
(* which registers nothing, has any key that its pointer's word last had.  *)
ReallocForeign(key, from, dest) ==
  /\ {from, dest} \cap Occupied = {} /\ from # dest
  /\ Move(key, from, dest)
  /\ UNCHANGED blocks

(* realloc(NULL, size): the null pointer has the key 0, and the NULL that  *)
(* is looked for is in any empty entry.                                    *)
ReallocNull(dest) ==
  /\ dest \notin Occupied
  /\ Move(0, NULL, dest)
  /\ UNCHANGED blocks

-----------------------------------------------------------------------------
(* Checks *)

(* __softboundcets_temporal_dereference_check; one that fails is reported. *)
Accepts(locks, pointer) == locks[pointer.lock] = pointer.key

Run ==
  \/ Enter \/ StackMemoryDeallocation
  \/ \E dest \in Addresses : MemoryAllocation(dest) \/ ReallocNull(dest)
  \/ \E key \in 0 .. keyCounter - 1, from, dest \in Addresses : ReallocForeign(key, from, dest)
  \/ \E block \in blocks :
       \/ Free(block)
       \/ \E dest \in Addresses \cup {NULL} : Realloc(block, dest)

Next == stopped = "no" /\ (Main \/ (frames # <<>> /\ Run))

Spec == Init /\ [][Next]_vars
-----------------------------------------------------------------------------
(* Properties *)

TypeOK ==
  /\ keyCounter \in FirstKey .. MaxKeys + 1
  /\ stackTop \in 0 .. StackEntries + 1
  /\ stackLocks \in [0 .. StackEntries - 1 -> Nat]
  /\ newLocation \in Nat
  /\ heapLocks \in [0 .. LockEntries - 1 -> Nat]
  /\ freeMap \in [0 .. FreeMapEntries - 1 -> {0, 2} \cup Addresses]
  /\ frames \in Seq([key : Nat, lock : Nat]) /\ returned \subseteq [key : Nat, lock : Nat]
  /\ blocks \subseteq [addr : Addresses, key : Nat, lock : Nat]

(* A pointer to a function's variables or to a heap block passes the check *)
(* as long as the function runs and the block lives, through calls,        *)
(* returns and reallocations (softboundcets_temporal.c:82).                *)
LiveAccepted ==
  /\ \A i \in 1 .. Len(frames) : Accepts(stackLocks, frames[i])
  /\ \A block \in blocks : Accepts(heapLocks, block)

(* A pointer to a variable of a function that returned never passes again, *)
(* although later functions are given the same lock                        *)
(* (softboundcets_temporal.c:149-159, 210-223).                            *)
ReturnedRejected == \A frame \in returned : ~Accepts(stackLocks, frame)

(* Every live heap block is found in the free map under its key, also when *)
(* other keys hash to the same place, blocks between have moved, and the   *)
(* entries of freed blocks, perhaps with the same pointer, remain: only    *)
(* then realloc reports no failure in a correct program                    *)
(* (softboundcets_temporal.c:247-312).                                     *)
BlocksFindable == stopped = "no" => \A block \in blocks : FoundAtOnce(block.key, block.addr)

(* The free map is full before the locks run out, so the location handed   *)
(* out next, which only a debug build checks (and allows one too many,     *)
(* softboundcets_temporal.c:182-192), is inside their mapping.             *)
LocksSuffice == stopped = "no" => newLocation < LockEntries
=============================================================================
