----------------------------- MODULE ShadowStack -----------------------------
(***************************************************************************)
(* The shadow stack of the SoftBound run-time, which carries the metadata  *)
(* of pointer arguments and results beside the program's own calls         *)
(* (softbound/src/softboundcets_common.c), and the variable-argument       *)
(* proxies that point into it.  It is an array of words: a frame is the    *)
(* size of the frame before it, its own size, and NumFields words for each *)
(* pointer.  Who calls whom is the instrumented program's affair and       *)
(* external; the order of allocation, stores, call and deallocation is the *)
(* one of main, strcpy and the comparator of qsort.  frames is history:    *)
(* the functions that have not returned and the metadata each of them was  *)
(* given, none of which the run-time keeps.                                *)
(***************************************************************************)
EXTENDS Integers, Sequences

CONSTANTS
  Entries,     \* __SOFTBOUNDCETS_SHADOW_STACK_ENTRIES
  NumFields,   \* __SOFTBOUNDCETS_METADATA_NUM_FIELDS
  Metadata,    \* what is known of a pointer: NumFields words
  Proxies,     \* the addresses malloc gives to proxy objects
  MaxSlots,    \* bound of the model: pointers that one call passes
  None         \* no call was refused

Fields == 0 .. NumFields - 1
SlotCounts == 0 .. MaxSlots

(* Two or four words describe a pointer, in all three configurations of    *)
(* softboundcets_defines.h; the stack has 128 * 32 words.                  *)
ASSUME StackAssumption ==
  /\ \E half \in 1 .. NumFields : NumFields = 2 * half
  /\ \E half \in 1 .. Entries : Entries = 2 * half
  /\ MaxSlots \in Nat
  /\ Metadata \subseteq [Fields -> Nat]
  /\ None \notin SlotCounts

VARIABLES
  ptr,       \* __softboundcets_shadow_stack_ptr, as an index into mem
  mem,       \* the words of the shadow stack
  proxies,   \* live proxies: the word each points at; and, as history, the
             \* call whose arguments it reads and the slot it has reached
  frames,    \* history: the functions that run, the outermost first
  refused    \* the slots asked for by the call the assertion stopped, or None

vars == <<ptr, mem, proxies, frames, refused>>

Words == 0 .. Entries - 1
Running == frames[Len(frames)]
Size(frame) == frame.count * NumFields

-----------------------------------------------------------------------------
(* Frames and slots *)

SlotStart(at, slot) == at + 2 + slot * NumFields

(* Faulty variant: the word of a slot is computed without the header. *)
Stored_OverHeader(words, at, args) ==
  [w \in Words |->
     IF w >= at /\ (w - at) \div NumFields \in DOMAIN args
     THEN args[(w - at) \div NumFields][(w - at) % NumFields]
     ELSE words[w]]

(* The words after the stores of args into the slots of the frame at. *)
Stored(words, at, args) ==
  [w \in Words |->
     IF w >= at + 2 /\ (w - at - 2) \div NumFields \in DOMAIN args
     THEN args[(w - at - 2) \div NumFields][(w - at - 2) % NumFields]
     ELSE words[w]]

(* Faulty variant: the assertion leaves out the size of the new frame. *)
FrameFits_ForgetsSize(prevSize, size) == ptr < Entries - prevSize - 2

(* Faulty variant: the assertion counts a header too many. *)
FrameFits_TwoHeaders(prevSize, size) == ptr < Entries - prevSize - 4 - size

FrameFits(prevSize, size) == ptr < Entries - prevSize - 2 - size

(* Faulty variant: both header words hold the size of the new frame. *)
WithHeader_OwnSize(words, at, prevSize, size) == [words EXCEPT ![at] = size, ![at + 1] = size]

WithHeader(words, at, prevSize, size) == [words EXCEPT ![at] = prevSize, ![at + 1] = size]

-----------------------------------------------------------------------------
(* The program *)

(* A function that returns a pointer leaves slot 0 to its result. *)
Arguments(count) == UNION {[first .. count - 1 -> Metadata] : first \in {0, 1}}

Call(count, args) ==
  LET prevSize == mem[ptr + 1]
      size     == count * NumFields
      at       == ptr + prevSize + 2
  IN  /\ FrameFits(prevSize, size)
      /\ ptr' = at
      /\ mem' = Stored(WithHeader(mem, at, prevSize, size), at, args)
      /\ frames' = Append(frames, [at |-> at, count |-> count, args |-> args,
                                   need |-> Running.need + 2 + size])
      /\ UNCHANGED <<proxies, refused>>

Refuse(count) ==
  /\ ~FrameFits(mem[ptr + 1], count * NumFields)
  /\ refused' = count
  /\ UNCHANGED <<ptr, mem, proxies, frames>>

(* The callee, or the wrapper that stands for it, stores what it returns. *)
StoreResult(metadata) ==
  LET result == [slot \in {0} |-> metadata]
  IN  /\ Len(frames) > 1 /\ Running.count > 0 /\ 0 \notin DOMAIN Running.args
      /\ mem' = Stored(mem, ptr, result)
      /\ frames' = [frames EXCEPT ![Len(frames)].args =
                      [slot \in DOMAIN @ \cup {0} |-> IF slot = 0 THEN metadata ELSE @[slot]]]
      /\ UNCHANGED <<ptr, proxies, refused>>

(* Faulty variant: steps back over the frame's own size. *)
Below_OwnSize(at) == at - mem[at + 1] - 2

Below(at) == at - mem[at] - 2

(* A function ends its proxies before it returns (va_end). *)
Return ==
  /\ Len(frames) > 1
  /\ \A p \in DOMAIN proxies : proxies[p].owner # Len(frames)
  /\ mem[ptr] <= Entries
  /\ ptr' = Below(ptr)
  /\ frames' = SubSeq(frames, 1, Len(frames) - 1)
  /\ UNCHANGED <<mem, proxies, refused>>

(* longjmp to function d: the program's frames above it are gone, and      *)
(* nothing else happens.                                                   *)
Jump(d) ==
  /\ frames' = SubSeq(frames, 1, d)
  /\ proxies' = [p \in {q \in DOMAIN proxies : proxies[q].owner <= d} |-> proxies[p]]
  /\ UNCHANGED <<ptr, mem, refused>>

-----------------------------------------------------------------------------
(* Variable arguments: a callee may be handed the proxy of any caller.     *)

WithProxy(p, proxy) ==
  [q \in DOMAIN proxies \cup {p} |-> IF q = p THEN proxy ELSE proxies[q]]

(* va_start in a function whose pointer parameters end before slot. *)
VaStart(p, slot) ==
  /\ Len(frames) > 1 /\ p \notin DOMAIN proxies
  /\ slot .. Running.count - 1 \subseteq DOMAIN Running.args
  /\ proxies' = WithProxy(p, [loc |-> SlotStart(ptr, slot), owner |-> Len(frames), next |-> slot])
  /\ UNCHANGED <<ptr, mem, frames, refused>>

(* Faulty variant: the next word instead of the next slot. *)
Advanced_OneWord(loc) == loc + 1

Advanced(loc) == loc + NumFields

(* A program does not ask for more arguments than were passed. *)
VaArg(p) ==
  /\ p \in DOMAIN proxies
  /\ proxies[p].next < frames[proxies[p].owner].count
  /\ proxies' = [proxies EXCEPT ![p].loc = Advanced(@), ![p].next = @ + 1]
  /\ UNCHANGED <<ptr, mem, frames, refused>>

VaCopy(p, q) ==
  /\ p \in DOMAIN proxies /\ q \notin DOMAIN proxies
  /\ proxies' = WithProxy(q, proxies[p])
  /\ UNCHANGED <<ptr, mem, frames, refused>>

VaEnd(p) ==
  /\ p \in DOMAIN proxies
  /\ proxies' = [q \in DOMAIN proxies \ {p} |-> proxies[q]]
  /\ UNCHANGED <<ptr, mem, frames, refused>>

-----------------------------------------------------------------------------
Init ==
  /\ ptr = 0
  /\ mem = [w \in Words |-> 0]
  /\ proxies = [p \in {} |-> None]
  /\ frames = <<[at |-> 0, count |-> 0, args |-> [slot \in {} |-> None], need |-> 2]>>
  /\ refused = None

Step ==
  /\ refused = None
  /\ \/ \E count \in SlotCounts : Refuse(count) \/ \E args \in Arguments(count) : Call(count, args)
     \/ \E metadata \in Metadata : StoreResult(metadata)
     \/ Return
     \/ \E p \in Proxies, slot \in SlotCounts : VaStart(p, slot)
     \/ \E p \in Proxies : VaArg(p) \/ VaEnd(p)
     \/ \E p, q \in Proxies : VaCopy(p, q)

LongJump ==
  /\ refused = None
  /\ \E d \in 2 .. Len(frames) - 1 : Jump(d)

(* Programs that only call and return, and programs that also longjmp. *)
Spec == Init /\ [][Step]_vars
JumpSpec == Init /\ [][Step \/ LongJump]_vars
-----------------------------------------------------------------------------
(* Properties *)

TypeOK ==
  /\ ptr \in Words
  /\ mem \in [Words -> Nat]
  /\ DOMAIN proxies \subseteq Proxies
  /\ \A p \in DOMAIN proxies :
       proxies[p] \in [loc : Nat, owner : DOMAIN frames, next : SlotCounts]
  /\ \A i \in DOMAIN frames :
       frames[i].at \in Words /\ frames[i].count \in SlotCounts /\ frames[i].need \in Nat
  /\ refused \in SlotCounts \cup {None}

(* Every frame, and so every store into a slot or a header, lies inside    *)
(* the shadow stack ("Make sure to not overflow the shadow stack",         *)
(* softboundcets_common.c:25).  The assertion counts one of the two header *)
(* words of the new frame; that this is enough depends on every size being *)
(* even.                                                                   *)
FramesFit == \A i \in DOMAIN frames : frames[i].at + 2 + Size(frames[i]) <= Entries

(* The shadow stack follows the program's: the pointer is at the frame of  *)
(* the function that runs, and the sizes in memory lead from each frame    *)
(* to its caller's, however the calls before it were nested.               *)
CallersRestored ==
  /\ ptr = Running.at
  /\ \A i \in DOMAIN frames :
       /\ mem[frames[i].at + 1] = Size(frames[i])
       /\ i > 1 => Below(frames[i].at) = frames[i - 1].at

(* While a function runs, and until its caller has read the result, its    *)
(* slots hold what was last stored in them, whatever it called meanwhile.  *)
ArgumentsIntact ==
  \A i \in DOMAIN frames : \A slot \in DOMAIN frames[i].args : \A f \in Fields :
    mem[SlotStart(frames[i].at, slot) + f] = frames[i].args[slot][f]

(* A proxy "keeps track of the metadata that belongs to the next pointer   *)
(* argument" (softboundcets_common.h:88): until the call whose arguments   *)
(* it reads returns, in whichever callee it is used and however it was     *)
(* copied, what it points at is the metadata of the next argument.         *)
ProxyReadsItsCall ==
  \A p \in DOMAIN proxies :
    LET args == frames[proxies[p].owner].args
        next == proxies[p].next
    IN  next \in DOMAIN args => \A f \in Fields : mem[proxies[p].loc + f] = args[next][f]

(* "Shadow stack size exceeded" (softboundcets_common.c:31): a call is     *)
(* refused only when the frames of the functions that run and the new one  *)
(* need more words than the stack has.                                     *)
RefusedOnlyWhenFull ==
  refused # None => Running.need + 2 + refused * NumFields > Entries
=============================================================================
