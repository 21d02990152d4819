-------------------------- MODULE ShadowStackProofs --------------------------
(***************************************************************************)
(* Proofs about ShadowStack, for every size of the stack, every number of  *)
(* metadata fields and every number of arguments.                          *)
(***************************************************************************)
EXTENDS ShadowStack, TLAPS

Even(n) == \E half \in Nat : n = 2 * half

ArgumentMaps == UNION {[slots -> Metadata] : slots \in SUBSET SlotCounts}

Frames == [at : Words, count : SlotCounts, args : ArgumentMaps, need : Nat]

(* Frames follow each other without gap or overlap, from the first word.  *)
Layout ==
  /\ frames \in Seq(Frames) /\ Len(frames) >= 1
  /\ ptr = Running.at
  /\ \A i \in 1 .. Len(frames) :
       /\ DOMAIN frames[i].args \subseteq 0 .. frames[i].count - 1
       /\ frames[i].need = frames[i].at + 2 + Size(frames[i])
       /\ frames[i].need <= Entries
       /\ Even(frames[i].at)
       /\ mem[frames[i].at + 1] = Size(frames[i])
       /\ i > 1 => /\ frames[i].at = frames[i - 1].need
                   /\ mem[frames[i].at] = Size(frames[i - 1])
  /\ \A i, j \in 1 .. Len(frames) : i < j => frames[i].need <= frames[j].at

(* A proxy points at the slot that the program has reached. *)
ProxiesPlaced ==
  \A p \in DOMAIN proxies :
    proxies[p].loc = SlotStart(frames[proxies[p].owner].at, proxies[p].next)

IInv == TypeOK /\ Layout /\ ArgumentsIntact /\ ProxiesPlaced /\ RefusedOnlyWhenFull

-----------------------------------------------------------------------------
(* Arithmetic of slots *)

LEMMA NumFieldsPositive == NumFields \in Nat /\ NumFields >= 2 /\ Even(NumFields)
  BY StackAssumption, SMT DEF Even

LEMMA EntriesPositive == Entries \in Nat /\ Entries >= 2 /\ Even(Entries)
  BY StackAssumption, SMT DEF Even

LEMMA TimesNat == ASSUME NEW n \in Nat PROVE n * NumFields \in Nat
  BY NumFieldsPositive, SMT

LEMMA TimesEven == ASSUME NEW n \in Nat PROVE Even(n * NumFields)
  <1>1. PICK half \in Nat : NumFields = 2 * half
    BY NumFieldsPositive DEF Even
  <1>2. n * half \in Nat /\ n * NumFields = 2 * (n * half)
    BY <1>1, SMT
  <1> QED BY <1>2 DEF Even

LEMMA TimesMonotone ==
  ASSUME NEW m \in Nat, NEW n \in Nat, m < n
  PROVE  m * NumFields + NumFields <= n * NumFields
  BY NumFieldsPositive, SMT

LEMMA TimesNext == ASSUME NEW n \in Nat PROVE (n + 1) * NumFields = n * NumFields + NumFields
  BY NumFieldsPositive, SMT

(* The slot and the field of a word, from the word's place. *)
LEMMA SlotOfWord ==
  ASSUME NEW slot \in Nat, NEW f \in Fields
  PROVE  /\ (slot * NumFields + f) \div NumFields = slot
         /\ (slot * NumFields + f) % NumFields = f
  BY NumFieldsPositive, SMT DEF Fields

LEMMA FieldOfWord == ASSUME NEW w \in Nat PROVE w % NumFields \in Fields
  BY NumFieldsPositive, SMT DEF Fields

-----------------------------------------------------------------------------
(* Words and stores *)

LEMMA SizeEven ==
  ASSUME NEW frame \in Frames
  PROVE  Size(frame) \in Nat /\ Even(Size(frame))
  BY TimesNat, TimesEven DEF Frames, SlotCounts, Size

LEMMA ArgumentMap ==
  ASSUME NEW args \in ArgumentMaps
  PROVE  /\ DOMAIN args \subseteq SlotCounts
         /\ \A slot \in DOMAIN args : args[slot] \in [Fields -> Nat]
  BY StackAssumption DEF ArgumentMaps

LEMMA StoredWords ==
  ASSUME NEW words \in [Words -> Nat], NEW at \in Nat, NEW args \in ArgumentMaps
  PROVE  Stored(words, at, args) \in [Words -> Nat]
  <1> SUFFICES ASSUME NEW w \in Words, w >= at + 2, (w - at - 2) \div NumFields \in DOMAIN args
               PROVE  args[(w - at - 2) \div NumFields][(w - at - 2) % NumFields] \in Nat
    BY DEF Stored
  <1>1. w - at - 2 \in Nat
    BY EntriesPositive DEF Words
  <1>2. (w - at - 2) % NumFields \in Fields
    BY <1>1, FieldOfWord
  <1> QED BY <1>2, ArgumentMap

(* A store leaves the header of its frame and all frames before it alone. *)
LEMMA StoredBelow ==
  ASSUME NEW words, NEW at \in Nat, NEW args, NEW w \in Words, w < at + 2
  PROVE  Stored(words, at, args)[w] = words[w]
  <1>1. ~(w >= at + 2)
    BY EntriesPositive DEF Words
  <1> QED BY <1>1 DEF Stored

LEMMA StoredSlot ==
  ASSUME NEW words \in [Words -> Nat], NEW at \in Nat, NEW args \in ArgumentMaps,
         NEW slot \in Nat, NEW f \in Fields, SlotStart(at, slot) + f \in Words
  PROVE  /\ slot \in DOMAIN args =>
              Stored(words, at, args)[SlotStart(at, slot) + f] = args[slot][f]
         /\ slot \notin DOMAIN args =>
              Stored(words, at, args)[SlotStart(at, slot) + f] = words[SlotStart(at, slot) + f]
  <1> DEFINE w == SlotStart(at, slot) + f
  <1>1. slot * NumFields \in Nat /\ f \in Nat
    BY TimesNat, NumFieldsPositive DEF Fields
  <1>2. w >= at + 2 /\ w - at - 2 = slot * NumFields + f
    BY <1>1 DEF SlotStart
  <1>3. (w - at - 2) \div NumFields = slot /\ (w - at - 2) % NumFields = f
    BY <1>2, SlotOfWord
  <1> HIDE DEF w
  <1>4. w \in Words
    BY DEF w
  <1>5. Stored(words, at, args)[w] = IF slot \in DOMAIN args THEN args[slot][f] ELSE words[w]
    BY <1>2, <1>3, <1>4 DEF Stored
  <1> QED BY <1>5 DEF w

(* The slots of a frame lie between its header and the end of the frame.  *)
LEMMA SlotInFrame ==
  ASSUME NEW at \in Nat, NEW count \in Nat, NEW slot \in 0 .. count - 1, NEW f \in Fields
  PROVE  /\ SlotStart(at, slot) + f \in Nat
         /\ at + 2 <= SlotStart(at, slot) + f
         /\ SlotStart(at, slot) + f < at + 2 + count * NumFields
  <1>1. slot \in Nat /\ slot < count
    OBVIOUS
  <1>2. slot * NumFields + NumFields <= count * NumFields
    BY <1>1, TimesMonotone
  <1>3. slot * NumFields \in Nat /\ count * NumFields \in Nat
    BY <1>1, TimesNat
  <1>4. f \in Nat /\ f < NumFields
    BY NumFieldsPositive DEF Fields
  <1> QED BY <1>2, <1>3, <1>4, NumFieldsPositive DEF SlotStart

(* The last frame ends inside the stack, and every other before it. *)
LEMMA RunningFrame ==
  ASSUME Layout
  PROVE  /\ Running \in Frames /\ Len(frames) \in 1 .. Len(frames)
         /\ ptr = Running.at /\ ptr \in Words /\ ptr \in Nat /\ Even(ptr)
         /\ mem[ptr + 1] = Size(Running)
         /\ Running.need = ptr + 2 + Size(Running)
         /\ Running.need <= Entries
         /\ \A i \in 1 .. Len(frames) : i < Len(frames) => frames[i].need <= ptr
  <1>1. Len(frames) \in 1 .. Len(frames) /\ Running \in Frames
    BY DEF Layout, Running
  <1>2. ptr \in Words /\ ptr \in Nat
    BY <1>1, EntriesPositive DEF Layout, Frames, Words
  <1> QED BY <1>1, <1>2 DEF Layout, Running

(* The assertion holds exactly when the new frame fits: everything is even. *)
LEMMA AssertionExact ==
  ASSUME Layout, NEW count \in SlotCounts
  PROVE  /\ FrameFits(mem[ptr + 1], count * NumFields)
              <=> Running.need + 2 + count * NumFields <= Entries
         /\ Even(Running.need) /\ Running.need \in Nat /\ count * NumFields \in Nat
  <1> DEFINE size == count * NumFields
             need == Running.need
  <1>1. need = ptr + 2 + Size(Running) /\ ptr \in Nat /\ mem[ptr + 1] = Size(Running)
    BY RunningFrame
  <1>2. PICK p \in Nat : ptr = 2 * p
    BY RunningFrame DEF Even
  <1>3. Size(Running) \in Nat /\ \E s \in Nat : Size(Running) = 2 * s
    BY RunningFrame, SizeEven DEF Even
  <1>4. PICK s \in Nat : Size(Running) = 2 * s
    BY <1>3
  <1>5. size \in Nat /\ \E z \in Nat : size = 2 * z
    BY TimesNat, TimesEven, StackAssumption DEF SlotCounts, Even
  <1>6. PICK z \in Nat : size = 2 * z
    BY <1>5
  <1>7. PICK e \in Nat : Entries = 2 * e
    BY EntriesPositive DEF Even
  <1>8. need = 2 * (p + 1 + s) /\ p + 1 + s \in Nat
    BY <1>1, <1>2, <1>4
  <1>9. FrameFits(mem[ptr + 1], size) <=> 2 * p < 2 * e - 2 * s - 2 - 2 * z
    BY <1>1, <1>2, <1>4, <1>6, <1>7 DEF FrameFits
  <1>10. 2 * p < 2 * e - 2 * s - 2 - 2 * z <=> 2 * (p + 1 + s) + 2 + 2 * z <= 2 * e
    OBVIOUS
  <1>11. FrameFits(mem[ptr + 1], size) <=> need + 2 + size <= Entries
    BY <1>6, <1>7, <1>8, <1>9, <1>10
  <1>12. need \in Nat
    BY <1>8
  <1>13. Even(need)
    <2> SUFFICES \E half \in Nat : need = 2 * half
      BY DEF Even
    <2> WITNESS p + 1 + s \in Nat
    <2> QED BY <1>8
  <1> QED BY <1>5, <1>11, <1>12, <1>13

LEMMA FrameWords ==
  ASSUME Layout, NEW i \in 1 .. Len(frames), NEW slot \in DOMAIN frames[i].args, NEW f \in Fields
  PROVE  /\ slot \in Nat
         /\ SlotStart(frames[i].at, slot) + f \in Words
         /\ frames[i].at + 2 <= SlotStart(frames[i].at, slot) + f
         /\ SlotStart(frames[i].at, slot) + f < frames[i].need
  <1>1. frames[i] \in Frames
    BY DEF Layout
  <1>2. frames[i].at \in Nat /\ frames[i].count \in Nat /\ frames[i].need \in Nat
    BY <1>1, StackAssumption, EntriesPositive DEF Frames, Words, SlotCounts
  <1>3. /\ slot \in 0 .. frames[i].count - 1
        /\ frames[i].need = frames[i].at + 2 + frames[i].count * NumFields
        /\ frames[i].need <= Entries
    BY DEF Layout, Size
  <1>4. slot \in Nat
    BY <1>2, <1>3
  <1> DEFINE w == SlotStart(frames[i].at, slot) + f
  <1>5. /\ w \in Nat /\ frames[i].at + 2 <= w
        /\ w < frames[i].at + 2 + frames[i].count * NumFields
    BY <1>2, <1>3, SlotInFrame
  <1> HIDE DEF w
  <1>6. w < frames[i].need /\ w \in Words
    BY <1>2, <1>3, <1>5, EntriesPositive DEF Words
  <1> QED BY <1>4, <1>5, <1>6 DEF w

LEMMA ArgumentsTyped ==
  ASSUME NEW count \in SlotCounts, NEW args \in Arguments(count)
  PROVE  args \in ArgumentMaps /\ DOMAIN args \subseteq 0 .. count - 1
  <1>1. PICK first \in {0, 1} : args \in [first .. count - 1 -> Metadata]
    BY DEF Arguments
  <1>2. first .. count - 1 \subseteq 0 .. count - 1 /\ first .. count - 1 \subseteq SlotCounts
    BY StackAssumption DEF SlotCounts
  <1> QED BY <1>1, <1>2 DEF ArgumentMaps

-----------------------------------------------------------------------------
(* The steps *)

(* What a call writes: the new frame's header and slots, nothing below it. *)
LEMMA CallWrites ==
  ASSUME IInv, NEW count \in SlotCounts, NEW args \in Arguments(count), Call(count, args)
  PROVE  /\ ptr' = Running.need /\ ptr' \in Nat
         /\ ptr' + 2 + count * NumFields <= Entries
         /\ mem' \in [Words -> Nat]
         /\ mem'[ptr'] = Size(Running) /\ mem'[ptr' + 1] = count * NumFields
         /\ \A w \in Words : w < ptr' => mem'[w] = mem[w]
         /\ \A slot \in DOMAIN args : \A f \in Fields :
              mem'[SlotStart(ptr', slot) + f] = args[slot][f]
  <1> DEFINE prevSize == mem[ptr + 1]
             size     == count * NumFields
             at       == ptr + prevSize + 2
             header   == WithHeader(mem, at, prevSize, size)
  <1>1. Layout /\ mem \in [Words -> Nat]
    BY DEF IInv, TypeOK
  <1>2. /\ prevSize = Size(Running) /\ prevSize \in Nat /\ ptr \in Nat
        /\ Running.need = ptr + 2 + Size(Running)
    BY <1>1, RunningFrame, SizeEven
  <1>3. at = Running.need /\ at \in Nat
    BY <1>2
  <1>4. size \in Nat /\ Running.need + 2 + size <= Entries
    BY <1>1, AssertionExact DEF Call
  <1>5. at \in Words /\ at + 1 \in Words
    BY <1>3, <1>4, EntriesPositive DEF Words
  <1>6. ptr' = at /\ mem' = Stored(header, at, args)
    BY DEF Call
  <1>7. args \in ArgumentMaps /\ DOMAIN args \subseteq 0 .. count - 1
    BY ArgumentsTyped
  <1>8. count \in Nat
    BY StackAssumption DEF SlotCounts
  <1> HIDE DEF size, at, prevSize
  <1>9. /\ header \in [Words -> Nat]
        /\ header[at] = prevSize /\ header[at + 1] = size
        /\ \A w \in Words : w < at => header[w] = mem[w]
    <2>1. header = [mem EXCEPT ![at] = prevSize, ![at + 1] = size]
      BY DEF WithHeader
    <2>2. \A w \in Words : w \in Int
      BY EntriesPositive DEF Words
    <2>3. at + 1 # at /\ \A w \in Words : w < at => w # at /\ w # at + 1
      BY <1>3, <2>2
    <2> QED BY <1>1, <1>2, <1>4, <1>5, <2>1, <2>3
  <1> HIDE DEF header
  <1>10. mem' \in [Words -> Nat]
    BY <1>3, <1>6, <1>7, <1>9, StoredWords
  <1>11. \A w \in Words : w < at + 2 => mem'[w] = header[w]
    BY <1>3, <1>6, StoredBelow
  <1>12. ASSUME NEW slot \in DOMAIN args, NEW f \in Fields
         PROVE  mem'[SlotStart(at, slot) + f] = args[slot][f]
    <2>1. slot \in 0 .. count - 1 /\ slot \in Nat
      BY <1>7, <1>8
    <2>2. SlotStart(at, slot) + f \in Nat /\ SlotStart(at, slot) + f < at + 2 + size
      BY <1>3, <1>8, <2>1, SlotInFrame DEF size
    <2>3. SlotStart(at, slot) + f \in Words
      BY <1>3, <1>4, <2>2, EntriesPositive DEF Words
    <2>4. Stored(header, at, args)[SlotStart(at, slot) + f] = args[slot][f]
      BY <1>3, <1>7, <1>9, <2>1, <2>3, StoredSlot
    <2> QED BY <1>6, <2>4
  <1>13. mem'[at] = prevSize /\ mem'[at + 1] = size
    BY <1>3, <1>5, <1>9, <1>11
  <1>14. \A w \in Words : w < at => mem'[w] = mem[w]
    BY <1>3, <1>9, <1>11 DEF Words
  <1>15. ptr' + 2 + size <= Entries
    BY <1>3, <1>4, <1>6
  <1> QED BY <1>2, <1>3, <1>6, <1>10, <1>12, <1>13, <1>14, <1>15 DEF size

LEMMA CallFrames ==
  ASSUME IInv, NEW count \in SlotCounts, NEW args \in Arguments(count), Call(count, args)
  PROVE  /\ frames' \in Seq(Frames) /\ Len(frames') = Len(frames) + 1
         /\ \A i \in 1 .. Len(frames) : frames'[i] = frames[i]
         /\ frames'[Len(frames) + 1].at = ptr'
         /\ frames'[Len(frames) + 1].count = count
         /\ frames'[Len(frames) + 1].args = args
         /\ frames'[Len(frames) + 1].need = ptr' + 2 + count * NumFields
  <1> DEFINE new == [at |-> ptr', count |-> count, args |-> args,
                     need |-> ptr' + 2 + count * NumFields]
  <1>1. frames \in Seq(Frames)
    BY DEF IInv, Layout
  <1>2. ptr' = Running.need /\ ptr' \in Nat /\ ptr' + 2 + count * NumFields <= Entries
    BY CallWrites
  <1>3. frames' = Append(frames, new)
    BY <1>2 DEF Call
  <1>4. count * NumFields \in Nat
    BY TimesNat, StackAssumption DEF SlotCounts
  <1>5. ptr' \in Words /\ ptr' + 2 + count * NumFields \in Nat
    BY <1>2, <1>4, EntriesPositive DEF Words
  <1>6. new \in Frames
    BY <1>5, ArgumentsTyped DEF Frames
  <1> HIDE DEF new
  <1>7. frames' \in Seq(Frames) /\ Len(frames') = Len(frames) + 1
    BY <1>1, <1>3, <1>6
  <1>8. \A i \in 1 .. Len(frames) : frames'[i] = frames[i]
    BY <1>1, <1>3, <1>6
  <1>9. frames'[Len(frames) + 1] = new
    BY <1>1, <1>3, <1>6
  <1>10. /\ new.at = ptr' /\ new.count = count /\ new.args = args
         /\ new.need = ptr' + 2 + count * NumFields
    BY DEF new
  <1> QED BY <1>7, <1>8, <1>9, <1>10

(* A frame survives a step that keeps the words below its end. *)
LEMMA CallLayout ==
  ASSUME IInv, NEW count \in SlotCounts, NEW args \in Arguments(count), Call(count, args)
  PROVE  Layout'
  <1> DEFINE n   == Len(frames)
             new == frames'[n + 1]
  <1>1. Layout /\ n \in Nat /\ n >= 1
    BY DEF IInv, Layout
  <1>2. /\ ptr' = Running.need /\ ptr' \in Nat
        /\ ptr' + 2 + count * NumFields <= Entries
        /\ mem'[ptr'] = Size(Running) /\ mem'[ptr' + 1] = count * NumFields
        /\ \A w \in Words : w < ptr' => mem'[w] = mem[w]
    BY CallWrites
  <1>3. /\ frames' \in Seq(Frames) /\ Len(frames') = n + 1
        /\ \A i \in 1 .. n : frames'[i] = frames[i]
        /\ new.at = ptr' /\ new.count = count /\ new.args = args
        /\ new.need = ptr' + 2 + count * NumFields
    BY CallFrames
  <1>4. Running = frames[n] /\ Running.need <= Entries /\ Even(ptr')
    BY <1>1, <1>2, AssertionExact, RunningFrame DEF Running
  <1>5. Running' = new /\ ptr' = Running'.at
    BY <1>3 DEF Running
  <1>6. \A i \in 1 .. n : /\ frames[i] \in Frames /\ frames[i].at \in Nat
                          /\ frames[i].need <= ptr' /\ frames[i].need \in Nat
                          /\ frames[i].need = frames[i].at + 2 + Size(frames[i])
                          /\ Size(frames[i]) \in Nat
    <2> SUFFICES ASSUME NEW i \in 1 .. n
                 PROVE  /\ frames[i] \in Frames /\ frames[i].at \in Nat
                        /\ frames[i].need <= ptr' /\ frames[i].need \in Nat
                        /\ frames[i].need = frames[i].at + 2 + Size(frames[i])
                        /\ Size(frames[i]) \in Nat
      OBVIOUS
    <2>1. frames[i] \in Frames /\ frames[i].need = frames[i].at + 2 + Size(frames[i])
      BY <1>1 DEF Layout
    <2>2. frames[i].at \in Nat /\ frames[i].need \in Nat /\ Size(frames[i]) \in Nat
      BY <2>1, SizeEven, EntriesPositive DEF Frames, Words
    <2>3. CASE i = n
      BY <1>2, <1>4, <2>1, <2>2, <2>3
    <2>4. CASE i < n
      <3>1. frames[i].need <= ptr /\ ptr \in Nat /\ Running.need = ptr + 2 + Size(Running)
        BY <1>1, <2>4, RunningFrame
      <3>2. Size(Running) \in Nat
        BY <1>1, RunningFrame, SizeEven
      <3> QED BY <1>2, <2>1, <2>2, <3>1, <3>2
    <2> QED BY <1>1, <2>3, <2>4
  <1>7. ASSUME NEW i \in 1 .. n
        PROVE  /\ mem'[frames[i].at] = mem[frames[i].at]
               /\ mem'[frames[i].at + 1] = mem[frames[i].at + 1]
    <2>1. frames[i].at + 1 < ptr' /\ frames[i].at < ptr' /\ frames[i].at \in Nat
      BY <1>2, <1>6
    <2>2. count * NumFields \in Nat
      BY TimesNat, StackAssumption DEF SlotCounts
    <2>3. ptr' <= Entries
      BY <1>2, <2>2, EntriesPositive
    <2>4. frames[i].at \in Words /\ frames[i].at + 1 \in Words
      BY <1>2, <2>1, <2>3, EntriesPositive DEF Words
    <2> QED BY <1>2, <2>1, <2>4
  <1> HIDE DEF n, new
  <1>8. ASSUME NEW i \in 1 .. Len(frames')
        PROVE  /\ DOMAIN frames'[i].args \subseteq 0 .. frames'[i].count - 1
               /\ frames'[i].need = frames'[i].at + 2 + Size(frames'[i])
               /\ frames'[i].need <= Entries
               /\ Even(frames'[i].at)
               /\ mem'[frames'[i].at + 1] = Size(frames'[i])
               /\ i > 1 => /\ frames'[i].at = frames'[i - 1].need
                           /\ mem'[frames'[i].at] = Size(frames'[i - 1])
    <2>1. CASE i \in 1 .. n
      <3>1. frames'[i] = frames[i] /\ (i > 1 => frames'[i - 1] = frames[i - 1])
        BY <1>1, <1>3, <2>1
      <3>2. /\ DOMAIN frames[i].args \subseteq 0 .. frames[i].count - 1
            /\ frames[i].need = frames[i].at + 2 + Size(frames[i])
            /\ frames[i].need <= Entries
            /\ Even(frames[i].at)
            /\ mem[frames[i].at + 1] = Size(frames[i])
            /\ i > 1 => /\ frames[i].at = frames[i - 1].need
                        /\ mem[frames[i].at] = Size(frames[i - 1])
        BY <1>1, <2>1 DEF Layout, n
      <3> QED BY <1>7, <2>1, <3>1, <3>2
    <2>2. CASE i = n + 1
      <3>1. frames'[i] = new /\ frames'[i - 1] = Running /\ i > 1
        BY <1>1, <1>3, <1>4, <2>2 DEF new
      <3>2. Size(new) = count * NumFields /\ DOMAIN args \subseteq 0 .. count - 1
        BY <1>3, ArgumentsTyped DEF Size
      <3> QED BY <1>2, <1>3, <1>4, <3>1, <3>2
    <2> QED BY <1>1, <1>3, <2>1, <2>2
  <1>9. ASSUME NEW i \in 1 .. Len(frames'), NEW j \in 1 .. Len(frames'), i < j
        PROVE  frames'[i].need <= frames'[j].at
    <2>1. i \in 1 .. n /\ frames'[i] = frames[i]
      BY <1>1, <1>3, <1>9
    <2>2. CASE j \in 1 .. n
      <3>1. frames'[j] = frames[j]
        BY <1>3, <2>2
      <3>2. frames[i].need <= frames[j].at
        BY <1>1, <1>9, <2>1, <2>2 DEF Layout, n
      <3> QED BY <2>1, <3>1, <3>2
    <2>3. CASE j = n + 1
      BY <1>3, <1>6, <2>1, <2>3 DEF new
    <2> QED BY <1>1, <1>3, <2>2, <2>3
  <1>10. frames' \in Seq(Frames) /\ Len(frames') >= 1
    BY <1>1, <1>3
  <1> QED BY <1>5, <1>8, <1>9, <1>10 DEF Layout

LEMMA CallKeeps ==
  ASSUME IInv, NEW count \in SlotCounts, NEW args \in Arguments(count), Call(count, args),
         refused = None
  PROVE  IInv'
  <1> DEFINE n == Len(frames)
  <1>1. Layout /\ TypeOK /\ ArgumentsIntact /\ ProxiesPlaced /\ n \in Nat /\ n >= 1
    BY DEF IInv, Layout
  <1>2. Layout'
    BY CallLayout
  <1>3. /\ ptr' = Running.need /\ ptr' \in Nat /\ ptr' + 2 + count * NumFields <= Entries
        /\ mem' \in [Words -> Nat]
        /\ \A w \in Words : w < ptr' => mem'[w] = mem[w]
        /\ \A slot \in DOMAIN args : \A f \in Fields :
             mem'[SlotStart(ptr', slot) + f] = args[slot][f]
    BY CallWrites
  <1>4. /\ Len(frames') = n + 1
        /\ \A i \in 1 .. n : frames'[i] = frames[i]
        /\ frames'[n + 1].at = ptr' /\ frames'[n + 1].args = args
        /\ frames' \in Seq(Frames)
    BY CallFrames
  <1>5. proxies' = proxies /\ refused' = refused
    BY DEF Call
  <1>6. TypeOK'
    <2> DEFINE size == count * NumFields
    <2>1. size \in Nat
      BY TimesNat, StackAssumption DEF SlotCounts
    <2>2. ptr' + 2 + size <= Entries
      BY <1>3
    <2> HIDE DEF size
    <2>3. ptr' \in Words
      BY <1>3, <2>1, <2>2, EntriesPositive DEF Words
    <2>4. ASSUME NEW i \in DOMAIN frames'
          PROVE  frames'[i].at \in Words /\ frames'[i].count \in SlotCounts /\ frames'[i].need \in Nat
      <3>1. frames'[i] \in Frames
        BY <1>4
      <3> QED BY <3>1 DEF Frames
    <2>5. \A p \in DOMAIN proxies : proxies[p].owner \in 1 .. Len(frames')
      BY <1>1, <1>4 DEF TypeOK
    <2> QED BY <1>1, <1>3, <1>5, <2>3, <2>4, <2>5 DEF TypeOK
  <1>7. ArgumentsIntact'
    <2> SUFFICES ASSUME NEW i \in DOMAIN frames', NEW slot \in DOMAIN frames'[i].args, NEW f \in Fields
                 PROVE  mem'[SlotStart(frames'[i].at, slot) + f] = frames'[i].args[slot][f]
      BY DEF ArgumentsIntact
    <2>1. i \in 1 .. n + 1
      BY <1>4
    <2>2. CASE i = n + 1
      BY <1>3, <1>4, <2>2
    <2>3. CASE i \in 1 .. n
      <3>1. frames'[i] = frames[i] /\ i \in DOMAIN frames
        BY <1>1, <1>4, <2>3 DEF Layout
      <3>2. frames[i].need <= ptr'
        <4>1. frames'[i].need <= frames'[n + 1].at
          BY <1>1, <1>2, <1>4, <2>3 DEF Layout
        <4> QED BY <1>4, <3>1, <4>1
      <3>3. /\ SlotStart(frames[i].at, slot) + f \in Words
            /\ SlotStart(frames[i].at, slot) + f < frames[i].need
        BY <1>1, <2>3, <3>1, FrameWords
      <3>4. frames[i].need \in Nat
        BY <1>1, <3>1 DEF TypeOK
      <3>5. SlotStart(frames[i].at, slot) + f < ptr'
        BY <1>3, <3>2, <3>3, <3>4, EntriesPositive DEF Words
      <3>6. mem'[SlotStart(frames[i].at, slot) + f] = mem[SlotStart(frames[i].at, slot) + f]
        BY <1>3, <3>3, <3>5
      <3>7. mem[SlotStart(frames[i].at, slot) + f] = frames[i].args[slot][f]
        BY <1>1, <3>1 DEF ArgumentsIntact
      <3> QED BY <3>1, <3>6, <3>7
    <2> QED BY <1>1, <2>1, <2>2, <2>3
  <1>8. ProxiesPlaced'
    BY <1>1, <1>4, <1>5 DEF ProxiesPlaced, TypeOK, SlotStart
  <1>9. RefusedOnlyWhenFull'
    BY <1>5 DEF RefusedOnlyWhenFull
  <1> QED BY <1>2, <1>6, <1>7, <1>8, <1>9 DEF IInv

(* A result goes into the running function's slot 0 and nowhere else. *)
LEMMA StoreResultKeeps ==
  ASSUME IInv, NEW metadata \in Metadata, StoreResult(metadata), refused = None
  PROVE  IInv'
  <1> DEFINE n      == Len(frames)
             result == [slot \in {0} |-> metadata]
             args   == [slot \in DOMAIN Running.args \cup {0} |->
                          IF slot = 0 THEN metadata ELSE Running.args[slot]]
  <1>1. /\ Layout /\ TypeOK /\ ArgumentsIntact /\ ProxiesPlaced /\ n \in Nat /\ n > 1
        /\ Running.count > 0 /\ 0 \notin DOMAIN Running.args
        /\ mem' = Stored(mem, ptr, result) /\ ptr' = ptr
        /\ frames' = [frames EXCEPT ![n].args = args]
        /\ proxies' = proxies /\ refused' = refused
    BY DEF IInv, Layout, StoreResult, Running
  <1>2. /\ Running \in Frames /\ ptr = Running.at /\ ptr \in Nat /\ Running = frames[n]
        /\ Running.need = ptr + 2 + Size(Running) /\ Running.need <= Entries
        /\ \A i \in 1 .. n : i < n => frames[i].need <= ptr
    BY <1>1, RunningFrame DEF Running
  <1>3. Running.count \in SlotCounts /\ Running.count \in Nat /\ Running.args \in ArgumentMaps
    BY <1>2, StackAssumption DEF Frames, SlotCounts
  <1>4. /\ result \in ArgumentMaps /\ DOMAIN result = {0} /\ result[0] = metadata
        /\ metadata \in [Fields -> Nat] /\ 0 \in SlotCounts
    <2>1. 0 \in SlotCounts /\ metadata \in [Fields -> Nat]
      BY StackAssumption DEF SlotCounts
    <2>2. {0} \in SUBSET SlotCounts /\ result \in [{0} -> Metadata]
      BY <2>1
    <2>3. result \in ArgumentMaps
      BY <2>2 DEF ArgumentMaps
    <2>4. DOMAIN result = {0} /\ result[0] = metadata
      OBVIOUS
    <2> QED BY <2>1, <2>3, <2>4
  <1>5. /\ args \in ArgumentMaps /\ args[0] = metadata
        /\ DOMAIN args = DOMAIN Running.args \cup {0}
        /\ DOMAIN args \subseteq 0 .. Running.count - 1
        /\ \A slot \in DOMAIN Running.args : slot # 0 /\ args[slot] = Running.args[slot]
    <2>1. PICK slots \in SUBSET SlotCounts : Running.args \in [slots -> Metadata]
      BY <1>3 DEF ArgumentMaps
    <2>2. args \in [slots \cup {0} -> Metadata] /\ slots \cup {0} \in SUBSET SlotCounts
      BY <1>4, <2>1
    <2>3. DOMAIN Running.args \subseteq 0 .. Running.count - 1
      BY <1>1, <1>2 DEF Layout
    <2>4. 0 \in 0 .. Running.count - 1
      BY <1>1, <1>3
    <2> QED BY <1>1, <2>1, <2>2, <2>3, <2>4 DEF ArgumentMaps
  <1> HIDE DEF args, result
  <1>6. /\ Len(frames') = n /\ frames' \in Seq(Frames)
        /\ \A i \in 1 .. n : /\ frames'[i].at = frames[i].at /\ frames'[i].count = frames[i].count
                             /\ frames'[i].need = frames[i].need
                             /\ Size(frames'[i]) = Size(frames[i])
                             /\ i < n => frames'[i] = frames[i]
        /\ frames'[n].args = args
    <2>1. frames \in Seq(Frames)
      BY <1>1 DEF Layout
    <2>2. [frames[n] EXCEPT !.args = args] \in Frames
      BY <1>2, <1>5 DEF Frames
    <2>3. /\ frames' \in Seq(Frames) /\ Len(frames') = n
          /\ frames'[n] = [frames[n] EXCEPT !.args = args]
          /\ \A i \in 1 .. n : i < n => frames'[i] = frames[i]
      BY <1>1, <2>1, <2>2
    <2>4. /\ frames'[n].at = frames[n].at /\ frames'[n].count = frames[n].count
          /\ frames'[n].need = frames[n].need /\ frames'[n].args = args
      BY <1>2, <2>3 DEF Frames
    <2> QED BY <1>1, <2>3, <2>4 DEF Size
  <1>7. /\ mem' \in [Words -> Nat]
        /\ \A w \in Words : w < ptr + 2 => mem'[w] = mem[w]
    BY <1>1, <1>2, <1>4, StoredWords, StoredBelow DEF TypeOK
  <1>8. Running' = frames'[n]
    BY <1>6 DEF Running
  <1>9. \A i \in 1 .. n : /\ frames[i].at < ptr + 1 /\ frames[i].at \in Words
                          /\ frames[i].at + 1 \in Words /\ frames[i].at + 1 < ptr + 2
                          /\ frames[i].at \in Nat /\ frames[i].need \in Nat
    <2> SUFFICES ASSUME NEW i \in 1 .. n
                 PROVE  /\ frames[i].at < ptr + 1 /\ frames[i].at \in Words
                        /\ frames[i].at + 1 \in Words /\ frames[i].at + 1 < ptr + 2
                        /\ frames[i].at \in Nat /\ frames[i].need \in Nat
      OBVIOUS
    <2>1. frames[i] \in Frames /\ frames[i].need = frames[i].at + 2 + Size(frames[i]) /\ frames[i].need <= Entries
      BY <1>1 DEF Layout
    <2>2. frames[i].at \in Nat /\ frames[i].need \in Nat /\ Size(frames[i]) \in Nat
      BY <2>1, SizeEven, EntriesPositive DEF Frames, Words
    <2>3. frames[i].at <= ptr
      BY <1>1, <1>2, <2>1, <2>2
    <2>4. frames[i].at + 2 <= Entries
      BY <2>1, <2>2, EntriesPositive
    <2>5. frames[i].at \in Words /\ frames[i].at + 1 \in Words
      BY <2>2, <2>4, EntriesPositive DEF Words
    <2> QED BY <1>2, <2>2, <2>3, <2>5
  <1>10. Layout'
    <2>1. ASSUME NEW i \in 1 .. n
          PROVE  /\ DOMAIN frames'[i].args \subseteq 0 .. frames'[i].count - 1
                 /\ frames'[i].need = frames'[i].at + 2 + Size(frames'[i])
                 /\ frames'[i].need <= Entries
                 /\ Even(frames'[i].at)
                 /\ mem'[frames'[i].at + 1] = Size(frames'[i])
                 /\ i > 1 => /\ frames'[i].at = frames'[i - 1].need
                             /\ mem'[frames'[i].at] = Size(frames'[i - 1])
      <3>1. DOMAIN frames'[i].args \subseteq 0 .. frames'[i].count - 1
        BY <1>1, <1>2, <1>5, <1>6 DEF Layout
      <3>2. mem'[frames[i].at + 1] = mem[frames[i].at + 1] /\ mem'[frames[i].at] = mem[frames[i].at]
        BY <1>2, <1>7, <1>9
      <3>3. i > 1 => i - 1 \in 1 .. n
        BY <1>1
      <3> QED BY <1>1, <1>6, <3>1, <3>2, <3>3 DEF Layout
    <2>2. \A i, j \in 1 .. n : i < j => frames'[i].need <= frames'[j].at
      BY <1>1, <1>6 DEF Layout
    <2>3. ptr' = Running'.at
      BY <1>1, <1>2, <1>6, <1>8
    <2> QED BY <1>1, <1>6, <2>1, <2>2, <2>3 DEF Layout
  <1>11. TypeOK'
    <2>1. ASSUME NEW i \in DOMAIN frames'
          PROVE  frames'[i].at \in Words /\ frames'[i].count \in SlotCounts /\ frames'[i].need \in Nat
      <3>1. frames'[i] \in Frames
        BY <1>6
      <3> QED BY <3>1 DEF Frames
    <2> QED BY <1>1, <1>6, <1>7, <2>1 DEF TypeOK
  <1>12. ArgumentsIntact'
    <2> SUFFICES ASSUME NEW i \in 1 .. n, NEW slot \in DOMAIN frames'[i].args, NEW f \in Fields
                 PROVE  mem'[SlotStart(frames'[i].at, slot) + f] = frames'[i].args[slot][f]
      BY <1>6 DEF ArgumentsIntact
    <2> DEFINE w == SlotStart(frames[i].at, slot) + f
    <2>1. CASE i < n
      <3>1. frames'[i] = frames[i]
        BY <1>6, <2>1
      <3>2. w \in Words /\ w < frames[i].need
        BY <1>1, <3>1, FrameWords
      <3>3. w < ptr + 2
        BY <1>2, <1>9, <2>1, <3>2, EntriesPositive DEF Words
      <3>4. i \in DOMAIN frames /\ slot \in DOMAIN frames[i].args
        <4>1. frames \in Seq(Frames)
          BY <1>1 DEF Layout
        <4>2. DOMAIN frames = 1 .. n
          BY <4>1
        <4>3. slot \in DOMAIN frames[i].args
          BY <3>1
        <4> QED BY <4>2, <4>3
      <3>5. mem[w] = frames[i].args[slot][f]
        BY <1>1, <3>4 DEF ArgumentsIntact
      <3> QED BY <1>7, <3>1, <3>2, <3>3, <3>5
    <2>2. CASE i = n
      <3>1. frames'[i].at = ptr /\ frames'[i].args = args
        BY <1>2, <1>6, <2>2
      <3>2. slot \in 0 .. Running.count - 1 /\ slot \in Nat
        BY <1>3, <1>5, <3>1
      <3>3. SlotStart(ptr, slot) + f \in Nat /\ SlotStart(ptr, slot) + f < ptr + 2 + Size(Running)
        BY <1>2, <1>3, <3>2, SlotInFrame DEF Size
      <3>4. SlotStart(ptr, slot) + f \in Words
        BY <1>2, <1>3, <3>3, SizeEven, EntriesPositive DEF Words
      <3>5. mem \in [Words -> Nat] /\ ptr \in Nat /\ result \in ArgumentMaps /\ slot \in Nat
        BY <1>1, <1>2, <1>4, <3>2 DEF TypeOK
      <3>6. /\ slot \in DOMAIN result => Stored(mem, ptr, result)[SlotStart(ptr, slot) + f] = result[slot][f]
            /\ slot \notin DOMAIN result =>
                 Stored(mem, ptr, result)[SlotStart(ptr, slot) + f] = mem[SlotStart(ptr, slot) + f]
        BY <3>4, <3>5, StoredSlot
      <3>7. CASE slot = 0
        <4>1. Stored(mem, ptr, result)[SlotStart(ptr, slot) + f] = result[slot][f]
          BY <1>4, <3>7, <3>6
        <4> QED BY <1>1, <1>4, <1>5, <3>1, <3>7, <4>1
      <3>8. CASE slot # 0
        <4>1. Stored(mem, ptr, result)[SlotStart(ptr, slot) + f] = mem[SlotStart(ptr, slot) + f]
          BY <1>4, <3>8, <3>6
        <4>2. slot \in DOMAIN Running.args
          BY <1>5, <3>1, <3>8
        <4>3. mem[SlotStart(ptr, slot) + f] = Running.args[slot][f]
          BY <1>1, <1>2, <4>2 DEF ArgumentsIntact, Layout
        <4> QED BY <1>1, <1>5, <3>1, <4>1, <4>2, <4>3
      <3> QED BY <3>7, <3>8
    <2> QED BY <1>1, <2>1, <2>2
  <1>13. ProxiesPlaced'
    BY <1>1, <1>6 DEF ProxiesPlaced, TypeOK, SlotStart
  <1>14. RefusedOnlyWhenFull'
    BY <1>1 DEF RefusedOnlyWhenFull
  <1> QED BY <1>10, <1>11, <1>12, <1>13, <1>14 DEF IInv

LEMMA ReturnKeeps ==
  ASSUME IInv, Return, refused = None
  PROVE  IInv'
  <1> DEFINE n == Len(frames)
  <1>1. /\ Layout /\ TypeOK /\ ArgumentsIntact /\ ProxiesPlaced /\ n \in Nat /\ n > 1
        /\ frames \in Seq(Frames)
        /\ \A p \in DOMAIN proxies : proxies[p].owner # n
        /\ ptr' = Below(ptr) /\ mem' = mem /\ proxies' = proxies /\ refused' = refused
        /\ frames' = SubSeq(frames, 1, n - 1)
    BY DEF IInv, Layout, Return
  <1>2. /\ Len(frames') = n - 1 /\ frames' \in Seq(Frames)
        /\ \A i \in 1 .. n - 1 : frames'[i] = frames[i]
    BY <1>1
  <1>3. /\ ptr = frames[n].at /\ frames[n].at = frames[n - 1].need
        /\ mem[frames[n].at] = Size(frames[n - 1])
    BY <1>1 DEF Layout, Running
  <1>4. /\ frames[n - 1] \in Frames
        /\ frames[n - 1].need = frames[n - 1].at + 2 + Size(frames[n - 1])
    BY <1>1 DEF Layout
  <1>5. frames[n - 1].at \in Nat /\ frames[n - 1].at \in Words /\ Size(frames[n - 1]) \in Nat
    BY <1>4, SizeEven, EntriesPositive DEF Frames, Words
  <1>6. ptr' = frames[n - 1].at
    BY <1>1, <1>3, <1>4, <1>5 DEF Below
  <1>7. Running' = frames[n - 1]
    BY <1>1, <1>2 DEF Running
  <1>8. Layout'
    <2>1. ASSUME NEW i \in 1 .. n - 1
          PROVE  /\ DOMAIN frames'[i].args \subseteq 0 .. frames'[i].count - 1
                 /\ frames'[i].need = frames'[i].at + 2 + Size(frames'[i])
                 /\ frames'[i].need <= Entries
                 /\ Even(frames'[i].at)
                 /\ mem'[frames'[i].at + 1] = Size(frames'[i])
                 /\ i > 1 => /\ frames'[i].at = frames'[i - 1].need
                             /\ mem'[frames'[i].at] = Size(frames'[i - 1])
      <3>1. i \in 1 .. n /\ frames'[i] = frames[i] /\ (i > 1 => frames'[i - 1] = frames[i - 1])
        BY <1>1, <1>2
      <3> QED BY <1>1, <3>1 DEF Layout
    <2>2. ASSUME NEW i \in 1 .. n - 1, NEW j \in 1 .. n - 1, i < j
          PROVE  frames'[i].need <= frames'[j].at
      <3>1. i \in 1 .. n /\ j \in 1 .. n /\ frames'[i] = frames[i] /\ frames'[j] = frames[j]
        BY <1>1, <1>2
      <3> QED BY <1>1, <2>2, <3>1 DEF Layout
    <2> QED BY <1>1, <1>2, <1>6, <1>7, <2>1, <2>2 DEF Layout
  <1>9. TypeOK'
    <2>1. ASSUME NEW i \in DOMAIN frames'
          PROVE  frames'[i].at \in Words /\ frames'[i].count \in SlotCounts /\ frames'[i].need \in Nat
      <3>1. frames'[i] \in Frames
        BY <1>2
      <3> QED BY <3>1 DEF Frames
    <2>2. \A p \in DOMAIN proxies : proxies[p].owner \in 1 .. n - 1
      BY <1>1 DEF TypeOK
    <2> QED BY <1>1, <1>2, <1>5, <1>6, <2>1, <2>2 DEF TypeOK
  <1>10. ArgumentsIntact'
    <2> SUFFICES ASSUME NEW i \in 1 .. n - 1, NEW slot \in DOMAIN frames'[i].args, NEW f \in Fields
                 PROVE  mem'[SlotStart(frames'[i].at, slot) + f] = frames'[i].args[slot][f]
      BY <1>2 DEF ArgumentsIntact
    <2>1. frames'[i] = frames[i] /\ DOMAIN frames = 1 .. n
      BY <1>1, <1>2
    <2>2. i \in DOMAIN frames /\ slot \in DOMAIN frames[i].args
      BY <1>1, <2>1
    <2> QED BY <1>1, <2>1, <2>2 DEF ArgumentsIntact
  <1>11. ProxiesPlaced'
    <2> SUFFICES ASSUME NEW p \in DOMAIN proxies
                 PROVE  proxies[p].loc = SlotStart(frames'[proxies[p].owner].at, proxies[p].next)
      BY <1>1 DEF ProxiesPlaced, SlotStart
    <2>1. proxies[p].owner \in 1 .. n - 1
      BY <1>1 DEF TypeOK
    <2> QED BY <1>1, <1>2, <2>1 DEF ProxiesPlaced
  <1>12. RefusedOnlyWhenFull'
    BY <1>1 DEF RefusedOnlyWhenFull
  <1> QED BY <1>8, <1>9, <1>10, <1>11, <1>12 DEF IInv

LEMMA RefuseKeeps ==
  ASSUME IInv, NEW count \in SlotCounts, Refuse(count)
  PROVE  IInv'
  <1>1. /\ ~FrameFits(mem[ptr + 1], count * NumFields) /\ refused' = count
        /\ UNCHANGED <<ptr, mem, proxies, frames>>
    BY DEF Refuse
  <1>2. Running' = Running
    BY <1>1 DEF Running
  <1>3. Running.need + 2 + count * NumFields > Entries
    <2>1. ~(Running.need + 2 + count * NumFields <= Entries)
      BY <1>1, AssertionExact DEF IInv
    <2>2. Running.need \in Nat /\ count * NumFields \in Nat
      BY AssertionExact DEF IInv
    <2> QED BY <2>1, <2>2, EntriesPositive
  <1>4. RefusedOnlyWhenFull'
    BY <1>1, <1>2, <1>3 DEF RefusedOnlyWhenFull
  <1>5. TypeOK' /\ Layout' /\ ArgumentsIntact' /\ ProxiesPlaced'
    BY <1>1, <1>2 DEF IInv, TypeOK, Layout, ArgumentsIntact, ProxiesPlaced, Size, SlotStart
  <1> QED BY <1>4, <1>5 DEF IInv

(* The steps of a proxy change nothing but the proxies. *)
LEMMA ProxyStepKeeps ==
  ASSUME IInv, UNCHANGED <<ptr, mem, frames, refused>>,
         DOMAIN proxies' \subseteq Proxies,
         \A p \in DOMAIN proxies' :
           /\ proxies'[p] \in [loc : Nat, owner : DOMAIN frames, next : SlotCounts]
           /\ proxies'[p].loc = SlotStart(frames[proxies'[p].owner].at, proxies'[p].next)
  PROVE  IInv'
  <1>1. Running' = Running
    BY DEF Running
  <1>2. TypeOK' /\ ProxiesPlaced'
    BY DEF IInv, TypeOK, ProxiesPlaced, SlotStart
  <1>3. Layout' /\ ArgumentsIntact' /\ RefusedOnlyWhenFull'
    BY <1>1 DEF IInv, Layout, ArgumentsIntact, RefusedOnlyWhenFull, Size, SlotStart
  <1> QED BY <1>2, <1>3 DEF IInv

LEMMA ProxyKeeps ==
  ASSUME IInv,
         \/ \E p \in Proxies, slot \in SlotCounts : VaStart(p, slot)
         \/ \E p \in Proxies : VaArg(p) \/ VaEnd(p)
         \/ \E p, q \in Proxies : VaCopy(p, q)
  PROVE  IInv'
  <1> DEFINE Placed(proxy) ==
        /\ proxy \in [loc : Nat, owner : DOMAIN frames, next : SlotCounts]
        /\ proxy.loc = SlotStart(frames[proxy.owner].at, proxy.next)
  <1>1. /\ DOMAIN proxies \subseteq Proxies /\ \A p \in DOMAIN proxies : Placed(proxies[p])
        /\ Layout /\ TypeOK
    BY DEF IInv, TypeOK, ProxiesPlaced
  <1>2. ASSUME NEW p \in Proxies, NEW slot \in SlotCounts, VaStart(p, slot)
        PROVE  IInv'
    <2> DEFINE proxy == [loc |-> SlotStart(ptr, slot), owner |-> Len(frames), next |-> slot]
    <2>1. UNCHANGED <<ptr, mem, frames, refused>> /\ proxies' = WithProxy(p, proxy)
      BY <1>2 DEF VaStart
    <2>2. /\ ptr \in Nat /\ Len(frames) \in DOMAIN frames /\ ptr = frames[Len(frames)].at
          /\ slot \in Nat
      BY <1>1, RunningFrame, StackAssumption DEF Running, SlotCounts, Layout
    <2>3. Placed(proxy)
      <3>1. slot * NumFields \in Nat
        BY <2>2, TimesNat
      <3>2. SlotStart(ptr, slot) \in Nat
        BY <2>2, <3>1 DEF SlotStart
      <3> QED BY <2>2, <3>2
    <2> HIDE DEF proxy, Placed
    <2>4. DOMAIN proxies' \subseteq Proxies /\ \A q \in DOMAIN proxies' : Placed(proxies'[q])
      BY <1>1, <2>1, <2>3 DEF WithProxy
    <2> QED BY <2>1, <2>4, ProxyStepKeeps DEF Placed
  <1>3. ASSUME NEW p \in Proxies, VaArg(p)
        PROVE  IInv'
    <2> DEFINE owner == proxies[p].owner
               next  == proxies[p].next
    <2>1. /\ UNCHANGED <<ptr, mem, frames, refused>> /\ p \in DOMAIN proxies
          /\ next < frames[owner].count
          /\ proxies' = [proxies EXCEPT ![p].loc = Advanced(@), ![p].next = @ + 1]
      BY <1>3 DEF VaArg
    <2>2. Placed(proxies[p])
      BY <1>1, <2>1
    <2>3. owner \in DOMAIN frames /\ frames[owner].count \in SlotCounts /\ frames[owner].at \in Nat
      BY <1>1, <2>2, EntriesPositive DEF TypeOK, Words
    <2>4. next \in Nat /\ next + 1 \in SlotCounts
      BY <2>1, <2>2, <2>3, StackAssumption DEF SlotCounts
    <2>5. /\ proxies[p].loc + NumFields = SlotStart(frames[owner].at, next + 1)
          /\ proxies[p].loc + NumFields \in Nat
      <3>1. next * NumFields \in Nat /\ (next + 1) * NumFields = next * NumFields + NumFields
        BY <2>4, TimesNat, TimesNext
      <3>2. proxies[p].loc = frames[owner].at + 2 + next * NumFields
        BY <2>2 DEF SlotStart
      <3>3. proxies[p].loc + NumFields = frames[owner].at + 2 + (next + 1) * NumFields
        BY <2>3, <3>1, <3>2, NumFieldsPositive
      <3>4. proxies[p].loc + NumFields \in Nat
        BY <2>2, NumFieldsPositive
      <3> QED BY <3>3, <3>4 DEF SlotStart
    <2>6. ASSUME NEW q \in DOMAIN proxies'
          PROVE  Placed(proxies'[q])
      <3>1. CASE q # p
        <4>1. q \in DOMAIN proxies /\ proxies'[q] = proxies[q]
          BY <2>1, <3>1
        <4> QED BY <1>1, <4>1
      <3>2. CASE q = p
        <4>1. proxies'[p] = [proxies[p] EXCEPT !.loc = Advanced(@), !.next = @ + 1]
          BY <2>1
        <4>2. /\ proxies'[p].loc = proxies[p].loc + NumFields
              /\ proxies'[p].owner = owner /\ proxies'[p].next = next + 1
              /\ proxies'[p] \in [loc : Nat, owner : DOMAIN frames, next : SlotCounts]
          BY <2>2, <2>4, <2>5, <4>1 DEF Advanced
        <4> QED BY <2>5, <3>2, <4>2
      <3> QED BY <3>1, <3>2
    <2>7. DOMAIN proxies' \subseteq Proxies
      BY <1>1, <2>1
    <2> QED BY <2>1, <2>6, <2>7, ProxyStepKeeps
  <1>4. ASSUME NEW p \in Proxies, VaEnd(p)
        PROVE  IInv'
    <2>1. /\ UNCHANGED <<ptr, mem, frames, refused>>
          /\ DOMAIN proxies' \subseteq Proxies
          /\ \A q \in DOMAIN proxies' : q \in DOMAIN proxies /\ proxies'[q] = proxies[q]
      BY <1>1, <1>4 DEF VaEnd
    <2> QED BY <1>1, <2>1, ProxyStepKeeps
  <1>5. ASSUME NEW p \in Proxies, NEW q \in Proxies, VaCopy(p, q)
        PROVE  IInv'
    <2>1. /\ UNCHANGED <<ptr, mem, frames, refused>>
          /\ DOMAIN proxies' \subseteq Proxies
          /\ \A r \in DOMAIN proxies' : \E s \in DOMAIN proxies : proxies'[r] = proxies[s]
      BY <1>1, <1>5 DEF VaCopy, WithProxy
    <2> QED BY <1>1, <2>1, ProxyStepKeeps
  <1> QED BY <1>2, <1>3, <1>4, <1>5

-----------------------------------------------------------------------------
(* The invariant *)

LEMMA InitInv == Init => IInv
  <1> SUFFICES ASSUME Init PROVE IInv
    OBVIOUS
  <1> DEFINE base == [at |-> 0, count |-> 0, args |-> [slot \in {} |-> None], need |-> 2]
  <1>1. /\ ptr = 0 /\ mem = [w \in Words |-> 0] /\ DOMAIN proxies = {}
        /\ frames = <<base>> /\ refused = None
    BY DEF Init
  <1>2. 0 \in Words /\ 1 \in Words /\ 0 \in SlotCounts
    BY EntriesPositive, StackAssumption DEF Words, SlotCounts
  <1>3. base \in Frames
    <2>1. {} \in SUBSET SlotCounts /\ base.args \in [{} -> Metadata]
      OBVIOUS
    <2>2. base.args \in ArgumentMaps
      BY <2>1 DEF ArgumentMaps
    <2> QED BY <1>2, <2>2 DEF Frames
  <1>4. base.at = 0 /\ base.count = 0 /\ base.need = 2 /\ DOMAIN base.args = {} /\ Size(base) = 0
    BY NumFieldsPositive DEF Size
  <1> HIDE DEF base
  <1>5. Len(frames) = 1 /\ frames[1] = base /\ frames \in Seq(Frames) /\ Running = base
    BY <1>1, <1>3 DEF Running
  <1>6. Even(0)
    BY DEF Even
  <1>7. TypeOK
    BY <1>1, <1>2, <1>4, <1>5 DEF TypeOK
  <1>8. Layout
    <2>1. mem[0 + 1] = 0
      BY <1>1, <1>2
    <2> QED BY <1>1, <1>4, <1>5, <1>6, <2>1, EntriesPositive DEF Layout
  <1>9. ArgumentsIntact /\ ProxiesPlaced /\ RefusedOnlyWhenFull
    BY <1>1, <1>4, <1>5 DEF ArgumentsIntact, ProxiesPlaced, RefusedOnlyWhenFull
  <1> QED BY <1>7, <1>8, <1>9 DEF IInv

LEMMA StepInv == IInv /\ [Step]_vars => IInv'
  <1> SUFFICES ASSUME IInv, [Step]_vars PROVE IInv'
    OBVIOUS
  <1>1. CASE UNCHANGED vars
    <2>1. Running' = Running /\ UNCHANGED <<ptr, mem, proxies, frames, refused>>
      BY <1>1 DEF vars, Running
    <2> QED BY <2>1 DEF IInv, TypeOK, Layout, ArgumentsIntact, ProxiesPlaced,
                        RefusedOnlyWhenFull, Size, SlotStart
  <1>2. CASE Step
    <2>1. CASE \E count \in SlotCounts : Refuse(count)
      BY <2>1, RefuseKeeps
    <2>2. CASE \E count \in SlotCounts : \E args \in Arguments(count) : Call(count, args)
      BY <1>2, <2>2, CallKeeps DEF Step
    <2>3. CASE \E metadata \in Metadata : StoreResult(metadata)
      BY <1>2, <2>3, StoreResultKeeps DEF Step
    <2>4. CASE Return
      BY <1>2, <2>4, ReturnKeeps DEF Step
    <2>5. CASE \/ \E p \in Proxies, slot \in SlotCounts : VaStart(p, slot)
               \/ \E p \in Proxies : VaArg(p) \/ VaEnd(p)
               \/ \E p, q \in Proxies : VaCopy(p, q)
      BY <2>5, ProxyKeeps
    <2> QED BY <1>2, <2>1, <2>2, <2>3, <2>4, <2>5 DEF Step
  <1> QED BY <1>1, <1>2

LEMMA Invariance == Spec => []IInv
  BY InitInv, StepInv, PTL DEF Spec

LEMMA InvImplies ==
  ASSUME IInv
  PROVE  FramesFit /\ CallersRestored /\ ProxyReadsItsCall
  <1>1. Layout /\ TypeOK /\ ArgumentsIntact /\ ProxiesPlaced /\ DOMAIN frames = 1 .. Len(frames)
    BY DEF IInv, Layout
  <1>2. FramesFit
    BY <1>1 DEF FramesFit, Layout
  <1>3. CallersRestored
    <2>1. ASSUME NEW i \in DOMAIN frames
          PROVE  /\ mem[frames[i].at + 1] = Size(frames[i])
                 /\ i > 1 => Below(frames[i].at) = frames[i - 1].at
      <3>1. /\ mem[frames[i].at + 1] = Size(frames[i])
            /\ i > 1 => frames[i].at = frames[i - 1].need /\ mem[frames[i].at] = Size(frames[i - 1])
        BY <1>1 DEF Layout
      <3>2. ASSUME i > 1
            PROVE  frames[i - 1].need - Size(frames[i - 1]) - 2 = frames[i - 1].at
        <4>1. frames[i - 1] \in Frames /\ frames[i - 1].need = frames[i - 1].at + 2 + Size(frames[i - 1])
          BY <1>1, <3>2 DEF Layout
        <4>2. frames[i - 1].at \in Nat /\ Size(frames[i - 1]) \in Nat
          BY <4>1, SizeEven, EntriesPositive DEF Frames, Words
        <4> QED BY <4>1, <4>2
      <3> QED BY <3>1, <3>2 DEF Below
    <2>2. ptr = Running.at
      BY <1>1 DEF Layout
    <2> QED BY <2>1, <2>2 DEF CallersRestored
  <1>4. ProxyReadsItsCall
    <2> SUFFICES ASSUME NEW p \in DOMAIN proxies,
                        proxies[p].next \in DOMAIN frames[proxies[p].owner].args,
                        NEW f \in Fields
                 PROVE  mem[proxies[p].loc + f] = frames[proxies[p].owner].args[proxies[p].next][f]
      BY DEF ProxyReadsItsCall
    <2>1. proxies[p].owner \in DOMAIN frames
      BY <1>1 DEF TypeOK
    <2>2. proxies[p].loc = SlotStart(frames[proxies[p].owner].at, proxies[p].next)
      BY <1>1 DEF ProxiesPlaced
    <2> QED BY <1>1, <2>1, <2>2 DEF ArgumentsIntact
  <1> QED BY <1>2, <1>3, <1>4

-----------------------------------------------------------------------------
(* Every variable keeps to its type (TypeOK). *)
THEOREM ShadowStackTyped == Spec => []TypeOK
  <1>1. IInv => TypeOK
    BY DEF IInv
  <1> QED BY <1>1, Invariance, PTL

(* No frame leaves the shadow stack: the assertion of                      *)
(* allocate_shadow_stack_space is enough, because sizes are even           *)
(* (FramesFit).                                                            *)
THEOREM NoShadowStackOverflow == Spec => []FramesFit
  <1>1. IInv => FramesFit
    BY InvImplies
  <1> QED BY <1>1, Invariance, PTL

(* The assertion is not stricter than needed: it stops a call only when    *)
(* the frames do not fit (RefusedOnlyWhenFull).                            *)
THEOREM NoEarlyRefusal == Spec => []RefusedOnlyWhenFull
  <1>1. IInv => RefusedOnlyWhenFull
    BY DEF IInv
  <1> QED BY <1>1, Invariance, PTL

(* A deallocation leads back to the frame of the caller, at every depth    *)
(* (CallersRestored).                                                      *)
THEOREM ReturnsReachCallers == Spec => []CallersRestored
  <1>1. IInv => CallersRestored
    BY InvImplies
  <1> QED BY <1>1, Invariance, PTL

(* Calls that a function makes leave the metadata of its own arguments and *)
(* of all arguments above it as they were stored (ArgumentsIntact).        *)
THEOREM ArgumentsSurviveCalls == Spec => []ArgumentsIntact
  <1>1. IInv => ArgumentsIntact
    BY DEF IInv
  <1> QED BY <1>1, Invariance, PTL

(* A proxy yields the metadata of its own call's arguments, in order       *)
(* (ProxyReadsItsCall).                                                    *)
THEOREM ProxiesReadTheirCalls == Spec => []ProxyReadsItsCall
  <1>1. IInv => ProxyReadsItsCall
    BY InvImplies
  <1> QED BY <1>1, Invariance, PTL
=============================================================================
