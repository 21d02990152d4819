----------------------------- MODULE IntervalMap -----------------------------
(***************************************************************************)
(* What the splay tree of splay/src/tree.c promises to its callers: a set  *)
(* of disjoint intervals [base, bound) that answers which one a value lies *)
(* in.  An insertion that overlaps existing intervals fails, extends one   *)
(* of them, or replaces all of them, as its InsertBehavior says.           *)
(***************************************************************************)
EXTENDS Integers

CONSTANTS
  Addresses,   \* the values and ends of intervals
  Absent,      \* the answer for a value in no interval
  Conflict     \* the answer after which the program is aborted

Intervals == [base : Addresses, bound : Addresses]

(* Intervals that hold a value (the assertion of tree.c:281). *)
Proper == {new \in Intervals : new.base < new.bound}

VARIABLES map, answer

vars == <<map, answer>>

Overlap(c, new) == c.base < new.bound /\ new.base < c.bound

Overlapping(new) == {c \in map : Overlap(c, new)}

Lower(x, y) == IF x < y THEN x ELSE y
Upper(x, y) == IF x > y THEN x ELSE y

Hull(c, new) == [base |-> Lower(c.base, new.base), bound |-> Upper(c.bound, new.bound)]

Holding(val) == {c \in map : c.base <= val /\ val < c.bound}

Init == map = {} /\ answer = Absent

Add(new) ==
  /\ Overlapping(new) = {}
  /\ map' = map \cup {new}
  /\ answer' = new

(* IB_ERROR *)
Refuse(new) ==
  /\ Overlapping(new) # {}
  /\ answer' = Conflict
  /\ UNCHANGED map

(* IB_EXTEND: one of the overlapped intervals grows, the others go. *)
Extend(new) == \E c \in Overlapping(new) :
  /\ map' = (map \ Overlapping(new)) \cup {Hull(c, new)}
  /\ answer' = Hull(c, new)

(* IB_REPLACE *)
Replace(new) ==
  /\ Overlapping(new) # {}
  /\ map' = (map \ Overlapping(new)) \cup {new}
  /\ answer' = new

Remove(val) ==
  /\ map' = map \ Holding(val)
  /\ answer' \in IF Holding(val) = {} THEN {Absent} ELSE Holding(val)

Find(val) ==
  /\ answer' \in IF Holding(val) = {} THEN {Absent} ELSE Holding(val)
  /\ UNCHANGED map

Next ==
  /\ answer # Conflict
  /\ \/ \E new \in Proper : Add(new) \/ Refuse(new) \/ Extend(new) \/ Replace(new)
     \/ \E val \in Addresses : Remove(val) \/ Find(val)

Spec == Init /\ [][Next]_vars
-----------------------------------------------------------------------------
(* No value lies in two intervals, so a lookup has one answer: the object  *)
(* a pointer is checked against does not depend on the tree's shape.       *)
Disjoint == \A c, d \in map : Overlap(c, d) => c = d
=============================================================================
