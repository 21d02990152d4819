-------------------------- MODULE IntervalMapProofs --------------------------
(***************************************************************************)
(* Proofs about IntervalMap, for every set of addresses.                   *)
(***************************************************************************)
EXTENDS IntervalMap, TLAPS

MapInv == map \subseteq Proper /\ Disjoint

LEMMA OverlapSymmetric == \A c, d : Overlap(c, d) <=> Overlap(d, c)
  BY DEF Overlap

(* The hull of two overlapping intervals is their union, so it overlaps     *)
(* nothing that neither of them overlaps.                                   *)
LEMMA HullIsUnion ==
  ASSUME Addresses \subseteq Nat, NEW c \in Proper, NEW new \in Proper, NEW d \in Proper,
         Overlap(c, new)
  PROVE  /\ Hull(c, new) \in Proper
         /\ Overlap(d, Hull(c, new)) => Overlap(d, c) \/ Overlap(d, new)
  <1>1. \A i \in Proper : i.base \in Addresses /\ i.bound \in Addresses /\ i.base < i.bound
    BY DEF Proper, Intervals
  <1>2. Hull(c, new).base \in Addresses /\ Hull(c, new).bound \in Addresses
    BY <1>1 DEF Hull, Lower, Upper
  <1>3. Hull(c, new).base < Hull(c, new).bound
    BY <1>1 DEF Hull, Lower, Upper, Overlap
  <1>4. Hull(c, new) \in Proper
    <2> DEFINE lo == Lower(c.base, new.base)
               hi == Upper(c.bound, new.bound)
    <2>1. lo \in Addresses /\ hi \in Addresses
      BY <1>1 DEF Lower, Upper
    <2>2. \A x, y \in Addresses : [base |-> x, bound |-> y] \in Intervals
      BY DEF Intervals
    <2> QED BY <1>3, <2>1, <2>2 DEF Hull, Proper
  <1>5. Overlap(d, Hull(c, new)) => Overlap(d, c) \/ Overlap(d, new)
    <2>1. /\ c.base \in Nat /\ c.bound \in Nat /\ new.base \in Nat /\ new.bound \in Nat
          /\ d.base \in Nat /\ d.bound \in Nat
      BY <1>1
    <2>2. /\ Hull(c, new).base = Lower(c.base, new.base)
          /\ Hull(c, new).bound = Upper(c.bound, new.bound)
      BY DEF Hull
    <2>3. /\ c.base < c.bound /\ new.base < new.bound /\ d.base < d.bound
          /\ c.base < new.bound /\ new.base < c.bound
      BY <1>1 DEF Overlap
    <2>4. Overlap(d, Hull(c, new)) => d.base < Upper(c.bound, new.bound)
                                      /\ Lower(c.base, new.base) < d.bound
      BY <2>2 DEF Overlap
    <2> QED BY <2>1, <2>3, <2>4 DEF Lower, Upper, Overlap
  <1> QED BY <1>4, <1>5

(* An interval that overlaps none of a disjoint set can join it. *)
LEMMA Joined ==
  ASSUME MapInv, NEW rest \in SUBSET map, NEW i \in Proper,
         \A d \in rest : ~Overlap(d, i), map' = rest \cup {i}
  PROVE  MapInv'
  <1>1. \A d \in rest : ~Overlap(i, d)
    BY OverlapSymmetric
  <1> QED BY <1>1 DEF MapInv, Disjoint, Proper, Intervals

LEMMA MapStep ==
  ASSUME Addresses \subseteq Nat, MapInv, [Next]_vars
  PROVE  MapInv'
  <1>1. CASE UNCHANGED map
    BY <1>1 DEF MapInv, Disjoint, Proper, Intervals
  <1>2. ASSUME NEW new \in Proper, Add(new) PROVE MapInv'
    BY <1>2, Joined DEF Add, Overlapping
  <1>3. ASSUME NEW new \in Proper, Refuse(new) PROVE MapInv'
    BY <1>3, <1>1 DEF Refuse
  <1>4. ASSUME NEW new \in Proper, Extend(new) PROVE MapInv'
    <2>1. PICK c \in Overlapping(new) : map' = (map \ Overlapping(new)) \cup {Hull(c, new)}
      BY <1>4 DEF Extend
    <2>2. c \in map /\ c \in Proper /\ Overlap(c, new)
      BY <2>1 DEF Overlapping, MapInv
    <2>3. ASSUME NEW d \in map \ Overlapping(new) PROVE ~Overlap(d, Hull(c, new))
      <3>1. d \in map /\ d \in Proper /\ ~Overlap(d, new) /\ d # c
        BY <2>1, <2>3 DEF Overlapping, MapInv
      <3>2. ~Overlap(d, c)
        BY <2>2, <3>1 DEF MapInv, Disjoint
      <3> QED BY <2>2, <3>1, <3>2, HullIsUnion
    <2>4. Hull(c, new) \in Proper
      BY <2>2, HullIsUnion
    <2> QED BY <2>1, <2>3, <2>4, Joined
  <1>5. ASSUME NEW new \in Proper, Replace(new) PROVE MapInv'
    <2> DEFINE rest == map \ Overlapping(new)
    <2>1. rest \in SUBSET map /\ map' = rest \cup {new}
      BY <1>5 DEF Replace
    <2>2. \A d \in rest : ~Overlap(d, new)
      BY DEF Overlapping
    <2> QED BY <2>1, <2>2, Joined
  <1>6. ASSUME NEW val \in Addresses, Remove(val) PROVE MapInv'
    BY <1>6 DEF Remove, MapInv, Disjoint, Proper, Intervals
  <1>7. ASSUME NEW val \in Addresses, Find(val) PROVE MapInv'
    BY <1>7, <1>1 DEF Find
  <1> QED BY <1>1, <1>2, <1>3, <1>4, <1>5, <1>6, <1>7 DEF Next, vars

(* Every value lies in at most one interval, for any set of addresses: the  *)
(* bounds a check uses are those of one object (splay.c:188-205).           *)
THEOREM OneObjectPerValue ==
  ASSUME Addresses \subseteq Nat
  PROVE  Spec => []Disjoint
  <1>1. Init => MapInv
    BY DEF Init, MapInv, Disjoint
  <1>2. MapInv /\ [Next]_vars => MapInv'
    BY MapStep
  <1>3. MapInv => Disjoint
    BY DEF MapInv
  <1> QED BY <1>1, <1>2, <1>3, PTL DEF Spec
=============================================================================
