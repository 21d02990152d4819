---------------------------- MODULE MCShadowStack ----------------------------
(* Small instances of ShadowStack for TLC. *)
EXTENDS ShadowStack

(* The base and bound words of two pointers. *)
TwoPointers == {[f \in 0 .. 1 |-> 10 * pointer + f] : pointer \in {2, 3}}
OnePointer == {[f \in 0 .. 1 |-> 20 + f]}
=============================================================================
