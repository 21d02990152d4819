----------------------------- MODULE MCSplayTree -----------------------------
(* Small instances of SplayTree for TLC. *)
EXTENDS SplayTree, TLC

SixAddresses == 0 .. 5

(* No step depends on which of the free nodes malloc returns. *)
Symmetry == Permutations(NodeIds)
=============================================================================
