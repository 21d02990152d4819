------------------------ MODULE MCSoftBoundMetadata ------------------------
EXTENDS SoftBoundMetadata

(* The last word of one table and three of the next. *)
UsedWords == {3, 4, 5, 6}
=============================================================================
