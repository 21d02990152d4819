------------------------ MODULE MCSoftBoundTemporal ------------------------
EXTENDS SoftBoundTemporal

(* Addresses that are no tags *)
HeapAddresses == {16, 32, 48}
=============================================================================
