---------------------------- MODULE MCLowFatHeap ----------------------------
(* Small instances of LowFatHeap for TLC. *)
EXTENDS LowFatChecks

AllOps == {"malloc", "calloc", "realloc", "aligned_alloc", "posix_memalign",
           "memalign", "valloc", "pvalloc", "free"}
=============================================================================
