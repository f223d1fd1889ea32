------------------------- MODULE MCBufferOwnership -------------------------
(***************************************************************************)
(* A small instance: two records, and an allocator just large enough for   *)
(* one record to be refilled with the addresses another one gave up.       *)
(***************************************************************************)
EXTENDS BufferOwnership, TLC

\* Addresses and records are interchangeable.
Symmetries == Permutations(Addresses) \cup Permutations(Records)
=============================================================================
