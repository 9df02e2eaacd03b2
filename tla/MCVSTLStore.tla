----------------------------- MODULE MCVSTLStore -----------------------------
(***************************************************************************)
(* Three vectors in two buckets.                                           *)
(***************************************************************************)
EXTENDS VSTLStore
Vectors == 1 .. 3
Buckets == 0 .. 1
Parity(v) == v % 2
=============================================================================
