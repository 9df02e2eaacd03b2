---------------------------- MODULE MCVBloomStore ----------------------------
(***************************************************************************)
(* Three vectors with three hash functions on four bits: two of them share *)
(* two bits and set them in opposite order, the bits of the third repeat.  *)
(***************************************************************************)
EXTENDS VBloomStore
Threads == 0 .. 2
Vectors == {"a", "b", "c"}
Bits4 == 0 .. 3
Table == [a |-> <<0, 1, 2>>, b |-> <<3, 2, 1>>, c |-> <<2, 2, 0>>]
TableHash(v, i) == Table[v][i + 1]
=============================================================================
