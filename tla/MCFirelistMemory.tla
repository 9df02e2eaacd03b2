------------------------- MODULE MCFirelistMemory -------------------------
(***************************************************************************)
(* Three threads, chunks of two slots, paths of up to three transitions: a *)
(* stack grows into its second chunk and back, and a reader may be told of *)
(* the end of the search before another thread lends to it.                *)
(***************************************************************************)
EXTENDS FirelistMemory, TLC

CONSTANTS t1, t2, t3, c1, c2, c3, c4, c5

Threads == {t1, t2, t3}
Cells == {c1, c2, c3, c4, c5}
Addresses == Permutations(Cells) \union Permutations(Threads)
=============================================================================
