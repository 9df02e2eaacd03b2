--------------------------- MODULE MCConflictSets ---------------------------
(***************************************************************************)
(* All nets with two places and three transitions.                         *)
(***************************************************************************)
EXTENDS ConflictSets
TwoPlaces == 0 .. 1
ThreeTransitions == 0 .. 2
=============================================================================
