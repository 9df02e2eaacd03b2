-------------------------- MODULE MCDFSExploration --------------------------
(***************************************************************************)
(* The sequential search on the philosophers of MCNets, for properties     *)
(* that hold nowhere, in the initial marking, early, and late.             *)
(***************************************************************************)
EXTENDS DFSExploration, MCNets

Properties == {"nowhere", "initial", "deadlock", "eating", "two wait",
               "others wait"}
PhilSatisfies(p, m) ==
  CASE p = "nowhere" -> FALSE
    [] p = "initial" -> m = InitialMarking
    [] p = "deadlock" -> EnabledSet(m) = {}
    [] p = "eating" -> m[32] = 1
    [] p = "two wait" -> m[21] = 1 /\ m[22] = 1
    [] p = "others wait" -> m[20] = 1 /\ m[22] = 1
=============================================================================
