----------------------- MODULE MCParallelExploration -----------------------
(***************************************************************************)
(* The parallel search on the hub of MCNets, for properties that hold      *)
(* nowhere, in the initial marking, and in two markings that several       *)
(* threads may reach at the same time.                                     *)
(***************************************************************************)
EXTENDS ParallelSearchProperties, MCNets

Properties == {"nowhere", "initial", "late"}
Late == {"late"}
HubSatisfies(p, m) ==
  \/ p = "initial" /\ m = InitialMarking
  \/ p = "late" /\ (m["w"] = 1 \/ m["y"] = 1)
=============================================================================
