----------------------------- MODULE MCFindPath -----------------------------
(***************************************************************************)
(* Random walks on a net with three tokens, arc weights above one, a side    *)
(* condition and a deadlock; the property holds nowhere, initially, or in  *)
(* markings that only some walks meet.                                     *)
(***************************************************************************)
EXTENDS FindPath

Net == <<[pre |-> <<1, 0, 0>>, post |-> <<0, 1, 0>>],
         [pre |-> <<0, 2, 0>>, post |-> <<0, 0, 1>>],
         [pre |-> <<1, 1, 0>>, post |-> <<2, 0, 0>>],
         [pre |-> <<1, 0, 0>>, post |-> <<0, 0, 1>>]>>

NetPlace == 1 .. 3
NetTransition == DOMAIN Net
NetPre == [t \in NetTransition |-> Net[t].pre]
NetPost == [t \in NetTransition |-> Net[t].post]
NetInitial == <<3, 0, 0>>
NetHash == <<3, 1, 4>>
NetMarkings ==
  {m \in [NetPlace -> 0 .. 3] : m[1] + m[2] + m[3] \in 1 .. 3}
NetGoals == {{}, {NetInitial}, {<<0, 0, 1>>}, {<<0, 1, 1>>, <<0, 0, 2>>, <<2, 0, 1>>}}
NetAttempts == 0 .. 3
Tables == [Bucket -> {0, 1}]
=============================================================================
