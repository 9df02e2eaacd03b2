------------------------------- MODULE MCNets -------------------------------
(***************************************************************************)
(* Nets to model-check the searches on, each with its reachable markings   *)
(* written down directly; MarkingsAssumption checks that they are closed   *)
(* under firing.                                                           *)
(***************************************************************************)
EXTENDS Firelist

(* A net is given by its arcs: arcs[t] is the set of pre-places and the    *)
(* set of post-places of transition t, all weights are one.                *)
PreOf(arcs, places) ==
  [t \in DOMAIN arcs |-> [p \in places |-> IF p \in arcs[t][1] THEN 1 ELSE 0]]
PostOf(arcs, places) ==
  [t \in DOMAIN arcs |-> [p \in places |-> IF p \in arcs[t][2] THEN 1 ELSE 0]]
TokenOn(p, places) == [q \in places |-> IF q = p THEN 1 ELSE 0]

(* A hub with four ways out.  Every thread starts there; one that was fast *)
(* with its first two ways can spare the marking, and so can another one,  *)
(* while a third may have found all ways taken and wait.                   *)
HubPlace == {"h", "x", "y", "w"}
HubArcs == <<<<{"h"}, {"h"}>>, <<{"h"}, {"h"}>>, <<{"h"}, {"y"}>>,
             <<{"h"}, {"x"}>>, <<{"x"}, {"w"}>>, <<{"y"}, {"w"}>>>>
HubTransition == DOMAIN HubArcs
HubPre == PreOf(HubArcs, HubPlace)
HubPost == PostOf(HubArcs, HubPlace)
HubInitial == TokenOn("h", HubPlace)
HubMarkings == {TokenOn(p, HubPlace) : p \in HubPlace}

(* Philosophers who take the left fork, then the right one, then lay both  *)
(* down: thinking i, fork 10 + i, waiting with one fork 20 + i, eating     *)
(* 30 + i.  There is one deadlock, when everybody holds a left fork.       *)
Phils == 0 .. 2
PhilPlace == UNION {{i, 10 + i, 20 + i, 30 + i} : i \in Phils}
PhilArc(t) ==
  LET i == t % 3
      right == 10 + ((i + 1) % 3)
  IN  CASE t \div 3 = 0 -> <<{i, 10 + i}, {20 + i}>>
        [] t \div 3 = 1 -> <<{20 + i, right}, {30 + i}>>
        [] t \div 3 = 2 -> <<{30 + i}, {i, 10 + i, right}>>
PhilTransition == 0 .. 8
PhilArcs == [t \in PhilTransition |-> PhilArc(t)]
PhilPre == PreOf(PhilArcs, PhilPlace)
PhilPost == PostOf(PhilArcs, PhilPlace)
PhilInitial == [p \in PhilPlace |-> IF p < 20 THEN 1 ELSE 0]
(* at[i] is 0, 20 or 30; fork 10 + i is in use by i or by the philosopher  *)
(* to the right of it, who needs both forks to eat.                        *)
PhilMarkings ==
  LET holds(at, i) == at[i] # 0
      takes(at, i) == at[(i + 2) % 3] = 30
      mark(at) == [p \in PhilPlace |->
        LET i == p % 10
            used == holds(at, i) \/ takes(at, i)
        IN  IF (p \div 10 = 1 /\ ~ used) \/ (p \div 10 # 1 /\ at[i] = p - i)
              THEN 1 ELSE 0]
  IN  {mark(at) : at \in {f \in [Phils -> {0, 20, 30}] :
                           \A i \in Phils : ~ (holds(f, i) /\ takes(f, i))}}

=============================================================================
