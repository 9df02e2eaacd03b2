------------------------------ MODULE PetriNet ------------------------------
(***************************************************************************)
(* The place/transition net every search of LoLA 2 runs on: markings and   *)
(* the two ways a search moves between them, Transition::fire and          *)
(* Transition::backfire (src/lola2/src/Net/Transition.cc).                 *)
(*                                                                         *)
(* The code stores, per transition, the lists of places that lose          *)
(* (DeltaT[PRE]) and gain (DeltaT[POST]) tokens when it fires; a place on  *)
(* a self loop of equal weight is on neither list.  Delta is that net      *)
(* effect.  Enabledness is decided on the arcs, not on the effect.         *)
(***************************************************************************)
EXTENDS Integers

CONSTANTS
  Place,          (* the places of the net                                 *)
  Transition,     (* the transitions, numbered as Net::Name[TR] is         *)
  Pre,            (* Pre[t][p]:  weight of the arc from p to t, 0 if none  *)
  Post,           (* Post[t][p]: weight of the arc from t to p, 0 if none  *)
  InitialMarking, (* Marking::Initial                                      *)
  Markings        (* a set of markings closed under firing, see below      *)

ASSUME NetAssumption ==
  /\ Transition \subseteq Nat
  /\ Pre  \in [Transition -> [Place -> Nat]]
  /\ Post \in [Transition -> [Place -> Nat]]

(* t may fire in m: every pre-place carries enough tokens.                 *)
Enabled(m, t) == \A p \in Place : m[p] >= Pre[t][p]

(* The change of place p when t fires.                                     *)
Delta(t, p) == Post[t][p] - Pre[t][p]

(* Transition::fire.                                                       *)
Fire(m, t) == [p \in Place |-> m[p] + Delta(t, p)]

(* Transition::backfire: the effect of Fire undone on the same vector.     *)
Backfire(m, t) == [p \in Place |-> m[p] - Delta(t, p)]

(* The assertions of fire and backfire: a counter of the marking is        *)
(* unsigned and must not go below zero.                                    *)
NonNegative(m) == \A p \in Place : m[p] >= 0

(* Markings is any set that holds the initial marking and is closed under  *)
(* firing.  The reachable markings are the least such set, so what is      *)
(* proved for every such set is proved for the reachable markings.         *)
ASSUME MarkingsAssumption ==
  /\ Markings \subseteq [Place -> Nat]
  /\ InitialMarking \in Markings
  /\ \A m \in Markings, t \in Transition :
       Enabled(m, t) => Fire(m, t) \in Markings
=============================================================================
