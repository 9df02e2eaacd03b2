---------------------------- MODULE StateSearch ----------------------------
(***************************************************************************)
(* What depth_first promises its caller, whatever the number of threads    *)
(* (the contract in ParallelExploration.h and DFSExploration.h): the       *)
(* answer is "yes" with a marking that was found and satisfies the         *)
(* property, or "no" once every marking the firelists lead to has been     *)
(* seen and none of them satisfies it.                                     *)
(***************************************************************************)
EXTENDS PetriNet, Sequences

CONSTANTS
  getFirelist(_)  (* the transitions the search considers in a marking     *)

VARIABLES
  goal,           (* the markings that satisfy the property, an argument   *)
  seen,           (* the markings inserted into the store                  *)
  answer,         (* "searching", then "yes" or "no"                       *)
  witness         (* the marking returned with "yes"                       *)

searchVars == <<goal, seen, answer, witness>>

(* The markings one step further, through the firelist of m.               *)
Successors(m) ==
  {Fire(m, getFirelist(m)[i]) : i \in DOMAIN getFirelist(m)}

(* Nothing is left to see.                                                 *)
Closed == \A m \in seen : Successors(m) \subseteq seen

Init ==
  /\ goal \in SUBSET Markings
  /\ seen = {}
  /\ answer = "searching"
  /\ witness = InitialMarking

(* One more marking is seen: the initial one or a successor.               *)
Discover ==
  /\ answer = "searching"
  /\ UNCHANGED <<goal, answer, witness>>
  /\ seen' # seen
  /\ \E m \in {InitialMarking} \union UNION {Successors(s) : s \in seen} :
       seen' = seen \union {m}

(* The witness may be stored together with the answer or, when it is the   *)
(* initial marking, not at all.                                            *)
AnswerYes ==
  /\ answer = "searching"
  /\ answer' = "yes"
  /\ \E m \in {InitialMarking} \union seen \union UNION {Successors(s) : s \in seen} :
       /\ m \in goal
       /\ witness' = m
       /\ seen' \in {seen, seen \union {m}}
  /\ UNCHANGED goal

AnswerNo ==
  /\ answer = "searching"
  /\ answer' = "no"
  /\ InitialMarking \in seen
  /\ Closed
  /\ seen \intersect goal = {}
  /\ UNCHANGED <<goal, seen, witness>>

Next == Discover \/ AnswerYes \/ AnswerNo

(* The search is complete once it has answered.                            *)
Spec == Init /\ [][Next]_searchVars /\ <>(answer # "searching")
=============================================================================
