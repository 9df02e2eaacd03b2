---------------------------- MODULE ConflictSets ----------------------------
(***************************************************************************)
(* Net::preprocess_organizeConflictingTransitions                          *)
(* (src/lola2/src/Net/Net.cc): the conflict sets of all transitions,       *)
(* computed along a tree of place sets so that transitions with common     *)
(* places share the work.                                                  *)
(*                                                                         *)
(* Stack position i holds the transitions whose relevant places include    *)
(* those used on positions below i, and the conflict set of these places.  *)
(* The transition at the cursor is carried up, place by place, to a        *)
(* position where all its places have been used; the code does not look    *)
(* again which transition that position's cursor points to.                *)
(* One action is one round of the while loop.                              *)
(***************************************************************************)
EXTENDS Integers, FiniteSets, SequencesExt

CONSTANTS Place, Transition

ASSUME Numbered == Place \subseteq Nat /\ Transition \subseteq Nat

VARIABLES
  pre, post,               (* the arcs: places of each transition          *)
  phase,                   (* "conflicting", "backconflicting", "done"     *)
  stack_index,
  stack_transitions,       (* per position: transitions still at it        *)
  stack_transitions_index, (* per position: the cursor                     *)
  stack_conflictset,       (* per position: the conflict set so far        *)
  stack_place_used,        (* per position: the place used to go up        *)
  stackpos_place_done,     (* the places used below the current position   *)
  Conflicting,
  BackConflicting

net  == <<pre, post>>
vars == <<net, phase, stack_index, stack_transitions, stack_transitions_index,
          stack_conflictset, stack_place_used, stackpos_place_done,
          Conflicting, BackConflicting>>

Position == 0 .. Cardinality(Place)
Ordered(S) == SetToSortSeq(S, <)

(* The arcs from and to a place.                                           *)
Consumers(p) == {u \in Transition : p \in pre[u]}
Producers(p) == {u \in Transition : p \in post[u]}

(* What the two passes differ in: the places a transition is carried up    *)
(* along, and the transitions that go up with it.                          *)
PlacesOf(t) == IF phase = "conflicting" THEN pre[t] ELSE post[t]
Carried(p)  == IF phase = "conflicting" THEN Consumers(p) ELSE Producers(p)

Init ==
  /\ pre \in [Transition -> SUBSET Place]
  /\ post \in [Transition -> SUBSET Place]
  /\ phase = "conflicting"
  /\ stack_index = 0
  /\ stack_transitions =
       [i \in Position |-> IF i = 0 THEN Ordered(Transition) ELSE <<>>]
  /\ stack_transitions_index = [i \in Position |-> 0]
  /\ stack_conflictset = [i \in Position |-> {}]
  /\ stack_place_used = [i \in Position |-> 0]
  /\ stackpos_place_done = {}
  /\ Conflicting = [t \in Transition |-> {}]
  /\ BackConflicting = [t \in Transition |-> {}]

Exhausted ==
  stack_transitions_index[stack_index] >= Len(stack_transitions[stack_index])

(* The position below, and the place that led from there to here.          *)
Below == stack_index - 1
PlaceBelow == {stack_place_used[stack_index - 1]}

(* All transitions of the position are done: back to the one below.        *)
PopPosition ==
  /\ phase # "done"
  /\ Exhausted /\ stack_index > 0
  /\ stack_transitions_index' =
       [stack_transitions_index EXCEPT ![stack_index] = 0]
  /\ stack_index' = Below
  /\ stackpos_place_done' = stackpos_place_done \ PlaceBelow
  /\ UNCHANGED <<net, phase, stack_transitions, stack_conflictset,
                 stack_place_used, Conflicting, BackConflicting>>

(* Mutant: the second pass begins again and again.                         *)
SecondPass == "backconflicting"
NextPhase == IF phase = "conflicting" THEN "backconflicting" ELSE "done"

(* The bottom is exhausted: start the second pass, or stop.                *)
EndPass ==
  /\ phase # "done"
  /\ Exhausted /\ stack_index = 0
  /\ stack_transitions_index' = [stack_transitions_index EXCEPT ![0] = 0]
  /\ phase' = NextPhase
  /\ IF NextPhase = "done"
       THEN UNCHANGED stack_transitions
       ELSE stack_transitions' =
              [stack_transitions EXCEPT ![0] = Ordered(Transition)]
  /\ UNCHANGED <<net, stack_index, stack_conflictset, stack_place_used,
                 stackpos_place_done, Conflicting, BackConflicting>>

(* A conflict set after the next place; what stays behind in a list.       *)
(* Mutants: only the last place counts; transitions are copied, not moved. *)
GrownAnew(conflictset, p) == Consumers(p)
Grown(conflictset, p) == conflictset \union Consumers(p)
AllRemain(list, p) == list
Remaining(list, p) == SelectSeq(list, LAMBDA u : u \notin Carried(p))

(* One place up: the transitions that have p too move to the next          *)
(* position, whose conflict set grows by the consumers of p.               *)
GoUp(s, p) ==
  LET moves(u) == u \in Carried(p)
      here == s.transitions[s.index]
  IN  [index       |-> s.index + 1,
       transitions |-> [s.transitions EXCEPT
                          ![s.index] = Remaining(here, p),
                          ![s.index + 1] = SelectSeq(here, moves)],
       conflictset |-> [s.conflictset EXCEPT
                          ![s.index + 1] = Grown(s.conflictset[s.index], p)],
       used        |-> [s.used EXCEPT ![s.index] = p]]

(* Grab the transition at the cursor, carry it up along its unused places, *)
(* record the conflict set it ends at and move that position's cursor on.  *)
Grab ==
  /\ phase # "done"
  /\ ~ Exhausted
  /\ LET active_transition ==
           stack_transitions[stack_index][stack_transitions_index[stack_index] + 1]
         unused == Ordered(PlacesOf(active_transition) \ stackpos_place_done)
         s == FoldLeft(GoUp, [index       |-> stack_index,
                              transitions |-> stack_transitions,
                              conflictset |-> stack_conflictset,
                              used        |-> stack_place_used], unused)
         result == s.conflictset[s.index]
     IN  /\ stack_index' = s.index
         /\ stack_transitions' = s.transitions
         /\ stack_conflictset' = s.conflictset
         /\ stack_place_used' = s.used
         /\ stackpos_place_done' = stackpos_place_done \union ToSet(unused)
         /\ stack_transitions_index' =
              [stack_transitions_index EXCEPT ![s.index] = @ + 1]
         /\ IF phase = "conflicting"
              THEN /\ Conflicting' =
                        [Conflicting EXCEPT ![active_transition] = result]
                   /\ UNCHANGED BackConflicting
              ELSE /\ BackConflicting' =
                        [BackConflicting EXCEPT ![active_transition] = result]
                   /\ UNCHANGED Conflicting
  /\ UNCHANGED <<net, phase>>

Finished == phase = "done" /\ UNCHANGED vars

Next == PopPosition \/ EndPass \/ Grab \/ Finished

Spec == Init /\ [][Next]_vars /\ WF_vars(Next)

-----------------------------------------------------------------------------
(* Types of all variables; the cursors stay within reach of their lists.   *)
TypeOK ==
  /\ pre \in [Transition -> SUBSET Place]
  /\ post \in [Transition -> SUBSET Place]
  /\ phase \in {"conflicting", "backconflicting", "done"}
  /\ stack_index \in Position
  /\ stack_transitions \in [Position -> Seq(Transition)]
  /\ stack_transitions_index \in [Position -> 0 .. Cardinality(Transition)]
  /\ stack_conflictset \in [Position -> SUBSET Transition]
  /\ stackpos_place_done \in SUBSET Place
  /\ Conflicting \in [Transition -> SUBSET Transition]
  /\ BackConflicting \in [Transition -> SUBSET Transition]

(* The result is what the definition says: the transitions that consume    *)
(* from a pre-place, respectively a post-place, of t.  updateEnabled and   *)
(* revertEnabled look at no other enabled transition.                      *)
ConflictsExact ==
  phase = "done" =>
    \A t \in Transition :
      /\ Conflicting[t] = UNION {Consumers(p) : p \in pre[t]}
      /\ BackConflicting[t] = UNION {Consumers(p) : p \in post[t]}

(* No transition is at two positions, or twice at one: none is carried up  *)
(* a second time with the wrong places.                                    *)
EachOnOnePosition ==
  phase # "done" =>
    \A t \in Transition :
      Cardinality({<<i, j>> \in Position \X (1 .. Cardinality(Transition)) :
                     /\ j <= Len(stack_transitions[i])
                     /\ stack_transitions[i][j] = t
                     /\ i <= stack_index}) <= 1

(* All places of the transitions before the cursor have been used below    *)
(* the position, no more and no fewer: their conflict set is complete.     *)
DoneStayPut ==
  \A j \in 1 .. stack_transitions_index[stack_index] :
    PlacesOf(stack_transitions[stack_index][j]) = stackpos_place_done

(* What the stack holds while the sets are computed.                       *)
StackInOrder == TypeOK /\ EachOnOnePosition /\ DoneStayPut

(* The walk over the tree ends.                                            *)
WalkEnds == <>(phase = "done")
=============================================================================
