--------------------------- MODULE DFSExploration ---------------------------
(***************************************************************************)
(* The sequential depth-first search for a simple property                 *)
(* (DFSExploration::depth_first, src/lola2/src/Exploration).  One action   *)
(* is one round of its loop.                                               *)
(***************************************************************************)
EXTENDS SearchPath

CONSTANTS
  getFirelist(_),     (* the transitions the search considers in a marking *)
  Property,           (* the properties depth_first may be called with     *)
  Satisfies(_, _)     (* SimpleProperty::checkProperty in a marking        *)

ASSUME FirelistAssumption ==
  \A m \in Markings :
    getFirelist(m) \in Seq({t \in Transition : Enabled(m, t)})

ASSUME SatisfiesAssumption ==
  \A p \in Property, m \in Markings : Satisfies(p, m) \in BOOLEAN

VARIABLES
  property,           (* the argument                                      *)
  pc,                 (* "start", "search", "returned"                     *)
  ns,                 (* the current marking                               *)
  currentFirelist,    (* its firelist ...                                  *)
  currentEntry,       (* ... and how many entries are still to fire        *)
  stack,              (* property.stack                                    *)
  store,              (* the markings inserted                             *)
  value               (* property.value                                    *)

vars == <<property, pc, ns, currentFirelist, currentEntry, stack, store, value>>

(* Mutant: the cursor starts one too low.                                  *)
GrabShort(m) ==
  /\ currentFirelist' = getFirelist(m)
  /\ currentEntry' = IF getFirelist(m) = <<>> THEN 0 ELSE Len(getFirelist(m)) - 1

Top == stack[Len(stack)]
Pop == SubSeq(stack, 1, Len(stack) - 1)

(* A fresh firelist.                                                       *)
GrabFirelist(m) ==
  /\ currentFirelist' = getFirelist(m)
  /\ currentEntry' = Len(getFirelist(m))

Init ==
  /\ property \in Property
  /\ pc = "start"
  /\ ns = InitialMarking
  /\ currentFirelist = <<>>
  /\ currentEntry = 0
  /\ stack = <<>>
  /\ store = {}
  /\ value = FALSE

(* The initial marking satisfies the property.                             *)
StartSatisfied ==
  /\ pc = "start"
  /\ Satisfies(property, ns)
  /\ value' = TRUE
  /\ pc' = "returned"
  /\ UNCHANGED <<property, ns, currentFirelist, currentEntry, stack, store>>

StartSearch ==
  /\ pc = "start"
  /\ ~ Satisfies(property, ns)
  /\ store' = store \union {ns}
  /\ GrabFirelist(ns)
  /\ pc' = "search"
  /\ UNCHANGED <<property, ns, stack, value>>

Candidate == currentFirelist[currentEntry]
NextMarking == Fire(ns, Candidate)

(* The successor is in the store: fire and backfire.                       *)
FireKnown ==
  /\ pc = "search"
  /\ currentEntry > 0
  /\ NextMarking \in store
  /\ ns' = Backfire(NextMarking, Candidate)
  /\ currentEntry' = currentEntry - 1
  /\ UNCHANGED <<property, pc, currentFirelist, stack, store, value>>

(* A new marking: check it, push the transition in any case, and return or *)
(* descend.                                                                *)
FireNew ==
  /\ pc = "search"
  /\ currentEntry > 0
  /\ NextMarking \notin store
  /\ ns' = NextMarking
  /\ store' = store \union {NextMarking}
  /\ value' = Satisfies(property, NextMarking)
  /\ stack' = Append(stack, [fl |-> currentFirelist, current |-> currentEntry - 1])
  /\ \/ /\ value'
        /\ pc' = "returned"
        /\ currentEntry' = currentEntry - 1
        /\ UNCHANGED currentFirelist
     \/ /\ ~ value'
        /\ GrabFirelist(NextMarking)
        /\ UNCHANGED pc
  /\ UNCHANGED property

(* The firelist is completed: back to the previous marking.                *)
Backtrack ==
  /\ pc = "search"
  /\ currentEntry = 0 /\ stack # <<>>
  /\ ns' = Backfire(ns, Fired(Top))
  /\ value' = Satisfies(property, ns')
  /\ currentFirelist' = Top.fl
  /\ currentEntry' = Top.current
  /\ stack' = Pop
  /\ UNCHANGED <<property, pc, store>>

(* The initial marking is completed.                                       *)
Exhausted ==
  /\ pc = "search"
  /\ currentEntry = 0 /\ stack = <<>>
  /\ pc' = "returned"
  /\ UNCHANGED <<property, ns, currentFirelist, currentEntry, stack, store, value>>

Returned == pc = "returned" /\ UNCHANGED vars

Next ==
  \/ StartSatisfied \/ StartSearch
  \/ FireKnown \/ FireNew \/ Backtrack \/ Exhausted
  \/ Returned

(* A sequential program that is not blocked goes on.                       *)
Spec == Init /\ [][Next]_vars /\ WF_vars(Next)

-----------------------------------------------------------------------------
(* The markings on the path the stack describes.                           *)
OnPath == {Replay(stack)[k] : k \in 0 .. Len(stack)}

(* Types of all variables; the cursor never leaves its firelist, and every *)
(* marking a step back arrives at is one the net can be in.                *)
TypeOK ==
  /\ property \in Property
  /\ pc \in {"start", "search", "returned"}
  /\ ns \in Markings
  /\ currentFirelist \in Seq(Transition)
  /\ currentEntry \in 0 .. Len(currentFirelist)
  /\ stack \in Seq(StackEntry)
  /\ store \in SUBSET Markings
  /\ value \in BOOLEAN

(* The stack is a path without repetition from the initial marking to the  *)
(* current one, all of its markings stored; when the search answers yes it *)
(* is the whole witness path and its end satisfies the property.           *)
StackIsPath ==
  /\ TypeOK
  /\ EndOf(stack) = ns
  /\ \A i, j \in 0 .. Len(stack) : Replay(stack)[i] = Replay(stack)[j] => i = j
  /\ pc = "search" => OnPath \subseteq store
  /\ value => Satisfies(property, ns)

(* Depth first: a marking that has left the stack has been completed, all  *)
(* its successors are stored, and so are those of the entries already      *)
(* fired of the markings that are on the stack.                            *)
ClosedBehind ==
  (pc = "search" \/ (pc = "returned" /\ ~ value)) =>
    /\ \A m \in store \ OnPath : \A i \in 1 .. Len(getFirelist(m)) :
         Fire(m, getFirelist(m)[i]) \in store
    /\ \A k \in 1 .. Len(stack) :
         \A i \in stack[k].current + 1 .. Len(stack[k].fl) :
           Fire(Replay(stack)[k-1], stack[k].fl[i]) \in store
    /\ \A i \in currentEntry + 1 .. Len(currentFirelist) :
         Fire(ns, currentFirelist[i]) \in store

(* The inductive invariant behind them: every firelist is the one of the   *)
(* marking it is found with, and nothing stored satisfies the property     *)
(* before the search has said so.                                          *)
SearchInvariant ==
  /\ StackIsPath
  /\ ClosedBehind
  /\ pc = "start" => ns = InitialMarking /\ stack = <<>> /\ store = {} /\ ~ value
  /\ pc = "search" => ~ value /\ currentFirelist = getFirelist(ns)
  /\ \A k \in 1 .. Len(stack) :
       /\ stack[k].fl = getFirelist(Replay(stack)[k-1])
       /\ stack[k].current < Len(stack[k].fl)
  /\ ~ value => \A m \in store : ~ Satisfies(property, m)

(* The contract of depth_first: see StateSearch.                           *)
Search == INSTANCE StateSearch WITH
  goal    <- {m \in Markings : Satisfies(property, m)},
  seen    <- store,
  answer  <- IF pc # "returned" THEN "searching"
             ELSE IF value THEN "yes" ELSE "no",
  witness <- IF pc = "returned" /\ value THEN ns ELSE InitialMarking

DFSKeepsContract == Search!Spec
=============================================================================
