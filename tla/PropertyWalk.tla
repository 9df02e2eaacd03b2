---------------------------- MODULE PropertyWalk ----------------------------
(***************************************************************************)
(* A net state and a state predicate under the call sequences the searches *)
(* make: the predicate is evaluated in the beginning and after a reset,    *)
(* and told of every transition that is fired to a new marking or taken    *)
(* back (src/lola2/src/Exploration/DFSExploration.cc:71, 106, 169).  In    *)
(* every marking the search may ask for a reduced firelist.                *)
(***************************************************************************)
EXTENDS NetStateWalk, StubbornSets, StubbornDeletion

CONSTANTS
  Formulas,           (* the formulas to search for                        *)
  MaxDepth            (* bound on the length of the path                    *)

VARIABLES
  formula,            (* the formula as it was given                       *)
  predicate           (* ... and as the property keeps it                  *)

propertyVars == <<netState, path, formula, predicate>>

PropertyInit ==
  /\ WalkInit
  /\ \E f \in Formulas : formula = NewPredicate(f)
  /\ predicate = evaluate(formula, InitialMarking)

FireKnown(t) == TryKnown(t) /\ UNCHANGED <<formula, predicate>>

FireNew(t) ==
  /\ Descend(t)
  /\ Len(path) < MaxDepth
  /\ predicate' = checkProperty(predicate, formula, t)
  /\ UNCHANGED formula

Backtrack ==
  /\ StepBack
  /\ predicate' = updateProperty(predicate, formula, path[Len(path)])
  /\ UNCHANGED formula

TryAgain ==
  /\ StartOver
  /\ predicate' = evaluate(predicate, InitialMarking)
  /\ UNCHANGED formula

PropertyNext ==
  \/ \E t \in Transition : FireKnown(t) \/ FireNew(t)
  \/ Backtrack
  \/ TryAgain

PropertySpec == PropertyInit /\ [][PropertyNext]_propertyVars

-----------------------------------------------------------------------------
(* What a formula says of a marking, and where it is true.                 *)
Holds(f, m) ==
  LET holds[n \in Nodes(f)] ==
        LET parts == ToSet(f.sub[n])
        IN  CASE f.kind[n] = "atomic" -> SumAt(f, n, m) <= f.threshold[n]
              [] f.kind[n] = "and" -> \A c \in parts : holds[c]
              [] f.kind[n] = "or" -> \E c \in parts : holds[c]
  IN  [n \in Nodes(f) |-> holds[n]]
Goals == [f \in {NewPredicate(g) : g \in Formulas} |->
            {m \in Markings : Holds(f, m)[Root]}]

(* After any number of steps down and back, of sums that cross their       *)
(* thresholds and of parts that change places, every node has the value    *)
(* the marking gives it, the satisfied parts come first and know where     *)
(* they are: what DEBUG__consistency asserts, and more.  A wrong value is  *)
(* a wrong answer of the search.                                           *)
PredicateExact ==
  /\ predicate.value = Holds(formula, netState.Current)
  /\ \A n \in Nodes(formula) :
       LET list == predicate.sub[n]
       IN  /\ ToSet(list) = ToSet(formula.sub[n]) /\ Len(list) = Len(formula.sub[n])
           /\ \A i \in DOMAIN list :
                /\ predicate.position[list[i]] = i
                /\ predicate.value[list[i]] <=> i <= predicate.cardSat[n]

Successors == [m \in Markings |-> {Fire(m, t) : t \in EnabledSet(m)}]

(* How many transitions it takes from a marking to those that can be       *)
(* reached from it.                                                        *)
RECURSIVE Spread(_, _, _)
Spread(known, front, n) ==
  LET next == UNION {Successors[m] : m \in front} \ DOMAIN known
  IN  IF front = {} THEN known ELSE Spread([m \in next |-> n] @@ known, next, n + 1)
Distance == [m \in Markings |-> Spread(m :> 0, {m}, 1)]

(* Every one of the markings in question can be reached by way of a        *)
(* transition of the firelist, and without a detour.                       *)
OnTheWay(firelist, m, targets) ==
  \A d \in targets \intersect DOMAIN Distance[m] :
    \E t \in firelist :
      LET next == Fire(m, t)
      IN  d \in DOMAIN Distance[next] /\ Distance[next][d] < Distance[m][d]

(* A reduced firelist keeps what is searched for: from a marking where the *)
(* formula is false, every marking where it is true can still be reached.  *)
(* The up set is taken from the lists as the search has left them, the     *)
(* scapegoats from the Pre lists as the search has left them.              *)
GoalsKept ==
  LET m == netState.Current
  IN  ~ predicate.value[Root] =>
        OnTheWay(PredicateFirelist(netState, predicate), m, Goals[formula])

Deadlocks == {m \in Markings : Successors[m] = {}}

(* The same for deadlocks; the early end of Tarjan's search must not leave *)
(* out anything that belongs to the set.                                   *)
DeadlocksKept ==
  LET m == netState.Current
  IN  netState.CardEnabled > 0 => OnTheWay(DeadlockFirelist(netState), m, Deadlocks)

(* The firelists of the deletion algorithm depend on the marking and the   *)
(* value of the formula there, and on nothing else.                        *)
DeletionFirelists ==
  [f \in {NewPredicate(g) : g \in Formulas} \union {NoFormula} |->
     [m \in Markings |->
        DeletionFirelist(m, IF f = NoFormula THEN f ELSE evaluate(f, m))]]

IsFlat(f) == "and" \notin Range(f.kind)

(* What the deletion algorithm leaves keeps every deadlock, and for a      *)
(* formula without conjunctions every marking where it is true.            *)
DeletionKeeps ==
  LET m == netState.Current
  IN  /\ netState.CardEnabled > 0 =>
           OnTheWay(DeletionFirelists[NoFormula][m], m, Deadlocks)
      /\ ~ predicate.value[Root] /\ IsFlat(formula) =>
           OnTheWay(DeletionFirelists[formula][m], m, Goals[formula])

(* What a search with these firelists finds.                               *)
RECURSIVE Reduced(_, _)
Reduced(f, known) ==
  LET next == known \union UNION {{Fire(m, t) : t \in DeletionFirelists[f][m]} : m \in known}
  IN  IF next = known THEN known ELSE Reduced(f, next)

(* The answer of a search with the deletion algorithm is that of a search  *)
(* without reduction, whatever the state predicate.                        *)
DeletionAnswers ==
  path = <<>> =>
    (Reduced(formula, {InitialMarking}) \intersect Goals[formula] # {}
       <=> DOMAIN Distance[InitialMarking] \intersect Goals[formula] # {})
=============================================================================
