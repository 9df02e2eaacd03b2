---------------------------- MODULE StubbornSets ----------------------------
(***************************************************************************)
(* Firelists that leave out enabled transitions (partial order reduction): *)
(* FirelistStubbornDeadlock and FirelistStubbornStatePredicate             *)
(* (src/lola2/src/Exploration).                                            *)
(***************************************************************************)
EXTENDS StatePredicates

Producers(p) == Ordered({u \in Transition : Post[u][p] > 0})

(* The mutants look at a place that may have enough tokens.                *)
LastPlace(ns, t) == ns.Arc[t][Len(ns.Arc[t])]
Scapegoat(ns, t) == ns.Arc[t][1]

(* What a stubborn set has to include with t: the transitions in conflict  *)
(* with it if it is enabled, else those that put tokens on its scapegoat.  *)
MustBeIncluded(ns, t) ==
  IF ns.Enabled[t] THEN Conflicting(t) ELSE Producers(Scapegoat(ns, t))

(***************************************************************************)
(* For a state predicate: everything that has to be included with its up   *)
(* set.                                                                    *)
(***************************************************************************)
RECURSIVE Including(_, _)
Including(ns, T) ==
  LET more == T \union UNION {ToSet(MustBeIncluded(ns, t)) : t \in T}
  IN  IF more = T THEN T ELSE Including(ns, more)

PredicateFirelist(ns, P) ==
  IF ns.CardEnabled = 0 THEN {}
    ELSE {t \in Including(ns, getUpSet(P, Root)) : ns.Enabled[t]}

(***************************************************************************)
(* For deadlocks: Tarjan's search for strongly connected components of     *)
(* "must be included", from the first enabled transition.  It ends with    *)
(* the first component that holds an enabled one.                          *)
(*                                                                         *)
(* visited and onTarjanStack are the domain of dfs: a transition that has  *)
(* been popped still counts as being on the stack.                         *)
(***************************************************************************)
Visit(s, ns, t) ==
  [s EXCEPT !.dfs = t :> s.nextDfs @@ @, !.lowlink = t :> s.nextDfs @@ @,
            !.nextDfs = @ + 1,
            !.dfsStack = Append(@, t), !.TarjanStack = Append(@, t),
            !.left = Append(@, MustBeIncluded(ns, t)),
            !.dfsLastEnabled = IF ns.Enabled[t] THEN s.nextDfs ELSE @]

LowerTo(s, t, d) == IF d < s.lowlink[t] THEN [s EXCEPT !.lowlink[t] = d] ELSE s

(* The transition is left, for the one before it on the stack.             *)
StepUp(s) ==
  LET t == Last(s.dfsStack)
      up == [s EXCEPT !.dfsStack = Front(@), !.left = Front(@)]
  IN  LowerTo(up, Last(up.dfsStack), s.lowlink[t])

(* Where the component of t begins on the stack.                           *)
From(s, t) == CHOOSE i \in DOMAIN s.TarjanStack : s.TarjanStack[i] = t

RECURSIVE SearchComponent(_, _)
SearchComponent(s, ns) ==
  LET t == Last(s.dfsStack)
      todo == Last(s.left)
      u == Last(todo)
      taken == [s EXCEPT !.left[Len(s.left)] = Front(todo)]
      closed == s.dfs[t] = s.lowlink[t]
      popped == [s EXCEPT !.TarjanStack = SubSeq(@, 1, From(s, t) - 1)]
  IN  CASE todo # <<>> /\ u \in DOMAIN s.dfs ->
             SearchComponent(LowerTo(taken, t, s.dfs[u]), ns)
        [] todo # <<>> /\ u \notin DOMAIN s.dfs ->
             SearchComponent(Visit(taken, ns, u), ns)
        [] todo = <<>> /\ closed /\ s.dfsLastEnabled >= s.dfs[t] ->
             ToSet(SubSeq(s.TarjanStack, From(s, t), Len(s.TarjanStack)))
        [] todo = <<>> /\ closed /\ s.dfsLastEnabled < s.dfs[t] ->
             SearchComponent(StepUp(popped), ns)
        [] OTHER ->
             SearchComponent(StepUp(s), ns)

DeadlockFirelist(ns) ==
  LET enabled == {t \in Transition : ns.Enabled[t]}
      start == [dfs |-> <<>>, lowlink |-> <<>>, nextDfs |-> 0, dfsStack |-> <<>>,
                TarjanStack |-> <<>>, left |-> <<>>, dfsLastEnabled |-> 0]
  IN  enabled \intersect SearchComponent(Visit(start, ns, Min(enabled)), ns)
=============================================================================
