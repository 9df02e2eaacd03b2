-------------------------- MODULE StubbornDeletion --------------------------
(***************************************************************************)
(* Firelists by the deletion algorithm                                     *)
(* (src/lola2/src/Exploration/FirelistStubbornDeletion.cc).                *)
(*                                                                         *)
(* An and-or-graph says of the transitions, the places, the formula and    *)
(* some helper nodes what they need to be in a stubborn set: an and-node   *)
(* all its successors, an or-node one of them.  Enabled transitions are    *)
(* taken out one by one, with what can no longer stay.                     *)
(*                                                                         *)
(* speculate and rehabilitate go along the edges with colours and          *)
(* counters.  Here a node is white as long as it is not in a set of nodes  *)
(* that are out; an or-node leaves when as many of its successors have     *)
(* left as its counter says.  Counters are unsigned: one that starts with  *)
(* zero does not come back to it.                                          *)
(***************************************************************************)
EXTENDS StatePredicates

CONSTANT ProgressMeasure    (* Transition::ProgressMeasure                 *)

Takers(p) == {u \in Transition : Delta(u, p) < 0}         (* consumer      *)
Givers(p) == {u \in Transition : Delta(u, p) > 0}         (* producer      *)

NoFormula == [kind |-> <<>>]

(* Two ways for t to stay enabled as far as place p is concerned: those    *)
(* that compete with it for the tokens there are in the set, or those that *)
(* can put more tokens there.  In the first, the mutant sees only those     *)
(* that lack tokens once t has fired.                                      *)
LacksThen(m, t, p) ==
  {u \in Transition : Pre[u][p] > 0 /\ Pre[u][p] - Delta(t, p) > m[p]}

Interferes(m, t, p) ==
  {u \in Transition : /\ Pre[u][p] > 0
                      /\ \/ Pre[u][p] - Delta(t, p) > m[p]
                         \/ Delta(u, p) < 0}
Provides(m, t, p) ==
  {u \in Transition : /\ Post[u][p] > 0 /\ m[p] >= Pre[u][p]
                      /\ \/ Post[u][p] > Pre[u][p]
                         \/ Post[u][p] > Post[t][p]}

Short(m, t) == {p \in Place : m[p] < Pre[t][p]}

Tagged(tag, S) == {<<tag, x>> : x \in S}

(* The nodes of the formula.  The parts of a conjunction are marked as     *)
(* or-nodes, where the comment speaks of the conjunction; and only         *)
(* conjunctions have their counters set.  The others' come with the memory *)
(* they are in, taken to be zero here.                                     *)
FormulaOrNodes(P) ==
  {n \in Nodes(P) : n # Root /\ P.kind[P.parent[n]] = "and"}
FormulaCounter(P, n) ==
  IF P.kind[n] = "and" THEN Len(P.sub[n]) - P.cardSat[n] ELSE 0
FormulaSuccessors(P, n) ==
  CASE P.kind[n] = "atomic" -> IF P.value[n] THEN {} ELSE Tagged("t", UpOf(P, n))
    [] P.kind[n] = "and" -> Tagged("f", {c \in ToSet(P.sub[n]) : ~ P.value[c]})
    [] P.kind[n] = "or" -> Tagged("f", ToSet(P.sub[n]))

(* The graph in marking m.  <<"t,s", t, p>> stands for a place an enabled  *)
(* transition takes from, "2" and "3" for two ways to make sure that it    *)
(* still can.                                                              *)
Graph(m, P) ==
  LET disabled == {t \in Transition : ~ Enabled(m, t)}
      pairs == {<<t, p>> \in (Transition \ disabled) \X Place : Delta(t, p) < 0}
      nodes == Tagged("t", Transition) \union Tagged("p", Place)
               \union Tagged("f", Nodes(P))
               \union {<<k, x[1], x[2]>> : k \in {"t,s", "2", "3"}, x \in pairs}
      some == UNION {Short(m, t) : t \in Transition}
      successors(y) ==
        CASE y[1] = "t" -> IF y[2] \in disabled THEN Tagged("p", Short(m, y[2]))
                             ELSE {<<"t,s", y[2], p>> : p \in ToSet(DeltaPre(y[2]))}
          [] y[1] = "p" -> IF y[2] \notin some THEN {}
                             ELSE Tagged("t", {u \in Givers(y[2]) : m[y[2]] >= Pre[u][y[2]]})
          [] y[1] = "t,s" -> {<<"2", y[2], y[3]>>, <<"3", y[2], y[3]>>}
          [] y[1] = "2" -> Tagged("t", Interferes(m, y[2], y[3]))
          [] y[1] = "3" -> Tagged("t", Provides(m, y[2], y[3]))
          [] y[1] = "f" -> FormulaSuccessors(P, y[2])
      ornodes == Tagged("t", disabled) \union Tagged("f", FormulaOrNodes(P))
                 \union {y \in nodes : y[1] = "t,s"}
      counter(y) == IF y[1] = "t" THEN Cardinality(Short(m, y[2]))
                      ELSE IF y[1] = "t,s" THEN 2 ELSE FormulaCounter(P, y[2])
  IN  [successors |-> [y \in nodes |-> successors(y)],
       counter |-> [y \in ornodes |-> counter(y)]]

-----------------------------------------------------------------------------
(* Everything that leaves with the nodes in out.                           *)
RECURSIVE speculate(_, _)
speculate(G, out) ==
  LET Leaves(y) ==
        LET gone == Cardinality(G.successors[y] \intersect out)
        IN  gone > 0 /\ (y \in DOMAIN G.counter => G.counter[y] \in 1 .. gone)
      more == out \union {y \in DOMAIN G.successors : Leaves(y)}
  IN  IF more = out THEN out ELSE speculate(G, more)

White(out, T) == {t \in T : <<"t", t>> \notin out}

(* A transition that stays enabled whatever the others do.                 *)
IsKey(out, t) ==
  \A p \in PrePlaces(t) : White(out, Takers(p)) = Takers(p)

MayLeave(out, en, protected) ==
  /\ White(out, protected) = protected
  /\ <<"f", Root>> \notin out
  /\ \E t \in White(out, en) : IsKey(out, t)

(* cnstr: the enabled transitions are tried by their progress.             *)
RECURSIVE Delete(_, _, _, _, _)
Delete(G, en, protected, out, tried) ==
  LET white == White(out, en)
      pending == white \ tried
      least == Min({ProgressMeasure[u] : u \in pending})
      t == Min({u \in pending : ProgressMeasure[u] = least})
      then == speculate(G, out \union {<<"t", t>>})
  IN  IF Cardinality(white) < 2 \/ pending = {} THEN white
        ELSE Delete(G, en, protected,
                    IF MayLeave(then, en, protected) THEN then ELSE out, tried \union {t})

(* Subsets are tried by size, then in the order of their elements.         *)
Before(S, T) ==
  \/ Cardinality(S) < Cardinality(T)
  \/ /\ Cardinality(S) = Cardinality(T)
     /\ Min((S \ T) \union (T \ S)) \in S

(* The minimisation: a set that protects itself is taken; a smaller set    *)
(* found on the way is the new limit.                                      *)
RECURSIVE Minimise(_, _, _, _, _)
Minimise(G, en, todo, best, limit) ==
  LET S == CHOOSE x \in todo : \A y \in todo \ {x} : Before(x, y)
      white == Delete(G, en, S, {}, S)
  IN  IF todo = {} \/ Cardinality(S) >= limit THEN best
      ELSE IF white \subseteq S THEN S
      ELSE IF Cardinality(white) < limit
        THEN Minimise(G, en, todo \ {S}, white, Cardinality(white))
      ELSE Minimise(G, en, todo \ {S}, best, limit)

(* getFirelist                                                             *)
DeletionFirelist(m, P) ==
  LET G == Graph(m, P)
      en == EnabledSet(m)
      first == Delete(G, en, {}, {}, {})
  IN  IF first = en \/ Cardinality(first) < 2 THEN first
        ELSE Minimise(G, en, SUBSET en \ {{}}, first,
                      IF Cardinality(en) > 5 THEN 2 ELSE Cardinality(first))
=============================================================================
