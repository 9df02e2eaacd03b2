-------------------------- MODULE StatePredicates --------------------------
(***************************************************************************)
(* Formulas over markings and their values, kept up to date while a search *)
(* goes on (src/lola2/src/Formula, Exploration/StatePredicateProperty.cc). *)
(*                                                                         *)
(* A formula is a tree of nodes.  An atomic one compares a sum over places *)
(* with a threshold; when a transition is fired, the sums it changes are   *)
(* updated, and a node whose value turns tells its parent.  A conjunction  *)
(* or disjunction only counts its satisfied parts, which are the first     *)
(* ones of its list; every part knows its position there.                  *)
(*                                                                         *)
(* A predicate is a record of functions over the nodes; lists begin at 1.  *)
(***************************************************************************)
EXTENDS NetState

Root == 1
Nodes(P) == DOMAIN P.kind

(* The constructors and addSub; f has kind, factor, threshold and sub.     *)
NewPredicate(f) ==
  LET nodes == DOMAIN f.kind
      Above(n) == {q \in nodes : n \in ToSet(f.sub[q])}
      In(list, n) == CHOOSE i \in DOMAIN list : list[i] = n
      parent == [n \in nodes |-> IF n = Root THEN 0 ELSE CHOOSE q \in Above(n) : TRUE]
  IN  [kind |-> f.kind, factor |-> f.factor, threshold |-> f.threshold,
       sub |-> f.sub, parent |-> parent,
       position |-> [n \in nodes |-> IF n = Root THEN 0 ELSE In(f.sub[parent[n]], n)],
       sum |-> [n \in nodes |-> 0], value |-> [n \in nodes |-> FALSE],
       cardSat |-> [n \in nodes |-> 0]]

(* How many satisfied parts make a node true.                              *)
Needed(P, n) == IF P.kind[n] = "and" THEN Len(P.sub[n]) ELSE 1

(* Atomic nodes in the order of collectAtomic.                             *)
Atoms(P) ==
  LET collect[n \in Nodes(P)] ==
        IF P.kind[n] = "atomic" THEN <<n>>
          ELSE FlattenSeq([i \in DOMAIN P.sub[n] |-> collect[P.sub[n][i]]])
  IN  collect[Root]

(* The sort in evaluate: from both ends, unsatisfied parts on the left are *)
(* exchanged with satisfied ones on the right.                             *)
SatisfiedFirst(list, value) ==
  LET k == Cardinality({i \in DOMAIN list : value[list[i]]})
      left == Ascending({i \in 1 .. k : ~ value[list[i]]}, Len(list))
      right == Reverse(Ascending({i \in k + 1 .. Len(list) : value[list[i]]}, Len(list)))
      Other(i) == IF i \in ToSet(left) THEN right[CHOOSE j \in DOMAIN left : left[j] = i]
                  ELSE IF i \in ToSet(right)
                    THEN left[CHOOSE j \in DOMAIN right : right[j] = i]
                  ELSE i
  IN  [i \in DOMAIN list |-> list[Other(i)]]

SumAt(P, n, m) == FoldLeft(LAMBDA s, p : s + P.factor[n][p] * m[p], 0, Ordered(Place))

(* evaluate, from the root down.                                           *)
evaluate(P, m) ==
  LET sum == [n \in Nodes(P) |-> IF P.kind[n] = "atomic" THEN SumAt(P, n, m) ELSE 0]
      value[n \in Nodes(P)] ==
        LET parts == ToSet(P.sub[n])
        IN  CASE P.kind[n] = "atomic" -> sum[n] <= P.threshold[n]
              [] P.kind[n] = "and" -> \A c \in parts : value[c]
              [] P.kind[n] = "or" -> \E c \in parts : value[c]
      sub == [n \in Nodes(P) |-> SatisfiedFirst(P.sub[n], value)]
      PlaceIn(n) == LET list == sub[P.parent[n]]
                    IN  CHOOSE i \in DOMAIN list : list[i] = n
  IN  [P EXCEPT !.sum = sum, !.value = value, !.sub = sub,
                !.cardSat = [n \in Nodes(P) |->
                               Cardinality({c \in ToSet(sub[n]) : value[c]})],
                !.position = [n \in Nodes(P) |->
                                IF n = Root THEN @[n] ELSE PlaceIn(n)]]

(* Two parts exchange their places, and the same without a note of it.     *)
ExchangeUnnoted(P, n, i, j) ==
  [P EXCEPT !.sub[n] = [@ EXCEPT ![i] = P.sub[n][j], ![j] = P.sub[n][i]]]
Exchange(P, n, i, j) ==
  LET a == P.sub[n][i]  b == P.sub[n][j]
  IN  [P EXCEPT !.sub[n] = [@ EXCEPT ![i] = b, ![j] = a],
                !.position = [@ EXCEPT ![b] = i, ![a] = j]]

(* updateFT and updateTF: the ith part of n has become satisfied, or is    *)
(* satisfied no longer.                                                    *)
RECURSIVE updateFT(_, _, _), updateTF(_, _, _)
updateFT(P, n, i) ==
  LET Q == [Exchange(P, n, P.cardSat[n] + 1, i) EXCEPT !.cardSat[n] = @ + 1]
      R == [Q EXCEPT !.value[n] = TRUE]
  IN  IF Q.cardSat[n] # Needed(P, n) THEN Q
      ELSE IF n = Root THEN R
      ELSE updateFT(R, P.parent[n], P.position[n])
updateTF(P, n, i) ==
  LET Q == [Exchange(P, n, P.cardSat[n], i) EXCEPT !.cardSat[n] = @ - 1]
      R == [Q EXCEPT !.value[n] = FALSE]
  IN  IF P.cardSat[n] # Needed(P, n) THEN Q
      ELSE IF n = Root THEN R
      ELSE updateTF(R, P.parent[n], P.position[n])

(* AtomicStatePredicate::update.                                           *)
update(P, a, delta) ==
  LET s == P.sum[a] + delta
      turns == (s <= P.threshold[a]) # P.value[a]
      Q == [P EXCEPT !.sum[a] = s, !.value[a] = (s <= P.threshold[a])]
  IN  IF ~ turns \/ a = Root THEN Q
      ELSE IF Q.value[a] THEN updateFT(Q, P.parent[a], P.position[a])
      ELSE updateTF(Q, P.parent[a], P.position[a])

(* changedSum: what t adds to the sum of a.                                *)
changedSum(P, t, a) ==
  FoldLeft(LAMBDA s, p : s + P.factor[a][p] * Delta(t, p), 0, Ordered(Place))

(* checkProperty after fire, updateProperty after backfire.  The atomic    *)
(* nodes are listed as they were when the property was created, from f.    *)
Changed(f, t) ==
  SelectSeq(Atoms(f), LAMBDA a : changedSum(f, t, a) # 0)
checkProperty(P, f, t) ==
  FoldLeft(LAMBDA Q, a : update(Q, a, changedSum(f, t, a)), P, Changed(f, t))
updateProperty(P, f, t) ==
  FoldLeft(LAMBDA Q, a : update(Q, a, - changedSum(f, t, a)), P, Changed(f, t))

(* setUpSet: the transitions that may decrease the sum of an atomic node.  *)
UpOf(P, a) ==
  {t \in Transition : \E p \in Place :
     (P.factor[a][p] > 0 /\ Pre[t][p] > 0) \/ (P.factor[a][p] < 0 /\ Post[t][p] > 0)}

(* getUpSet of an unsatisfied node: transitions one of which has to fire   *)
(* before it can be satisfied.  Of a conjunction, the first part that is   *)
(* not satisfied is enough, which the mutant takes to be the first one.    *)
UpPartsSatisfied(P, n) ==
  IF P.kind[n] = "and" THEN {P.sub[n][1]} ELSE ToSet(P.sub[n])

UpParts(P, n) ==
  IF P.kind[n] = "and" THEN {P.sub[n][P.cardSat[n] + 1]} ELSE ToSet(P.sub[n])

RECURSIVE getUpSet(_, _)
getUpSet(P, n) ==
  IF P.kind[n] = "atomic" THEN UpOf(P, n)
    ELSE UNION {getUpSet(P, c) : c \in UpParts(P, n)}
=============================================================================
