-------------------------- MODULE MCCTLExploration --------------------------
(***************************************************************************)
(* One token on the places 1, 2 and 3 and another on 4 and 5: markings     *)
(* with two cycles through the first one, a loop of a single marking, ways *)
(* out of all of them and a deadlock.                                      *)
(***************************************************************************)
EXTENDS CTLExploration

Net == <<[pre |-> <<1, 0, 0, 0, 0>>, post |-> <<0, 1, 0, 0, 0>>],
         [pre |-> <<0, 1, 0, 0, 0>>, post |-> <<1, 0, 0, 0, 0>>],
         [pre |-> <<0, 1, 0, 0, 0>>, post |-> <<0, 0, 1, 0, 0>>],
         [pre |-> <<0, 0, 0, 1, 0>>, post |-> <<0, 0, 0, 0, 1>>],
         [pre |-> <<1, 0, 0, 0, 1>>, post |-> <<1, 0, 0, 1, 0>>],
         [pre |-> <<0, 0, 1, 1, 0>>, post |-> <<0, 0, 1, 1, 0>>]>>

NetPlace == 1 .. 5
NetTransition == DOMAIN Net
NetPre == [t \in NetTransition |-> Net[t].pre]
NetPost == [t \in NetTransition |-> Net[t].post]
NetInitial == <<1, 0, 0, 1, 0>>
NetHash == <<5, 3, 6, 4, 1>>
NetMarkings == {<<1, 0, 0>>, <<0, 1, 0>>, <<0, 0, 1>>} \X {<<1, 0>>, <<0, 1>>}
TokenMarkings == {m[1] \o m[2] : m \in NetMarkings}

(* No fairness; one transition; two that are in each other's way.          *)
NetWeak == {{}, {3}, {4, 5}}

(* Atomic formulas, by their factors: their sum has to be positive.        *)
Sum(c, m) == c[1] * m[1] + c[2] * m[2] + c[3] * m[3] + c[4] * m[4] + c[5] * m[5]
Holds(c) == {m \in TokenMarkings : Sum(c, m) > 0}
All == <<1, 1, 1, 0, 0>>
On(p) == [q \in NetPlace |-> IF q = p THEN 1 ELSE 0]
NotOn(p) == [q \in NetPlace |-> IF p = q \/ (p <= 3) # (q <= 3) THEN 0 ELSE 1]

Atomic(c) == [kind |-> "atomic", sub |-> <<>>, holds |-> Holds(c)]
Node(k, list) == [kind |-> k, sub |-> list, holds |-> {}]
Formula(nodes) ==
  [kind |-> [n \in DOMAIN nodes |-> nodes[n].kind],
   sub |-> [n \in DOMAIN nodes |-> nodes[n].sub],
   holds |-> [n \in DOMAIN nodes |-> nodes[n].holds]]

Conditions == {All, On(1), On(2), On(3), On(4), On(5), NotOn(3), <<0, 1, 0, 1, 0>>}
Searches == {"EU", "AU"}

(* One search.                                                             *)
Flat == {Formula(<<Node(k, <<2, 3>>), Atomic(x), Atomic(y)>>) :
           k \in Searches, x \in Conditions, y \in Conditions}

(* A search whose second part, or first part, is a search; the latter with *)
(* a negation and with the successors of a marking.                        *)
Nested ==
  {Formula(<<Node(k, <<2, 3>>), Atomic(x), Node(j, <<4, 5>>), Atomic(All), Atomic(y)>>) :
     k \in Searches, j \in Searches, x \in {All, NotOn(3), <<0, 1, 0, 1, 0>>},
     y \in {On(1), On(2), On(3), On(5), <<0, 0, 1, 0, 1>>, <<-1, 0, 0, 1, 0>>}}
  \union
  {Formula(<<Node(k, <<2, 6>>), Node("not", <<3>>), Node(j, <<4, 5>>), Atomic(NotOn(3)),
             Atomic(x), Node(i, <<7>>), Atomic(y)>>) :
     k \in Searches, j \in Searches, i \in {"EX", "AX"}, x \in {On(2), On(4), On(5)},
     y \in {On(3), On(5)}}

(* A search in every marking, among the results of those before it: the    *)
(* outer one goes on until it has seen all markings.                       *)
None == <<0, 0, 0, 0, 0>>
Everywhere ==
  {Formula(<<Node("EU", <<2, 7>>), Node("or", <<3, 6>>), Node(j, <<4, 5>>), Atomic(x), Atomic(y),
             Atomic(All), Atomic(None)>>) : j \in Searches, x \in Conditions, y \in Conditions}

(* Searches side by side: the later ones begin among the results of the    *)
(* first; a fifth one, whose results are lost, on a part without cycles.   *)
Beside ==
  {Formula(<<Node(k, <<2, 5>>), Node("AU", <<3, 4>>), Atomic(All), Atomic(x),
             Node("EU", <<6, 7>>), Atomic(NotOn(3)), Atomic(On(5))>>) :
     k \in {"and", "or"}, x \in {On(2), On(5), <<0, 0, 1, 1, 0>>}}
  \union
  {Formula(<<Node("and", <<2, 5, 8, 11, 14>>),
             Node("EU", <<3, 4>>), Atomic(All), Atomic(On(3)),
             Node("EU", <<6, 7>>), Atomic(All), Atomic(On(5)),
             Node("EU", <<9, 10>>), Atomic(On(4)), Atomic(On(3)),
             Node("EU", <<12, 13>>), Atomic(NotOn(3)), Atomic(On(5)),
             Node("EU", <<15, 16>>), Atomic(<<1, -1, -1, 1, -1>>), Atomic(x)>>) :
     x \in {On(2), On(3)}}

NetFormulas == Flat \union Nested \union Everywhere \union Beside
=============================================================================
