--------------------------- MODULE MCNetStateWalk ---------------------------
(***************************************************************************)
(* A net on which every branch of checkEnabled is taken: shared pre-places *)
(* (the scapegoat of a transition changes), a transition with a side       *)
(* condition, arc weights above one, and transitions that give tokens back *)
(* to a place they take from.  The last two transitions work beside the    *)
(* others, so that a reduced firelist may leave some out.                  *)
(***************************************************************************)
EXTENDS PropertyWalk

Net == <<[pre |-> <<1, 1, 0, 0, 0, 0>>, post |-> <<0, 0, 2, 0, 0, 0>>],
         [pre |-> <<0, 0, 0, 0, 0, 1>>, post |-> <<1, 0, 0, 1, 0, 0>>],
         [pre |-> <<1, 0, 0, 1, 0, 0>>, post |-> <<1, 1, 0, 0, 0, 0>>],
         [pre |-> <<1, 1, 1, 0, 0, 0>>, post |-> <<2, 1, 0, 0, 0, 0>>],
         [pre |-> <<2, 0, 0, 1, 0, 0>>, post |-> <<0, 1, 1, 1, 0, 0>>],
         [pre |-> <<0, 0, 0, 0, 1, 0>>, post |-> <<0, 0, 0, 0, 0, 1>>],
         [pre |-> <<0, 0, 1, 0, 0, 1>>, post |-> <<0, 0, 0, 1, 0, 0>>]>>

NetPlace == 1 .. 6
NetTransition == DOMAIN Net
NetPre == [t \in NetTransition |-> Net[t].pre]
NetPost == [t \in NetTransition |-> Net[t].post]
NetInitial == <<1, 1, 1, 1, 1, 0>>
NetHash == <<5, 3, 6, 4, 1, 2>>
NetProgress == <<1, 0, -1, 2, 0, 1, -1>>

(* The least set that holds the initial marking and is closed under        *)
(* firing.                                                                 *)
RECURSIVE Reach(_)
Reach(ms) ==
  LET next == ms \union UNION {{Fire(m, t) : t \in EnabledSet(m)} : m \in ms}
  IN  IF next = ms THEN ms ELSE Reach(next)
NetMarkings == Reach({NetInitial})

(* Formulas are given by their nodes; an atomic one is a sum of places     *)
(* with factors and a threshold.                                           *)
Atomic(factor, threshold) ==
  [kind |-> "atomic", factor |-> factor, threshold |-> threshold, sub |-> <<>>]
And(list) == [kind |-> "and", factor |-> <<0, 0, 0, 0, 0, 0>>, threshold |-> 0, sub |-> list]
Or(list) == [And(list) EXCEPT !.kind = "or"]
Formula(nodes) ==
  [kind |-> [n \in DOMAIN nodes |-> nodes[n].kind],
   factor |-> [n \in DOMAIN nodes |-> nodes[n].factor],
   threshold |-> [n \in DOMAIN nodes |-> nodes[n].threshold],
   sub |-> [n \in DOMAIN nodes |-> nodes[n].sub]]

(* An atomic formula alone; a disjunction; a conjunction with three parts, *)
(* one of them a disjunction with a conjunction in it.                     *)
NetFormulas ==
  {Formula(<<Atomic(<<0, 0, 1, 0, 0, -1>>, -1)>>),
   Formula(<<Or(<<2, 3>>), Atomic(<<0, 0, 0, 0, -1, 0>>, -2),
             Atomic(<<0, -1, 0, 0, 0, 0>>, -2)>>),
   Formula(<<And(<<2, 3, 4>>), Atomic(<<0, 0, 0, 0, 1, 0>>, 0), Or(<<5, 6, 7>>),
             Atomic(<<1, 0, -1, 0, 0, 0>>, -1), Atomic(<<0, 0, 0, -1, 0, 0>>, -2),
             And(<<8, 9>>), Atomic(<<0, -1, 0, 1, 0, -1>>, -3),
             Atomic(<<0, 1, 0, 0, 0, 0>>, 0), Atomic(<<0, 0, -1, 0, 0, 0>>, -3)>>)}

(* Two tokens on the first place, and one on the fifth.                    *)
ConjunctionFormulas ==
  {Formula(<<And(<<2, 3>>), Atomic(<<-1, 0, 0, 0, 0, 0>>, -2),
             Atomic(<<0, 0, 0, 0, -1, 0>>, -1)>>)}
=============================================================================
