------------------------------ MODULE MCSweep ------------------------------
(***************************************************************************)
(* The sweep-line method on a net with one token; every place has a        *)
(* progress value.                                                         *)
(***************************************************************************)
EXTENDS Sweep, Firelist

SweepPlace == {"i", "a", "b", "z", "p", "q", "r", "s", "t", "u", "y", "x"}
Value == [i |-> 0, a |-> 1, b |-> 1, z |-> -1, p |-> 0, q |-> 1, r |-> 2,
          s |-> 3, t |-> 4, u |-> 5, y |-> 2, x |-> 1]
(* The first round is short, with steps to the same value and one back     *)
(* below the initial value.  From there it is a long way with steps back   *)
(* to something seen, to something new and from there again.               *)
SweepArcs == <<<<"i", "a">>, <<"i", "b">>, <<"a", "b">>, <<"b", "a">>, <<"a", "z">>,
               <<"z", "p">>, <<"p", "q">>, <<"q", "r">>, <<"r", "s">>, <<"s", "r">>,
               <<"s", "t">>, <<"t", "u">>, <<"u", "y">>, <<"y", "x">>, <<"x", "r">>>>
SweepTransition == DOMAIN SweepArcs
At(p) == [q \in SweepPlace |-> IF q = p THEN 1 ELSE 0]
SweepPre == [t \in SweepTransition |-> At(SweepArcs[t][1])]
SweepPost == [t \in SweepTransition |-> At(SweepArcs[t][2])]
SweepInitial == At("i")
SweepMarkings == {At(p) : p \in SweepPlace}
SweepMeasure == [t \in SweepTransition |-> Value[SweepArcs[t][2]] - Value[SweepArcs[t][1]]]
FirelistOf == [m \in SweepMarkings |-> AllEnabledFirelist(m)]
SweepFirelist(m) == FirelistOf[m]
MarkingValue == [m \in SweepMarkings |-> Value[CHOOSE p \in SweepPlace : m[p] = 1]]

(* Searches for nothing, for something found late in the second round or   *)
(* only in the last one, and for something two threads may find.           *)
Goals == {{}, {At("u")}, {At("x")}, {At("z"), At("a")}}
Args(f, t, o, goals) ==
  {[fronts |-> f, threads |-> t, transient_offset |-> o, goal |-> g] : g \in goals}
StartupArguments == Args(2, 3, 1, {{At("t")}})
(* A front alone, with a helper, with one and two fronts behind it, and    *)
(* two fronts with a helper that goes from one to the other.               *)
SweepArguments ==
  Args(1, 1, 0, Goals) \union Args(1, 1, 1, Goals) \union Args(1, 2, 0, Goals)
    \union Args(2, 2, 1, Goals) \union Args(3, 3, 0, Goals) \union StartupArguments
=============================================================================
