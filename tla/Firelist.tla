------------------------------ MODULE Firelist ------------------------------
(***************************************************************************)
(* The default firelist: all enabled transitions, in ascending order       *)
(* (src/lola2/src/Exploration/Firelist.cc).  A search works through it     *)
(* from its end.                                                           *)
(***************************************************************************)
EXTENDS PetriNet, FiniteSetsExt, Sequences

(* The transitions a marking enables.                                      *)
EnabledSet(m) == {t \in Transition : Enabled(m, t)}

(* The numbers in a set, in ascending order: one pass over all numbers.    *)
Ascending(S, max) ==
  LET below[n \in 0 .. max + 1] ==
        IF n = 0 THEN <<>>
        ELSE IF n - 1 \in S THEN Append(below[n-1], n - 1)
        ELSE below[n-1]
  IN  below[max + 1]

(* Firelist::getFirelist.                                                  *)
AllEnabledFirelist(m) == Ascending(EnabledSet(m), Max(Transition))
=============================================================================
