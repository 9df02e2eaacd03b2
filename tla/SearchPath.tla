----------------------------- MODULE SearchPath -----------------------------
(***************************************************************************)
(* The entries of the search stacks and the path of markings a stack       *)
(* describes.  The sequential and the parallel search keep the same kind   *)
(* of stack (SimpleStackEntry, src/lola2/src/Exploration/SimpleProperty.h) *)
(* and recover every marking but the current one from it, by firing and    *)
(* taking back.                                                            *)
(***************************************************************************)
EXTENDS PetriNet, Sequences

(* A SimpleStackEntry: a firelist and the index of the entry being fired.  *)
(* Indices count from zero as in the code.                                 *)
StackEntry == [fl : Seq(Transition), current : Nat]
(* Mutant: the first entry of the firelist.                                *)
FiredFirst(e) == e.fl[1]
Fired(e) == e.fl[e.current + 1]

-----------------------------------------------------------------------------
(* The markings along a stack, from the initial one: entry k of the stack  *)
(* leads from the k-1st to the kth.                                        *)
Replay(s) ==
  LET f[k \in 0 .. Len(s)] ==
        IF k = 0 THEN InitialMarking ELSE Fire(f[k-1], Fired(s[k]))
  IN  f

EndOf(s) == Replay(s)[Len(s)]

EnabledAt(m) == {t \in Transition : Enabled(m, t)}

(* Stack s describes a path of enabled transitions from the initial        *)
(* marking to m, and every firelist on it fits the marking it stems from.  *)
LeadsTo(s, m) ==
  \E p \in [0 .. Len(s) -> Markings] :
    /\ p[0] = InitialMarking
    /\ p[Len(s)] = m
    /\ \A k \in 1 .. Len(s) :
         /\ s[k].fl \in Seq(EnabledAt(p[k-1]))
         /\ s[k].current < Len(s[k].fl)
         /\ p[k] = Fire(p[k-1], Fired(s[k]))
=============================================================================
