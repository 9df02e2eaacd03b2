------------------------------ MODULE NetState ------------------------------
(***************************************************************************)
(* The state a search walks on (src/lola2/src/Net/NetState.h) and the      *)
(* operations of src/lola2/src/Net/Transition.cc that keep its enabledness *)
(* information up to date without looking at all transitions.              *)
(*                                                                         *)
(* A disabled transition is kept in the Disabled list of one pre-place     *)
(* that lacks tokens, its scapegoat; the scapegoat is the first arc of the *)
(* transition's Pre list and PositionScapegoat is the transition's index   *)
(* in the scapegoat's list.  Only when a scapegoat gains tokens can one of *)
(* its transitions become enabled.                                         *)
(*                                                                         *)
(* A Disabled list is a sequence here, CardDisabled its length.  The code  *)
(* reads one slot past the end of a list when the last entry has just been *)
(* removed; that ends its loop, as does the test on the length here.       *)
(***************************************************************************)
EXTENDS Firelist, SequencesExt

CONSTANTS
  Hash,                (* Place::Hash                                      *)
  SIZEOF_MARKINGTABLE

(* Places are numbered as transitions are; hash values of places are       *)
(* remainders of positive numbers.                                         *)
ASSUME NetStateAssumption ==
  /\ Place \subseteq Nat /\ IsFiniteSet(Place)
  /\ IsFiniteSet(Transition)
  /\ Hash \in [Place -> Nat]
  /\ SIZEOF_MARKINGTABLE \in Nat \ {0}

(* The remainder of C: it has the sign of the dividend.                    *)
CRem(a, b) == IF a >= 0 THEN a % b ELSE -((-a) % b)

(* Place and transition lists are sorted to begin with.                    *)
Ordered(S) == Ascending(S, Max(Place \union Transition \union {0}))
PrePlaces(t)  == {p \in Place : Pre[t][p] > 0}
PostPlaces(t) == {p \in Place : Post[t][p] > 0}
DeltaPre(t)   == Ordered({p \in Place : Delta(t, p) < 0})
DeltaPost(t)  == Ordered({p \in Place : Delta(t, p) > 0})

(* Transitions that share a pre-place with t; transitions that consume     *)
(* from a post-place of t.                                                 *)
Consumers(P) == {u \in Transition : \E p \in P : Pre[u][p] > 0}
Conflicting(t)     == Ordered(Consumers(PrePlaces(t)))
BackConflicting(t) == Ordered(Consumers(PostPlaces(t)))

(* h after the hash values of the places of a list have been added, each   *)
(* as often as the weight w says.                                          *)
HashSum(h, list, w) ==
  LET sum[k \in 0 .. Len(list)] ==
        IF k = 0 THEN h
        ELSE CRem(sum[k-1] + w[list[k]] * Hash[list[k]], SIZEOF_MARKINGTABLE)
  IN  sum[Len(list)]

(* Transition::DeltaHash: places that lose tokens first.                   *)
DeltaHash(t) ==
  LET w == [p \in Place |-> Delta(t, p)]
  IN  HashSum(HashSum(0, DeltaPre(t), w), DeltaPost(t), w)

HashOf(m) == HashSum(0, Ordered(Place), m)
HashInitial == HashOf(InitialMarking)

-----------------------------------------------------------------------------
(* t leaves the list of its scapegoat p: the last entry takes its slot.    *)
RemoveFrom(ns, p, t) ==
  LET list  == ns.Disabled[p]
      other == list[Len(list)]
      slot  == ns.PositionScapegoat[t]
  IN  IF slot = Len(list)
        THEN [ns EXCEPT !.Disabled[p] = Front(list)]
        ELSE [ns EXCEPT !.Disabled[p] = Front([list EXCEPT ![slot] = other]),
                        !.PositionScapegoat[other] = slot]

InsertInto(ns, p, t) ==
  [ns EXCEPT !.Disabled[p] = Append(@, t),
             !.PositionScapegoat[t] = Len(ns.Disabled[p]) + 1]

(* Exchange the ith arc of t's Pre list with the first.                    *)
ToFront(ns, t, i) ==
  [ns EXCEPT !.Arc[t] = [@ EXCEPT ![1] = ns.Arc[t][i], ![i] = ns.Arc[t][1]]]

(* Transition::checkEnabled.                                               *)
checkEnabled(ns, t) ==
  LET short == {i \in DOMAIN ns.Arc[t] :
                  ns.Current[ns.Arc[t][i]] < Pre[t][ns.Arc[t][i]]}
      i     == Min(short)
      scapegoat == ns.Arc[t][i]
      old       == ns.Arc[t][1]
      disable   == [ns EXCEPT !.Enabled[t] = FALSE, !.CardEnabled = @ - 1]
      enable    == [ns EXCEPT !.Enabled[t] = TRUE, !.CardEnabled = @ + 1]
  IN  CASE short # {} /\ ns.Enabled[t] ->
             ToFront(InsertInto(disable, scapegoat, t), t, i)
        [] short # {} /\ ~ ns.Enabled[t] /\ i > 1 ->
             ToFront(InsertInto(RemoveFrom(ns, old, t), scapegoat, t), t, i)
        [] short = {} /\ ~ ns.Enabled[t] ->
             RemoveFrom(enable, old, t)
        [] OTHER -> ns

(* What becomes of s when op is applied with one entry of a list after the *)
(* other.                                                                  *)
OneByOne(op(_, _), s, list) ==
  LET after[k \in 0 .. Len(list)] ==
        IF k = 0 THEN s ELSE op(after[k-1], list[k])
  IN  after[Len(list)]

(* Check the transitions of a list that are enabled.                       *)
Recheck(s, u) == IF s.Enabled[u] THEN checkEnabled(s, u) ELSE s
RecheckEnabled(ns, list) == OneByOne(Recheck, ns, list)

(* Check the transition at index j of p's Disabled list.  One that leaves  *)
(* the list has been replaced by another or was the last.                  *)
ScanEntry(scan, p) ==
  LET s     == scan.s
      u     == s.Disabled[p][scan.j]
      after == checkEnabled(s, u)
      left  == scan.j <= Len(after.Disabled[p]) /\ after.Disabled[p][scan.j] # u
  IN  IF scan.j > Len(s.Disabled[p]) THEN scan
      ELSE [s |-> after, j |-> IF left THEN scan.j ELSE scan.j + 1]

(* Check the transitions in p's Disabled list.  In every round an entry    *)
(* leaves the list or is passed, so that there are as many rounds as the   *)
(* list has entries in the beginning.                                      *)
ScanDisabled(ns, p) ==
  LET scan[k \in 0 .. Len(ns.Disabled[p])] ==
        IF k = 0 THEN [s |-> ns, j |-> 1] ELSE ScanEntry(scan[k-1], p)
  IN  scan[Len(ns.Disabled[p])].s

(* Mutant: the Disabled lists are not looked at.                           *)
ScanNone(ns, places) == ns
ScanAll(ns, places) == OneByOne(ScanDisabled, ns, places)

(* Transition::fire.                                                       *)
fire(ns, t) ==
  LET h == CRem(ns.HashCurrent + DeltaHash(t), SIZEOF_MARKINGTABLE)
  IN  [ns EXCEPT !.Current = Fire(@, t),
                 !.HashCurrent = IF h < 0 THEN h + SIZEOF_MARKINGTABLE ELSE h]

(* Transition::backfire.                                                   *)
backfire(ns, t) ==
  LET h == CRem(ns.HashCurrent - DeltaHash(t), SIZEOF_MARKINGTABLE)
  IN  [ns EXCEPT !.Current = Backfire(@, t),
                 !.HashCurrent = IF h < 0 THEN h + SIZEOF_MARKINGTABLE ELSE h]

(* Transition::updateEnabled, after fire.                                  *)
updateEnabled(ns, t) ==
  ScanAll(RecheckEnabled(ns, Conflicting(t)), DeltaPost(t))

(* Transition::revertEnabled, after backfire.  t itself need not be in its *)
(* own back-conflicting set.                                               *)
revertEnabled(ns, t) ==
  ScanAll(checkEnabled(RecheckEnabled(ns, BackConflicting(t)), t), DeltaPre(t))

(* All transitions are taken for enabled and then checked one by one: the  *)
(* end of Net::preprocess and the reset of find_path.                      *)
CheckAll(ns) ==
  LET blank == [ns EXCEPT !.Enabled = [t \in Transition |-> TRUE],
                          !.CardEnabled = Cardinality(Transition),
                          !.Disabled = [p \in Place |-> <<>>]]
  IN  OneByOne(checkEnabled, blank, Ordered(Transition))

(* NetState::createNetStateFromInitial.                                    *)
createNetStateFromInitial ==
  CheckAll([Current           |-> InitialMarking,
            HashCurrent       |-> HashInitial,
            Enabled           |-> [t \in Transition |-> TRUE],
            CardEnabled       |-> 0,
            Arc               |-> [t \in Transition |-> Ordered(PrePlaces(t))],
            Disabled          |-> [p \in Place |-> <<>>],
            PositionScapegoat |-> [t \in Transition |-> 0]])

(* The reset at the beginning of every attempt of find_path.  Pre lists    *)
(* and positions stay as the last attempt left them.                       *)
resetToInitial(ns) ==
  CheckAll([ns EXCEPT !.Current = InitialMarking,
                      !.HashCurrent = HashInitial])
=============================================================================
