---------------------------- MODULE NetStateWalk ----------------------------
(***************************************************************************)
(* A net state under the call sequences the searches make: fire and        *)
(* backfire at once when the store knows the marking; fire, updateEnabled  *)
(* and push when it does not; pop, backfire and revertEnabled on the way   *)
(* back; and the reset of find_path from anywhere                          *)
(* (src/lola2/src/Exploration/DFSExploration.cc).                          *)
(***************************************************************************)
EXTENDS NetState

VARIABLES
  netState,          (* the search's NetState                              *)
  path               (* the transitions on the search stack                *)

walkVars == <<netState, path>>

WalkInit == netState = createNetStateFromInitial /\ path = <<>>

(* The successor is known to the store: enabledness is not touched.        *)
TryKnown(t) ==
  /\ netState.Enabled[t]
  /\ netState' = backfire(fire(netState, t), t)
  /\ UNCHANGED path

(* Mutant: the enabledness information is not updated.                     *)
DescendBlindly(t) ==
  /\ netState.Enabled[t]
  /\ netState' = fire(netState, t)
  /\ path' = Append(path, t)

Descend(t) ==
  /\ netState.Enabled[t]
  /\ netState' = updateEnabled(fire(netState, t), t)
  /\ path' = Append(path, t)

StepBack ==
  /\ path # <<>>
  /\ LET t == path[Len(path)]
     IN  netState' = revertEnabled(backfire(netState, t), t)
  /\ path' = Front(path)

StartOver ==
  /\ netState' = resetToInitial(netState)
  /\ path' = <<>>

WalkNext ==
  \/ \E t \in Transition : TryKnown(t) \/ Descend(t)
  \/ StepBack
  \/ StartOver

WalkSpec == WalkInit /\ [][WalkNext]_walkVars

-----------------------------------------------------------------------------
(* All fields of a net state.                                              *)
NetStates ==
  [Current           : [Place -> Nat],
   HashCurrent       : 0 .. SIZEOF_MARKINGTABLE - 1,
   Enabled           : [Transition -> BOOLEAN],
   CardEnabled       : Int,
   Arc               : [Transition -> Seq(Place)],
   Disabled          : [Place -> Seq(Transition)],
   PositionScapegoat : [Transition -> Nat]]

(* Pre lists stay permutations of the pre-places.                          *)
ArcsPermuted(ns) ==
  \A t \in Transition :
    /\ ToSet(ns.Arc[t]) = PrePlaces(t)
    /\ \A i, j \in DOMAIN ns.Arc[t] : ns.Arc[t][i] = ns.Arc[t][j] => i = j

(* The transitions of T, and no others, are in the lists: each in that of  *)
(* its scapegoat, the first place of its Pre list, at its recorded         *)
(* position.                                                               *)
Listed(ns, T) ==
  /\ \A p \in Place : \A i \in 1 .. Len(ns.Disabled[p]) :
       LET t == ns.Disabled[p][i]
       IN  t \in T /\ ns.Arc[t][1] = p /\ ns.PositionScapegoat[t] = i
  /\ \A t \in T :
       /\ ns.Arc[t] # <<>>
       /\ LET list == ns.Disabled[ns.Arc[t][1]]
              slot == ns.PositionScapegoat[t]
          IN  slot \in 1 .. Len(list) /\ list[slot] = t

DisabledOnes(ns) == {t \in Transition : ~ ns.Enabled[t]}

(* A transition is marked enabled just when every pre-place carries enough *)
(* tokens; a disabled one has a scapegoat that lacks them.                 *)
Right(ns, t) ==
  IF ns.Enabled[t] THEN Enabled(ns.Current, t)
  ELSE ns.Current[ns.Arc[t][1]] < Pre[t][ns.Arc[t][1]]

Counted(ns) ==
  ns.CardEnabled = Cardinality({t \in Transition : ns.Enabled[t]})

(* The markings along the path, from the initial one.                      *)
Along(list) ==
  LET m[k \in 0 .. Len(list)] ==
        IF k = 0 THEN InitialMarking ELSE Fire(m[k-1], list[k])
  IN  m

WalkTypeOK == netState \in NetStates /\ path \in Seq(Transition)

(* The flags are exact, although neither updateEnabled nor revertEnabled   *)
(* looks at all transitions, and CardEnabled counts them.  A transition    *)
(* wrongly taken for disabled is a lost part of the state space, one       *)
(* wrongly taken for enabled an underflow.                                 *)
EnabledExact ==
  (\A t \in Transition : Right(netState, t)) /\ Counted(netState)

(* A disabled transition is in the list of its scapegoat, at its recorded  *)
(* position and nowhere else; an enabled one is in no list.                *)
ScapegoatsListed ==
  ArcsPermuted(netState) /\ Listed(netState, DisabledOnes(netState))

(* The hash value depends on the marking only, whatever path led there:    *)
(* otherwise the store would look for a marking in the wrong bucket.       *)
HashFollowsMarking == netState.HashCurrent = HashOf(netState.Current)

(* The path is a firing sequence, and the net state is where it leads:     *)
(* going back restores the marking.                                        *)
PathLeadsHere ==
  LET m == Along(path)
  IN  /\ netState.Current = m[Len(path)]
      /\ \A k \in 1 .. Len(path) : Enabled(m[k-1], path[k])

(* After any walk, whichever way the steps down, the looks aside, the      *)
(* steps back and the resets have followed each other, the net state is    *)
(* that of the marking its path leads to: marking, hash value, flags and   *)
(* scapegoat lists have all been taken there and back together.            *)
StateInStep ==
  /\ WalkTypeOK /\ EnabledExact /\ ScapegoatsListed
  /\ PathLeadsHere /\ HashFollowsMarking
=============================================================================
