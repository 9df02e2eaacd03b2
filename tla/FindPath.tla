------------------------------ MODULE FindPath ------------------------------
(***************************************************************************)
(* The search for a witness path by repeated random walks                  *)
(* (DFSExploration::find_path, src/lola2/src/Exploration) with the hash    *)
(* driven choice of transitions (ChooseTransitionHashDriven).  One action  *)
(* is one attempt's reset or one round of its loop.                        *)
(***************************************************************************)
EXTENDS NetStateWalk

CONSTANTS
  Attempts,         (* values of the argument attempts; 0 is "no limit"    *)
  maxdepth,         (* the argument maxdepth                               *)
  Goals,            (* the properties, each the set of markings it holds in *)
  Leftovers,        (* what new may leave in the memory of table           *)
  MaxTries          (* bound on the tries when there is no limit           *)

VARIABLES
  attempts, goal,   (* arguments                                           *)
  pc,               (* "next", "walk", "returned"                          *)
  currentattempt,   (* attempts begun                                      *)
  depth,            (* steps made in this attempt; the transitions fired   *)
                    (* are path[0 .. depth-1]                              *)
  table,            (* hits counted for each bucket                        *)
  tries, calls,     (* the counters of the EmptyStore                      *)
  value             (* the answer                                          *)

vars == <<netState, path, attempts, goal, pc, currentattempt, depth, table,
          tries, calls, value>>

Bucket == 0 .. SIZEOF_MARKINGTABLE - 1

(* The arguments and the counters of the hits are unsigned.                *)
ASSUME FindPathAssumption ==
  /\ Attempts \subseteq Nat
  /\ maxdepth \in Nat
  /\ Leftovers \subseteq [Bucket -> Nat]
  /\ MaxTries \in Nat

(* The constructor of the chooser takes memory for table and leaves it as  *)
(* it is.                                                                  *)
Init ==
  /\ attempts \in Attempts
  /\ goal \in Goals
  /\ pc = "next"
  /\ currentattempt = 0
  /\ depth = 0
  /\ WalkInit
  /\ table \in Leftovers
  /\ tries = 0
  /\ calls = 0
  /\ value = FALSE

(* Mutant: one attempt less.                                               *)
AttemptShort == attempts = 0 \/ currentattempt + 1 < attempts
AttemptLeft == attempts = 0 \/ currentattempt < attempts

(* The head of the outer loop, and a new attempt up to the check of the    *)
(* initial marking.                                                        *)
NewAttempt ==
  /\ pc = "next"
  /\ AttemptLeft
  /\ tries < MaxTries
  /\ currentattempt' = IF attempts = 0 THEN 0 ELSE currentattempt + 1
  /\ tries' = tries + 1
  /\ StartOver
  /\ depth' = 0
  /\ value' = (InitialMarking \in goal)
  /\ pc' = IF value' THEN "returned" ELSE "walk"
  /\ UNCHANGED <<attempts, goal, table, calls>>

(* The head of the outer loop, all attempts made.                          *)
NoAttemptLeft ==
  /\ pc = "next"
  /\ ~ AttemptLeft
  /\ value' = FALSE
  /\ pc' = "returned"
  /\ UNCHANGED <<attempts, goal, currentattempt, depth, netState, path, table,
                 tries, calls>>

(* The bucket that h plus the hash change of t points to.                  *)
BucketOf(h, t) ==
  LET r == CRem(h + DeltaHash(t), SIZEOF_MARKINGTABLE)
  IN  IF r < 0 THEN r + SIZEOF_MARKINGTABLE ELSE r

getFirelist == Ordered({t \in Transition : netState.Enabled[t]})

(* ChooseTransitionHashDriven::choose.  Phase one runs through the         *)
(* firelist from its end; an entry whose bucket has not been hit is taken  *)
(* for certain, another one by chance.  Phase two draws from the whole     *)
(* list.                                                                   *)
Eligible(fl) ==
  LET fresh == {i \in DOMAIN fl : table[BucketOf(netState.HashCurrent, fl[i])] = 0}
  IN  {fl[i] : i \in {j \in DOMAIN fl : \A k \in fresh : k <= j}}

(* The hit is counted from Marking::HashCurrent, which the searches leave  *)
(* at the hash value of the initial marking: not the bucket of the marking *)
(* that is entered, except in the first step.                              *)
Count(t) ==
  table' = [table EXCEPT ![BucketOf(HashInitial, t)] = @ + 1]

(* One more transition.                                                    *)
Step ==
  /\ pc = "walk"
  /\ depth < maxdepth
  /\ calls' = calls + 1
  /\ \E t \in Eligible(getFirelist) :
       Descend(t) /\ Count(t)
  /\ depth' = depth + 1
  /\ value' = (netState'.Current \in goal)
  /\ pc' = IF value' THEN "returned" ELSE "walk"
  /\ UNCHANGED <<attempts, goal, currentattempt, tries>>

(* Nothing to fire.                                                        *)
DeadEnd ==
  /\ pc = "walk"
  /\ depth < maxdepth
  /\ calls' = calls + 1
  /\ getFirelist = <<>>
  /\ pc' = "next"
  /\ UNCHANGED <<attempts, goal, currentattempt, depth, netState, path, table,
                 tries, value>>

DepthReached ==
  /\ pc = "walk"
  /\ depth = maxdepth
  /\ pc' = "next"
  /\ UNCHANGED <<attempts, goal, currentattempt, depth, netState, path, table,
                 tries, calls, value>>

(* The answer has been given, or the bound of the model is reached.        *)
Rest ==
  /\ pc = "returned" \/ (pc = "next" /\ attempts = 0 /\ tries = MaxTries)
  /\ UNCHANGED vars

Next ==
  NewAttempt \/ NoAttemptLeft \/ Step \/ DeadEnd \/ DepthReached \/ Rest

Spec == Init /\ [][Next]_vars

-----------------------------------------------------------------------------
(* Types of all variables.                                                 *)
TypeOK ==
  /\ attempts \in Attempts
  /\ goal \in Goals
  /\ pc \in {"next", "walk", "returned"}
  /\ currentattempt \in 0 .. attempts
  /\ depth \in 0 .. maxdepth
  /\ WalkTypeOK
  /\ table \in [Bucket -> Nat]
  /\ tries \in 0 .. MaxTries
  /\ calls \in Nat
  /\ value \in BOOLEAN

(* In every attempt, not only in the first, path is a firing sequence from *)
(* the initial marking to the current one: what an attempt leaves behind   *)
(* in the enabledness information does not mislead the next one.  A walk   *)
(* ends early in a deadlock only.                                          *)
PathFires ==
  /\ TypeOK
  /\ Len(path) = depth
  /\ PathLeadsHere
  /\ getFirelist = <<>> <=> EnabledSet(netState.Current) = {}

(* "Yes" just when the walk is in a satisfying marking, the first it meets *)
(* in its attempt; "no" only after exactly the attempts asked for, and the *)
(* store has then seen at most maxdepth markings in each of them.          *)
AnswerHonest ==
  /\ value <=> pc = "returned" /\ netState.Current \in goal
  /\ \A k \in 0 .. depth - 1 : Along(path)[k] \notin goal
  /\ pc = "returned" /\ ~ value => attempts > 0 /\ tries = attempts
  /\ calls <= tries * maxdepth

(* Why the answers are honest: the net state is in step with the path, an  *)
(* attempt that has not answered is not in a satisfying marking, a walk    *)
(* has asked the store at most once for every step, and the counter of the *)
(* attempts is the store's.                                                *)
PathInvariant ==
  /\ TypeOK
  /\ StateInStep
  /\ Len(path) = depth
  /\ value <=> pc = "returned" /\ netState.Current \in goal
  /\ \A k \in 0 .. depth - 1 : Along(path)[k] \notin goal
  /\ pc = "returned" /\ ~ value => attempts > 0 /\ tries = attempts
  /\ attempts > 0 => tries = currentattempt
  /\ calls <= tries * maxdepth
  /\ pc # "returned" /\ tries > 0 => netState.Current \notin goal
  /\ pc = "walk" => tries > 0 /\ calls <= (tries - 1) * maxdepth + depth
=============================================================================
