---------------------------- MODULE SweepFronts ----------------------------
(***************************************************************************)
(* The fronts of the sweep-line method (src/lola2/src/SweepLine/Sweep.inc).*)
(*                                                                         *)
(* The persistent markings lie in a list of stores, one for each progress  *)
(* value.  Every front is a thread that runs along the list from its       *)
(* beginning and looks at the store_size stores around its current one.    *)
(* Several fronts run behind each other in a ring: a front may begin and   *)
(* advance when the one before it has posted its semaphore, the foremost   *)
(* one, the front runner, always.  A front that gets to the end of the     *)
(* list makes the next one the front runner and begins again.              *)
(*                                                                         *)
(* This module has the order in which the fronts move.  What they do with  *)
(* the markings is in Sweep, which extends it and says when an action with *)
(* a parameter takes which value.                                          *)
(***************************************************************************)
EXTENDS Integers

CONSTANTS
  store_size,     (* how many stores a front looks at ...                  *)
  front_offset,   (* ... and how many of them lie before its current one   *)
  FrontNumbers    (* the numbers of fronts to look at (sweepfronts)        *)

ASSUME SizesAssumption ==
  /\ store_size \in Nat \ {0}
  /\ front_offset \in 0 .. store_size - 1
  /\ FrontNumbers \subseteq Nat \ {0}

(* How many of the stores lie behind the current one.                      *)
back_offset == store_size - front_offset - 1

VARIABLES
  nr_of_fronts,   (* an argument                                           *)
  phase,          (* where each front is in frontSweep and runFront        *)
  at,             (* the place in the list of each front's current store   *)
  back_progress,  (* how many stores to add in front of the list if ...    *)
  sem_countdown,  (* how often to advance before the next front may begin  *)
  frontrunner,    (* the front with the flag of the most advanced one       *)
  semaphore,      (* backSemaphore of each front                           *)
  first,          (* the list of persistent stores: its first place ...    *)
  last,           (* ... and its last one                                  *)
  exit            (* the flag telling all threads to terminate             *)

frontVars == <<nr_of_fronts, phase, at, back_progress, sem_countdown,
               frontrunner, semaphore, first, last, exit>>

Fronts == 0 .. nr_of_fronts - 1
Before(f) == IF f = 0 THEN nr_of_fronts - 1 ELSE f - 1
Behind(f) == IF f = nr_of_fronts - 1 THEN 0 ELSE f + 1

FrontsInit ==
  /\ nr_of_fronts \in FrontNumbers
  /\ phase = [f \in Fronts |-> "loop"]
  /\ at = [f \in Fronts |-> 0]
  /\ back_progress = [f \in Fronts |-> 0]
  /\ sem_countdown = [f \in Fronts |-> 0]
  /\ frontrunner = {0}
  /\ semaphore = [f \in Fronts |-> 0]
  /\ first = 0
  /\ last = store_size
  /\ exit = FALSE

Go(f, from, to) == phase[f] = from /\ phase' = [phase EXCEPT ![f] = to]

(* The loop of frontSweep.                                                 *)
Loop(f) ==
  /\ Go(f, "loop", IF exit THEN "end" ELSE "init")
  /\ UNCHANGED <<nr_of_fronts, at, back_progress, sem_countdown, frontrunner,
                 semaphore, first, last, exit>>

(* The critical section in initFront and in runFront: wait for the front   *)
(* before this one.  Flag and semaphore are set under the same mutex and   *)
(* with a signal, so who waits goes on when the condition holds.           *)
AwaitFront(f) ==
  /\ f \in frontrunner \/ semaphore[Before(f)] > 0
  /\ semaphore' = IF f \in frontrunner THEN semaphore
                    ELSE [semaphore EXCEPT ![Before(f)] = @ - 1]
  /\ UNCHANGED <<nr_of_fronts, at, back_progress, sem_countdown, frontrunner,
                 first, last, exit>>

AwaitBegin(f) == Go(f, "init", "begin") /\ AwaitFront(f)
AwaitAdvance(f) == Go(f, "wait", "advance") /\ AwaitFront(f)

(* How often a front advances before the next one may begin, and the same  *)
(* with a step too few.                                                    *)
CountdownShort == store_size - 2
Countdown == store_size - 1

(* The rest of initFront.                                                  *)
Begin(f) ==
  /\ IF exit
       THEN /\ Go(f, "begin", "end")
            /\ UNCHANGED <<at, back_progress, sem_countdown>>
       ELSE /\ Go(f, "begin", "test")
            /\ at' = [at EXCEPT ![f] = first + back_offset]
            /\ back_progress' = [back_progress EXCEPT ![f] = back_offset]
            /\ sem_countdown' = [sem_countdown EXCEPT ![f] = Countdown]
  /\ UNCHANGED <<nr_of_fronts, frontrunner, semaphore, first, last, exit>>

(* The loop of runFront.                                                   *)
Test(f) ==
  /\ Go(f, "test", IF exit THEN "clear" ELSE "work")
  /\ UNCHANGED <<nr_of_fronts, at, back_progress, sem_countdown, frontrunner,
                 semaphore, first, last, exit>>

(* Where the counter of steps in which the list may have to be extended    *)
(* goes, and the same without a change.                                    *)
BackUnchanged(bp, lowest) == bp
Back(bp, lowest) == IF lowest \/ bp = 0 THEN 0 ELSE bp - 1

(* All markings with the current progress value have been dealt with.      *)
(* lowest: there are new persistent markings in the rearmost store.        *)
EndWork(f, lowest) ==
  /\ IF exit
       THEN Go(f, "work", "clear") /\ UNCHANGED <<first, back_progress>>
       ELSE /\ Go(f, "work", "wait")
            /\ first' = IF lowest THEN first - back_progress[f] ELSE first
            /\ back_progress' = [back_progress EXCEPT ![f] = Back(@, lowest)]
  /\ UNCHANGED <<nr_of_fronts, at, sem_countdown, frontrunner, semaphore, last,
                 exit>>

(* advanceProgress: on to the next store, which is created if need be,     *)
(* unless this is the end of the list.  ahead: there are transient         *)
(* markings further on; age: what checkNewPersistent(bp) returns.          *)
Advance(f, ahead, age) ==
  /\ IF ahead \/ at[f] + front_offset < last
       THEN /\ Go(f, "advance", "post")
            /\ at' = [at EXCEPT ![f] = @ + 1]
            /\ last' = IF at[f] + front_offset < last THEN last ELSE last + 1
            /\ UNCHANGED <<first, back_progress>>
       ELSE /\ Go(f, "advance", "clear")
            /\ first' = first - age
            /\ back_progress' = [back_progress EXCEPT ![f] = 0]
            /\ UNCHANGED <<at, last>>
  /\ UNCHANGED <<nr_of_fronts, sem_countdown, frontrunner, semaphore, exit>>

(* The end of the loop of runFront: the next front may advance, too.       *)
PostBehind(f) ==
  /\ Go(f, "post", "test")
  /\ IF sem_countdown[f] > 0
       THEN /\ sem_countdown' = [sem_countdown EXCEPT ![f] = @ - 1]
            /\ UNCHANGED semaphore
       ELSE /\ semaphore' = IF nr_of_fronts = 1 THEN semaphore
                              ELSE [semaphore EXCEPT ![f] = @ + 1]
            /\ UNCHANGED sem_countdown
  /\ UNCHANGED <<nr_of_fronts, at, back_progress, frontrunner, first, last, exit>>

(* Whether the search is over, and the same without a look at the store.   *)
OverWhenFound(none) == exit
OverWhenCleared(none) == exit \/ none

(* deinitFront up to its critical section.  none: this front has made no   *)
(* marking persistent.                                                     *)
Clear(f, none) ==
  /\ Go(f, "clear", IF nr_of_fronts > 1 THEN "pass" ELSE "loop")
  /\ exit' = OverWhenCleared(none)
  /\ frontrunner' = IF nr_of_fronts = 1 THEN frontrunner
                      ELSE frontrunner \ {f}
  /\ UNCHANGED <<nr_of_fronts, at, back_progress, sem_countdown, semaphore,
                 first, last>>

(* What becomes of posts nobody has waited for, and the same without the   *)
(* reset of the semaphore.                                                 *)
PostsLeft(n) == n
PostsDropped(n) == 0

(* ... and its critical section: the next front becomes the front runner.  *)
Pass(f) ==
  /\ Go(f, "pass", "loop")
  /\ frontrunner' = frontrunner \union {Behind(f)}
  /\ semaphore' = [semaphore EXCEPT ![f] = PostsDropped(@)]
  /\ UNCHANGED <<nr_of_fronts, at, back_progress, sem_countdown, first, last,
                 exit>>

(* The end of frontSweep: the next front is to terminate, too.             *)
End(f) ==
  /\ Go(f, "end", "done")
  /\ semaphore' = IF nr_of_fronts = 1 THEN semaphore
                    ELSE [semaphore EXCEPT ![f] = 1]
  /\ UNCHANGED <<nr_of_fronts, at, back_progress, sem_countdown, frontrunner,
                 first, last, exit>>

(* A thread has found what is searched for.                                *)
Found ==
  /\ exit' = TRUE
  /\ UNCHANGED <<nr_of_fronts, phase, at, back_progress, sem_countdown,
                 frontrunner, semaphore, first, last>>

FrontStep(f) ==
  \/ Loop(f) \/ AwaitBegin(f) \/ Begin(f) \/ Test(f) \/ AwaitAdvance(f)
  \/ \E lowest \in BOOLEAN : EndWork(f, lowest)
  \/ \E ahead \in BOOLEAN, age \in 0 .. back_progress[f] : Advance(f, ahead, age)
  \/ PostBehind(f) \/ Pass(f) \/ End(f)
  \/ \E none \in BOOLEAN : Clear(f, none)

FrontsNext == Found \/ \E f \in Fronts : FrontStep(f)

FrontsSpec == FrontsInit /\ [][FrontsNext]_frontVars

(***************************************************************************)
(* Properties.                                                             *)
(***************************************************************************)

(* The front is on its way.                                                *)
Running(f) == phase[f] \in {"test", "work", "wait", "advance", "post", "clear"}

(* As long as the search is on, the stores two fronts look at do not       *)
(* overlap: a front that is not the front runner has one before it that is *)
(* on its way or about to hand over, at least store_size ahead.  The       *)
(* countdown, the two waits and the reset of the semaphore (Sweep.inc:639, *)
(* 658, 751, 789, 821) are to ensure this; the persistent stores have no   *)
(* other protection.                                                       *)
FrontsApart ==
  exit \/ \A f \in Fronts :
    Running(f) /\ f \notin frontrunner =>
      /\ Running(Before(f)) \/ phase[Before(f)] = "pass"
      /\ at[Before(f)] - at[f] >= store_size

(* The list is extended to the left by one front at a time, while no other *)
(* one is about to begin: start_new_persistent and start_old_persistent    *)
(* are changed in extendLeft and read in initFront without a lock          *)
(* (Sweep.inc:658, 741, 773).                                              *)
ExtendsAlone ==
  exit \/ \A f, g \in Fronts :
    f # g /\ Running(f) /\ back_progress[f] > 0 =>
      /\ phase[g] # "begin"
      /\ Running(g) => back_progress[g] = 0

(***************************************************************************)
(* The inductive invariant behind both.  As long as the search is on:      *)
(***************************************************************************)
Phases == {"loop", "init", "begin", "test", "work", "wait", "advance", "post",
           "clear", "pass", "end", "done"}

TypeOK ==
  /\ nr_of_fronts \in Nat \ {0}
  /\ phase \in [Fronts -> Phases]
  /\ at \in [Fronts -> Int]
  /\ back_progress \in [Fronts -> Nat]
  /\ sem_countdown \in [Fronts -> Nat]
  /\ frontrunner \subseteq Fronts
  /\ semaphore \in [Fronts -> Nat]
  /\ first \in Int /\ last \in Int
  /\ exit \in BOOLEAN

(* One front leads: it is the front runner or about to pass this on.  The  *)
(* others follow in the order of their rank, the number of fronts before.  *)
Leads(f) == f \in frontrunner \/ phase[f] = "pass"
Rank(l, f) == IF f >= l THEN f - l ELSE f - l + nr_of_fronts
InLine(f) == Running(f) \/ phase[f] = "pass"
Start == first + back_offset
Owes(p) == IF phase[p] = "post" THEN 1 ELSE 0

OneLeader ==
  /\ \E l \in Fronts : Leads(l)
  /\ \A l, g \in Fronts : Leads(l) /\ Leads(g) => l = g
  /\ \A f \in Fronts : phase[f] = "pass" => f \notin frontrunner /\ nr_of_fronts > 1
  /\ \A f \in Fronts : phase[f] = "clear" => f \in frontrunner
  /\ \A f \in Fronts : phase[f] \notin {"end", "done"}

(* Each front is within the list, and may extend it only as long as it is  *)
(* near the beginning.                                                     *)
WithinList ==
  /\ first + store_size <= last
  /\ \A f \in Fronts : InLine(f) =>
       /\ Start <= at[f]
       /\ at[f] + front_offset <= last
  /\ \A f \in Fronts : InLine(f) /\ back_progress[f] > 0 =>
       /\ phase[f] \notin {"clear", "pass"}
       /\ at[f] + back_progress[f]
           + (IF phase[f] \in {"wait", "advance"} THEN 1 ELSE 0) <= Start + back_offset

(* What a front has posted it has advanced for.                            *)
PostsEarned ==
  \A p \in Fronts :
    /\ semaphore[p] > 0 => InLine(p) /\ nr_of_fronts > 1
    /\ InLine(p) =>
         /\ sem_countdown[p] > 0 => semaphore[p] = 0
         /\ at[p] - Start >= store_size - 1 - sem_countdown[p] + semaphore[p] + Owes(p)

(* A front that follows has its predecessor in line, far enough away for   *)
(* all posts that are left and for the one that has been taken.            *)
FollowsBehind ==
  \A f \in Fronts : ~ Leads(f) =>
    LET p == Before(f)
    IN  /\ phase[f] = "begin" =>
             /\ InLine(p) /\ sem_countdown[p] = 0
             /\ at[p] - Start >= store_size + semaphore[p] + Owes(p)
        /\ Running(f) =>
             /\ InLine(p) /\ sem_countdown[p] = 0
             /\ at[p] - at[f] >= store_size + semaphore[p] + Owes(p)
                                   + (IF phase[f] = "advance" THEN 1 ELSE 0)

(* So has it all others before it.                                         *)
AllApart ==
  \A l, f, g \in Fronts : Leads(l) /\ Rank(l, f) < Rank(l, g) =>
    /\ phase[g] = "begin" => InLine(f) /\ at[f] - Start >= store_size
    /\ Running(g) => InLine(f) /\ at[f] - at[g] >= store_size

InOrder == OneLeader /\ WithinList /\ PostsEarned /\ FollowsBehind /\ AllApart

(* Types and order of the fronts, until the search is over (Sweep.inc:632, *)
(* 748, 782, 812).                                                         *)
FrontsInvariant == TypeOK /\ (exit \/ InOrder)
=============================================================================
