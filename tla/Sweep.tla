------------------------------- MODULE Sweep -------------------------------
(***************************************************************************)
(* The sweep-line method of LoLA 2 (src/lola2/src/SweepLine/Sweep.inc).    *)
(*                                                                         *)
(* Every transition changes the progress value of a marking by a fixed     *)
(* amount.  A front deals with the markings in the order of their values   *)
(* and forgets those it has left behind; a marking reached by a step back  *)
(* is made persistent and left to the next front.  The fronts move as in   *)
(* SweepFronts; a front may have helpers, threads that take markings from  *)
(* its stores as it does itself.                                           *)
(*                                                                         *)
(* One action is one access to shared data with the local work around it:  *)
(* a call of a store, a critical section, a look at a flag.  Counters of   *)
(* markings and calls are left out.                                        *)
(***************************************************************************)
EXTENDS SweepFronts, PetriNet, Sequences, FiniteSetsExt

CONSTANTS
  ProgressMeasure,  (* the change of the progress value by each transition *)
  Progress,         (* the progress value of each marking                  *)
  getFirelist(_),   (* Firelist::getFirelist                               *)
  Arguments         (* numbers of fronts and threads, transient_offset and *)
                    (* the markings that satisfy the property              *)

(* The sizes computed in the constructor: the greatest step forward and    *)
(* the greatest step back.                                                 *)
Measures == {ProgressMeasure[t] : t \in Transition}
ASSUME MeasureAssumption ==
  /\ ProgressMeasure \in [Transition -> Int]
  /\ {front_offset, - back_offset} \subseteq Measures \union {0}
  /\ \A x \in Measures \union {0} : - back_offset <= x /\ x <= front_offset
  /\ \A a \in Arguments :
       /\ a.fronts \in FrontNumbers
       /\ a.threads \in Nat /\ a.threads >= a.fronts
       /\ a.transient_offset \in {0} \union {- x : x \in {y \in Measures : y < 0}}
       /\ a.goal \subseteq Markings

(* Wherever a transition fires it changes the progress value by the same   *)
(* amount.                                                                 *)
ASSUME ProgressAssumption ==
  /\ Progress \in [Markings -> Int]
  /\ \A m \in Markings, t \in Transition :
       Enabled(m, t) => Progress[Fire(m, t)] = Progress[m] + ProgressMeasure[t]

ASSUME SweepFirelistAssumption ==
  \A m \in Markings : getFirelist(m) \in Seq({t \in Transition : Enabled(m, t)})

INSTANCE SweepRing

VARIABLES
  nr_of_threads, transient_offset,  (* arguments                           *)
  goal,           (* the markings that satisfy the property                *)
  new, old,       (* the stores of new and old persistent markings         *)
  ring,           (* the SweepRingStore of each front                      *)
  pc,             (* where each thread is, within the phase of a front     *)
  ns,             (* the marking each thread works on ...                  *)
  entry,          (* ... how many entries of its firelist are left ...     *)
  probe,          (* ... and which store is asked next for the successor   *)
  solution,       (* the threads that return their marking                 *)
  idle,           (* the flags idle of fronts and helpers                  *)
  helpers,        (* how many helpers work at each front                   *)
  cursor,         (* loop counter of a front that wakes others             *)
  frontptr,       (* the front each helper turns to                        *)
  call,           (* each helper's flag to return to its own front         *)
  waiting,        (* the helpers asleep on their condition variable        *)
  seen,           (* every marking that has been inserted into a store     *)
  answer, witness,(* what the caller gets                                  *)
  crashed         (* a thread has followed a null pointer                  *)

arguments == <<nr_of_threads, transient_offset, goal>>
stores    == <<new, old, ring, seen>>
local     == <<ns, entry, probe>>
sync      == <<idle, helpers, cursor, frontptr, call, waiting>>
caller    == <<answer, witness>>
vars == <<frontVars, arguments, stores, pc, local, solution, sync, caller, crashed>>

Threads == 0 .. nr_of_threads - 1
Helpers == nr_of_fronts .. nr_of_threads - 1
Home(h) == h % nr_of_fronts
FrontOf(t) == IF t \in Fronts THEN t ELSE frontptr[t]
Goto(t, l) == pc' = [pc EXCEPT ![t] = l]

(* A signal wakes a helper, which looks at its condition again.            *)
Signal(H) == waiting' = waiting \ H

(* The start: all threads have got to initThreadMutex, thread 0 last.      *)
Init ==
  /\ FrontsInit
  /\ \E a \in Arguments :
       /\ nr_of_fronts = a.fronts
       /\ nr_of_threads = a.threads
       /\ transient_offset = a.transient_offset
       /\ goal = a.goal
  /\ new = [q \in first .. last |-> {}]
  /\ old = [q \in first .. last |-> {}]
  /\ ring = [f \in Fronts |-> NewRing]
  /\ pc = [t \in Threads |-> IF t = 0 THEN "setup" ELSE "start"]
  /\ ns = [t \in Threads |-> InitialMarking]
  /\ entry = [t \in Threads |-> 0]
  /\ probe = [t \in Threads |-> 1]
  /\ solution = {}
  /\ idle = [t \in Threads |-> TRUE]
  /\ helpers = [f \in Fronts |-> 0]
  /\ cursor = [f \in Fronts |-> 0]
  /\ frontptr = [h \in Helpers |-> Home(h)]
  /\ call = [h \in Helpers |-> FALSE]
  /\ waiting = Helpers
  /\ seen = {}
  /\ answer = "searching"
  /\ witness = InitialMarking
  /\ crashed = FALSE

(***************************************************************************)
(* The start of the fronts.                                                *)
(***************************************************************************)

(* Front 0 inserts the initial marking and is started.                     *)
Setup ==
  /\ pc[0] = "setup"
  /\ ring' = [ring EXCEPT ![0] =
                Insert(Link(@, first), "store", 0, InitialMarking)]
  /\ seen' = {InitialMarking}
  /\ idle' = [idle EXCEPT ![0] = FALSE]
  /\ Goto(0, "wake")
  /\ UNCHANGED <<frontVars, arguments, new, old, local, solution, helpers, cursor,
                 frontptr, call, waiting, caller, crashed>>

(* The end of initThreadMutex: front 0 wakes the others one by one.        *)
Wake ==
  /\ pc[0] = "wake"
  /\ IF cursor[0] + 1 < nr_of_fronts
       THEN /\ cursor' = [cursor EXCEPT ![0] = @ + 1]
            /\ idle' = [idle EXCEPT ![cursor[0] + 1] = FALSE]
            /\ UNCHANGED pc
       ELSE /\ cursor' = [cursor EXCEPT ![0] = 0]
            /\ Goto(0, "reset")
            /\ UNCHANGED idle
  /\ UNCHANGED <<frontVars, arguments, stores, local, solution, helpers,
                 frontptr, call, waiting, caller, crashed>>

Woken(f) ==
  /\ pc[f] = "start" /\ ~ idle[f]
  /\ Goto(f, "reset")
  /\ UNCHANGED <<frontVars, arguments, stores, local, solution, sync, caller,
                 crashed>>

(* Back in frontSweep the front sets its flag again.                       *)
Reset(f) ==
  /\ pc[f] = "reset"
  /\ idle' = [idle EXCEPT ![f] = TRUE]
  /\ Goto(f, "outside")
  /\ UNCHANGED <<frontVars, arguments, stores, local, solution, helpers, cursor,
                 frontptr, call, waiting, caller, crashed>>

(***************************************************************************)
(* The rounds of a front.                                                  *)
(***************************************************************************)

(* Steps that do nothing but what SweepFronts says.                        *)
Move(f) ==
  /\ pc[f] = "outside"
  /\ Loop(f) \/ AwaitBegin(f) \/ AwaitAdvance(f) \/ PostBehind(f) \/ Pass(f)
  /\ UNCHANGED <<arguments, stores, pc, local, solution, sync, caller, crashed>>

(* initFront.                                                              *)
InitFront(f) ==
  /\ pc[f] = "outside"
  /\ Begin(f)
  /\ ring' = IF exit THEN ring ELSE [ring EXCEPT ![f] = Link(@, first)]
  /\ UNCHANGED <<arguments, new, old, seen, pc, local, solution, sync, caller,
                 crashed>>

(* Another round of runFront.                                              *)
Round(f) ==
  /\ pc[f] = "outside"
  /\ Test(f)
  /\ pc' = IF exit THEN pc
             ELSE [pc EXCEPT ![f] = IF Helpers = {} THEN "pop" ELSE "rouse"]
  /\ UNCHANGED <<arguments, stores, local, solution, sync, caller, crashed>>

(* Tell the helpers that there is work: after the front's own flag ...      *)
Rouse(f) ==
  /\ pc[f] = "rouse"
  /\ idle' = [idle EXCEPT ![f] = FALSE]
  /\ IF f + nr_of_fronts < nr_of_threads
       THEN Goto(f, "draw") /\ cursor' = [cursor EXCEPT ![f] = f + nr_of_fronts]
       ELSE Goto(f, "signal") /\ cursor' = [cursor EXCEPT ![f] = nr_of_fronts]
  /\ UNCHANGED <<frontVars, arguments, stores, local, solution, helpers,
                 frontptr, call, waiting, caller, crashed>>

(* ... that of every helper who is seen idle is lowered.                   *)
Arouse(h) ==
  /\ idle' = [idle EXCEPT ![h] = FALSE]
  /\ Signal(IF idle[h] THEN {h} ELSE {})

(* First the front's own helpers, who are also called back ...             *)
Draw(f) ==
  LET h == cursor[f]
  IN  /\ pc[f] = "draw"
      /\ call' = [call EXCEPT ![h] = TRUE]
      /\ Arouse(h)
      /\ IF h + nr_of_fronts < nr_of_threads
           THEN UNCHANGED pc /\ cursor' = [cursor EXCEPT ![f] = h + nr_of_fronts]
           ELSE Goto(f, "signal") /\ cursor' = [cursor EXCEPT ![f] = nr_of_fronts]
      /\ UNCHANGED <<frontVars, arguments, stores, local, solution, helpers,
                     frontptr, caller, crashed>>

(* ... then all.                                                           *)
SignalAll(f) ==
  LET h == cursor[f]
  IN  /\ pc[f] = "signal"
      /\ Arouse(h)
      /\ IF h + 1 < nr_of_threads
           THEN UNCHANGED pc /\ cursor' = [cursor EXCEPT ![f] = h + 1]
           ELSE Goto(f, "pop") /\ cursor' = [cursor EXCEPT ![f] = 0]
      /\ UNCHANGED <<frontVars, arguments, stores, local, solution, helpers,
                     frontptr, call, caller, crashed>>

(* The front is done with checkStates: no helper may come any more ...     *)
Gather(f) ==
  /\ f \in Fronts /\ pc[f] = "gather"
  /\ idle' = [idle EXCEPT ![f] = TRUE]
  /\ Goto(f, "empty")
  /\ UNCHANGED <<frontVars, arguments, stores, local, solution, helpers, cursor,
                 frontptr, call, waiting, caller, crashed>>

(* The lists after stores have been created at their ends.                 *)
Lengthen(list) ==
  [q \in first' .. last' |-> IF q \in DOMAIN list THEN list[q] ELSE {}]
Lists == new' = Lengthen(new) /\ old' = Lengthen(old)

(* No helper is left, or none is waited for.                               *)
Whoever(f) == TRUE
HelpersGone(f) == helpers[f] = 0

(* ... and when the last one has left it goes on, with extendLeft.         *)
RoundDone(f) ==
  /\ pc[f] = "empty" /\ HelpersGone(f)
  /\ EndWork(f, LowestNew(ring[f], new))
  /\ Lists
  /\ Goto(f, "outside")
  /\ UNCHANGED <<arguments, ring, seen, local, solution, sync, caller, crashed>>

AdvanceProgress(f) ==
  /\ pc[f] = "outside"
  /\ Advance(f, AnyAhead(ring[f]), Age(ring[f], new, back_progress[f]))
  /\ ring' = IF phase'[f] = "clear" THEN ring
               ELSE [ring EXCEPT ![f] = Advanced(@, transient_offset)]
  /\ Lists
  /\ UNCHANGED <<arguments, seen, pc, local, solution, sync, caller, crashed>>

DeinitFront(f) ==
  /\ pc[f] = "outside"
  /\ Clear(f, ring[f].new_persistent_empty)
  /\ ring' = [ring EXCEPT ![f] = Emptied(@)]
  /\ UNCHANGED <<arguments, new, old, seen, pc, local, solution, sync, caller,
                 crashed>>

(* The next front and the front's own helpers are told to terminate.       *)
Terminate(f) ==
  /\ pc[f] = "outside"
  /\ End(f)
  /\ Signal({h \in Helpers : Home(h) = f})
  /\ UNCHANGED <<arguments, stores, pc, local, solution, idle, helpers, cursor,
                 frontptr, call, caller, crashed>>

(***************************************************************************)
(* checkStates, by a front and by its helpers alike.                       *)
(***************************************************************************)
Return(t) ==
  IF t \in Helpers THEN "leave" ELSE IF Helpers = {} THEN "empty" ELSE "gather"

(* popState, first half: take any marking out of the current store of      *)
(* transient markings ...                                                  *)
Pop(t) ==
  LET f == FrontOf(t)
      here == ring[f].store[ring[f].active]
  IN  /\ pc[t] = "pop"
      /\ \/ exit /\ Goto(t, Return(t)) /\ UNCHANGED <<ring, ns>>
         \/ ~ exit /\ here = {} /\ Goto(t, "popnew") /\ UNCHANGED <<ring, ns>>
         \/ /\ ~ exit
            /\ \E m \in here :
                 /\ ring' = [ring EXCEPT ![f].store[ring[f].active] = @ \ {m}]
                 /\ ns' = [ns EXCEPT ![t] = m]
            /\ Goto(t, "swap")
      /\ UNCHANGED <<frontVars, arguments, new, old, seen, entry, probe, solution,
                     sync, caller, crashed>>

(* ... or out of the one of new persistent markings, if it is linked.      *)
PopNew(t) ==
  LET f == FrontOf(t)
      q == PlaceOf(ring[f], 0)
  IN  /\ pc[t] = "popnew"
      /\ IF ~ Linked(ring[f]) \/ new[q] = {}
           THEN /\ Goto(t, Return(t))
                /\ UNCHANGED <<new, ns>>
           ELSE /\ \E m \in new[q] :
                     /\ new' = [new EXCEPT ![q] = @ \ {m}]
                     /\ ns' = [ns EXCEPT ![t] = m]
                /\ Goto(t, "keep")
      /\ crashed' = ~ Linked(ring[f])
      /\ UNCHANGED <<frontVars, arguments, old, ring, seen, entry, probe, solution,
                     sync, caller>>

(* popState, second half: the marking is put where it will be found.       *)
(* Then look whether it satisfies the property, and get its firelist.      *)
Store(t) ==
  LET f == FrontOf(t)
      q == PlaceOf(ring[f], 0)
      n == Len(getFirelist(ns[t]))
  IN  /\ pc[t] \in {"swap", "keep"}
      /\ IF pc[t] = "swap"
           THEN ring' = [ring EXCEPT ![f].samevalue = @ \union {ns[t]}]
                /\ UNCHANGED old
           ELSE old' = [old EXCEPT ![q] = @ \union {ns[t]}] /\ UNCHANGED ring
      /\ Goto(t, IF ns[t] \in goal THEN "found" ELSE IF n = 0 THEN "pop" ELSE "fire")
      /\ entry' = [entry EXCEPT ![t] = IF ns[t] \in goal THEN 0 ELSE n]
      /\ UNCHANGED <<frontVars, arguments, new, seen, ns, probe, solution, sync,
                     caller, crashed>>

SolutionFound(t) ==
  /\ pc[t] = "found"
  /\ Found
  /\ solution' = solution \union {t}
  /\ Goto(t, Return(t))
  /\ UNCHANGED <<arguments, stores, local, sync, caller, crashed>>

(* searchAndInsert of the next successor: one store after the other is     *)
(* asked for it; it is inserted in the last one unless it was found.       *)
Ask(t) ==
  LET f == FrontOf(t)
      fired == getFirelist(ns[t])[entry[t]]
      m == Fire(ns[t], fired)
      offset == ProgressMeasure[fired]
      q == PlaceOf(ring[f], offset)
      where == Probes(offset)[probe[t]]
      found == m \in IF where = "old" THEN old[q]
                     ELSE IF where = "new" THEN new[q] ELSE Holds(ring[f], where, offset)
      ends == found \/ probe[t] = Len(Probes(offset))
  IN  /\ pc[t] = "fire"
      /\ IF found \/ ~ ends
           THEN UNCHANGED <<ring, new, seen>>
           ELSE /\ ring' = [ring EXCEPT ![f] = Insert(@, where, offset, m)]
                /\ new' = IF where = "new" THEN [new EXCEPT ![q] = @ \union {m}] ELSE new
                /\ seen' = seen \union {m}
      /\ probe' = [probe EXCEPT ![t] = IF ends THEN 1 ELSE @ + 1]
      /\ entry' = [entry EXCEPT ![t] = IF ends THEN @ - 1 ELSE @]
      /\ IF ends /\ entry[t] = 1 THEN Goto(t, "pop") ELSE UNCHANGED pc
      /\ UNCHANGED <<frontVars, arguments, old, ns, solution, sync, caller, crashed>>

(***************************************************************************)
(* The helpers (threadSweep).                                              *)
(***************************************************************************)

(* Nothing to do at this front: on to the next one, and to bed after a     *)
(* whole turn.                                                             *)
Elsewhere(h) ==
  LET f == (frontptr[h] + 1) % nr_of_fronts
  IN  /\ frontptr' = [frontptr EXCEPT ![h] = f]
      /\ Goto(h, IF f = Home(h) THEN "doze" ELSE "look")

(* The loops over exit and the first look at the flag, without the lock.   *)
Look(h) ==
  /\ pc[h] = "look"
  /\ IF exit \/ ~ idle[frontptr[h]]
       THEN Goto(h, IF exit THEN "done" ELSE "come") /\ UNCHANGED frontptr
       ELSE Elsewhere(h)
  /\ UNCHANGED <<frontVars, arguments, stores, local, solution, idle, helpers,
                 cursor, call, waiting, caller, crashed>>

(* The second look, under the lock.                                        *)
Come(h) ==
  /\ pc[h] = "come"
  /\ IF idle[frontptr[h]]
       THEN Elsewhere(h) /\ UNCHANGED helpers
       ELSE /\ helpers' = [helpers EXCEPT ![frontptr[h]] = @ + 1]
            /\ Goto(h, "help")
            /\ UNCHANGED frontptr
  /\ UNCHANGED <<frontVars, arguments, stores, local, solution, idle, cursor,
                 call, waiting, caller, crashed>>

Help(h) ==
  /\ pc[h] = "help"
  /\ Goto(h, IF exit THEN "leave" ELSE "pop")
  /\ UNCHANGED <<frontVars, arguments, stores, local, solution, sync, caller,
                 crashed>>

(* A helper that has been called returns to its own front.                 *)
Leave(h) ==
  /\ h \in Helpers /\ pc[h] = "leave"
  /\ helpers' = [helpers EXCEPT ![frontptr[h]] = @ - 1]
  /\ call' = [call EXCEPT ![h] = FALSE]
  /\ frontptr' = [frontptr EXCEPT ![h] = IF call[h] THEN Home(h) ELSE @]
  /\ Goto(h, "look")
  /\ UNCHANGED <<frontVars, arguments, stores, local, solution, idle, cursor,
                 waiting, caller, crashed>>

(* Look whether the own front has work.  The front's flag is the front's:  *)
(* it may be lowered before the helper has raised its own one.             *)
Doze(h) ==
  /\ pc[h] = "doze"
  /\ IF idle[Home(h)]
       THEN Goto(h, "nap") /\ UNCHANGED <<idle, call>>
       ELSE /\ idle' = [idle EXCEPT ![h] = FALSE]
            /\ call' = [call EXCEPT ![h] = FALSE]
            /\ Goto(h, "look")
  /\ UNCHANGED <<frontVars, arguments, stores, local, solution, helpers, cursor,
                 frontptr, waiting, caller, crashed>>

(* There was none: fall asleep ...                                         *)
Nap(h) ==
  /\ pc[h] = "nap"
  /\ idle' = [idle EXCEPT ![h] = TRUE]
  /\ IF ~ exit
       THEN /\ waiting' = waiting \union {h}
            /\ Goto(h, "asleep")
            /\ UNCHANGED call
       ELSE /\ call' = [call EXCEPT ![h] = FALSE]
            /\ Goto(h, "look")
            /\ UNCHANGED waiting
  /\ UNCHANGED <<frontVars, arguments, stores, local, solution, helpers, cursor,
                 frontptr, caller, crashed>>

(* ... and awake after a signal, here and in initThreadMutex.              *)
Awake(h) ==
  /\ h \in Helpers /\ pc[h] \in {"start", "asleep"} /\ h \notin waiting
  /\ IF idle[h] /\ ~ exit
       THEN waiting' = waiting \union {h} /\ UNCHANGED <<pc, call>>
       ELSE /\ call' = [call EXCEPT ![h] = @ /\ pc[h] = "start"]
            /\ Goto(h, "look")
            /\ UNCHANGED waiting
  /\ UNCHANGED <<frontVars, arguments, stores, local, solution, idle, helpers,
                 cursor, frontptr, caller, crashed>>

(***************************************************************************)
(* The caller joins all threads; the last one with a solution wins.        *)
(***************************************************************************)
Ended == (\A f \in Fronts : phase[f] = "done") /\ (\A h \in Helpers : pc[h] = "done")
Join ==
  /\ Ended /\ answer = "searching"
  /\ answer' = IF solution = {} THEN "no" ELSE "yes"
  /\ witness' = IF solution = {} THEN witness ELSE ns[Max(solution)]
  /\ UNCHANGED <<frontVars, arguments, stores, pc, local, solution, sync, crashed>>

CheckStates(t) ==
  Pop(t) \/ PopNew(t) \/ Store(t) \/ SolutionFound(t) \/ Ask(t)
FrontThread(f) ==
  \/ f = 0 /\ (Setup \/ Wake)
  \/ Woken(f) \/ Reset(f) \/ Move(f) \/ InitFront(f) \/ Round(f)
  \/ Rouse(f) \/ Draw(f) \/ SignalAll(f) \/ CheckStates(f)
  \/ Gather(f) \/ RoundDone(f) \/ AdvanceProgress(f) \/ DeinitFront(f) \/ Terminate(f)
HelperThread(h) ==
  \/ Look(h) \/ Come(h) \/ Help(h) \/ CheckStates(h) \/ Leave(h) \/ Doze(h)
  \/ Nap(h) \/ Awake(h)

(* The program has returned or crashed.                                    *)
Over == (answer # "searching" \/ crashed) /\ UNCHANGED vars

Step(t) == ~ crashed /\ IF t \in Fronts THEN FrontThread(t) ELSE HelperThread(t)
Next == (~ crashed /\ Join) \/ Over \/ \E t \in Threads : Step(t)

MaxThreads == Max({a.threads : a \in Arguments})
Fairness ==
  /\ WF_vars(~ crashed /\ Join)
  /\ \A t \in 0 .. MaxThreads - 1 : WF_vars(t \in Threads /\ Step(t))
Spec == Init /\ [][Next]_vars /\ Fairness

(***************************************************************************)
(* Properties.                                                             *)
(***************************************************************************)

(* What the search promises its caller: markings are seen one by one, and  *)
(* "no" is the answer only when all that can be reached have been seen and *)
(* none of them satisfies the property, although every front forgets what  *)
(* it has left behind, persistent markings are handed from front to front  *)
(* without a lock, and a marking on its way from one store to another is   *)
(* in neither (SweepRingStore.inc:173, Sweep.inc:731, 808).                *)
Search == INSTANCE StateSearch
KeepsContract == Search!Init /\ [][Search!Next]_(Search!searchVars)

(* The search always ends: every front and every helper that waits for     *)
(* another one is woken, also when the flag exit is set by a thread that   *)
(* does not signal (Sweep.inc:476, 544, 597, 711, 808).                    *)
Terminates == <>(answer # "searching" \/ crashed)

(* Whatever a store of the ring or a persistent store holds has the        *)
(* progress value the store is for: the slots are found by remainders,     *)
(* relinked on every advance, and the lists grow at both ends              *)
(* (SweepRingStore.inc:92, 261, 293, Sweep.inc:889).                       *)
PlaceFor(m) == back_offset + Progress[m] - Progress[InitialMarking]
Belongs(M, q) == \A m \in M : PlaceFor(m) = q
MarkingsAtTheirProgress ==
  /\ \A q \in first .. last : Belongs(new[q] \union old[q], q)
  /\ \A f \in Fronts : Running(f) =>
       /\ Belongs(ring[f].samevalue, at[f])
       /\ \A offset \in - back_offset .. front_offset :
            /\ PlaceOf(ring[f], offset) = at[f] + offset
            /\ Belongs(ring[f].store[Slot(ring[f], offset)], at[f] + offset)

(* A helper takes markings from a front's stores, or puts them there, only *)
(* while the front deals with markings of its current progress value: the  *)
(* flag idle is looked at twice, and nobody advances a ring under a        *)
(* helper's hands (Sweep.inc:553, 715).                                    *)
Helping(h) == pc[h] \in {"help", "pop", "popnew", "swap", "keep", "fire", "found"}
HelpersInside(f) ==
  \A h \in Helpers : Helping(h) /\ frontptr[h] = f => phase[f] = "work"

(* This holds for the first front.  Another one lowers its flag to start,  *)
(* and until it has raised it again a helper may come in (Sweep.inc:457).  *)
HelpersInsideFirst == HelpersInside(0)
=============================================================================
