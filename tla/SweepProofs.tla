---------------------------- MODULE SweepProofs ----------------------------
(***************************************************************************)
(* The sweep-line method for any net, any progress measure and any number  *)
(* of fronts and threads.  First the order of the fronts: their windows    *)
(* stay apart, and the list is extended by one of them at a time.  Then    *)
(* the whole method: whatever the fronts do with the markings, they move   *)
(* as SweepFronts says; helpers come in only while a front works; every    *)
(* store holds markings of its own progress value; and the search keeps    *)
(* the contract of StateSearch.                                            *)
(***************************************************************************)
EXTENDS Sweep, FiniteSetTheorems, TLAPS

(***************************************************************************)
(* The inductive invariant behind HelpersInside.                           *)
(***************************************************************************)
Early == {"start", "setup", "wake", "reset"}
AtWork == {"rouse", "draw", "signal", "pop", "popnew", "swap", "keep", "fire",
           "found", "gather", "empty"}
Labels == Early \union AtWork
            \union {"outside", "look", "come", "help", "leave", "doze", "nap", "asleep", "done"}
HelperTypes ==
  /\ nr_of_threads \in Nat /\ nr_of_threads >= nr_of_fronts
  /\ pc \in [Threads -> Labels]
  /\ idle \in [Threads -> BOOLEAN]
  /\ helpers \in [Fronts -> Int]
  /\ cursor \in [Fronts -> Nat]
  /\ frontptr \in [Helpers -> Fronts]

(* Before the first front has come back from initThreadMutex nobody else   *)
(* gets anywhere, and the helpers have not been woken.                     *)
StartsFirst ==
  /\ pc[0] # "start"
  /\ pc[0] \in Early =>
       /\ ~ exit /\ frontrunner = {0}
       /\ \A f \in Fronts :
            /\ semaphore[f] = 0
            /\ phase[f] \in {"loop", "init"}
            /\ pc[f] \in Early \union {"outside"}
       /\ \A h \in Helpers : pc[h] = "start" /\ h \in waiting

(* The first front is at work in the whole body of the loop of runFront    *)
(* that other threads can notice, and helpers see its flag lowered there   *)
(* only.                                                                   *)
LoweredAtWork ==
  /\ pc[0] \in AtWork => phase[0] = "work"
  /\ Helpers # {} /\ ~ idle[0] =>
       pc[0] \in (AtWork \ {"rouse", "empty"}) \union {"wake", "reset"}
  /\ \A f \in Fronts :
       /\ pc[f] = "rouse" => Helpers # {}
       /\ pc[f] \in {"draw", "signal"} => cursor[f] \in Helpers

(* Who is inside is counted, and while somebody is the front stays.        *)
Inside(h) == Helping(h) \/ pc[h] = "leave"
InsideOf(f) == {h \in Helpers : Inside(h) /\ frontptr[h] = f}
AllCounted ==
  /\ \A f \in Fronts : helpers[f] = Cardinality(InsideOf(f))
  /\ InsideOf(0) # {} => pc[0] \in AtWork

HelpersInvariant == HelperTypes /\ StartsFirst /\ LoweredAtWork /\ AllCounted

(***************************************************************************)
(* The inductive invariant behind MarkingsAtTheirProgress.                 *)
(***************************************************************************)

(* Helpers are inside of any front only while it works, or has not linked  *)
(* its ring yet, or the search is over: the ring does not move under them. *)
RingStays(f) ==
  /\ pc[f] \in Early => phase[f] = "loop" /\ (f # 0 => ~ Linked(ring[f]))
  /\ pc[f] \in AtWork => phase[f] = "work"
  /\ Helpers # {} /\ ~ idle[f] => pc[f] \in (AtWork \ {"rouse", "empty"}) \union Early
  /\ pc[0] \in {"setup", "wake"} /\ f > cursor[0] => pc[f] = "start" /\ idle[f]
  /\ InsideOf(f) # {} =>
       /\ phase[f] \notin {"wait", "advance", "post"}
       /\ ~ exit => /\ phase[f] \notin {"clear", "pass"}
                    /\ phase[f] \in {"loop", "init", "begin"} => ~ Linked(ring[f])

(* The slots of a ring are linked with consecutive places, hold markings   *)
(* that belong there, and nothing that should have been forgotten.         *)
Rings ==
  [store : [Slots -> SUBSET Markings], samevalue : SUBSET Markings,
   place : [Slots -> Int], linked : BOOLEAN, active : Slots,
   new_persistent_empty : BOOLEAN]
Offsets == - back_offset .. front_offset
Blank(r) == r.samevalue = {} /\ \A i \in Slots : r.store[i] = {}
InPlace(r) ==
  /\ Belongs(r.samevalue, PlaceOf(r, 0))
  /\ \A o \in Offsets :
       /\ PlaceOf(r, o) = PlaceOf(r, 0) + o
       /\ Belongs(r.store[Slot(r, o)], PlaceOf(r, 0) + o)
       /\ o < - transient_offset => r.store[Slot(r, o)] = {}
WithinLists(r) ==
  first + back_offset <= PlaceOf(r, 0) /\ PlaceOf(r, 0) + front_offset <= last
RingRight(f) ==
  /\ ring[f] \in Rings
  /\ IF Linked(ring[f]) THEN InPlace(ring[f]) /\ WithinLists(ring[f]) ELSE Blank(ring[f])
  /\ Running(f) => Linked(ring[f]) /\ PlaceOf(ring[f], 0) = at[f]

(* A front begins with an empty ring, but for the first one in its first   *)
(* round, which leads and has the initial marking in it.                   *)
Prepared(f) ==
  ~ exit /\ phase[f] \in {"pass", "loop", "init", "begin"} =>
    \/ Blank(ring[f])
    \/ f \in frontrunner /\ ring[f].active = back_offset
         /\ ring[f].place = [i \in Slots |-> first + i]

(* The store with the current value is empty when the front goes on: who   *)
(* has put something there looks at it again.                              *)
Looking == {"rouse", "draw", "signal", "help", "pop", "swap", "keep", "fire", "found"}
Searched(f) ==
  ring[f].store[ring[f].active] # {} =>
    /\ phase[f] \notin {"wait", "advance"}
    /\ phase[f] = "work" /\ ~ exit =>
         \E t \in {f} \union InsideOf(f) : pc[t] \in Looking

(* A marking in a thread's hands belongs to the current store.             *)
InHand(t) ==
  /\ pc[t] \in {"swap", "keep", "fire"} =>
       Linked(ring[FrontOf(t)]) /\ PlaceFor(ns[t]) = PlaceOf(ring[FrontOf(t)], 0)
  /\ pc[t] = "fire" => entry[t] \in 1 .. Len(getFirelist(ns[t]))

ListsRight ==
  /\ first + store_size <= last
  /\ pc[0] \in Early => first = 0
  /\ transient_offset \in 0 .. back_offset
  /\ \A list \in {new, old} :
       /\ list \in [first .. last -> SUBSET Markings]
       /\ \A q \in first .. last : Belongs(list[q], q)

ProgressInvariant ==
  /\ ListsRight
  /\ ring \in [Fronts -> Rings]
  /\ ns \in [Threads -> Markings] /\ entry \in [Threads -> Int]
  /\ \A f \in Fronts : RingStays(f) /\ RingRight(f) /\ Prepared(f) /\ Searched(f)
  /\ \A t \in Threads : InHand(t)

-----------------------------------------------------------------------------
LEMMA Sizes ==
  /\ store_size \in Nat /\ store_size >= 1
  /\ front_offset \in Nat /\ front_offset <= store_size - 1
  /\ back_offset \in Nat /\ back_offset = store_size - front_offset - 1
BY SizesAssumption DEF back_offset

(* The ring of fronts ...                                                  *)
LEMMA Neighbours ==
  ASSUME nr_of_fronts \in Nat \ {0}, NEW f \in Fronts
  PROVE  /\ f \in Nat /\ f < nr_of_fronts
         /\ Before(f) \in Fronts /\ Behind(f) \in Fronts
         /\ Before(Behind(f)) = f /\ Behind(Before(f)) = f
         /\ nr_of_fronts > 1 => Before(f) # f /\ Behind(f) # f
BY DEF Fronts, Before, Behind

(* ... and the ranks in it.                                                *)
LEMMA Ranks ==
  ASSUME nr_of_fronts \in Nat \ {0}, NEW l \in Fronts, NEW f \in Fronts
  PROVE  /\ Rank(l, f) \in 0 .. nr_of_fronts - 1
         /\ Rank(l, f) = 0 <=> f = l
         /\ f # l => Rank(l, Before(f)) = Rank(l, f) - 1
         /\ Rank(Behind(l), f) =
              IF f = l THEN nr_of_fronts - 1 ELSE Rank(l, f) - 1
BY DEF Fronts, Before, Behind, Rank

LEMMA RanksDiffer ==
  ASSUME nr_of_fronts \in Nat \ {0},
         NEW l \in Fronts, NEW f \in Fronts, NEW g \in Fronts,
         Rank(l, f) = Rank(l, g)
  PROVE  f = g
BY DEF Fronts, Rank

-----------------------------------------------------------------------------
(* A step along the program moves one front.                               *)
LEMMA Went ==
  ASSUME TypeOK, NEW f \in Fronts, NEW from, NEW to \in Phases, Go(f, from, to)
  PROVE  /\ phase' \in [Fronts -> Phases]
         /\ phase[f] = from /\ phase'[f] = to
         /\ \A g \in Fronts : g # f => phase'[g] = phase[g]
BY DEF TypeOK, Go

(* The number of fronts does not change.                                   *)
LEMMA SameFronts ==
  ASSUME [FrontsNext]_frontVars
  PROVE  nr_of_fronts' = nr_of_fronts /\ Fronts' = Fronts
<1>1. ASSUME NEW f \in Fronts, FrontStep(f) PROVE nr_of_fronts' = nr_of_fronts
  BY <1>1
  DEF FrontStep, Loop, AwaitBegin, AwaitAdvance, AwaitFront, Begin, Test, EndWork,
      Advance, PostBehind, Clear, Pass, End
<1>2. nr_of_fronts' = nr_of_fronts
  <2>1. CASE UNCHANGED frontVars
    BY <2>1 DEF frontVars
  <2>2. CASE FrontsNext
    BY <1>1, <2>2 DEF FrontsNext, Found
  <2> QED
    BY <2>1, <2>2
<1> QED
  BY <1>2 DEF Fronts

LEMMA InitTypes == FrontsInit => TypeOK
<1> SUFFICES ASSUME FrontsInit PROVE TypeOK
  OBVIOUS
<1>1. nr_of_fronts \in Nat \ {0} /\ 0 \in Fronts
  BY SizesAssumption DEF FrontsInit, Fronts
<1>2. exit \in BOOLEAN
  BY DEF FrontsInit
<1>3. phase \in [Fronts -> Phases]
  BY DEF FrontsInit, Phases
<1>4. at \in [Fronts -> Int]
  BY DEF FrontsInit
<1> QED
  BY <1>1, <1>2, <1>3, <1>4, Sizes DEF FrontsInit, TypeOK

LEMMA NextTypes == TypeOK /\ [FrontsNext]_frontVars => TypeOK'
<1> SUFFICES ASSUME TypeOK, [FrontsNext]_frontVars PROVE TypeOK'
  OBVIOUS
<1>1. nr_of_fronts' = nr_of_fronts /\ Fronts' = Fronts
  BY SameFronts
<1>2. CASE UNCHANGED frontVars
  BY <1>1, <1>2 DEF frontVars, TypeOK
<1>3. CASE Found
  BY <1>1, <1>3 DEF Found, TypeOK
<1>4. ASSUME NEW f \in Fronts, FrontStep(f) PROVE TypeOK'
  <2>1. CASE Loop(f) \/ Test(f)
    <3>1. PICK to \in Phases : \E from : Go(f, from, to)
      BY <2>1 DEF Loop, Test, Phases
    <3> QED
      BY <1>1, <2>1, <3>1, Went DEF Loop, Test, TypeOK
  <2>2. CASE AwaitBegin(f) \/ AwaitAdvance(f)
    <3>1. PICK to \in Phases : \E from : Go(f, from, to)
      BY <2>2 DEF AwaitBegin, AwaitAdvance, Phases
    <3>2. Before(f) \in Fronts
      BY Neighbours DEF TypeOK
    <3>3. semaphore' \in [Fronts -> Nat]
      BY <2>2, <3>2 DEF AwaitBegin, AwaitAdvance, AwaitFront, TypeOK
    <3> QED
      BY <1>1, <2>2, <3>1, <3>3, Went
      DEF AwaitBegin, AwaitAdvance, AwaitFront, TypeOK
  <2>3. CASE Begin(f)
    <3>1. PICK to \in Phases : \E from : Go(f, from, to)
      BY <2>3 DEF Begin, Phases
    <3>2. first + back_offset \in Int /\ store_size - 1 \in Nat
      BY Sizes DEF TypeOK
    <3> QED
      BY <1>1, <2>3, <3>1, <3>2, Sizes, Went DEF Begin, Countdown, TypeOK
  <2>4. ASSUME NEW lowest \in BOOLEAN, EndWork(f, lowest) PROVE TypeOK'
    <3>1. PICK to \in Phases : \E from : Go(f, from, to)
      BY <2>4 DEF EndWork, Phases
    <3>2. back_progress[f] \in Nat /\ Back(back_progress[f], lowest) \in Nat
      BY DEF Back, TypeOK
    <3>3. first' \in Int /\ back_progress' \in [Fronts -> Nat]
      BY <2>4, <3>2 DEF EndWork, TypeOK
    <3> QED
      BY <1>1, <2>4, <3>1, <3>3, Went DEF EndWork, TypeOK
  <2>5. ASSUME NEW ahead \in BOOLEAN, NEW age \in 0 .. back_progress[f],
               Advance(f, ahead, age)
        PROVE  TypeOK'
    <3>1. PICK to \in Phases : \E from : Go(f, from, to)
      BY <2>5 DEF Advance, Phases
    <3>2. back_progress[f] \in Nat /\ age \in Int
      BY DEF TypeOK
    <3>3. first' \in Int /\ last' \in Int /\ at' \in [Fronts -> Int]
          /\ back_progress' \in [Fronts -> Nat]
      BY <2>5, <3>2 DEF Advance, TypeOK
    <3> QED
      BY <1>1, <2>5, <3>1, <3>3, Went DEF Advance, TypeOK
  <2>6. CASE PostBehind(f)
    <3>1. "test" \in Phases
      BY DEF Phases
    <3>2. sem_countdown' \in [Fronts -> Nat] /\ semaphore' \in [Fronts -> Nat]
      BY <2>6 DEF PostBehind, TypeOK
    <3> QED
      BY <1>1, <2>6, <3>1, <3>2, Went DEF PostBehind, TypeOK
  <2>7. ASSUME NEW none \in BOOLEAN, Clear(f, none) PROVE TypeOK'
    <3>1. PICK to \in Phases : \E from : Go(f, from, to)
      BY <2>7 DEF Clear, Phases
    <3>2. exit' \in BOOLEAN
      BY <2>7 DEF Clear, OverWhenCleared, TypeOK
    <3> QED
      BY <1>1, <2>7, <3>1, <3>2, Went DEF Clear, TypeOK
  <2>8. CASE Pass(f)
    <3>1. "loop" \in Phases /\ Behind(f) \in Fronts
      BY Neighbours DEF Phases, TypeOK
    <3> QED
      BY <1>1, <2>8, <3>1, Went DEF Pass, PostsDropped, TypeOK
  <2>9. CASE End(f)
    <3>1. "done" \in Phases
      BY DEF Phases
    <3> QED
      BY <1>1, <2>9, <3>1, Went DEF End, TypeOK
  <2> QED
    BY <1>4, <2>1, <2>2, <2>3, <2>4, <2>5, <2>6, <2>7, <2>8, <2>9 DEF FrontStep
<1> QED
  BY <1>2, <1>3, <1>4 DEF FrontsNext

-----------------------------------------------------------------------------
LEMMA InitInOrder == FrontsInit => InOrder
<1> SUFFICES ASSUME FrontsInit PROVE InOrder
  OBVIOUS
<1>1. TypeOK /\ nr_of_fronts \in Nat \ {0} /\ 0 \in Fronts
  BY InitTypes DEF FrontsInit, TypeOK, Fronts
<1>2. \A f \in Fronts : ~ InLine(f) /\ ~ Running(f) /\ phase[f] = "loop"
  BY DEF FrontsInit, InLine, Running
<1>3. \A f \in Fronts : Leads(f) <=> f = 0
  BY <1>2 DEF FrontsInit, Leads
<1>4. OneLeader
  BY <1>1, <1>2, <1>3 DEF OneLeader, Leads
<1>5. WithinList /\ PostsEarned
  BY <1>2, Sizes DEF FrontsInit, WithinList, PostsEarned
<1>6. FollowsBehind /\ AllApart
  BY <1>2 DEF FollowsBehind, AllApart
<1> QED
  BY <1>4, <1>5, <1>6 DEF InOrder

(* Loop and test move no front in the list.                                *)
LEMMA TestInOrder ==
  ASSUME TypeOK, InOrder, ~ exit, NEW f \in Fronts, Loop(f) \/ Test(f), Fronts' = Fronts
  PROVE  InOrder'
<1> USE DEF TypeOK
<1>1. /\ <<phase[f], phase'[f]>> \in {<<"loop", "init">>, <<"test", "work">>}
      /\ \A g \in Fronts : g # f => phase'[g] = phase[g]
  BY Went DEF Loop, Test, Phases
<1>2. \A g \in Fronts : /\ Running(g)' <=> Running(g)
                        /\ InLine(g)' <=> InLine(g)
                        /\ Leads(g)' <=> Leads(g)
                        /\ Owes(g)' = Owes(g)
  BY <1>1 DEF Loop, Test, Running, InLine, Leads, Owes
<1>3. UNCHANGED <<nr_of_fronts, at, back_progress, sem_countdown, frontrunner,
                  semaphore, first, last, Start>>
  BY DEF Loop, Test, Start
<1>4. OneLeader'
  BY <1>1, <1>2, <1>3 DEF InOrder, OneLeader
<1>5. WithinList'
  BY <1>1, <1>2, <1>3 DEF InOrder, WithinList
<1>6. PostsEarned'
  BY <1>2, <1>3 DEF InOrder, PostsEarned
<1>7. FollowsBehind'
  <2>1. \A g \in Fronts : Before(g)' = Before(g) /\ Before(g) \in Fronts
    BY <1>3, Neighbours DEF Before
  <2> QED
    BY <1>1, <1>2, <1>3, <2>1 DEF InOrder, FollowsBehind
<1>8. AllApart'
  BY <1>1, <1>2, <1>3 DEF InOrder, AllApart, Rank
<1> QED
  BY <1>4, <1>5, <1>6, <1>7, <1>8 DEF InOrder

(* Waiting and testing moves no front in the list.                         *)
LEMMA AwaitAdvanceInOrder ==
  ASSUME TypeOK, InOrder, NEW f \in Fronts, AwaitAdvance(f), Fronts' = Fronts
  PROVE  InOrder'
<1> USE DEF TypeOK
<1>0. Start \in Int /\ \A g \in Fronts : Owes(g) \in {0, 1} /\ Before(g) \in Fronts
  BY Sizes, Neighbours DEF Start, Owes
<1>1. /\ phase[f] = "wait" /\ phase'[f] = "advance"
      /\ \A g \in Fronts : g # f => phase'[g] = phase[g]
  BY Went DEF AwaitAdvance, Phases
<1>2. \A g \in Fronts : /\ Running(g)' <=> Running(g)
                        /\ InLine(g)' <=> InLine(g)
                        /\ Leads(g)' <=> Leads(g)
                        /\ Owes(g)' = Owes(g)
  BY <1>1 DEF AwaitAdvance, AwaitFront, Running, InLine, Leads, Owes
<1>3. UNCHANGED <<nr_of_fronts, at, back_progress, sem_countdown, frontrunner, first, last, Start>>
  BY DEF AwaitAdvance, AwaitFront, Start
<1>4. Before(f) \in Fronts /\ \A g \in Fronts : g # Before(f) => semaphore'[g] = semaphore[g]
  BY <1>0 DEF AwaitAdvance, AwaitFront
<1>5. IF f \in frontrunner THEN semaphore' = semaphore
        ELSE semaphore[Before(f)] > 0 /\ semaphore'[Before(f)] = semaphore[Before(f)] - 1
  BY <1>4 DEF AwaitAdvance, AwaitFront
<1>6. OneLeader'
  BY <1>1, <1>2, <1>3 DEF InOrder, OneLeader
<1>7. WithinList'
  BY <1>1, <1>2, <1>3 DEF InOrder, WithinList
<1>8. PostsEarned'
  <2> SUFFICES ASSUME NEW p \in Fronts
               PROVE  /\ semaphore'[p] > 0 => InLine(p)' /\ nr_of_fronts > 1
                      /\ InLine(p)' =>
                           /\ sem_countdown'[p] > 0 => semaphore'[p] = 0
                           /\ at'[p] - Start' >=
                                store_size - 1 - sem_countdown'[p] + semaphore'[p] + Owes(p)'
    BY <1>3 DEF PostsEarned
  <2>1. \/ semaphore'[p] = semaphore[p]
        \/ semaphore[p] > 0 /\ semaphore'[p] = semaphore[p] - 1
    BY <1>4, <1>5
  <2> QED
    BY <1>2, <1>3, <2>1, <1>0, Sizes DEF InOrder, PostsEarned
<1>9. FollowsBehind'
  <2> SUFFICES ASSUME NEW g \in Fronts, ~ Leads(g)', NEW p \in Fronts, p = Before(g)
               PROVE  /\ phase'[g] = "begin" =>
                           /\ InLine(p)' /\ sem_countdown'[p] = 0
                           /\ at'[p] - Start' >= store_size + semaphore'[p] + Owes(p)'
                      /\ Running(g)' =>
                           /\ InLine(p)' /\ sem_countdown'[p] = 0
                           /\ at'[p] - at'[g] >= store_size + semaphore'[p] + Owes(p)'
                                         + (IF phase'[g] = "advance" THEN 1 ELSE 0)
    BY <1>0, <1>3 DEF FollowsBehind, Before
  <2>1. ~ Leads(g)
    BY <1>2
  <2>2. \/ semaphore'[p] = semaphore[p]
        \/ semaphore[p] > 0 /\ semaphore'[p] = semaphore[p] - 1
    BY <1>4, <1>5
  <2>3. g = f => f \notin frontrunner /\ semaphore'[p] = semaphore[p] - 1
    BY <1>5, <2>1 DEF Leads
  <2> QED
    BY <1>0, <1>1, <1>2, <1>3, <2>1, <2>2, <2>3, Sizes DEF InOrder, FollowsBehind
<1>10. AllApart'
  BY <1>1, <1>2, <1>3, <1>4, <1>5 DEF InOrder, AllApart, Rank
<1> QED
  BY <1>6, <1>7, <1>8, <1>9, <1>10 DEF InOrder

(* A front that begins behind another one has taken a post, so its         *)
(* predecessor is far enough away, and with it all others.                 *)
LEMMA AwaitBeginInOrder ==
  ASSUME TypeOK, InOrder, NEW f \in Fronts, AwaitBegin(f), Fronts' = Fronts
  PROVE  InOrder'
<1> USE DEF TypeOK
<1>0. Start \in Int /\ \A g \in Fronts : Owes(g) \in {0, 1} /\ Before(g) \in Fronts
  BY Sizes, Neighbours DEF Start, Owes
<1>1. /\ phase[f] = "init" /\ phase'[f] = "begin"
      /\ \A g \in Fronts : g # f => phase'[g] = phase[g]
  BY Went DEF AwaitBegin, Phases
<1>2. \A g \in Fronts : /\ Running(g)' <=> Running(g)
                        /\ InLine(g)' <=> InLine(g)
                        /\ Leads(g)' <=> Leads(g)
                        /\ Owes(g)' = Owes(g)
  BY <1>1 DEF AwaitBegin, AwaitFront, Running, InLine, Leads, Owes
<1>3. UNCHANGED <<nr_of_fronts, at, back_progress, sem_countdown, frontrunner,
                  first, last, Start>>
  BY DEF AwaitBegin, AwaitFront, Start
<1>4. \A g \in Fronts : g # Before(f) => semaphore'[g] = semaphore[g]
  BY <1>0 DEF AwaitBegin, AwaitFront
<1>5. IF f \in frontrunner THEN semaphore' = semaphore
        ELSE /\ semaphore[Before(f)] > 0
             /\ semaphore'[Before(f)] = semaphore[Before(f)] - 1
  BY <1>0 DEF AwaitBegin, AwaitFront
<1>6. \A p \in Fronts : \/ semaphore'[p] = semaphore[p]
                        \/ semaphore[p] > 0 /\ semaphore'[p] = semaphore[p] - 1
  BY <1>4, <1>5
<1>7. OneLeader'
  BY <1>1, <1>2, <1>3 DEF InOrder, OneLeader
<1>8. WithinList'
  BY <1>1, <1>2, <1>3 DEF InOrder, WithinList
<1>9. PostsEarned'
  <2> SUFFICES ASSUME NEW p \in Fronts
               PROVE  /\ semaphore'[p] > 0 => InLine(p)' /\ nr_of_fronts > 1
                      /\ InLine(p)' =>
                           /\ sem_countdown'[p] > 0 => semaphore'[p] = 0
                           /\ at'[p] - Start' >= store_size - 1 - sem_countdown'[p]
                                                   + semaphore'[p] + Owes(p)'
    BY <1>3 DEF PostsEarned
  <2> QED
    BY <1>2, <1>3, <1>6, <1>0, Sizes DEF InOrder, PostsEarned
<1>10. ~ Leads(f) =>
         /\ InLine(Before(f)) /\ sem_countdown[Before(f)] = 0
         /\ at[Before(f)] - Start >=
              store_size + semaphore'[Before(f)] + Owes(Before(f))
  BY <1>0, <1>5, Sizes DEF Leads, InOrder, PostsEarned
<1>11. FollowsBehind'
  <2> SUFFICES ASSUME NEW g \in Fronts, ~ Leads(g)', NEW p \in Fronts, p = Before(g)
               PROVE  /\ phase'[g] = "begin" =>
                           /\ InLine(p)' /\ sem_countdown'[p] = 0
                           /\ at'[p] - Start' >= store_size + semaphore'[p] + Owes(p)'
                      /\ Running(g)' =>
                           /\ InLine(p)' /\ sem_countdown'[p] = 0
                           /\ at'[p] - at'[g] >= store_size + semaphore'[p] + Owes(p)'
                                         + (IF phase'[g] = "advance" THEN 1 ELSE 0)
    BY <1>0, <1>3 DEF FollowsBehind, Before
  <2>1. CASE g = f
    BY <1>1, <1>2, <1>3, <1>10, <2>1 DEF Running
  <2>2. CASE g # f
    BY <1>0, <1>1, <1>2, <1>3, <1>6, <2>2, Sizes DEF InOrder, FollowsBehind
  <2> QED
    BY <2>1, <2>2
<1>12. AllApart'
  <2> SUFFICES ASSUME NEW l \in Fronts, NEW h \in Fronts, NEW g \in Fronts,
                      Leads(l), Rank(l, h) < Rank(l, g)
               PROVE  /\ phase'[g] = "begin" => InLine(h) /\ at[h] - Start >= store_size
                      /\ Running(g) => InLine(h) /\ at[h] - at[g] >= store_size
    BY <1>2, <1>3 DEF AllApart, Rank
  <2>1. CASE g # f
    BY <1>1, <2>1 DEF InOrder, AllApart
  <2>2. CASE g = f
    <3> DEFINE p == Before(f)
    <3>1. f # l /\ Rank(l, p) = Rank(l, f) - 1 /\ p \in Fronts
          /\ Rank(l, h) \in Int /\ Rank(l, f) \in Int
      BY <2>2, Ranks, <1>0
    <3>2. ~ Leads(f)
      BY <3>1 DEF InOrder, OneLeader
    <3>3. CASE h = p
      BY <1>0, <1>1, <1>5, <1>10, <2>2, <3>1, <3>2, <3>3, Sizes DEF Running, Leads
    <3>4. CASE h # p
      <4>1. Rank(l, h) < Rank(l, p)
        BY <2>2, <3>1, <3>4, RanksDiffer
      <4>2. p # l
        BY <4>1, Ranks
      <4>3. Running(p)
        BY <1>10, <3>1, <3>2, <4>2 DEF InLine, Leads, InOrder, OneLeader
      <4>4. InLine(h) /\ at[h] - at[p] >= store_size
        BY <3>1, <4>1, <4>3 DEF InOrder, AllApart
      <4>5. at[p] >= Start
        BY <1>10, <3>1, <3>2 DEF InOrder, WithinList
      <4> QED
        BY <1>0, <1>1, <2>2, <3>1, <4>4, <4>5, Sizes DEF Running
    <3> QED
      BY <3>3, <3>4
  <2> QED
    BY <2>1, <2>2
<1> QED
  BY <1>7, <1>8, <1>9, <1>11, <1>12 DEF InOrder

(* A front that begins starts a window behind all others.                  *)
LEMMA BeginInOrder ==
  ASSUME TypeOK, InOrder, ~ exit, NEW f \in Fronts, Begin(f), Fronts' = Fronts
  PROVE  InOrder'
<1> USE DEF TypeOK
<1>0. Start \in Int /\ \A g \in Fronts : Owes(g) \in {0, 1} /\ Before(g) \in Fronts
  BY Sizes, Neighbours DEF Start, Owes
<1>1. /\ phase[f] = "begin" /\ phase'[f] = "test"
      /\ \A g \in Fronts : g # f => phase'[g] = phase[g]
  BY Went DEF Begin, Phases
<1>2. \A g \in Fronts : /\ Leads(g)' <=> Leads(g)
                        /\ Owes(g)' = Owes(g)
                        /\ g # f => /\ Running(g)' <=> Running(g)
                                    /\ InLine(g)' <=> InLine(g)
  BY <1>1 DEF Begin, Running, InLine, Leads, Owes
<1>3. UNCHANGED <<nr_of_fronts, frontrunner, semaphore, first, last, Start>>
  BY DEF Begin, Start
<1>4. /\ ~ Running(f) /\ ~ InLine(f) /\ Running(f)' /\ InLine(f)'
      /\ semaphore[f] = 0
  BY <1>1 DEF Running, InLine, InOrder, PostsEarned
<1>5. /\ at'[f] = Start /\ back_progress'[f] = back_offset
      /\ sem_countdown'[f] = store_size - 1
      /\ \A g \in Fronts : g # f => /\ at'[g] = at[g]
                                    /\ back_progress'[g] = back_progress[g]
                                    /\ sem_countdown'[g] = sem_countdown[g]
  BY DEF Begin, Countdown, Start
<1>6. OneLeader'
  BY <1>1, <1>2, <1>3 DEF InOrder, OneLeader
<1>7. WithinList'
  <2>1. Start + front_offset <= last /\ first + store_size <= last
    BY Sizes DEF InOrder, WithinList, Start
  <2> QED
    BY <1>0, <1>1, <1>2, <1>3, <1>5, <2>1, Sizes DEF InOrder, WithinList
<1>8. PostsEarned'
  <2> SUFFICES ASSUME NEW p \in Fronts
               PROVE  /\ semaphore'[p] > 0 => InLine(p)' /\ nr_of_fronts > 1
                      /\ InLine(p)' =>
                           /\ sem_countdown'[p] > 0 => semaphore'[p] = 0
                           /\ at'[p] - Start' >= store_size - 1 - sem_countdown'[p]
                                                   + semaphore'[p] + Owes(p)'
    BY <1>3 DEF PostsEarned
  <2>1. CASE p = f
    <3>1. Owes(f)' = 0
      BY <1>1 DEF Owes
    <3> QED
      BY <1>0, <1>3, <1>4, <1>5, <2>1, <3>1, Sizes
  <2>2. CASE p # f
    BY <1>2, <1>3, <1>5, <2>2 DEF InOrder, PostsEarned
  <2> QED
    BY <2>1, <2>2
<1>9. FollowsBehind'
  <2> SUFFICES ASSUME NEW g \in Fronts, ~ Leads(g)', NEW p \in Fronts, p = Before(g)
               PROVE  /\ phase'[g] = "begin" =>
                           /\ InLine(p)' /\ sem_countdown'[p] = 0
                           /\ at'[p] - Start' >= store_size + semaphore'[p] + Owes(p)'
                      /\ Running(g)' =>
                           /\ InLine(p)' /\ sem_countdown'[p] = 0
                           /\ at'[p] - at'[g] >= store_size + semaphore'[p] + Owes(p)'
                                         + (IF phase'[g] = "advance" THEN 1 ELSE 0)
    BY <1>0, <1>3 DEF FollowsBehind, Before
  <2>1. phase[g] = "begin" \/ Running(g) => InLine(p)
    BY <1>2 DEF InOrder, FollowsBehind
  <2>2. CASE g = f
    BY <1>0, <1>1, <1>2, <1>3, <1>4, <1>5, <2>1, <2>2, Sizes
    DEF InOrder, FollowsBehind
  <2>3. CASE g # f
    BY <1>1, <1>2, <1>3, <1>4, <1>5, <2>1, <2>3 DEF InOrder, FollowsBehind
  <2> QED
    BY <2>2, <2>3
<1>10. AllApart'
  <2> SUFFICES ASSUME NEW l \in Fronts, NEW h \in Fronts, NEW g \in Fronts,
                      Leads(l), Rank(l, h) < Rank(l, g)
               PROVE  /\ phase'[g] = "begin" => InLine(h)' /\ at'[h] - Start >= store_size
                      /\ Running(g)' => InLine(h)' /\ at'[h] - at'[g] >= store_size
    BY <1>2, <1>3 DEF AllApart, Rank
  <2>1. /\ phase[g] = "begin" => InLine(h) /\ at[h] - Start >= store_size
        /\ Running(g) => InLine(h) /\ at[h] - at[g] >= store_size
    BY DEF InOrder, AllApart
  <2> QED
    BY <1>1, <1>2, <1>4, <1>5, <2>1
<1> QED
  BY <1>6, <1>7, <1>8, <1>9, <1>10 DEF InOrder

(* Who may still extend the list is alone near its beginning.              *)
LEMMA Alone ==
  ASSUME TypeOK, InOrder, NEW f \in Fronts, NEW g \in Fronts, f # g,
         InLine(f), back_progress[f] > 0
  PROVE  phase[g] # "begin" /\ (InLine(g) => back_progress[g] = 0)
<1> USE DEF TypeOK
<1>1. PICK l \in Fronts : Leads(l)
  BY DEF InOrder, OneLeader
<1>2. Rank(l, f) \in Int /\ Rank(l, g) \in Int /\ Rank(l, f) # Rank(l, g)
  BY Ranks, RanksDiffer
<1>3. Start \in Int /\ at[f] < Start + back_offset /\ at[f] >= Start
  BY Sizes DEF InOrder, WithinList, Start
<1>4. Running(f)
  BY DEF InLine, InOrder, WithinList
<1>5. InLine(g) /\ back_progress[g] > 0 =>
        Running(g) /\ at[g] < Start + back_offset /\ at[g] >= Start
  BY <1>3, Sizes DEF InOrder, WithinList, InLine
<1>6. CASE Rank(l, f) < Rank(l, g)
  BY <1>1, <1>3, <1>4, <1>5, <1>6, Sizes DEF InOrder, AllApart
<1>7. CASE Rank(l, g) < Rank(l, f)
  <2>1. InLine(g) /\ at[g] - at[f] >= store_size
    BY <1>1, <1>4, <1>7 DEF InOrder, AllApart
  <2>2. phase[g] # "begin"
    BY <2>1 DEF InLine, Running
  <2> QED
    BY <1>3, <1>5, <2>1, <2>2, Sizes
<1> QED
  BY <1>2, <1>6, <1>7

(* Moving the beginning of the list to the left takes nobody closer.       *)
LEMMA ExtendedInOrder ==
  ASSUME TypeOK, InOrder, NEW f \in Fronts, Fronts' = Fronts,
         NEW to, \/ phase[f] = "work" /\ to = "wait"
                 \/ phase[f] = "advance" /\ to = "clear",
         phase[f] = "advance" => f \in frontrunner,
         Go(f, phase[f], to),
         UNCHANGED <<nr_of_fronts, at, sem_countdown, frontrunner, semaphore, last>>,
         NEW by \in 0 .. back_progress[f], first' = first - by,
         NEW bp \in Nat, back_progress' = [back_progress EXCEPT ![f] = bp],
         \/ bp = 0
         \/ phase[f] = "work" /\ by = 0 /\ bp = back_progress[f] - 1
  PROVE  InOrder'
<1> USE DEF TypeOK
<1>0. Start \in Int /\ \A g \in Fronts : Owes(g) \in {0, 1} /\ Before(g) \in Fronts
  BY Sizes, Neighbours DEF Start, Owes
<1>1. /\ phase'[f] = to
      /\ \A g \in Fronts : g # f => phase'[g] = phase[g]
  BY Went DEF Phases
<1>2. /\ Running(f) /\ Running(f)' /\ InLine(f)
      /\ \A g \in Fronts : /\ Running(g)' <=> Running(g)
                           /\ InLine(g)' <=> InLine(g)
                           /\ Leads(g)' <=> Leads(g)
                           /\ Owes(g)' = Owes(g)
  BY <1>1 DEF Running, InLine, Leads, Owes
<1>3. nr_of_fronts' = nr_of_fronts /\ Start' = Start - by /\ by \in Nat
  BY Sizes DEF Start
<1>4. /\ back_progress'[f] = bp
      /\ \A g \in Fronts : g # f => back_progress'[g] = back_progress[g]
  OBVIOUS
<1>5. OneLeader'
  BY <1>1, <1>2, <1>3 DEF InOrder, OneLeader
<1>6. WithinList'
  <2>1. /\ first' + store_size <= last'
        /\ \A g \in Fronts : InLine(g) => Start' <= at[g] /\ at[g] + front_offset <= last
    BY <1>0, <1>3, Sizes DEF InOrder, WithinList
  <2>2. bp > 0 => at[f] + bp + 1 <= Start + back_offset /\ to = "wait"
    BY <1>0, <1>2, Sizes DEF InOrder, WithinList
  <2>3. ASSUME NEW g \in Fronts, g # f, InLine(g), back_progress[g] > 0
        PROVE  back_progress[f] = 0 /\ by = 0
    BY <1>2, <2>3, Alone
  <2>4. ASSUME NEW g \in Fronts, InLine(g)', back_progress'[g] > 0
        PROVE  /\ phase'[g] \notin {"clear", "pass"}
               /\ at'[g] + back_progress'[g]
                    + (IF phase'[g] \in {"wait", "advance"} THEN 1 ELSE 0)
                  <= Start' + back_offset
    <3>1. CASE g = f
      BY <1>0, <1>1, <1>3, <1>4, <2>2, <2>4, <3>1, Sizes
    <3>2. CASE g # f
      <4>1. Start' = Start
        BY <1>0, <1>2, <1>3, <1>4, <2>3, <2>4, <3>2
      <4> QED
        BY <1>1, <1>2, <1>4, <2>4, <3>2, <4>1 DEF InOrder, WithinList
    <3> QED
      BY <3>1, <3>2
  <2> QED
    BY <1>2, <2>1, <2>4 DEF WithinList
<1>7. PostsEarned'
  <2> SUFFICES ASSUME NEW p \in Fronts
               PROVE  /\ semaphore'[p] > 0 => InLine(p)' /\ nr_of_fronts > 1
                      /\ InLine(p)' =>
                           /\ sem_countdown'[p] > 0 => semaphore'[p] = 0
                           /\ at'[p] - Start' >= store_size - 1 - sem_countdown'[p]
                                                   + semaphore'[p] + Owes(p)'
    BY <1>3 DEF PostsEarned
  <2> QED
    BY <1>0, <1>2, <1>3, Sizes DEF InOrder, PostsEarned
<1>8. FollowsBehind'
  <2> SUFFICES ASSUME NEW g \in Fronts, ~ Leads(g)', NEW p \in Fronts, p = Before(g)
               PROVE  /\ phase'[g] = "begin" =>
                           /\ InLine(p)' /\ sem_countdown'[p] = 0
                           /\ at'[p] - Start' >= store_size + semaphore'[p] + Owes(p)'
                      /\ Running(g)' =>
                           /\ InLine(p)' /\ sem_countdown'[p] = 0
                           /\ at'[p] - at'[g] >= store_size + semaphore'[p] + Owes(p)'
                                         + (IF phase'[g] = "advance" THEN 1 ELSE 0)
    BY <1>0, <1>3 DEF FollowsBehind, Before
  <2>1. phase'[g] = "begin" => phase[g] = "begin"
    BY <1>1
  <2>2. phase'[g] = "advance" => phase[g] = "advance"
    BY <1>1
  <2> QED
    BY <1>0, <1>2, <1>3, <2>1, <2>2, Sizes DEF InOrder, FollowsBehind
<1>9. AllApart'
  <2> SUFFICES ASSUME NEW l \in Fronts, NEW h \in Fronts, NEW g \in Fronts,
                      Leads(l), Rank(l, h) < Rank(l, g)
               PROVE  /\ phase'[g] = "begin" => InLine(h) /\ at[h] - Start' >= store_size
                      /\ Running(g) => InLine(h) /\ at[h] - at[g] >= store_size
    BY <1>2, <1>3 DEF AllApart, Rank
  <2>1. phase'[g] = "begin" => phase[g] = "begin"
    BY <1>1
  <2> QED
    BY <1>0, <1>3, <2>1, Sizes DEF InOrder, AllApart
<1> QED
  BY <1>5, <1>6, <1>7, <1>8, <1>9 DEF InOrder

LEMMA EndWorkInOrder ==
  ASSUME TypeOK, InOrder, ~ exit, NEW f \in Fronts, NEW lowest \in BOOLEAN,
         EndWork(f, lowest), Fronts' = Fronts
  PROVE  InOrder'
<1> USE DEF TypeOK
<1>1. back_progress[f] \in Nat
  OBVIOUS
<1>2. phase[f] = "work" /\ Go(f, phase[f], "wait")
  BY DEF EndWork, Go
<1>3. /\ first' = first - (IF lowest THEN back_progress[f] ELSE 0)
      /\ back_progress' = [back_progress EXCEPT ![f] = Back(back_progress[f], lowest)]
      /\ UNCHANGED <<nr_of_fronts, at, sem_countdown, frontrunner, semaphore, last>>
  BY DEF EndWork
<1>4. CASE lowest
  <2> DEFINE by == back_progress[f]
  <2>1. first' = first - by /\ by \in 0 .. back_progress[f]
    BY <1>1, <1>3, <1>4
  <2>2. back_progress' = [back_progress EXCEPT ![f] = 0]
    BY <1>3, <1>4 DEF Back
  <2> HIDE DEF by
  <2> QED
    BY <1>2, <1>3, <2>1, <2>2, ExtendedInOrder
<1>5. CASE ~ lowest
  <2>1. first' = first - 0 /\ 0 \in 0 .. back_progress[f]
    BY <1>1, <1>3, <1>5
  <2> DEFINE bp == Back(back_progress[f], lowest)
  <2>2. bp \in Nat /\ (bp = 0 \/ bp = back_progress[f] - 1)
    BY <1>1, <1>5 DEF Back
  <2>3. back_progress' = [back_progress EXCEPT ![f] = bp]
    BY <1>3
  <2> HIDE DEF bp
  <2> QED
    BY <1>2, <1>3, <2>1, <2>2, <2>3, ExtendedInOrder
<1> QED
  BY <1>4, <1>5

(* A front that follows is not at the end of the list.                     *)
LEMMA EndReached ==
  ASSUME TypeOK, InOrder, NEW f \in Fronts, phase[f] = "advance",
         ~ at[f] + front_offset < last
  PROVE  f \in frontrunner
<1> USE DEF TypeOK
<1> SUFFICES ASSUME f \notin frontrunner PROVE FALSE
  OBVIOUS
<1> DEFINE p == Before(f)
<1>1. p \in Fronts /\ Owes(p) \in {0, 1} /\ ~ Leads(f) /\ Running(f)
  BY Neighbours DEF Owes, Leads, Running
<1>2. InLine(p) /\ at[p] - at[f] >= store_size
  BY <1>1, Sizes DEF InOrder, FollowsBehind
<1>3. at[p] + front_offset <= last
  BY <1>1, <1>2 DEF InOrder, WithinList
<1> QED
  BY <1>1, <1>2, <1>3, Sizes

(* The next store: a post has been taken for it, and one is owed for it.   *)
LEMMA NextStoreInOrder ==
  ASSUME TypeOK, InOrder, NEW f \in Fronts, Go(f, "advance", "post"), Fronts' = Fronts,
         at' = [at EXCEPT ![f] = @ + 1],
         last' = IF at[f] + front_offset < last THEN last ELSE last + 1,
         UNCHANGED <<nr_of_fronts, back_progress, sem_countdown, frontrunner,
                     semaphore, first>>
  PROVE  InOrder'
<1> USE DEF TypeOK
<1>0. Start \in Int /\ \A g \in Fronts : Owes(g) \in {0, 1} /\ Before(g) \in Fronts
  BY Sizes, Neighbours DEF Start, Owes
<1>1. /\ phase[f] = "advance" /\ phase'[f] = "post"
      /\ \A g \in Fronts : g # f => phase'[g] = phase[g]
  BY Went DEF Phases
<1>2. \A g \in Fronts : /\ Running(g)' <=> Running(g)
                        /\ InLine(g)' <=> InLine(g)
                        /\ Leads(g)' <=> Leads(g)
                        /\ Owes(g)' = IF g = f THEN 1 ELSE Owes(g)
  BY <1>1 DEF Running, InLine, Leads, Owes
<1>3. nr_of_fronts' = nr_of_fronts /\ Start' = Start /\ last' >= last
  BY DEF Start
<1>4. /\ at'[f] = at[f] + 1 /\ Running(f) /\ InLine(f) /\ Owes(f) = 0
      /\ \A g \in Fronts : g # f => at'[g] = at[g]
  BY <1>1 DEF Running, InLine, Owes
<1>5. OneLeader'
  BY <1>1, <1>2, <1>3 DEF InOrder, OneLeader
<1>6. WithinList'
  <2>1. at'[f] + front_offset <= last'
    BY <1>4, Sizes DEF InOrder, WithinList
  <2>2. ASSUME NEW g \in Fronts, InLine(g)'
        PROVE  Start <= at'[g] /\ at'[g] + front_offset <= last'
    BY <1>0, <1>2, <1>3, <1>4, <2>1, <2>2, Sizes DEF InOrder, WithinList
  <2>3. ASSUME NEW g \in Fronts, InLine(g)', back_progress[g] > 0
        PROVE  /\ phase'[g] \notin {"clear", "pass"}
               /\ at'[g] + back_progress[g]
                    + (IF phase'[g] \in {"wait", "advance"} THEN 1 ELSE 0)
                  <= Start + back_offset
    BY <1>0, <1>1, <1>2, <1>4, <2>3, Sizes DEF InOrder, WithinList
  <2>4. first' + store_size <= last'
    BY <1>3, Sizes DEF InOrder, WithinList
  <2> QED
    BY <1>3, <2>2, <2>3, <2>4 DEF WithinList
<1>7. PostsEarned'
  <2> SUFFICES ASSUME NEW p \in Fronts
               PROVE  /\ semaphore'[p] > 0 => InLine(p)' /\ nr_of_fronts > 1
                      /\ InLine(p)' =>
                           /\ sem_countdown'[p] > 0 => semaphore'[p] = 0
                           /\ at'[p] - Start' >= store_size - 1 - sem_countdown'[p]
                                                   + semaphore'[p] + Owes(p)'
    BY <1>3 DEF PostsEarned
  <2> QED
    BY <1>0, <1>2, <1>3, <1>4, Sizes DEF InOrder, PostsEarned
<1>8. FollowsBehind'
  <2> SUFFICES ASSUME NEW g \in Fronts, ~ Leads(g)', NEW p \in Fronts, p = Before(g)
               PROVE  /\ phase'[g] = "begin" =>
                           /\ InLine(p)' /\ sem_countdown'[p] = 0
                           /\ at'[p] - Start' >= store_size + semaphore'[p] + Owes(p)'
                      /\ Running(g)' =>
                           /\ InLine(p)' /\ sem_countdown'[p] = 0
                           /\ at'[p] - at'[g] >= store_size + semaphore'[p] + Owes(p)'
                                         + (IF phase'[g] = "advance" THEN 1 ELSE 0)
    BY <1>0, <1>3 DEF FollowsBehind, Before
  <2>1. CASE g = f
    <3>1. /\ InLine(p) /\ sem_countdown[p] = 0 /\ semaphore[p] \in Nat
          /\ at[p] - at[f] >= store_size + semaphore[p] + Owes(p) + 1
      BY <1>1, <1>2, <1>4, <2>1 DEF InOrder, FollowsBehind
    <3>2. p # f
      BY <1>0, <3>1, Sizes
    <3> QED
      BY <1>0, <1>1, <1>2, <1>3, <1>4, <2>1, <3>1, <3>2, Sizes
  <2>2. CASE g # f
    BY <1>0, <1>1, <1>2, <1>3, <1>4, <2>2, Sizes DEF InOrder, FollowsBehind
  <2> QED
    BY <2>1, <2>2
<1>9. AllApart'
  <2> SUFFICES ASSUME NEW l \in Fronts, NEW h \in Fronts, NEW g \in Fronts,
                      Leads(l), Rank(l, h) < Rank(l, g)
               PROVE  /\ phase'[g] = "begin" => InLine(h)' /\ at'[h] - Start >= store_size
                      /\ Running(g)' => InLine(h)' /\ at'[h] - at'[g] >= store_size
    BY <1>2, <1>3 DEF AllApart, Rank
  <2>1. /\ phase[g] = "begin" => InLine(h) /\ at[h] - Start >= store_size
        /\ Running(g) => InLine(h) /\ at[h] - at[g] >= store_size
    BY DEF InOrder, AllApart
  <2>2. CASE g # f
    BY <1>0, <1>1, <1>2, <1>4, <2>1, <2>2, Sizes
  <2>3. CASE g = f
    <3> DEFINE p == Before(f)
    <3>1. f # l /\ Rank(l, p) = Rank(l, f) - 1 /\ p \in Fronts
          /\ Rank(l, h) \in Int /\ Rank(l, f) \in Int
      BY <2>3, Ranks, <1>0
    <3>2. ~ Leads(f)
      BY <3>1 DEF InOrder, OneLeader
    <3>3. InLine(p) /\ at[p] - at[f] >= store_size + 1
      BY <1>0, <1>1, <1>4, <3>1, <3>2, Sizes DEF InOrder, FollowsBehind
    <3>4. CASE h = p
      BY <1>0, <1>1, <1>2, <1>4, <2>1, <2>3, <3>1, <3>3, <3>4, Sizes
    <3>5. CASE h # p
      <4>1. Rank(l, h) < Rank(l, p)
        BY <2>3, <3>1, <3>5, RanksDiffer
      <4>2. p # l
        BY <4>1, Ranks
      <4>3. Running(p)
        BY <3>1, <3>3, <4>2 DEF InLine, Leads, InOrder, OneLeader
      <4>4. InLine(h) /\ at[h] - at[p] >= store_size
        BY <3>1, <4>1, <4>3 DEF InOrder, AllApart
      <4>5. h # f
        BY <2>3, <3>1
      <4> QED
        BY <1>0, <1>1, <1>2, <1>4, <2>3, <3>1, <3>3, <4>4, <4>5, Sizes
    <3> QED
      BY <3>4, <3>5
  <2> QED
    BY <2>2, <2>3
<1> QED
  BY <1>5, <1>6, <1>7, <1>8, <1>9 DEF InOrder

LEMMA AdvanceInOrder ==
  ASSUME TypeOK, InOrder, NEW f \in Fronts, NEW ahead \in BOOLEAN,
         NEW age \in 0 .. back_progress[f], Advance(f, ahead, age), Fronts' = Fronts
  PROVE  InOrder'
<1>1. CASE ahead \/ at[f] + front_offset < last
  BY <1>1, NextStoreInOrder DEF Advance
<1>2. CASE ~ (ahead \/ at[f] + front_offset < last)
  <2>1. phase[f] = "advance" /\ Go(f, phase[f], "clear")
    BY <1>2 DEF Advance, Go
  <2>2. /\ first' = first - age
        /\ back_progress' = [back_progress EXCEPT ![f] = 0]
        /\ UNCHANGED <<nr_of_fronts, at, sem_countdown, frontrunner, semaphore, last>>
    BY <1>2 DEF Advance
  <2>3. f \in frontrunner
    BY <1>2, <2>1, EndReached
  <2> QED
    BY <2>1, <2>2, <2>3, ExtendedInOrder
<1> QED
  BY <1>1, <1>2

(* A front pays what it owes: with its countdown or with a post.           *)
LEMMA PostBehindInOrder ==
  ASSUME TypeOK, InOrder, NEW f \in Fronts, PostBehind(f), Fronts' = Fronts
  PROVE  InOrder'
<1> USE DEF TypeOK
<1>0. Start \in Int /\ \A g \in Fronts : Owes(g) \in {0, 1} /\ Before(g) \in Fronts
  BY Sizes, Neighbours DEF Start, Owes
<1>1. /\ phase[f] = "post" /\ phase'[f] = "test"
      /\ \A g \in Fronts : g # f => phase'[g] = phase[g]
  BY Went DEF PostBehind, Phases
<1>2. \A g \in Fronts : /\ Running(g)' <=> Running(g)
                        /\ InLine(g)' <=> InLine(g)
                        /\ Leads(g)' <=> Leads(g)
                        /\ Owes(g)' = IF g = f THEN 0 ELSE Owes(g)
  BY <1>1 DEF PostBehind, Running, InLine, Leads, Owes
<1>3. /\ UNCHANGED <<nr_of_fronts, at, back_progress, frontrunner, first, last, Start>>
      /\ Owes(f) = 1 /\ InLine(f)
  BY <1>1 DEF PostBehind, Start, Owes, InLine, Running
<1>4. \A g \in Fronts : g # f => /\ semaphore'[g] = semaphore[g]
                                 /\ sem_countdown'[g] = sem_countdown[g]
  BY DEF PostBehind
<1>5. \/ /\ sem_countdown[f] > 0 /\ sem_countdown'[f] = sem_countdown[f] - 1
         /\ semaphore'[f] = semaphore[f]
      \/ /\ sem_countdown[f] = 0 /\ sem_countdown'[f] = 0
         /\ \/ semaphore'[f] = semaphore[f]
            \/ nr_of_fronts > 1 /\ semaphore'[f] = semaphore[f] + 1
  BY DEF PostBehind
<1>6. OneLeader'
  BY <1>1, <1>2, <1>3 DEF InOrder, OneLeader
<1>7. WithinList'
  BY <1>1, <1>2, <1>3 DEF InOrder, WithinList
<1>8. PostsEarned'
  <2> SUFFICES ASSUME NEW p \in Fronts
               PROVE  /\ semaphore'[p] > 0 => InLine(p)' /\ nr_of_fronts > 1
                      /\ InLine(p)' =>
                           /\ sem_countdown'[p] > 0 => semaphore'[p] = 0
                           /\ at'[p] - Start' >= store_size - 1 - sem_countdown'[p]
                                                   + semaphore'[p] + Owes(p)'
    BY <1>3 DEF PostsEarned
  <2>1. CASE p = f
    BY <1>0, <1>2, <1>3, <1>5, <2>1, Sizes DEF InOrder, PostsEarned
  <2>2. CASE p # f
    BY <1>2, <1>3, <1>4, <2>2 DEF InOrder, PostsEarned
  <2> QED
    BY <2>1, <2>2
<1>9. FollowsBehind'
  <2> SUFFICES ASSUME NEW g \in Fronts, ~ Leads(g)', NEW p \in Fronts, p = Before(g)
               PROVE  /\ phase'[g] = "begin" =>
                           /\ InLine(p)' /\ sem_countdown'[p] = 0
                           /\ at'[p] - Start' >= store_size + semaphore'[p] + Owes(p)'
                      /\ Running(g)' =>
                           /\ InLine(p)' /\ sem_countdown'[p] = 0
                           /\ at'[p] - at'[g] >= store_size + semaphore'[p] + Owes(p)'
                                         + (IF phase'[g] = "advance" THEN 1 ELSE 0)
    BY <1>0, <1>3 DEF FollowsBehind, Before
  <2>1. phase'[g] = "begin" => phase[g] = "begin"
    BY <1>1
  <2>2. phase'[g] = "advance" => phase[g] = "advance"
    BY <1>1
  <2>3. \/ semaphore'[p] = semaphore[p] /\ sem_countdown'[p] = sem_countdown[p] /\ p # f
        \/ p = f
    BY <1>4
  <2> QED
    BY <1>0, <1>2, <1>3, <1>5, <2>1, <2>2, <2>3, Sizes DEF InOrder, FollowsBehind
<1>10. AllApart'
  BY <1>1, <1>2, <1>3 DEF InOrder, AllApart, Rank
<1> QED
  BY <1>6, <1>7, <1>8, <1>9, <1>10 DEF InOrder

(* The front runner has come to the end ...                                *)
LEMMA ClearInOrder ==
  ASSUME TypeOK, InOrder, NEW f \in Fronts, NEW none \in BOOLEAN, Clear(f, none),
         Fronts' = Fronts
  PROVE  InOrder'
<1> USE DEF TypeOK
<1>0. Start \in Int /\ \A g \in Fronts : Owes(g) \in {0, 1} /\ Before(g) \in Fronts
  BY Sizes, Neighbours DEF Start, Owes
<1>1. /\ phase[f] = "clear" /\ phase'[f] = IF nr_of_fronts > 1 THEN "pass" ELSE "loop"
      /\ \A g \in Fronts : g # f => phase'[g] = phase[g]
  <2>1. PICK to \in Phases : Go(f, "clear", to)
                             /\ to = IF nr_of_fronts > 1 THEN "pass" ELSE "loop"
    BY DEF Clear, Phases
  <2> QED
    BY <2>1, Went
<1>2. UNCHANGED <<nr_of_fronts, at, back_progress, sem_countdown, semaphore, first,
                  last, Start>>
  BY DEF Clear, Start
<1>3. nr_of_fronts' = nr_of_fronts
  BY <1>2
<1>4. f \in frontrunner /\ Leads(f) /\ \A g \in Fronts : Leads(g) => g = f
  BY <1>1 DEF InOrder, OneLeader, Leads
<1>5. CASE nr_of_fronts > 1
  <2>1. frontrunner' = frontrunner \ {f}
    BY <1>5 DEF Clear
  <2>2. \A g \in Fronts : /\ Running(g)' => Running(g)
                          /\ InLine(g)' <=> InLine(g)
                          /\ Leads(g)' <=> Leads(g)
                          /\ Owes(g)' = Owes(g)
    BY <1>1, <1>4, <1>5, <2>1 DEF Running, InLine, Leads, Owes
  <2>3. OneLeader'
    BY <1>1, <1>2, <1>4, <1>5, <2>1, <2>2 DEF InOrder, OneLeader
  <2>4. WithinList'
    BY <1>1, <1>2, <2>2 DEF InOrder, WithinList
  <2>5. PostsEarned'
    BY <1>2, <2>2 DEF InOrder, PostsEarned
  <2>6. FollowsBehind'
    <3>1. \A g \in Fronts : Before(g)' = Before(g)
      BY <1>2 DEF Before
    <3>2. \A g \in Fronts : ~ Leads(g) => phase'[g] = phase[g]
      BY <1>1, <1>4
    <3> QED
      BY <1>0, <1>2, <2>2, <3>1, <3>2 DEF InOrder, FollowsBehind
  <2>7. AllApart'
    BY <1>1, <1>2, <1>5, <2>2 DEF InOrder, AllApart, Rank
  <2> QED
    BY <2>3, <2>4, <2>5, <2>6, <2>7 DEF InOrder
<1>6. CASE ~ nr_of_fronts > 1
  <2>1. nr_of_fronts = 1 /\ \A g \in Fronts : g = f
    BY <1>6 DEF Fronts
  <2>2. frontrunner' = frontrunner /\ phase'[f] = "loop"
    BY <1>1, <2>1 DEF Clear
  <2>3. ~ InLine(f)' /\ ~ Running(f)' /\ Leads(f)'
    BY <1>4, <2>2 DEF InLine, Running, Leads
  <2>4. OneLeader'
    BY <1>2, <2>1, <2>2, <2>3 DEF OneLeader
  <2>5. WithinList' /\ PostsEarned'
    BY <1>2, <2>1, <2>3 DEF InOrder, WithinList, PostsEarned
  <2>6. FollowsBehind' /\ AllApart'
    BY <2>1, <2>2, <2>3 DEF FollowsBehind, AllApart
  <2> QED
    BY <2>4, <2>5, <2>6 DEF InOrder
<1> QED
  BY <1>5, <1>6

(* ... and makes the next one the front runner.                            *)
LEMMA PassInOrder ==
  ASSUME TypeOK, InOrder, NEW f \in Fronts, Pass(f), Fronts' = Fronts
  PROVE  InOrder'
<1> USE DEF TypeOK
<1>0. Start \in Int /\ \A g \in Fronts : Owes(g) \in {0, 1} /\ Before(g) \in Fronts
  BY Sizes, Neighbours DEF Start, Owes
<1> DEFINE b == Behind(f)
<1>1. /\ phase[f] = "pass" /\ phase'[f] = "loop"
      /\ \A g \in Fronts : g # f => phase'[g] = phase[g]
  BY Went DEF Pass, Phases
<1>2. UNCHANGED <<nr_of_fronts, at, back_progress, sem_countdown, first, last, Start>>
  BY DEF Pass, Start
<1>3. nr_of_fronts' = nr_of_fronts
  BY <1>2
<1>4. /\ f \notin frontrunner /\ nr_of_fronts > 1 /\ Leads(f)
      /\ \A g \in Fronts : Leads(g) => g = f
  BY <1>1 DEF InOrder, OneLeader, Leads
<1>5. b \in Fronts /\ b # f /\ frontrunner' = {b}
  <2>1. b \in Fronts /\ b # f
    BY <1>4, Neighbours
  <2>2. frontrunner = {}
    BY <1>4 DEF Leads
  <2> QED
    BY <2>1, <2>2 DEF Pass
<1>6. \A g \in Fronts : /\ Leads(g)' <=> g = b
                        /\ Owes(g)' = Owes(g)
                        /\ g # f => /\ Running(g)' <=> Running(g)
                                    /\ InLine(g)' <=> InLine(g)
                                    /\ semaphore'[g] = semaphore[g]
  BY <1>1, <1>4, <1>5 DEF Pass, Running, InLine, Leads, Owes
<1>7. ~ Running(f)' /\ ~ InLine(f)' /\ semaphore'[f] = 0
  BY <1>1 DEF Pass, PostsDropped, Running, InLine
<1>8. OneLeader'
  BY <1>1, <1>2, <1>4, <1>5, <1>6 DEF InOrder, OneLeader, Leads
<1>9. WithinList'
  BY <1>1, <1>2, <1>6, <1>7 DEF InOrder, WithinList
<1>10. PostsEarned'
  BY <1>2, <1>6, <1>7 DEF InOrder, PostsEarned
<1>11. FollowsBehind'
  <2> SUFFICES ASSUME NEW g \in Fronts, ~ Leads(g)', NEW p \in Fronts, p = Before(g)
               PROVE  /\ phase'[g] = "begin" =>
                           /\ InLine(p)' /\ sem_countdown'[p] = 0
                           /\ at'[p] - Start' >= store_size + semaphore'[p] + Owes(p)'
                      /\ Running(g)' =>
                           /\ InLine(p)' /\ sem_countdown'[p] = 0
                           /\ at'[p] - at'[g] >= store_size + semaphore'[p] + Owes(p)'
                                         + (IF phase'[g] = "advance" THEN 1 ELSE 0)
    BY <1>0, <1>3 DEF FollowsBehind, Before
  <2>1. g # b /\ (g # f => ~ Leads(g))
    BY <1>4, <1>6
  <2>2. p # f
    BY <2>1, Neighbours
  <2>3. CASE g = f
    BY <1>1, <1>7, <2>3
  <2>4. CASE g # f
    BY <1>1, <1>2, <1>6, <2>1, <2>2, <2>4 DEF InOrder, FollowsBehind
  <2> QED
    BY <2>3, <2>4
<1>12. AllApart'
  <2> SUFFICES ASSUME NEW h \in Fronts, NEW g \in Fronts, Rank(b, h) < Rank(b, g)
               PROVE  /\ phase'[g] = "begin" => InLine(h)' /\ at[h] - Start >= store_size
                      /\ Running(g)' => InLine(h)' /\ at[h] - at[g] >= store_size
    BY <1>2, <1>6 DEF AllApart, Rank
  <2>1. CASE g = f
    BY <1>1, <1>7, <2>1
  <2>2. CASE g # f
    <3>1. h # f /\ Rank(f, h) < Rank(f, g)
      BY <2>2, Ranks
    <3> QED
      BY <1>1, <1>4, <1>6, <2>2, <3>1 DEF InOrder, AllApart
  <2> QED
    BY <2>1, <2>2
<1> QED
  BY <1>8, <1>9, <1>10, <1>11, <1>12 DEF InOrder

-----------------------------------------------------------------------------
LEMMA InitInvariant == FrontsInit => FrontsInvariant
BY InitTypes, InitInOrder DEF FrontsInvariant

LEMMA StepInOrder ==
  ASSUME TypeOK, InOrder, ~ exit, NEW f \in Fronts, FrontStep(f), Fronts' = Fronts
  PROVE  InOrder'
<1>1. CASE Loop(f) \/ Test(f)
  BY <1>1, TestInOrder
<1>2. CASE AwaitBegin(f)
  BY <1>2, AwaitBeginInOrder
<1>3. CASE AwaitAdvance(f)
  BY <1>3, AwaitAdvanceInOrder
<1>4. CASE Begin(f)
  BY <1>4, BeginInOrder
<1>5. CASE \E lowest \in BOOLEAN : EndWork(f, lowest)
  BY <1>5, EndWorkInOrder
<1>6. CASE \E ahead \in BOOLEAN, age \in 0 .. back_progress[f] : Advance(f, ahead, age)
  BY <1>6, AdvanceInOrder
<1>7. CASE PostBehind(f)
  BY <1>7, PostBehindInOrder
<1>8. CASE \E none \in BOOLEAN : Clear(f, none)
  BY <1>8, ClearInOrder
<1>9. CASE Pass(f)
  BY <1>9, PassInOrder
<1>10. ~ End(f)
  BY DEF End, Go, InOrder, OneLeader
<1> QED
  BY <1>1, <1>2, <1>3, <1>4, <1>5, <1>6, <1>7, <1>8, <1>9, <1>10 DEF FrontStep

LEMMA NextInvariant == FrontsInvariant /\ [FrontsNext]_frontVars => FrontsInvariant'
<1> SUFFICES ASSUME FrontsInvariant, [FrontsNext]_frontVars PROVE FrontsInvariant'
  OBVIOUS
<1>1. TypeOK /\ TypeOK' /\ (exit \/ InOrder) /\ Fronts' = Fronts
  BY NextTypes, SameFronts DEF FrontsInvariant
<1>2. CASE UNCHANGED frontVars
  BY <1>1, <1>2
  DEF frontVars, FrontsInvariant, InOrder, OneLeader, WithinList, PostsEarned,
      FollowsBehind, AllApart, Leads, Running, InLine, Owes, Start, Rank, Before
<1>3. CASE Found
  BY <1>1, <1>3 DEF Found, FrontsInvariant
<1>4. ASSUME NEW f \in Fronts, FrontStep(f) PROVE FrontsInvariant'
  <2>1. CASE exit
    <3>1. exit'
      BY <1>4, <2>1
      DEF FrontStep, Loop, AwaitBegin, AwaitAdvance, AwaitFront, Begin, Test,
          EndWork, Advance, PostBehind, Clear, OverWhenCleared, Pass, End
    <3> QED
      BY <1>1, <3>1 DEF FrontsInvariant
  <2>2. CASE ~ exit
    BY <1>1, <1>4, <2>2, StepInOrder DEF FrontsInvariant
  <2> QED
    BY <2>1, <2>2
<1> QED
  BY <1>2, <1>3, <1>4 DEF FrontsNext

(* Types and order of the fronts.                                          *)
THEOREM FrontsInvariantHolds == FrontsSpec => []FrontsInvariant
BY InitInvariant, NextInvariant, PTL DEF FrontsSpec

(* The stores two fronts look at do not overlap as long as the search is   *)
(* on (Sweep.inc:639, 751, 789).                                           *)
THEOREM WindowsApart == FrontsSpec => []FrontsApart
<1>1. FrontsInvariant => FrontsApart
  <2> SUFFICES ASSUME TypeOK, InOrder, NEW f \in Fronts, Running(f), f \notin frontrunner
               PROVE  /\ Running(Before(f)) \/ phase[Before(f)] = "pass"
                      /\ at[Before(f)] - at[f] >= store_size
    BY DEF FrontsInvariant, FrontsApart
  <2>1. ~ Leads(f) /\ Before(f) \in Fronts
    BY Neighbours DEF Leads, Running, TypeOK
  <2>2. semaphore[Before(f)] \in Nat /\ Owes(Before(f)) \in {0, 1}
    BY <2>1 DEF TypeOK, Owes
  <2> QED
    BY <2>1, <2>2, Sizes DEF InOrder, FollowsBehind, InLine, TypeOK
<1> QED
  BY <1>1, FrontsInvariantHolds, PTL

(* The list is extended by one front at a time, and while none begins      *)
(* (Sweep.inc:658, 741, 773).                                              *)
THEOREM ExtendedAlone == FrontsSpec => []ExtendsAlone
<1>1. FrontsInvariant => ExtendsAlone
  BY Alone DEF FrontsInvariant, ExtendsAlone, InLine
<1> QED
  BY <1>1, FrontsInvariantHolds, PTL

(***************************************************************************)
(* Every step of the method is one of the fronts, or leaves them alone.    *)
(***************************************************************************)

(* checkNewPersistent(bp) never asks for more stores than bp.              *)
LEMMA AgeInRange ==
  ASSUME NEW r, NEW list, NEW bp \in Nat
  PROVE  Age(r, list, bp) \in 0 .. bp
<1> DEFINE Aged == {i \in 0 .. bp - 1 :
              \E j \in 0 .. i : list[PlaceOf(r, front_offset + j + 2)] # {}}
<1>1. IsFiniteSet(0 .. bp - 1) /\ Cardinality(0 .. bp - 1) = bp
  BY FS_Interval
<1>2. Aged \subseteq 0 .. bp - 1
  OBVIOUS
<1> HIDE DEF Aged
<1>3. IsFiniteSet(Aged) /\ Cardinality(Aged) <= bp
  BY <1>1, <1>2, FS_Subset
<1>4. Cardinality(Aged) \in Nat
  BY <1>3, FS_CardinalityType
<1>5. Age(r, list, bp) = Cardinality(Aged)
  BY DEF Age, AgeFrom, Aged
<1> QED
  BY <1>3, <1>4, <1>5

(* A thread moves its own front as SweepFronts says, or none at all.       *)
LEMMA StepMoves ==
  ASSUME TypeOK, NEW t \in Threads, Step(t)
  PROVE  [FrontsNext]_frontVars
<1>1. ASSUME CheckStates(t)
      PROVE  [FrontsNext]_frontVars
  BY <1>1 DEF CheckStates, Pop, PopNew, Store, SolutionFound, Ask, FrontsNext, frontVars
<1>2. CASE t \notin Fronts
  <2>1. HelperThread(t)
    BY <1>2 DEF Step
  <2> QED
    BY <1>1, <2>1 DEF HelperThread, Look, Come, Help, Leave, Doze, Nap, Awake, frontVars
<1>3. CASE t \in Fronts
  <2>1. FrontThread(t)
    BY <1>3 DEF Step
  <2>2. CASE (t = 0 /\ (Setup \/ Wake)) \/ Woken(t) \/ Reset(t)
             \/ Rouse(t) \/ Draw(t) \/ SignalAll(t) \/ Gather(t)
    BY <2>2 DEF Setup, Wake, Woken, Reset, Rouse, Draw, SignalAll, Gather, frontVars
  <2>3. CASE Move(t)
    BY <1>3, <2>3 DEF Move, FrontsNext, FrontStep
  <2>4. CASE InitFront(t)
    BY <1>3, <2>4 DEF InitFront, FrontsNext, FrontStep
  <2>5. CASE Round(t)
    BY <1>3, <2>5 DEF Round, FrontsNext, FrontStep
  <2>6. CASE RoundDone(t)
    BY <1>3, <2>6 DEF RoundDone, LowestNew, FrontsNext, FrontStep
  <2>7. CASE AdvanceProgress(t)
    <3>1. Age(ring[t], new, back_progress[t]) \in 0 .. back_progress[t]
      BY <1>3, AgeInRange DEF TypeOK
    <3>2. AnyAhead(ring[t]) \in BOOLEAN
      BY DEF AnyAhead
    <3> QED
      BY <1>3, <2>7, <3>1, <3>2 DEF AdvanceProgress, FrontsNext, FrontStep
  <2>8. CASE DeinitFront(t)
    <3>1. Clear(t, ring[t].new_persistent_empty)
      BY <2>8 DEF DeinitFront
    <3>2. PICK none \in BOOLEAN : none <=> ring[t].new_persistent_empty
      OBVIOUS
    <3> QED
      BY <1>3, <3>1, <3>2 DEF Clear, OverWhenCleared, FrontsNext, FrontStep
  <2>9. CASE Terminate(t)
    BY <1>3, <2>9 DEF Terminate, FrontsNext, FrontStep
  <2> QED
    BY <1>1, <2>1, <2>2, <2>3, <2>4, <2>5, <2>6, <2>7, <2>8, <2>9 DEF FrontThread
<1> QED
  BY <1>2, <1>3

LEMMA NextMoves == TypeOK /\ [Next]_vars => [FrontsNext]_frontVars
<1> SUFFICES ASSUME TypeOK, [Next]_vars
             PROVE  [FrontsNext]_frontVars
  OBVIOUS
<1>1. CASE vars' = vars
  BY <1>1 DEF vars, frontVars
<1>2. CASE Join
  BY <1>2 DEF Join, frontVars
<1>3. CASE Over
  BY <1>3 DEF Over, vars, frontVars
<1> QED
  BY <1>1, <1>2, <1>3, StepMoves DEF Next

(* The fronts of the sweep-line method, with all their work on markings    *)
(* and their helpers, move as SweepFronts says: what is proved of the      *)
(* fronts holds of the program (Sweep.inc:461).                            *)
THEOREM MovesAsFronts == Spec => FrontsSpec
<1>1. Init => FrontsInit
  BY DEF Init
<1>2. FrontsInvariant /\ [Next]_vars => FrontsInvariant'
  BY NextMoves, NextInvariant DEF FrontsInvariant
<1>3. Init => FrontsInvariant
  BY <1>1, InitInvariant
<1>4. FrontsInvariant /\ [Next]_vars => [FrontsNext]_frontVars
  BY NextMoves DEF FrontsInvariant
<1> QED
  BY <1>1, <1>2, <1>3, <1>4, PTL DEF Spec, FrontsSpec

(* The stores that two fronts look at never overlap while the search is    *)
(* on, whatever the net, the progress measure and the numbers of fronts    *)
(* and threads are (Sweep.inc:639, 789).                                   *)
THEOREM SweepsApart == Spec => []FrontsApart
BY MovesAsFronts, WindowsApart, PTL

(* The list of persistent stores is extended to the left by one front at   *)
(* a time, while no other one is about to begin (Sweep.inc:658, 773).      *)
THEOREM SweepExtendedAlone == Spec => []ExtendsAlone
BY MovesAsFronts, ExtendedAlone, PTL

(***************************************************************************)
(* Helpers come in only while the first front works.                       *)
(***************************************************************************)

(* Fronts and helpers are different threads.                               *)
LEMMA Actors ==
  ASSUME TypeOK, HelperTypes
  PROVE  /\ 0 \in Fronts /\ Fronts \subseteq Threads /\ Helpers \subseteq Threads
         /\ \A h \in Helpers : h \notin Fronts /\ h # 0
         /\ \A t \in Threads : t \notin Fronts => t \in Helpers
         /\ IsFiniteSet(Helpers)
<1>1. IsFiniteSet(Helpers)
  BY FS_Interval DEF Helpers, TypeOK, HelperTypes
<1> QED
  BY <1>1 DEF TypeOK, HelperTypes, Fronts, Threads, Helpers

(* Raising or lowering one flag keeps the flags of the others.              *)
LEMMA OneFlag ==
  ASSUME NEW S, NEW flags \in [S -> BOOLEAN], NEW h \in S, NEW b \in BOOLEAN
  PROVE  /\ [flags EXCEPT ![h] = b] \in [S -> BOOLEAN]
         /\ \A u \in S \ {h} : [flags EXCEPT ![h] = b][u] = flags[u]
  OBVIOUS

(* Thread t goes to l in a fixed crew.                                     *)
Goes(t, l) ==
  /\ nr_of_fronts' = nr_of_fronts /\ nr_of_threads' = nr_of_threads
  /\ pc' = [pc EXCEPT ![t] = l]

LEMMA GoesFacts ==
  ASSUME HelperTypes, NEW t \in Threads, NEW l \in Labels, Goes(t, l)
  PROVE  /\ Fronts' = Fronts /\ Threads' = Threads /\ Helpers' = Helpers
         /\ pc' \in [Threads' -> Labels] /\ pc'[t] = l
         /\ \A u \in Threads : u # t => pc'[u] = pc[u]
<1>1. Fronts' = Fronts /\ Threads' = Threads /\ Helpers' = Helpers
  BY DEF Goes, Fronts, Threads, Helpers
<1> QED
  BY <1>1 DEF HelperTypes, Goes

(* When nobody is counted at a front nobody is inside.                     *)
LEMMA NobodyInside ==
  ASSUME TypeOK, HelperTypes, AllCounted, NEW f \in Fronts, helpers[f] = 0
  PROVE  InsideOf(f) = {}
<1>1. IsFiniteSet(Helpers) /\ InsideOf(f) \subseteq Helpers
  BY Actors DEF InsideOf
<1>2. IsFiniteSet(InsideOf(f)) /\ Cardinality(InsideOf(f)) = 0
  BY <1>1, FS_Subset DEF AllCounted
<1> QED
  BY <1>2, FS_EmptySet

(* A front that moves does not touch the helpers' places.                  *)
LEMMA FrontCounts ==
  ASSUME TypeOK, HelperTypes, AllCounted, NEW f \in Fronts, NEW l \in Labels,
         Goes(f, l), UNCHANGED <<helpers, frontptr>>,
         f = 0 /\ pc[0] \in AtWork => l \in AtWork \/ helpers[0] = 0
  PROVE  AllCounted'
<1>1. /\ f \in Threads /\ 0 \in Threads /\ Helpers \subseteq Threads
      /\ \A h \in Helpers : h # f
  BY Actors
<1>2. /\ Fronts' = Fronts /\ Helpers' = Helpers /\ pc'[f] = l
      /\ \A u \in Threads : u # f => pc'[u] = pc[u]
  BY <1>1, GoesFacts
<1>3. ASSUME NEW g PROVE InsideOf(g)' = InsideOf(g)
  BY <1>1, <1>2 DEF InsideOf, Inside, Helping
<1>4. \A g \in Fronts : helpers'[g] = Cardinality(InsideOf(g)')
  BY <1>3 DEF AllCounted
<1>5. InsideOf(0) # {} => pc'[0] \in AtWork
  <2>1. InsideOf(0) # {} => pc[0] \in AtWork /\ helpers[0] # 0
    BY Actors, NobodyInside DEF AllCounted
  <2> QED
    BY <1>1, <1>2, <2>1
<1> QED
  BY <1>2, <1>3, <1>4, <1>5 DEF AllCounted

(* A step of front f to l after its start, as far as the helpers and the   *)
(* first front can see it.                                                 *)
Proceeds(f, l) ==
  /\ l \in Labels /\ Goes(f, l) /\ UNCHANGED <<helpers, frontptr>>
  /\ \A g \in Fronts \ {f} : phase'[g] = phase[g] /\ cursor'[g] = cursor[g]
  /\ pc[f] \notin Early /\ (pc[f] = "outside" => phase[f] \notin {"loop", "init"})
  /\ l \notin Early
  /\ cursor' \in [Fronts -> Nat]
  /\ l = "rouse" => Helpers # {}
  /\ l \in {"draw", "signal"} => cursor'[f] \in Helpers
  /\ idle' \in [Threads -> BOOLEAN] /\ (f # 0 => idle'[0] = idle[0])
  /\ f = 0 => /\ l \in AtWork => phase'[0] = "work"
              /\ Helpers # {} /\ ~ idle'[0] => l \in AtWork \ {"rouse", "empty"}
              /\ pc[0] \in AtWork => l \in AtWork \/ helpers[0] = 0

LEMMA ProceedsKeeps ==
  ASSUME TypeOK, HelpersInvariant, NEW f \in Fronts, NEW l, Proceeds(f, l)
  PROVE  HelpersInvariant'
<1>t. HelperTypes /\ StartsFirst /\ LoweredAtWork /\ AllCounted
  BY DEF HelpersInvariant
<1>1. /\ f \in Threads /\ 0 \in Threads /\ 0 \in Fronts /\ Fronts \subseteq Threads
      /\ Fronts' = Fronts /\ Helpers' = Helpers /\ Threads' = Threads
      /\ pc' \in [Threads' -> Labels] /\ pc'[f] = l
      /\ \A u \in Threads : u # f => pc'[u] = pc[u]
  BY <1>t, Actors, GoesFacts DEF Proceeds
<1>2. HelperTypes'
  BY <1>t, <1>1 DEF HelperTypes, Goes, Proceeds
<1>3. pc'[0] \notin Early
  BY <1>t, <1>1 DEF StartsFirst, Early, Proceeds
<1>4. StartsFirst'
  BY <1>3 DEF StartsFirst, Early
<1>5. LoweredAtWork'
  <2>1. pc'[0] \in AtWork => phase'[0] = "work"
    BY <1>t, <1>1 DEF LoweredAtWork, Proceeds
  <2>2. Helpers # {} /\ ~ idle'[0] => pc'[0] \in (AtWork \ {"rouse", "empty"}) \union {"wake", "reset"}
    BY <1>t, <1>1 DEF LoweredAtWork, Proceeds
  <2>3. \A g \in Fronts : /\ pc'[g] = "rouse" => Helpers # {}
                          /\ pc'[g] \in {"draw", "signal"} => cursor'[g] \in Helpers
    BY <1>t, <1>1 DEF LoweredAtWork, Proceeds
  <2> QED
    BY <1>1, <2>1, <2>2, <2>3 DEF LoweredAtWork
<1>6. AllCounted'
  BY <1>t, FrontCounts DEF Proceeds
<1> QED
  BY <1>2, <1>4, <1>5, <1>6 DEF HelpersInvariant

(* A thread that stays where it is.                                        *)
LEMMA StaysPut ==
  ASSUME HelperTypes, NEW t \in Threads, pc' = pc,
         nr_of_fronts' = nr_of_fronts, nr_of_threads' = nr_of_threads
  PROVE  Goes(t, pc[t]) /\ pc[t] \in Labels
BY DEF HelperTypes, Goes

(* A front that goes on to another phase only.                             *)
LEMMA GoesOn ==
  ASSUME TypeOK, HelpersInvariant, NEW f \in Fronts,
         pc[f] = "outside", phase[f] \notin {"loop", "init"},
         \A g \in Fronts \ {f} : phase'[g] = phase[g],
         UNCHANGED <<nr_of_fronts, nr_of_threads, pc, idle, helpers, cursor, frontptr>>
  PROVE  HelpersInvariant'
<1>t. HelperTypes /\ LoweredAtWork /\ f \in Threads
  BY Actors DEF HelpersInvariant
<1>1. "outside" \notin Early /\ "outside" \notin AtWork
  BY DEF AtWork, Early
<1>2. Goes(f, pc[f]) /\ pc[f] \in Labels
  BY <1>t, StaysPut
<1>3. cursor' \in [Fronts -> Nat] /\ idle' \in [Threads -> BOOLEAN]
  BY <1>t DEF HelperTypes
<1>4. f = 0 => Helpers = {} \/ idle'[0]
  BY <1>t DEF LoweredAtWork, AtWork
<1>5. Proceeds(f, pc[f])
  BY <1>1, <1>2, <1>3, <1>4 DEF Proceeds
<1> QED
  BY <1>5, ProceedsKeeps

(* Another round begins.                                                   *)
LEMMA RoundKeeps ==
  ASSUME TypeOK, HelpersInvariant, NEW f \in Fronts, Round(f)
  PROVE  HelpersInvariant'
<1>t. HelperTypes /\ LoweredAtWork /\ f \in Threads /\ 0 \in Threads
  BY Actors DEF HelpersInvariant
<1>1. /\ pc[f] = "outside" /\ phase[f] = "test"
      /\ \A g \in Fronts \ {f} : phase'[g] = phase[g]
      /\ ~ exit => phase'[f] = "work"
      /\ UNCHANGED <<nr_of_fronts, nr_of_threads, idle, helpers, cursor, frontptr>>
      /\ pc' = IF exit THEN pc
               ELSE [pc EXCEPT ![f] = IF Helpers = {} THEN "pop" ELSE "rouse"]
  BY DEF Round, Test, Go, TypeOK, arguments, sync
<1>2. cursor' \in [Fronts -> Nat] /\ idle' \in [Threads -> BOOLEAN]
  BY <1>t, <1>1 DEF HelperTypes
<1>3. f = 0 => Helpers = {} \/ idle'[0]
  BY <1>t, <1>1 DEF LoweredAtWork, AtWork
<1>4. CASE exit
  BY <1>1, <1>4, GoesOn
<1>5. CASE ~ exit
  <2>1. "outside" \notin Early /\ "outside" \notin AtWork
    BY DEF AtWork, Early
  <2>2. ASSUME NEW l, pc' = [pc EXCEPT ![f] = l], l \in {"pop", "rouse"},
               l = "rouse" => Helpers # {}, l = "pop" => Helpers = {}
        PROVE  Proceeds(f, l)
    <3>1. Goes(f, l)
      BY <1>1, <2>2 DEF Goes
    <3>2. l \in Labels /\ l \notin Early /\ l \in AtWork
      BY <2>2 DEF AtWork, Early, Labels
    <3>3. l \notin {"draw", "signal"}
      BY <2>2
    <3> QED
      BY <1>1, <1>2, <1>3, <1>5, <2>1, <2>2, <3>1, <3>2, <3>3 DEF Proceeds
  <2> QED
    BY <1>1, <1>5, <2>2, ProceedsKeeps
<1> QED
  BY <1>4, <1>5

(* The loops that arouse helpers: on to l with the counter c.              *)
Turns(f, l, c) ==
  /\ Goes(f, l) /\ cursor' = [cursor EXCEPT ![f] = c]
  /\ c \in Nat /\ l \in {"draw", "signal", "pop"}
  /\ l \in {"draw", "signal"} => c \in Helpers

LEMMA TurnsKeeps ==
  ASSUME TypeOK, HelpersInvariant, NEW f \in Fronts, NEW l, NEW c, Turns(f, l, c),
         pc[f] \in {"rouse", "draw", "signal"},
         UNCHANGED <<phase, helpers, frontptr>>,
         NEW u \in Threads, u \in Helpers \/ u = f, idle' = [idle EXCEPT ![u] = FALSE]
  PROVE  HelpersInvariant'
<1>t. /\ HelperTypes /\ LoweredAtWork /\ f \in Threads /\ 0 \in Threads
      /\ \A h \in Helpers : h \notin Fronts /\ h # 0
  BY Actors DEF HelpersInvariant
<1>1. /\ idle' \in [Threads -> BOOLEAN] /\ (f # 0 => idle'[0] = idle[0])
      /\ cursor' \in [Fronts -> Nat] /\ cursor'[f] = c
      /\ \A g \in Fronts \ {f} : cursor'[g] = cursor[g]
  BY <1>t DEF HelperTypes, Turns
<1>2. f = 0 => phase'[0] = "work"
  BY <1>t DEF LoweredAtWork, AtWork
<1>3. l \in Labels /\ l \notin Early /\ l # "rouse" /\ l \in AtWork \ {"rouse", "empty"}
  <2>1. l = "draw" \/ l = "signal" \/ l = "pop"
    BY DEF Turns
  <2>2. CASE l = "draw"
    BY <2>2 DEF Early, AtWork, Labels
  <2>3. CASE l = "signal"
    BY <2>3 DEF Early, AtWork, Labels
  <2>4. CASE l = "pop"
    BY <2>4 DEF Early, AtWork, Labels
  <2> QED
    BY <2>1, <2>2, <2>3, <2>4
<1>4. pc[f] \notin Early /\ pc[f] # "outside"
  BY DEF Early
<1>5. Proceeds(f, l)
  BY <1>1, <1>2, <1>3, <1>4 DEF Proceeds, Turns
<1> QED
  BY <1>5, ProceedsKeeps

LEMMA RouseKeeps ==
  ASSUME TypeOK, HelpersInvariant, NEW f \in Fronts,
         Rouse(f) \/ Draw(f) \/ SignalAll(f)
  PROVE  HelpersInvariant'
<1>t. /\ HelperTypes /\ LoweredAtWork /\ f \in Threads
      /\ Fronts \subseteq Threads /\ Helpers \subseteq Threads
  BY Actors DEF HelpersInvariant
<1>n. f \in Nat /\ nr_of_fronts \in Nat \ {0} /\ nr_of_threads \in Nat
  BY <1>t DEF Fronts, TypeOK, HelperTypes
<1>1. UNCHANGED <<nr_of_fronts, nr_of_threads, phase, helpers, frontptr>>
  BY DEF Rouse, Draw, SignalAll, frontVars, arguments
<1>2. CASE Rouse(f)
  <2>1. Helpers # {} /\ pc[f] = "rouse"
    BY <1>t, <1>2 DEF LoweredAtWork, Rouse
  <2>2. nr_of_fronts \in Helpers /\ nr_of_fronts \in Nat
    BY <1>n, <2>1 DEF Helpers
  <2>3. f + nr_of_fronts < nr_of_threads =>
          f + nr_of_fronts \in Helpers /\ f + nr_of_fronts \in Nat
    BY <1>n DEF Helpers
  <2>4. \/ Turns(f, "draw", f + nr_of_fronts)
        \/ Turns(f, "signal", nr_of_fronts)
    BY <1>1, <1>2, <2>2, <2>3 DEF Rouse, Goto, Goes, Turns
  <2>5. idle' = [idle EXCEPT ![f] = FALSE]
    BY <1>2 DEF Rouse
  <2> QED
    BY <1>t, <1>1, <2>1, <2>4, <2>5, TurnsKeeps
<1>3. CASE Draw(f)
  <2>1. cursor[f] \in Helpers /\ pc[f] = "draw"
    BY <1>t, <1>3 DEF LoweredAtWork, Draw
  <2>2. nr_of_fronts \in Helpers /\ nr_of_fronts \in Nat
    BY <1>n, <2>1 DEF Helpers
  <2>3. cursor[f] + nr_of_fronts < nr_of_threads =>
          cursor[f] + nr_of_fronts \in Helpers /\ cursor[f] + nr_of_fronts \in Nat
    BY <1>n, <2>1 DEF Helpers
  <2>4. pc = [pc EXCEPT ![f] = "draw"]
    BY <1>t, <2>1 DEF HelperTypes
  <2>5. \/ Turns(f, "draw", cursor[f] + nr_of_fronts)
        \/ Turns(f, "signal", nr_of_fronts)
    BY <1>1, <1>3, <2>2, <2>3, <2>4 DEF Draw, Goto, Goes, Turns
  <2>6. idle' = [idle EXCEPT ![cursor[f]] = FALSE]
    BY <1>3 DEF Draw, Arouse
  <2> QED
    BY <1>t, <1>1, <2>1, <2>5, <2>6, TurnsKeeps
<1>4. CASE SignalAll(f)
  <2>1. cursor[f] \in Helpers /\ pc[f] = "signal"
    BY <1>t, <1>4 DEF LoweredAtWork, SignalAll
  <2>2. cursor[f] + 1 < nr_of_threads =>
          cursor[f] + 1 \in Helpers /\ cursor[f] + 1 \in Nat
    BY <1>n, <2>1 DEF Helpers
  <2>3. pc = [pc EXCEPT ![f] = "signal"]
    BY <1>t, <2>1 DEF HelperTypes
  <2>4. Turns(f, "signal", cursor[f] + 1) \/ Turns(f, "pop", 0)
    BY <1>1, <1>4, <2>2, <2>3 DEF SignalAll, Goto, Goes, Turns
  <2>5. idle' = [idle EXCEPT ![cursor[f]] = FALSE]
    BY <1>4 DEF SignalAll, Arouse
  <2> QED
    BY <1>t, <1>1, <2>1, <2>4, <2>5, TurnsKeeps
<1> QED
  BY <1>2, <1>3, <1>4

(* A thread in checkStates stays there or returns, and touches nothing the *)
(* helpers are led by.                                                     *)
Checking == {"pop", "popnew", "swap", "keep", "fire", "found"}

LEMMA ChecksOn ==
  ASSUME HelperTypes, NEW t \in Threads, CheckStates(t)
  PROVE  /\ pc[t] \in Checking
         /\ \E l \in Checking \union {Return(t)} : Goes(t, l)
         /\ UNCHANGED <<nr_of_fronts, nr_of_threads, phase, frontrunner, semaphore,
                       idle, helpers, cursor, frontptr, waiting>>
<1>1. UNCHANGED <<nr_of_fronts, nr_of_threads, phase, frontrunner, semaphore,
                  idle, helpers, cursor, frontptr, waiting>>
  BY DEF CheckStates, Pop, PopNew, Store, SolutionFound, Found, Ask, frontVars,
         arguments, sync
<1>2. pc[t] \in Checking
  BY DEF CheckStates, Pop, PopNew, Store, SolutionFound, Ask, Checking
<1>3. CASE Pop(t)
  BY <1>1, <1>3 DEF Pop, Goto, Goes, Checking
<1>4. CASE PopNew(t)
  BY <1>1, <1>4 DEF PopNew, Goto, Goes, Checking
<1>5. CASE Store(t)
  BY <1>1, <1>5 DEF Store, Goto, Goes, Checking
<1>6. CASE SolutionFound(t)
  <2>1. Goes(t, Return(t))
    BY <1>1, <1>6 DEF SolutionFound, Goto, Goes
  <2> QED
    BY <1>1, <1>2, <2>1
<1>7. CASE Ask(t)
  <2>1. Goto(t, "pop") \/ pc' = pc
    BY <1>7 DEF Ask
  <2>2. pc = [pc EXCEPT ![t] = pc[t]]
    BY DEF HelperTypes
  <2> QED
    BY <1>1, <1>2, <2>1, <2>2 DEF Goto, Goes, Checking
<1> QED
  BY <1>1, <1>2, <1>3, <1>4, <1>5, <1>6, <1>7 DEF CheckStates

LEMMA FrontChecks ==
  ASSUME TypeOK, HelpersInvariant, NEW f \in Fronts, CheckStates(f)
  PROVE  HelpersInvariant'
<1>t. /\ HelperTypes /\ LoweredAtWork /\ f \in Threads
      /\ \A h \in Helpers : h \notin Fronts
  BY Actors DEF HelpersInvariant
<1>1. /\ pc[f] \in Checking
      /\ UNCHANGED <<nr_of_fronts, nr_of_threads, phase, frontrunner, semaphore,
                     idle, helpers, cursor, frontptr, waiting>>
  BY <1>t, ChecksOn
<1>2. PICK l \in Checking \union {Return(f)} : Goes(f, l)
  BY <1>t, ChecksOn
<1>3. /\ pc[f] \notin Early /\ pc[f] # "outside" /\ pc[f] \in AtWork
  BY <1>1 DEF Checking, Early, AtWork
<1>4. /\ l \in Labels /\ l \notin Early /\ l \in AtWork
      /\ l \notin {"rouse", "draw", "signal"}
      /\ l = "empty" => Helpers = {}
  <2>1. Return(f) = IF Helpers = {} THEN "empty" ELSE "gather"
    BY <1>t DEF Return
  <2>2. \/ l \in Checking
        \/ l = "gather"
        \/ l = "empty" /\ Helpers = {}
    BY <1>2, <2>1
  <2> QED
    BY <2>2 DEF Checking, Early, AtWork, Labels
<1>5. f = 0 => phase'[0] = "work"
  BY <1>t, <1>1, <1>3 DEF LoweredAtWork
<1>6. cursor' \in [Fronts -> Nat] /\ idle' \in [Threads -> BOOLEAN]
  BY <1>t, <1>1 DEF HelperTypes
<1>7. Proceeds(f, l)
  BY <1>1, <1>2, <1>3, <1>4, <1>5, <1>6 DEF Proceeds
<1> QED
  BY <1>7, ProceedsKeeps

LEMMA GatherKeeps ==
  ASSUME TypeOK, HelpersInvariant, NEW f \in Fronts, Gather(f)
  PROVE  HelpersInvariant'
<1>t. /\ HelperTypes /\ LoweredAtWork /\ f \in Threads /\ 0 \in Threads
  BY Actors DEF HelpersInvariant
<1>1. /\ pc[f] = "gather" /\ idle' = [idle EXCEPT ![f] = TRUE]
      /\ UNCHANGED <<phase, helpers, frontptr, cursor>>
      /\ Goes(f, "empty")
  BY DEF Gather, Goto, Goes, frontVars, arguments
<1>2. /\ "gather" \notin Early /\ "gather" \in AtWork
      /\ "empty" \in Labels /\ "empty" \notin Early /\ "empty" \in AtWork
  BY DEF Early, AtWork, Labels
<1>3. f = 0 => phase'[0] = "work" /\ idle'[0]
  BY <1>t, <1>1, <1>2 DEF LoweredAtWork, HelperTypes
<1>4. /\ cursor' \in [Fronts -> Nat] /\ idle' \in [Threads -> BOOLEAN]
      /\ f # 0 => idle'[0] = idle[0]
  BY <1>t, <1>1 DEF HelperTypes
<1>5. Proceeds(f, "empty")
  BY <1>1, <1>2, <1>3, <1>4 DEF Proceeds
<1> QED
  BY <1>5, ProceedsKeeps

LEMMA RoundDoneKeeps ==
  ASSUME TypeOK, HelpersInvariant, NEW f \in Fronts, RoundDone(f)
  PROVE  HelpersInvariant'
<1>t. /\ HelperTypes /\ LoweredAtWork /\ f \in Threads /\ 0 \in Threads
  BY Actors DEF HelpersInvariant
<1>1. /\ pc[f] = "empty" /\ helpers[f] = 0
      /\ UNCHANGED <<idle, helpers, frontptr, cursor>>
      /\ Goes(f, "outside")
      /\ \A g \in Fronts \ {f} : phase'[g] = phase[g]
  BY DEF RoundDone, HelpersGone, EndWork, Go, TypeOK, Goto, Goes, arguments, sync
<1>2. /\ "empty" \notin Early
      /\ "outside" \in Labels /\ "outside" \notin Early /\ "outside" \notin AtWork
  BY DEF Early, AtWork, Labels
<1>3. f = 0 => Helpers = {} \/ idle'[0]
  BY <1>t, <1>1 DEF LoweredAtWork
<1>4. /\ cursor' \in [Fronts -> Nat] /\ idle' \in [Threads -> BOOLEAN]
  BY <1>t, <1>1 DEF HelperTypes
<1>5. Proceeds(f, "outside")
  BY <1>1, <1>2, <1>3, <1>4 DEF Proceeds
<1> QED
  BY <1>5, ProceedsKeeps

(* The phases between the rounds.                                          *)
LEMMA OutsideKeeps ==
  ASSUME TypeOK, HelpersInvariant, NEW f \in Fronts,
         \/ Move(f) /\ (AwaitAdvance(f) \/ PostBehind(f) \/ Pass(f))
         \/ InitFront(f) \/ AdvanceProgress(f) \/ DeinitFront(f) \/ Terminate(f)
  PROVE  HelpersInvariant'
<1>1. \E from, to : Go(f, from, to) /\ from \notin {"loop", "init"}
  BY DEF InitFront, AdvanceProgress, DeinitFront, Terminate, AwaitAdvance,
         PostBehind, Pass, Begin, Advance, Clear, End
<1>2. /\ pc[f] = "outside"
      /\ UNCHANGED <<nr_of_fronts, nr_of_threads, pc, idle, helpers, cursor, frontptr>>
  BY DEF Move, InitFront, AdvanceProgress, DeinitFront, Terminate, AwaitAdvance,
         AwaitFront, PostBehind, Pass, Begin, Advance, Clear, End, arguments, sync
<1>3. /\ phase[f] \notin {"loop", "init"}
      /\ \A g \in Fronts \ {f} : phase'[g] = phase[g]
  BY <1>1 DEF Go, TypeOK
<1> QED
  BY <1>2, <1>3, GoesOn

(* The front runner alone gets past initFront at first.                    *)
LEMMA BeginsKeep ==
  ASSUME TypeOK, HelpersInvariant, NEW f \in Fronts, Move(f),
         Loop(f) \/ AwaitBegin(f)
  PROVE  HelpersInvariant'
<1>t. /\ HelperTypes /\ StartsFirst /\ LoweredAtWork /\ AllCounted /\ f \in Threads
      /\ 0 \in Threads /\ 0 \in Fronts /\ nr_of_fronts \in Nat \ {0}
  BY Actors DEF HelpersInvariant, TypeOK
<1>1. /\ pc[f] = "outside"
      /\ UNCHANGED <<nr_of_fronts, nr_of_threads, pc, idle, helpers, cursor, frontptr,
                     exit, frontrunner, waiting>>
      /\ \/ Go(f, "loop", IF exit THEN "end" ELSE "init") /\ semaphore' = semaphore
         \/ AwaitBegin(f)
  BY DEF Move, Loop, AwaitBegin, AwaitFront, arguments, sync
<1>2. \A g \in Fronts \ {f} : phase'[g] = phase[g]
  BY <1>1 DEF AwaitBegin, Go, TypeOK
<1>3. Goes(f, pc[f]) /\ pc[f] \in Labels
  BY <1>t, <1>1, StaysPut
<1>4. Fronts' = Fronts /\ Threads' = Threads /\ Helpers' = Helpers
  BY <1>t, <1>3, GoesFacts
<1>5. HelperTypes'
  BY <1>t, <1>1, <1>4 DEF HelperTypes
<1>6. "outside" \notin Early /\ "outside" \notin AtWork
  BY DEF Early, AtWork
<1>7. StartsFirst'
  <2>1. pc'[0] # "start"
    BY <1>t, <1>1 DEF StartsFirst
  <2>2. ASSUME pc'[0] \in Early
        PROVE  /\ f # 0 /\ ~ exit /\ frontrunner = {0} /\ semaphore[Before(f)] = 0
               /\ Before(f) \in Fronts
    BY <1>t, <1>1, <1>6, <2>2, Neighbours DEF StartsFirst
  <2>3. ASSUME pc'[0] \in Early
        PROVE  semaphore' = semaphore /\ phase' = [phase EXCEPT ![f] = "init"]
    BY <1>1, <2>2, <2>3 DEF AwaitBegin, AwaitFront, Go
  <2>4. ASSUME pc'[0] \in Early
        PROVE  \A g \in Fronts : phase'[g] \in {"loop", "init"}
    BY <1>t, <1>1, <2>3, <2>4 DEF StartsFirst, TypeOK
  <2> QED
    BY <1>t, <1>1, <1>4, <2>1, <2>3, <2>4 DEF StartsFirst
<1>8. LoweredAtWork'
  BY <1>t, <1>1, <1>2, <1>4, <1>6 DEF LoweredAtWork
<1>9. AllCounted'
  BY <1>t, <1>1, <1>3, FrontCounts
<1> QED
  BY <1>5, <1>7, <1>8, <1>9 DEF HelpersInvariant

(* A step of front f to l during its start.                                *)
Starts(f, l) ==
  /\ Goes(f, l) /\ pc[f] \in Early /\ l \in (Early \ {"start"}) \union {"outside"}
  /\ UNCHANGED <<exit, frontrunner, semaphore, phase, helpers, frontptr, waiting>>
  /\ cursor' \in [Fronts -> Nat] /\ idle' \in [Threads -> BOOLEAN]
  /\ f = 0 => idle'[0] \/ l \in {"wake", "reset"}
  /\ f # 0 => idle'[0] = idle[0] /\ cursor' = cursor

LEMMA StartsKeeps ==
  ASSUME TypeOK, HelpersInvariant, NEW f \in Fronts, NEW l, Starts(f, l)
  PROVE  HelpersInvariant'
<1>t. /\ HelperTypes /\ StartsFirst /\ LoweredAtWork /\ AllCounted
      /\ f \in Threads /\ 0 \in Threads /\ 0 \in Fronts /\ Fronts \subseteq Threads
      /\ Helpers \subseteq Threads /\ \A h \in Helpers : h # f
  BY Actors DEF HelpersInvariant
<1>1. l \in Labels /\ l # "start" /\ l \notin AtWork /\ l \in Early \union {"outside"}
  BY DEF Starts, Early, AtWork, Labels
<1>2. /\ Fronts' = Fronts /\ Helpers' = Helpers /\ Threads' = Threads
      /\ pc' \in [Threads' -> Labels] /\ pc'[f] = l
      /\ \A u \in Threads : u # f => pc'[u] = pc[u]
  BY <1>t, <1>1, GoesFacts DEF Starts
<1>3. HelperTypes'
  BY <1>t, <1>2 DEF HelperTypes, Goes, Starts
<1>4. StartsFirst'
  <2>1. pc'[0] # "start"
    BY <1>t, <1>1, <1>2 DEF StartsFirst
  <2>2. pc'[0] \in Early => pc[0] \in Early
    BY <1>t, <1>2 DEF Starts
  <2> QED
    BY <1>t, <1>1, <1>2, <2>1, <2>2 DEF StartsFirst, Starts
<1>5. LoweredAtWork'
  <2>1. pc[f] \notin AtWork
    BY DEF Starts, Early, AtWork
  <2>2. pc'[0] \in AtWork => phase'[0] = "work"
    BY <1>t, <1>1, <1>2 DEF LoweredAtWork, Starts
  <2>3. Helpers # {} /\ ~ idle'[0] =>
          pc'[0] \in (AtWork \ {"rouse", "empty"}) \union {"wake", "reset"}
    BY <1>t, <1>2 DEF LoweredAtWork, Starts
  <2>4. ASSUME NEW g \in Fronts
        PROVE  /\ pc'[g] = "rouse" => Helpers # {}
               /\ pc'[g] \in {"draw", "signal"} => cursor'[g] \in Helpers
    <3>1. pc'[g] \in {"rouse", "draw", "signal"} => g # f /\ pc'[g] = pc[g]
      BY <1>t, <1>1, <1>2, <2>4 DEF AtWork
    <3>2. f = 0 => pc[g] \notin {"draw", "signal"}
      <4>1. pc[g] \in {"draw", "signal"} => pc[g] \notin Early \union {"outside"}
        BY DEF Early
      <4> QED
        BY <1>t, <4>1 DEF StartsFirst, Starts
    <3> QED
      BY <1>t, <1>2, <2>4, <3>1, <3>2 DEF LoweredAtWork, Starts
  <2> QED
    BY <1>2, <2>2, <2>3, <2>4 DEF LoweredAtWork
<1>6. AllCounted'
  <2>1. pc[f] \notin AtWork
    BY DEF Starts, Early, AtWork
  <2> QED
    BY <1>t, <1>1, <2>1, FrontCounts DEF Starts
<1> QED
  BY <1>3, <1>4, <1>5, <1>6 DEF HelpersInvariant

LEMMA SetupKeeps ==
  ASSUME TypeOK, HelpersInvariant, NEW f \in Fronts,
         (f = 0 /\ (Setup \/ Wake)) \/ Woken(f) \/ Reset(f)
  PROVE  HelpersInvariant'
<1>t. /\ HelperTypes /\ StartsFirst /\ LoweredAtWork /\ f \in Threads
      /\ 0 \in Threads /\ 0 \in Fronts
  BY Actors DEF HelpersInvariant
<1>0. cursor \in [Fronts -> Nat] /\ idle \in [Threads -> BOOLEAN]
  BY <1>t DEF HelperTypes
<1>1. UNCHANGED <<nr_of_fronts, nr_of_threads, exit, frontrunner, semaphore, phase,
                  helpers, frontptr, waiting>>
  BY DEF Setup, Wake, Woken, Reset, frontVars, arguments, sync
<1>2. CASE f = 0 /\ Setup
  <2>1. Goes(0, "wake") /\ pc[0] = "setup" /\ cursor' = cursor
        /\ idle' = [idle EXCEPT ![0] = FALSE]
    BY <1>1, <1>2 DEF Setup, Goto, Goes
  <2>2. Starts(f, "wake")
    BY <1>0, <1>1, <1>2, <2>1 DEF Starts, Early
  <2> QED
    BY <2>2, StartsKeeps
<1>3. CASE f = 0 /\ Wake
  <2>1. pc[0] = "wake"
    BY <1>3 DEF Wake
  <2>2. CASE cursor[0] + 1 < nr_of_fronts
    <3>1. /\ cursor' = [cursor EXCEPT ![0] = @ + 1]
          /\ idle' = [idle EXCEPT ![cursor[0] + 1] = FALSE]
          /\ pc' = pc
      BY <1>3, <2>2 DEF Wake
    <3>2. Goes(0, "wake")
      BY <1>t, <1>1, <2>1, <3>1, StaysPut
    <3>3. cursor' \in [Fronts -> Nat] /\ idle' \in [Threads -> BOOLEAN]
      <4>1. cursor[0] + 1 \in Nat /\ cursor' = [cursor EXCEPT ![0] = cursor[0] + 1]
        BY <1>t, <1>0, <3>1
      <4>2. cursor' \in [Fronts -> Nat]
        BY <1>0, <4>1
      <4>3. idle' \in [Threads -> BOOLEAN]
        BY <1>0, <3>1
      <4> QED
        BY <4>2, <4>3
    <3>4. Starts(f, "wake")
      BY <1>1, <1>3, <2>1, <3>2, <3>3 DEF Starts, Early
    <3> QED
      BY <3>4, StartsKeeps
  <2>3. CASE ~ (cursor[0] + 1 < nr_of_fronts)
    <3>1. /\ cursor' = [cursor EXCEPT ![0] = 0] /\ idle' = idle
          /\ Goes(0, "reset")
      BY <1>1, <1>3, <2>3 DEF Wake, Goto, Goes
    <3>2. cursor' \in [Fronts -> Nat] /\ idle' \in [Threads -> BOOLEAN]
      BY <1>t, <1>0, <3>1
    <3>3. Starts(f, "reset")
      BY <1>1, <1>3, <2>1, <3>1, <3>2 DEF Starts, Early
    <3> QED
      BY <3>3, StartsKeeps
  <2> QED
    BY <2>2, <2>3
<1>4. CASE Woken(f)
  <2>1. Goes(f, "reset") /\ pc[f] = "start" /\ cursor' = cursor /\ idle' = idle
    BY <1>1, <1>4 DEF Woken, Goto, Goes, sync
  <2>2. f # 0
    BY <1>t, <2>1 DEF StartsFirst
  <2>3. Starts(f, "reset")
    BY <1>0, <1>1, <2>1, <2>2 DEF Starts, Early
  <2> QED
    BY <2>3, StartsKeeps
<1>5. CASE Reset(f)
  <2>1. Goes(f, "outside") /\ pc[f] = "reset" /\ cursor' = cursor
        /\ idle' = [idle EXCEPT ![f] = TRUE]
    BY <1>1, <1>5 DEF Reset, Goto, Goes
  <2>2. idle' \in [Threads -> BOOLEAN] /\ (f = 0 => idle'[0])
        /\ (f # 0 => idle'[0] = idle[0])
    BY <1>t, <1>0, <2>1
  <2>3. Starts(f, "outside")
    BY <1>0, <1>1, <2>1, <2>2 DEF Starts, Early
  <2> QED
    BY <2>3, StartsKeeps
<1> QED
  BY <1>2, <1>3, <1>4, <1>5

(* The helpers.                                                            *)
Helps(h, l) ==
  /\ l \in Labels /\ Goes(h, l) /\ (pc[h] # "start" \/ h \notin waiting)
  /\ UNCHANGED <<phase, frontrunner, semaphore, cursor>>
  /\ idle' \in [Threads -> BOOLEAN] /\ idle'[0] = idle[0]
  /\ helpers' \in [Fronts -> Int] /\ frontptr' \in [Helpers -> Fronts]
  /\ \A k \in Helpers \ {h} : frontptr'[k] = frontptr[k]

LEMMA HelpsKeeps ==
  ASSUME TypeOK, HelpersInvariant, NEW h \in Helpers, NEW l, Helps(h, l)
  PROVE  /\ HelperTypes' /\ StartsFirst' /\ LoweredAtWork'
         /\ Fronts' = Fronts /\ Helpers' = Helpers /\ pc'[h] = l /\ pc'[0] = pc[0]
         /\ \A k \in Helpers \ {h} : pc'[k] = pc[k]
<1>t. /\ HelperTypes /\ StartsFirst /\ LoweredAtWork
      /\ h \in Threads /\ 0 \in Threads /\ 0 \in Fronts /\ h # 0
      /\ Fronts \subseteq Threads /\ Helpers \subseteq Threads
      /\ \A k \in Helpers : k \notin Fronts
  BY Actors DEF HelpersInvariant
<1>1. /\ Fronts' = Fronts /\ Helpers' = Helpers /\ Threads' = Threads
      /\ pc' \in [Threads' -> Labels] /\ pc'[h] = l
      /\ \A u \in Threads : u # h => pc'[u] = pc[u]
  BY <1>t, GoesFacts DEF Helps
<1>2. HelperTypes'
  BY <1>t, <1>1 DEF HelperTypes, Goes, Helps
<1>3. StartsFirst'
  BY <1>t, <1>1 DEF StartsFirst, Helps
<1>4. LoweredAtWork'
  BY <1>t, <1>1 DEF LoweredAtWork, Helps
<1> QED
  BY <1>t, <1>1, <1>2, <1>3, <1>4

(* ... inside or outside as before,                                        *)
LEMMA RemainsKeeps ==
  ASSUME TypeOK, HelpersInvariant, NEW h \in Helpers, NEW l, Helps(h, l),
         helpers' = helpers,
         Inside(h)' <=> Inside(h), Inside(h) => frontptr' = frontptr
  PROVE  HelpersInvariant'
<1>1. /\ HelperTypes' /\ StartsFirst' /\ LoweredAtWork'
      /\ Fronts' = Fronts /\ Helpers' = Helpers /\ pc'[0] = pc[0]
      /\ \A k \in Helpers \ {h} : pc'[k] = pc[k] /\ frontptr'[k] = frontptr[k]
  BY HelpsKeeps DEF Helps
<1>2. \A k \in Helpers \ {h} : Inside(k)' <=> Inside(k)
  BY <1>1 DEF Inside, Helping
<1>3. ASSUME NEW g PROVE InsideOf(g)' = InsideOf(g)
  BY <1>1, <1>2 DEF InsideOf
<1>4. AllCounted'
  BY <1>1, <1>3 DEF AllCounted, HelpersInvariant
<1> QED
  BY <1>1, <1>4 DEF HelpersInvariant

LEMMA HelperStays ==
  ASSUME TypeOK, HelpersInvariant, NEW h \in Helpers,
         Look(h) \/ Help(h) \/ CheckStates(h) \/ Doze(h) \/ Nap(h) \/ Awake(h)
         \/ (Come(h) /\ idle[frontptr[h]])
  PROVE  HelpersInvariant'
<1>t. /\ HelperTypes /\ h \in Threads /\ h # 0 /\ h \notin Fronts
      /\ nr_of_fronts \in Nat \ {0} /\ Fronts = 0 .. nr_of_fronts - 1
  BY Actors DEF HelpersInvariant, TypeOK, Fronts
<1>0. /\ idle \in [Threads -> BOOLEAN] /\ helpers \in [Fronts -> Int]
      /\ frontptr \in [Helpers -> Fronts]
  BY <1>t DEF HelperTypes
<1>1. ASSUME NEW l \in {"doze", "look"}, Elsewhere(h), UNCHANGED <<phase, frontrunner,
               semaphore, cursor, idle, helpers, nr_of_fronts, nr_of_threads>>,
               pc[h] \in {"look", "come"}, Goto(h, l)
      PROVE  HelpersInvariant'
  <2>1. (frontptr[h] + 1) % nr_of_fronts \in Fronts
    BY <1>t, <1>0
  <2>2. /\ frontptr' \in [Helpers -> Fronts]
        /\ \A k \in Helpers \ {h} : frontptr'[k] = frontptr[k]
    BY <1>0, <1>1, <2>1 DEF Elsewhere
  <2>3. Helps(h, l)
    BY <1>t, <1>0, <1>1, <2>2 DEF Helps, Goto, Goes, Labels
  <2>4. pc'[h] = l
    BY <2>3, HelpsKeeps
  <2>5. ~ Inside(h)' /\ ~ Inside(h)
    BY <1>1, <2>4 DEF Inside, Helping
  <2> QED
    BY <1>1, <2>3, <2>5, RemainsKeeps
<1>2. ASSUME NEW l \in Labels, Goto(h, l),
             UNCHANGED <<phase, frontrunner, semaphore, cursor, helpers, frontptr,
                         nr_of_fronts, nr_of_threads>>,
             idle' \in [Threads -> BOOLEAN], idle'[0] = idle[0],
             pc[h] # "start" \/ h \notin waiting,
             (l = "leave" \/ l \in Checking \union {"help"}) <=>
               (pc[h] = "leave" \/ pc[h] \in Checking \union {"help"})
      PROVE  HelpersInvariant'
  <2>1. Helps(h, l)
    BY <1>0, <1>2 DEF Helps, Goto, Goes
  <2>2. pc'[h] = l
    BY <2>1, HelpsKeeps
  <2>3. Inside(h)' <=> Inside(h)
    BY <1>2, <2>2 DEF Inside, Helping, Checking
  <2> QED
    BY <1>2, <2>1, <2>3, RemainsKeeps
<1>3. CASE Look(h)
  <2>1. /\ pc[h] = "look"
        /\ UNCHANGED <<phase, frontrunner, semaphore, cursor, idle, helpers,
                       nr_of_fronts, nr_of_threads>>
    BY <1>3 DEF Look, frontVars, arguments
  <2>2. CASE exit \/ ~ idle[frontptr[h]]
    <3>1. frontptr' = frontptr /\ (Goto(h, "done") \/ Goto(h, "come"))
      BY <1>3, <2>2 DEF Look
    <3> QED
      BY <1>0, <1>2, <2>1, <3>1 DEF Checking, Labels
  <2>3. CASE ~ (exit \/ ~ idle[frontptr[h]])
    <3>1. Elsewhere(h)
      BY <1>3, <2>3 DEF Look
    <3>2. Goto(h, "doze") \/ Goto(h, "look")
      BY <3>1 DEF Elsewhere
    <3> QED
      BY <1>1, <2>1, <3>1, <3>2
  <2> QED
    BY <2>2, <2>3
<1>4. CASE Come(h) /\ idle[frontptr[h]]
  <2>1. /\ pc[h] = "come" /\ Elsewhere(h)
        /\ UNCHANGED <<phase, frontrunner, semaphore, cursor, idle, helpers,
                       nr_of_fronts, nr_of_threads>>
    BY <1>4 DEF Come, frontVars, arguments
  <2>2. Goto(h, "doze") \/ Goto(h, "look")
    BY <2>1 DEF Elsewhere
  <2> QED
    BY <1>1, <2>1, <2>2
<1>5. CASE Help(h)
  <2>1. /\ pc[h] = "help" /\ (Goto(h, "leave") \/ Goto(h, "pop"))
        /\ UNCHANGED <<phase, frontrunner, semaphore, cursor, idle, helpers, frontptr,
                       nr_of_fronts, nr_of_threads>>
    BY <1>5 DEF Help, frontVars, arguments, sync
  <2>2. "leave" \in Labels /\ "pop" \in Labels /\ "pop" \in Checking
    BY DEF Labels, AtWork, Checking
  <2> QED
    BY <1>0, <1>2, <2>1, <2>2
<1>6. CASE CheckStates(h)
  <2>1. /\ pc[h] \in Checking
        /\ UNCHANGED <<nr_of_fronts, nr_of_threads, phase, frontrunner, semaphore,
                       idle, helpers, cursor, frontptr, waiting>>
    BY <1>t, <1>6, ChecksOn
  <2>2. PICK l \in Checking \union {Return(h)} : Goes(h, l)
    BY <1>t, <1>6, ChecksOn
  <2>3. Return(h) = "leave"
    BY DEF Return
  <2>4. l \in Labels /\ pc[h] # "start" /\ Goto(h, l)
    BY <2>1, <2>2, <2>3 DEF Labels, AtWork, Checking, Goto, Goes
  <2> QED
    BY <1>0, <1>2, <2>1, <2>2, <2>3, <2>4
<1>7. CASE Doze(h)
  <2>1. /\ pc[h] = "doze" /\ (Goto(h, "nap") \/ Goto(h, "look"))
        /\ idle' = idle \/ idle' = [idle EXCEPT ![h] = FALSE]
        /\ UNCHANGED <<phase, frontrunner, semaphore, cursor, helpers, frontptr,
                       nr_of_fronts, nr_of_threads>>
    BY <1>7 DEF Doze, frontVars, arguments
  <2>2. 0 \in Threads \ {h}
    BY <1>t, Actors
  <2>3. idle' \in [Threads -> BOOLEAN] /\ idle'[0] = idle[0]
    <3>1. FALSE \in BOOLEAN
      OBVIOUS
    <3>2. /\ [idle EXCEPT ![h] = FALSE] \in [Threads -> BOOLEAN]
          /\ \A u \in Threads \ {h} : [idle EXCEPT ![h] = FALSE][u] = idle[u]
      BY <1>t, <1>0, <3>1, OneFlag
    <3>3. CASE idle' = [idle EXCEPT ![h] = FALSE]
      BY <2>2, <3>2, <3>3, Zenon
    <3> QED
      BY <1>0, <2>1, <3>3, Zenon
  <2> QED
    BY <1>2, <2>1, <2>3 DEF Checking, Labels
<1>8. CASE Nap(h)
  <2>1. /\ pc[h] = "nap" /\ (Goto(h, "asleep") \/ Goto(h, "look"))
        /\ idle' = [idle EXCEPT ![h] = TRUE]
        /\ UNCHANGED <<phase, frontrunner, semaphore, cursor, helpers, frontptr,
                       nr_of_fronts, nr_of_threads>>
    BY <1>8 DEF Nap, frontVars, arguments
  <2>2. 0 \in Threads \ {h}
    BY <1>t, Actors
  <2>3. idle' \in [Threads -> BOOLEAN] /\ idle'[0] = idle[0]
    <3>1. TRUE \in BOOLEAN
      OBVIOUS
    <3>2. /\ [idle EXCEPT ![h] = TRUE] \in [Threads -> BOOLEAN]
          /\ \A u \in Threads \ {h} : [idle EXCEPT ![h] = TRUE][u] = idle[u]
      BY <1>t, <1>0, <3>1, OneFlag
    <3> QED
      BY <2>1, <2>2, <3>2, Zenon
  <2> QED
    BY <1>2, <2>1, <2>3 DEF Checking, Labels
<1>9. CASE Awake(h)
  <2>1. /\ pc[h] \in {"start", "asleep"} /\ h \notin waiting
        /\ Goto(h, "look") \/ pc' = pc
        /\ UNCHANGED <<phase, frontrunner, semaphore, cursor, idle, helpers, frontptr,
                       nr_of_fronts, nr_of_threads>>
    BY <1>9 DEF Awake, frontVars, arguments
  <2>2. Goto(h, "look") \/ Goto(h, pc[h])
    BY <1>t, <2>1, StaysPut DEF Goto, Goes
  <2>3. pc[h] \in Labels /\ "look" \in Labels
    BY <1>t DEF HelperTypes, Labels
  <2> QED
    BY <1>0, <1>2, <2>1, <2>2, <2>3 DEF Checking
<1> QED
  BY <1>3, <1>4, <1>5, <1>6, <1>7, <1>8, <1>9

(* ... coming in: the flag was down under the lock ...                     *)
LEMMA HelperComes ==
  ASSUME TypeOK, HelpersInvariant, NEW h \in Helpers, Come(h), ~ idle[frontptr[h]]
  PROVE  HelpersInvariant'
<1>t. /\ HelperTypes /\ StartsFirst /\ LoweredAtWork /\ AllCounted
      /\ 0 \in Fronts /\ IsFiniteSet(Helpers)
  BY Actors DEF HelpersInvariant
<1> DEFINE here == frontptr[h]
<1>1. /\ pc[h] = "come" /\ here \in Fronts
      /\ helpers' = [helpers EXCEPT ![here] = @ + 1]
      /\ Goto(h, "help") /\ frontptr' = frontptr
      /\ UNCHANGED <<phase, frontrunner, semaphore, cursor, idle,
                     nr_of_fronts, nr_of_threads>>
  BY <1>t DEF Come, frontVars, arguments, HelperTypes
<1>2. Helps(h, "help")
  BY <1>t, <1>1 DEF Helps, Goto, Goes, Labels, HelperTypes
<1>3. /\ HelperTypes' /\ StartsFirst' /\ LoweredAtWork'
      /\ Fronts' = Fronts /\ Helpers' = Helpers /\ pc'[h] = "help" /\ pc'[0] = pc[0]
      /\ \A k \in Helpers \ {h} : pc'[k] = pc[k]
  BY <1>2, HelpsKeeps
<1>4. \A k \in Helpers \ {h} : Inside(k)' <=> Inside(k)
  BY <1>3 DEF Inside, Helping
<1>5. Inside(h)' /\ ~ Inside(h)
  BY <1>1, <1>3 DEF Inside, Helping
<1>6. /\ InsideOf(here)' = InsideOf(here) \union {h} /\ h \notin InsideOf(here)
      /\ \A g \in Fronts \ {here} : InsideOf(g)' = InsideOf(g)
  BY <1>1, <1>3, <1>4, <1>5 DEF InsideOf
<1>7. Cardinality(InsideOf(here)') = Cardinality(InsideOf(here)) + 1
  <2>1. IsFiniteSet(InsideOf(here))
    BY <1>t, FS_Subset DEF InsideOf
  <2> QED
    BY <1>6, <2>1, FS_AddElement
<1>8. \A g \in Fronts : helpers'[g] = Cardinality(InsideOf(g)')
  BY <1>t, <1>1, <1>6, <1>7 DEF AllCounted, HelperTypes
<1>9. InsideOf(0)' # {} => pc'[0] \in AtWork
  <2>1. CASE here = 0
    <3>1. pc[0] \notin Early
      BY <1>t, <1>1 DEF StartsFirst
    <3>2. pc[0] \in AtWork
      BY <1>t, <2>1, <3>1 DEF LoweredAtWork, Early
    <3> QED
      BY <1>3, <3>2
  <2>2. CASE here # 0
    BY <1>t, <1>3, <1>6, <2>2 DEF AllCounted
  <2> QED
    BY <2>1, <2>2
<1> QED
  BY <1>3, <1>8, <1>9 DEF AllCounted, HelpersInvariant

(* ... and leaving.                                                        *)
LEMMA HelperLeaves ==
  ASSUME TypeOK, HelpersInvariant, NEW h \in Helpers, Leave(h)
  PROVE  HelpersInvariant'
<1>t. /\ HelperTypes /\ AllCounted /\ 0 \in Fronts /\ IsFiniteSet(Helpers)
      /\ nr_of_fronts \in Nat \ {0} /\ h \in Nat
  BY Actors DEF HelpersInvariant, TypeOK, Helpers
<1>h. PICK here \in Fronts : here = frontptr[h]
  BY <1>t DEF HelperTypes
<1>0. Home(h) \in Fronts
  BY <1>t DEF Home, Fronts
<1>1. /\ pc[h] = "leave"
      /\ helpers' = [helpers EXCEPT ![here] = @ - 1]
      /\ Goto(h, "look")
      /\ frontptr' = [frontptr EXCEPT ![h] = IF call[h] THEN Home(h) ELSE @]
      /\ UNCHANGED <<phase, frontrunner, semaphore, cursor, idle,
                     nr_of_fronts, nr_of_threads>>
  BY <1>h DEF Leave, frontVars, arguments
<1>2. Helps(h, "look")
  BY <1>t, <1>0, <1>1, <1>h DEF Helps, Goto, Goes, Labels, HelperTypes
<1>3. /\ HelperTypes' /\ StartsFirst' /\ LoweredAtWork'
      /\ Fronts' = Fronts /\ Helpers' = Helpers /\ pc'[h] = "look" /\ pc'[0] = pc[0]
      /\ \A k \in Helpers \ {h} : pc'[k] = pc[k] /\ frontptr'[k] = frontptr[k]
  BY <1>2, HelpsKeeps DEF Helps
<1>4. \A k \in Helpers \ {h} : Inside(k)' <=> Inside(k)
  BY <1>3 DEF Inside, Helping
<1>5. ~ Inside(h)' /\ Inside(h)
  BY <1>1, <1>3 DEF Inside, Helping
<1>6. /\ InsideOf(here)' = InsideOf(here) \ {h} /\ h \in InsideOf(here)
      /\ \A g \in Fronts \ {here} : InsideOf(g)' = InsideOf(g)
  BY <1>1, <1>3, <1>4, <1>5, <1>h DEF InsideOf
<1>7. Cardinality(InsideOf(here)') = Cardinality(InsideOf(here)) - 1
  <2>1. IsFiniteSet(InsideOf(here))
    BY <1>t, FS_Subset DEF InsideOf
  <2> QED
    BY <1>6, <2>1, FS_RemoveElement
<1>8. \A g \in Fronts : helpers'[g] = Cardinality(InsideOf(g)')
  BY <1>t, <1>1, <1>6, <1>7 DEF AllCounted, HelperTypes
<1>9. InsideOf(0)' # {} => pc'[0] \in AtWork
  <2>1. InsideOf(0)' \subseteq InsideOf(0)
    BY <1>t, <1>6
  <2> QED
    BY <1>t, <1>3, <2>1 DEF AllCounted
<1> QED
  BY <1>3, <1>8, <1>9 DEF AllCounted, HelpersInvariant

LEMMA FrontKeeps ==
  ASSUME TypeOK, HelpersInvariant, NEW f \in Fronts, FrontThread(f)
  PROVE  HelpersInvariant'
<1>1. CASE (f = 0 /\ (Setup \/ Wake)) \/ Woken(f) \/ Reset(f)
  BY <1>1, SetupKeeps
<1>2. CASE Move(f)
  <2>1. CASE Loop(f) \/ AwaitBegin(f)
    BY <1>2, <2>1, BeginsKeep
  <2>2. CASE AwaitAdvance(f) \/ PostBehind(f) \/ Pass(f)
    BY <1>2, <2>2, OutsideKeeps
  <2> QED
    BY <1>2, <2>1, <2>2 DEF Move
<1>3. CASE InitFront(f) \/ AdvanceProgress(f) \/ DeinitFront(f) \/ Terminate(f)
  BY <1>3, OutsideKeeps
<1>4. CASE Round(f)
  BY <1>4, RoundKeeps
<1>5. CASE Rouse(f) \/ Draw(f) \/ SignalAll(f)
  BY <1>5, RouseKeeps
<1>6. CASE CheckStates(f)
  BY <1>6, FrontChecks
<1>7. CASE Gather(f)
  BY <1>7, GatherKeeps
<1>8. CASE RoundDone(f)
  BY <1>8, RoundDoneKeeps
<1> QED
  BY <1>1, <1>2, <1>3, <1>4, <1>5, <1>6, <1>7, <1>8 DEF FrontThread

LEMMA HelpersStep == TypeOK /\ HelpersInvariant /\ [Next]_vars => HelpersInvariant'
<1> SUFFICES ASSUME TypeOK, HelpersInvariant, [Next]_vars
             PROVE  HelpersInvariant'
  OBVIOUS
<1>1. CASE UNCHANGED vars \/ Join \/ Over
  <2>1. UNCHANGED <<nr_of_fronts, nr_of_threads, phase, frontrunner, semaphore, exit,
                    pc, idle, helpers, cursor, frontptr, waiting>>
    BY <1>1 DEF Over, Join, vars, frontVars, arguments, sync
  <2> QED
    BY <2>1
    DEF HelpersInvariant, HelperTypes, StartsFirst, LoweredAtWork, AllCounted, InsideOf,
        Inside, Helping, Fronts, Threads, Helpers
<1>2. ASSUME NEW t \in Threads, Step(t)
      PROVE  HelpersInvariant'
  <2>1. CASE t \in Fronts
    BY <1>2, <2>1, FrontKeeps DEF Step
  <2>2. CASE t \notin Fronts
    <3>1. t \in Helpers
      BY <1>2, <2>2, Actors DEF HelpersInvariant
    <3>2. HelperThread(t)
      BY <1>2, <2>2 DEF Step
    <3> QED
      BY <3>1, <3>2, HelperStays, HelperComes, HelperLeaves DEF HelperThread
  <2> QED
    BY <2>1, <2>2
<1> QED
  BY <1>1, <1>2 DEF Next

LEMMA HelpersInit == Init => HelpersInvariant
<1> SUFFICES ASSUME Init PROVE HelpersInvariant
  OBVIOUS
<1>1. TypeOK /\ FrontsInit
  BY InitTypes DEF Init
<1>2. nr_of_threads \in Nat /\ nr_of_threads >= nr_of_fronts
  BY MeasureAssumption DEF Init
<1>3. /\ nr_of_fronts \in Nat \ {0} /\ 0 \in Fronts /\ 0 \in Threads
      /\ Helpers \subseteq Threads /\ 0 \notin Helpers
      /\ \A h \in Helpers : Home(h) \in Fronts
  BY <1>1, <1>2 DEF TypeOK, Fronts, Threads, Helpers, Home
<1>4. \A h \in Helpers : pc[h] = "start" /\ h \in waiting
  BY <1>3 DEF Init
<1>5. HelperTypes
  BY <1>2, <1>3 DEF HelperTypes, Init, Labels, Early
<1>6. StartsFirst
  <2>1. \A f \in Fronts : f \in Threads
    BY <1>2, <1>3 DEF Fronts, Threads, TypeOK
  <2>2. pc[0] = "setup" /\ \A f \in Fronts : pc[f] \in Early
    BY <1>3, <2>1 DEF Init, Early
  <2>3. \A f \in Fronts : semaphore[f] = 0 /\ phase[f] = "loop"
    BY <1>1 DEF FrontsInit
  <2>4. ~ exit /\ frontrunner = {0}
    BY <1>1 DEF FrontsInit
  <2> QED
    BY <1>4, <2>2, <2>3, <2>4 DEF StartsFirst
<1>7. LoweredAtWork
  BY <1>2, <1>3 DEF LoweredAtWork, Init, AtWork, Threads, Fronts
<1>8. AllCounted
  <2>1. \A f : InsideOf(f) = {}
    BY <1>4 DEF InsideOf, Inside, Helping
  <2> QED
    BY <2>1, FS_EmptySet DEF AllCounted, Init
<1> QED
  BY <1>5, <1>6, <1>7, <1>8 DEF HelpersInvariant

(* A helper takes markings from the first front's stores, or puts them     *)
(* there, only while that front deals with markings of its current value:  *)
(* its flag is raised before it waits for the helpers who are counted      *)
(* under the lock (Sweep.inc:553, 715).                                    *)
THEOREM HelpersStayInside == Spec => []HelpersInsideFirst
<1>1. FrontsInvariant /\ HelpersInvariant /\ [Next]_vars
        => FrontsInvariant' /\ HelpersInvariant'
  BY NextMoves, NextInvariant, HelpersStep DEF FrontsInvariant
<1>2. Init => FrontsInvariant /\ HelpersInvariant
  BY InitInvariant, HelpersInit DEF Init
<1>3. HelpersInvariant => HelpersInsideFirst
  BY DEF HelpersInvariant, HelpersInsideFirst, HelpersInside, AllCounted, InsideOf,
         Inside, LoweredAtWork
<1> QED
  BY <1>1, <1>2, <1>3, PTL DEF Spec

(***************************************************************************)
(* The slots of a ring.                                                    *)
(***************************************************************************)

(* Where a slot is, without the remainder.                                 *)
LEMMA SlotAt ==
  ASSUME NEW r, r.active \in Slots, NEW o \in Int,
         - store_size <= o, o <= store_size
  PROVE  Slot(r, o) = IF r.active + o < 0 THEN r.active + o + store_size
                      ELSE IF r.active + o < store_size THEN r.active + o
                      ELSE r.active + o - store_size
<1> DEFINE n == store_size
           x == r.active + n + o
<1>1. n \in Nat /\ n >= 1 /\ r.active \in 0 .. n - 1
  BY Sizes DEF Slots
<1>2. x \in Nat /\ x % n \in 0 .. n - 1 /\ x \div n \in Int /\ x = (x \div n) * n + (x % n)
  <2>1. x \in Nat
    BY <1>1
  <2> HIDE DEF x, n
  <2> QED
    BY <1>1, <2>1
<1>3. x < 3 * n
  BY <1>1
<1>4. PICK q, y : q = x \div n /\ y = x % n
  OBVIOUS
<1>5. q \in Int /\ y \in 0 .. n - 1 /\ x = q * n + y /\ x \in Nat /\ x < 3 * n
  BY <1>2, <1>3, <1>4
<1>6. q = 0 \/ q = 1 \/ q = 2
  <2> HIDE DEF x, n
  <2>1. CASE q < 0
    <3>1. PICK d \in Nat : q = - 1 - d
      <4>1. - 1 - q \in Nat /\ q = - 1 - (- 1 - q)
        BY <1>5, <2>1
      <4> QED
        BY <4>1
    <3>2. q * n = - n - d * n /\ d * n \in Nat
      BY <1>1, <3>1
    <3> QED
      BY <1>1, <1>5, <3>2
  <2>2. CASE q > 2
    <3>1. PICK d \in Nat : q = 3 + d
      <4>1. q - 3 \in Nat /\ q = 3 + (q - 3)
        BY <1>5, <2>2
      <4> QED
        BY <4>1
    <3>2. q * n = 3 * n + d * n /\ d * n \in Nat
      BY <1>1, <3>1
    <3> QED
      BY <1>1, <1>5, <3>2
  <2> QED
    BY <1>5, <2>1, <2>2
<1>7. y = x \/ y = x - n \/ y = x - 2 * n
  <2> HIDE DEF x, n
  <2> QED
    BY <1>1, <1>5, <1>6
<1>8. Slot(r, o) = y
  BY <1>4 DEF Slot
<1> QED
  BY <1>1, <1>5, <1>7, <1>8

(* Different offsets have different slots.                                 *)
LEMMA SlotsDiffer ==
  ASSUME NEW r, r.active \in Slots
  PROVE  /\ \A o \in Offsets : Slot(r, o) \in Slots
         /\ \A o, p \in Offsets : Slot(r, o) = Slot(r, p) => o = p
         /\ Slot(r, 0) = r.active
         /\ Slot(r, front_offset + 1) = Slot(r, - back_offset)
<1>1. /\ \A o \in Offsets : o \in Int /\ - store_size <= o /\ o <= store_size
      /\ r.active \in 0 .. store_size - 1 /\ store_size \in Nat
      /\ front_offset \in Nat /\ back_offset \in Nat
      /\ back_offset + front_offset + 1 = store_size
  BY Sizes DEF Offsets, Slots
<1>2. \A o \in Offsets :
        Slot(r, o) = IF r.active + o < 0 THEN r.active + o + store_size
                      ELSE IF r.active + o < store_size THEN r.active + o
                      ELSE r.active + o - store_size
  BY <1>1, SlotAt
<1>3. \A o, p \in Offsets : Slot(r, o) = Slot(r, p) => o = p
  <2> SUFFICES ASSUME NEW o \in Offsets, NEW p \in Offsets, Slot(r, o) = Slot(r, p)
               PROVE  o = p
    OBVIOUS
  <2>1. o \in - back_offset .. front_offset /\ p \in - back_offset .. front_offset
    BY DEF Offsets
  <2> QED
    BY <1>1, <1>2, <2>1
<1>4. \A o \in Offsets : Slot(r, o) \in Slots
  <2> SUFFICES ASSUME NEW o \in Offsets PROVE Slot(r, o) \in 0 .. store_size - 1
    BY DEF Slots
  <2> QED
    BY <1>1, <1>2
<1>5. Slot(r, 0) = r.active
  <2>1. 0 \in Offsets
    BY <1>1 DEF Offsets
  <2> QED
    BY <1>1, <1>2, <2>1
<1>6. Slot(r, front_offset + 1) = Slot(r, - back_offset)
  BY <1>1, SlotAt
<1> QED
  BY <1>3, <1>4, <1>5, <1>6

(* An offset after the next slot has become the current one.               *)
LEMMA SlotMoves ==
  ASSUME NEW r, NEW s, r.active \in Slots, s.active = Slot(r, 1), NEW o \in Offsets
  PROVE  Slot(s, o) = Slot(r, o + 1) /\ s.active \in Slots
<1>1. /\ o \in Int /\ - back_offset <= o /\ o <= front_offset
      /\ r.active \in 0 .. store_size - 1 /\ store_size \in Nat
      /\ front_offset \in Nat /\ back_offset \in Nat
      /\ back_offset + front_offset + 1 = store_size
  BY Sizes DEF Offsets, Slots
<1>2. s.active = IF r.active + 1 < store_size THEN r.active + 1 ELSE r.active + 1 - store_size
  BY <1>1, SlotAt
<1>3. s.active \in Slots
  BY <1>1, <1>2 DEF Slots
<1>4. Slot(s, o) = IF s.active + o < 0 THEN s.active + o + store_size
                   ELSE IF s.active + o < store_size THEN s.active + o
                   ELSE s.active + o - store_size
  BY <1>1, <1>3, SlotAt
<1>5. Slot(r, o + 1) = IF r.active + (o + 1) < 0 THEN r.active + (o + 1) + store_size
                   ELSE IF r.active + (o + 1) < store_size THEN r.active + (o + 1)
                   ELSE r.active + (o + 1) - store_size
  BY <1>1, SlotAt
<1> QED
  BY <1>1, <1>2, <1>3, <1>4, <1>5

(* A ring whose slots stay where they are.                                 *)
SameSlots(r, s) == s.place = r.place /\ s.active = r.active /\ s.linked = r.linked

(* A change of contents leaves every slot and every place where it is.     *)
LEMMA SlotsStay ==
  ASSUME NEW r, NEW s, SameSlots(r, s)
  PROVE  /\ \A o : Slot(s, o) = Slot(r, o) /\ PlaceOf(s, o) = PlaceOf(r, o)
         /\ Linked(s) = Linked(r)
BY DEF SameSlots, Slot, PlaceOf, Linked

(* What a ring must hold for its new contents to be in place.              *)
LEMMA ContentsChange ==
  ASSUME NEW r \in Rings, NEW s, SameSlots(r, s), InPlace(r),
         Belongs(s.samevalue, PlaceOf(r, 0)),
         \A o \in Offsets :
           /\ Belongs(s.store[Slot(r, o)], PlaceOf(r, 0) + o)
           /\ o < - transient_offset => s.store[Slot(r, o)] = {}
  PROVE  InPlace(s)
BY SlotsStay DEF InPlace

(* The places in reach of a ring are numbers.                              *)
LEMMA PlaceIsInt ==
  ASSUME NEW r \in Rings
  PROVE  /\ r.active \in Slots /\ PlaceOf(r, 0) \in Int
         /\ \A o \in Offsets : PlaceOf(r, o) \in Int
         /\ 0 \in Offsets /\ \A o \in Offsets : o \in Int
<1>1. r.active \in Slots /\ r.place \in [Slots -> Int]
  BY DEF Rings
<1>2. 0 \in Offsets /\ \A o \in Offsets : o \in Int
  BY Sizes DEF Offsets
<1> QED
  BY <1>1, <1>2, SlotsDiffer DEF PlaceOf

(* The marking at the current place that is popped ...                     *)
LEMMA RingPops ==
  ASSUME NEW r \in Rings, NEW m, InPlace(r)
  PROVE  LET s == [r EXCEPT !.store[r.active] = @ \ {m}]
         IN  s \in Rings /\ SameSlots(r, s) /\ InPlace(s)
<1> DEFINE s == [r EXCEPT !.store[r.active] = @ \ {m}]
<1>1. r.active \in Slots /\ r.store \in [Slots -> SUBSET Markings]
  BY DEF Rings
<1>2. s \in Rings /\ SameSlots(r, s) /\ s.samevalue = r.samevalue
  BY <1>1 DEF Rings, SameSlots
<1>3. \A i \in Slots : s.store[i] \subseteq r.store[i]
  BY <1>1 DEF Rings
<1> HIDE DEF s
<1>4. \A o \in Offsets : s.store[Slot(r, o)] \subseteq r.store[Slot(r, o)]
  BY <1>1, <1>3, SlotsDiffer
<1>5. InPlace(s)
  BY <1>2, <1>4, ContentsChange DEF InPlace, Belongs
<1> QED
  BY <1>2, <1>5 DEF s

(* ... goes to the swap space.                                             *)
LEMMA RingKeeps ==
  ASSUME NEW r \in Rings, NEW m \in Markings, InPlace(r), PlaceFor(m) = PlaceOf(r, 0)
  PROVE  LET s == [r EXCEPT !.samevalue = @ \union {m}]
         IN  s \in Rings /\ SameSlots(r, s) /\ InPlace(s) /\ s.store = r.store
<1> DEFINE s == [r EXCEPT !.samevalue = @ \union {m}]
<1>2. s \in Rings /\ SameSlots(r, s) /\ s.samevalue = r.samevalue \union {m}
      /\ s.store = r.store
  BY DEF Rings, SameSlots
<1> HIDE DEF s
<1>5. InPlace(s)
  BY <1>2, ContentsChange DEF InPlace, Belongs
<1> QED
  BY <1>2, <1>5 DEF s

(* An insertion, of a marking that belongs to the place, into a store that *)
(* need not be forgotten.                                                  *)
LEMMA RingInserts ==
  ASSUME NEW r \in Rings, NEW m \in Markings, NEW o \in Offsets, NEW where,
         InPlace(r), PlaceFor(m) = PlaceOf(r, 0) + o,
         where = "new" \/ (o >= 0 /\ transient_offset \in Nat)
  PROVE  LET s == Insert(r, where, o, m)
         IN  /\ s \in Rings /\ SameSlots(r, s) /\ InPlace(s)
             /\ o # 0 \/ where = "new" => s.store[r.active] = r.store[r.active]
<1> DEFINE s == Insert(r, where, o, m)
<1>1. /\ r.active \in Slots /\ r.store \in [Slots -> SUBSET Markings]
      /\ Slot(r, o) \in Slots /\ 0 \in Offsets /\ r.active = Slot(r, 0)
      /\ Slot(r, 0) = Slot(r, o) => o = 0
      /\ \A p \in Offsets : Slot(r, p) = Slot(r, o) => p = o
      /\ \A p \in Offsets : Slot(r, p) \in Slots
  BY PlaceIsInt, SlotsDiffer DEF Rings
<1>2. CASE where = "new"
  <2>1. s = [r EXCEPT !.new_persistent_empty = FALSE]
    BY <1>2 DEF Insert
  <2>2. s \in Rings /\ SameSlots(r, s) /\ s.samevalue = r.samevalue /\ s.store = r.store
    BY <2>1 DEF Rings, SameSlots
  <2> HIDE DEF s
  <2>3. InPlace(s)
    BY <2>2, ContentsChange DEF InPlace
  <2> QED
    BY <2>2, <2>3 DEF s
<1>3. CASE where # "new"
  <2>1. s = [r EXCEPT !.store[Slot(r, o)] = @ \union {m}]
    BY <1>3 DEF Insert
  <2>2. /\ s \in Rings /\ SameSlots(r, s) /\ s.samevalue = r.samevalue
        /\ s.store = [r.store EXCEPT ![Slot(r, o)] = @ \union {m}]
    BY <1>1, <2>1 DEF Rings, SameSlots
  <2>3. o >= 0 /\ transient_offset \in Nat
    BY <1>3
  <2> HIDE DEF s
  <2>4. ASSUME NEW p \in Offsets
        PROVE  /\ Belongs(s.store[Slot(r, p)], PlaceOf(r, 0) + p)
               /\ p < - transient_offset => s.store[Slot(r, p)] = {}
    <3>1. CASE p = o
      <4>1. s.store[Slot(r, p)] = r.store[Slot(r, p)] \union {m}
        BY <1>1, <2>2, <3>1
      <4>2. o \in Int
        BY PlaceIsInt
      <4> QED
        BY <2>3, <3>1, <4>1, <4>2 DEF InPlace, Belongs
    <3>2. CASE p # o
      <4>1. s.store[Slot(r, p)] = r.store[Slot(r, p)]
        BY <1>1, <2>2, <3>2
      <4> QED
        BY <4>1 DEF InPlace
    <3> QED
      BY <3>1, <3>2
  <2>5. InPlace(s)
    BY <2>2, <2>4, ContentsChange DEF InPlace
  <2>6. o # 0 => s.store[r.active] = r.store[r.active]
    BY <1>1, <2>2
  <2> QED
    BY <1>3, <2>2, <2>5, <2>6 DEF s
<1> QED
  BY <1>2, <1>3

(* clear leaves an empty ring, linked as it was.                           *)
LEMMA RingEmpties ==
  ASSUME NEW r \in Rings
  PROVE  LET s == Emptied(r)
         IN  /\ s \in Rings /\ SameSlots(r, s) /\ Blank(s) /\ s.store[s.active] = {}
             /\ InPlace(r) => InPlace(s)
<1> DEFINE s == Emptied(r)
<1>1. /\ s \in Rings /\ SameSlots(r, s) /\ Blank(s)
      /\ s.samevalue = {} /\ s.active \in Slots /\ \A i \in Slots : s.store[i] = {}
  BY DEF Rings, SameSlots, Emptied, Blank
<1> HIDE DEF s
<1>2. \A o \in Offsets : s.store[Slot(r, o)] = {}
  BY <1>1, PlaceIsInt, SlotsDiffer
<1>3. InPlace(r) => InPlace(s)
  BY <1>1, <1>2, ContentsChange DEF Belongs
<1> QED
  BY <1>1, <1>3 DEF s

(* A ring is linked: it is empty, or has been linked with the same places. *)
LEMMA RingLinks ==
  ASSUME NEW r \in Rings, NEW start \in Int,
         Linked(r) => InPlace(r), ~ Linked(r) => Blank(r),
         Blank(r) \/ (r.active = back_offset /\ r.place = [i \in Slots |-> start + i])
  PROVE  LET s == Link(r, start)
         IN  /\ s \in Rings /\ Linked(s) /\ InPlace(s)
             /\ PlaceOf(s, 0) = start + back_offset
             /\ s.active = back_offset /\ s.place = [i \in Slots |-> start + i]
             /\ Blank(r) => Blank(s)
             /\ ~ Blank(r) => s.store = r.store /\ r.active = s.active
<1> DEFINE s == Link(r, start)
<1>1. back_offset \in Slots /\ back_offset \in Nat /\ front_offset \in Nat
      /\ store_size \in Nat /\ back_offset = store_size - front_offset - 1
  BY Sizes DEF Slots
<1>2. /\ s.active = back_offset /\ s.place = [i \in Slots |-> start + i] /\ s.linked
      /\ s.store = r.store /\ s.samevalue = r.samevalue
  BY <1>1 DEF Link, Rings, back_offset
<1>3. s \in Rings
  <2>1. s = [r EXCEPT !.place = [i \in Slots |-> start + i], !.linked = TRUE,
                      !.active = back_offset, !.new_persistent_empty = TRUE]
    BY DEF Link, back_offset
  <2>2. [i \in Slots |-> start + i] \in [Slots -> Int]
    BY DEF Slots
  <2> HIDE DEF s
  <2> QED
    BY <1>1, <2>1, <2>2 DEF Rings
<1> HIDE DEF s
<1>4. PlaceOf(s, 0) = start + back_offset
  BY <1>1, <1>2, SlotsDiffer DEF PlaceOf
<1>5. CASE Blank(r)
  <2>1. Blank(s)
    BY <1>2, <1>5 DEF Blank
  <2>2. ASSUME NEW o \in Offsets
        PROVE  PlaceOf(s, o) = PlaceOf(s, 0) + o /\ Slot(s, o) \in Slots
    <3>1. o \in Int /\ - back_offset <= o /\ o <= front_offset
      BY <1>1 DEF Offsets
    <3>2. Slot(s, o) = back_offset + o
      BY <1>1, <1>2, <3>1, SlotAt
    <3>3. back_offset + o \in Slots
      <4>1. back_offset + o \in Int /\ 0 <= back_offset + o /\ back_offset + o <= store_size - 1
        BY <1>1, <3>1
      <4> QED
        BY <1>1, <4>1 DEF Slots
    <3> QED
      BY <1>1, <1>2, <1>4, <3>1, <3>2, <3>3 DEF PlaceOf
  <2>3. InPlace(s)
    BY <2>1, <2>2 DEF InPlace, Blank, Belongs
  <2> QED
    BY <1>2, <1>3, <1>4, <1>5, <2>1, <2>3 DEF s, Linked
<1>6. CASE ~ Blank(r)
  <2>1. SameSlots(r, s) /\ InPlace(r)
    <3>1. r.linked
      BY <1>6 DEF Linked
    <3> QED
      BY <1>2, <1>6, <3>1 DEF SameSlots, Linked
  <2>2. InPlace(s)
    BY <1>2, <2>1, ContentsChange DEF InPlace
  <2> QED
    BY <1>2, <1>3, <1>4, <1>6, <2>2 DEF s, Linked
<1> QED
  BY <1>5, <1>6

(* The window moves on by one place: what has been dealt with stays for    *)
(* transient_offset steps, and the slot that is linked anew is empty.      *)
LEMMA RingAdvances ==
  ASSUME NEW r \in Rings, InPlace(r), transient_offset \in 0 .. back_offset,
         r.store[r.active] = {}
  PROVE  LET s == Advanced(r, transient_offset)
         IN  /\ s \in Rings /\ s.linked = r.linked /\ InPlace(s)
             /\ PlaceOf(s, 0) = PlaceOf(r, 0) + 1
<1> DEFINE to == transient_offset
           back == Slot(r, - to)
           next == Slot(r, front_offset + 1)
           p == PlaceOf(r, 0)
           s == Advanced(r, to)
<1>1. /\ to \in Nat /\ to <= back_offset /\ back_offset \in Nat /\ front_offset \in Nat
      /\ r.active \in Slots /\ p \in Int
      /\ - to \in Offsets /\ 0 \in Offsets /\ - back_offset \in Offsets /\ front_offset \in Offsets
      /\ \A o \in Offsets : o \in Int /\ Slot(r, o) \in Slots
      /\ \A o, q \in Offsets : Slot(r, o) = Slot(r, q) => o = q
      /\ Slot(r, 0) = r.active
      /\ next = Slot(r, - back_offset)
  <2>1. to \in Nat /\ to <= back_offset /\ back_offset \in Nat /\ front_offset \in Nat
    BY Sizes
  <2>2. - to \in Offsets /\ 0 \in Offsets /\ - back_offset \in Offsets /\ front_offset \in Offsets
    BY <2>1 DEF Offsets
  <2> QED
    BY <2>1, <2>2, PlaceIsInt, SlotsDiffer
<1>2. /\ s.active = Slot(r, 1) /\ s.samevalue = {} /\ s.linked = r.linked
      /\ s.place = [r.place EXCEPT ![next] = p + front_offset + 1]
      /\ s.store = IF to = 0 THEN r.store
                   ELSE [r.store EXCEPT ![back] = r.store[r.active], ![r.active] = r.samevalue]
  <2>1. NextPlace(r) = p + front_offset + 1
    BY <1>1 DEF NextPlace, InPlace
  <2> QED
    BY <2>1 DEF Advanced, Rings
<1>3. s.active \in Slots /\ \A o \in Offsets : Slot(s, o) = Slot(r, o + 1)
  <2> HIDE DEF s
  <2> QED
    BY <1>1, <1>2, SlotMoves
<1>4. s \in Rings
  <2>1. s.store \in [Slots -> SUBSET Markings]
    <3>1. r.store \in [Slots -> SUBSET Markings] /\ r.samevalue \in SUBSET Markings
      BY DEF Rings
    <3>2. back \in Slots
      BY <1>1
    <3> HIDE DEF s, back, to
    <3> QED
      BY <1>1, <1>2, <3>1, <3>2
  <2>2. s.place \in [Slots -> Int]
    <3>1. r.place \in [Slots -> Int] /\ p + front_offset + 1 \in Int
      BY <1>1 DEF Rings
    <3> HIDE DEF s, p, next
    <3> QED
      BY <1>2, <3>1
  <2>3. PICK K, P, A : /\ K = s.store /\ P = s.place /\ A = s.active
                       /\ s = [r EXCEPT !.store = K, !.samevalue = {}, !.place = P, !.active = A]
    <3>1. \E K, P, A : s = [r EXCEPT !.store = K, !.samevalue = {}, !.place = P, !.active = A]
      BY DEF Advanced
    <3>2. PICK K, P, A : s = [r EXCEPT !.store = K, !.samevalue = {}, !.place = P, !.active = A]
      BY <3>1
    <3> HIDE DEF s
    <3>3. s.store = K /\ s.place = P /\ s.active = A
      BY <3>2 DEF Rings
    <3> QED
      BY <3>2, <3>3
  <2> HIDE DEF s
  <2> QED
    BY <1>3, <2>1, <2>2, <2>3 DEF Rings
<1> HIDE DEF s, back, next, p, to
<1>5. ASSUME NEW o \in Offsets PROVE PlaceOf(s, o) = p + 1 + o
  <2>1. CASE o = front_offset
    <3>1. Slot(s, o) = next
      BY <1>1, <1>3, <2>1 DEF next
    <3>2. next \in Slots /\ r.place \in [Slots -> Int]
      BY <1>1 DEF Rings
    <3>3. s.place[next] = p + front_offset + 1
      BY <1>2, <3>2
    <3>4. PlaceOf(s, o) = p + front_offset + 1
      BY <3>1, <3>3 DEF PlaceOf
    <3> QED
      BY <1>1, <2>1, <3>4
  <2>2. CASE o # front_offset
    <3>1. o + 1 \in Offsets /\ o + 1 # - back_offset
      BY <1>1, <2>2 DEF Offsets
    <3>2. Slot(r, o + 1) # next
      BY <1>1, <3>1
    <3>3. PlaceOf(s, o) = PlaceOf(r, o + 1)
      BY <1>1, <1>2, <1>3, <3>1, <3>2 DEF PlaceOf, Rings
    <3>4. PlaceOf(r, o + 1) = p + (o + 1)
      BY <3>1 DEF InPlace, p
    <3> QED
      BY <1>1, <3>3, <3>4
  <2> QED
    BY <2>1, <2>2
<1>6. ASSUME NEW o \in Offsets
      PROVE  /\ Belongs(s.store[Slot(s, o)], p + 1 + o)
             /\ o < - to => s.store[Slot(s, o)] = {}
  <2>1. CASE o = front_offset
    <3>1. Slot(s, o) = Slot(r, - back_offset)
      BY <1>1, <1>3, <2>1 DEF next
    <3>2. s.store[Slot(r, - back_offset)] = {}
      <4>1. CASE to = 0 /\ back_offset = 0
        <5>1. Slot(r, front_offset + 1) = r.active
          <6>1. /\ front_offset + 1 = store_size /\ store_size \in Nat
                /\ r.active \in 0 .. store_size - 1
            BY <1>1, <4>1, Sizes DEF Slots
          <6>2. PICK d \in Int : d = store_size /\ - store_size <= d /\ d <= store_size
            BY <6>1
          <6>3. Slot(r, d) = IF r.active + d < 0 THEN r.active + d + store_size
                      ELSE IF r.active + d < store_size THEN r.active + d
                      ELSE r.active + d - store_size
            BY <1>1, <6>2, SlotAt
          <6>4. Slot(r, d) = r.active
            BY <6>1, <6>2, <6>3
          <6> QED
            BY <6>1, <6>2, <6>4
        <5> QED
          BY <1>1, <1>2, <4>1, <5>1 DEF next
      <4>2. CASE to = 0 /\ back_offset # 0
        <5>1. - back_offset < - to
          BY <1>1, <4>2
        <5> QED
          BY <1>1, <1>2, <4>2, <5>1 DEF InPlace, to
      <4>3. CASE to # 0 /\ to = back_offset
        <5>1. back = Slot(r, - back_offset) /\ back \in Slots /\ back # r.active
          <6>1. - to # 0
            BY <1>1, <4>3
          <6> QED
            BY <1>1, <4>3, <6>1 DEF back
        <5> QED
          BY <1>1, <1>2, <4>3, <5>1 DEF Rings
      <4>4. CASE to # 0 /\ to # back_offset
        <5>1. - back_offset < - to /\ - back_offset # 0 /\ - back_offset # - to
          BY <1>1, <4>4
        <5>2. Slot(r, - back_offset) # back /\ Slot(r, - back_offset) # r.active
          BY <1>1, <5>1 DEF back
        <5>3. r.store[Slot(r, - back_offset)] = {}
          BY <1>1, <5>1 DEF InPlace, to
        <5> QED
          BY <1>1, <1>2, <4>4, <5>2, <5>3 DEF Rings
      <4> QED
        BY <4>1, <4>2, <4>3, <4>4
    <3> QED
      BY <3>1, <3>2 DEF Belongs
  <2>2. CASE o # front_offset
    <3>1. o + 1 \in Offsets /\ o \in Int /\ Slot(s, o) = Slot(r, o + 1)
      BY <1>1, <1>3, <2>2 DEF Offsets
    <3>2. CASE to = 0 \/ (o + 1 # 0 /\ o + 1 # - to)
      <4>1. s.store[Slot(s, o)] = r.store[Slot(r, o + 1)]
        <5>1. CASE to = 0
          BY <1>2, <3>1, <5>1
        <5>2. CASE to # 0
          <6>1. Slot(r, o + 1) # back /\ Slot(r, o + 1) # r.active
            BY <1>1, <3>1, <3>2, <5>2 DEF back
          <6> QED
            BY <1>1, <1>2, <3>1, <5>2, <6>1 DEF Rings
        <5> QED
          BY <5>1, <5>2
      <4>2. Belongs(r.store[Slot(r, o + 1)], p + (o + 1))
        BY <3>1 DEF InPlace, p
      <4>3. p + (o + 1) = p + 1 + o
        BY <1>1, <3>1
      <4>4. o < - to => r.store[Slot(r, o + 1)] = {}
        <5>1. CASE o + 1 < - to
          BY <3>1, <5>1 DEF InPlace, to
        <5>2. CASE ~ (o + 1 < - to)
          <6>1. o < - to => to = 0 /\ o + 1 = 0
            BY <1>1, <3>1, <3>2, <5>2
          <6> QED
            BY <1>1, <6>1
        <5> QED
          BY <5>1, <5>2
      <4> QED
        BY <4>1, <4>2, <4>3, <4>4
    <3>3. CASE to # 0 /\ o + 1 = 0
      <4>1. Slot(s, o) = r.active
        BY <1>1, <3>1, <3>3
      <4>2. back # r.active /\ back \in Slots
        <5>1. - to # 0
          BY <1>1, <3>3
        <5> QED
          BY <1>1, <5>1 DEF back
      <4>3. s.store[r.active] = r.samevalue
        BY <1>1, <1>2, <3>3, <4>2 DEF Rings
      <4>4. p + 1 + o = p /\ ~ (o < - to)
        BY <1>1, <3>1, <3>3
      <4> QED
        BY <4>1, <4>3, <4>4 DEF InPlace, p
    <3>4. CASE to # 0 /\ o + 1 # 0 /\ o + 1 = - to
      <4>1. Slot(s, o) = back
        BY <3>1, <3>4 DEF back
      <4>2. back # r.active /\ back \in Slots
        <5>1. - to # 0
          BY <1>1, <3>4
        <5> QED
          BY <1>1, <5>1 DEF back
      <4>3. s.store[back] = {}
        BY <1>1, <1>2, <3>4, <4>2 DEF Rings
      <4> QED
        BY <4>1, <4>3 DEF Belongs
    <3> QED
      BY <3>2, <3>3, <3>4
  <2> QED
    BY <2>1, <2>2
<1>7. PlaceOf(s, 0) = p + 1
  BY <1>1, <1>5
<1>8. InPlace(s)
  BY <1>2, <1>5, <1>6, <1>7 DEF InPlace, Belongs, to
<1> QED
  BY <1>2, <1>4, <1>7, <1>8 DEF s, p, to

(***************************************************************************)
(* A step of a front: the other fronts and the helpers stay.               *)
(***************************************************************************)
KeepsOthers(f) ==
  /\ UNCHANGED <<nr_of_fronts, nr_of_threads, transient_offset, frontptr>>
  /\ exit => exit'
  /\ \A u \in Threads \ {f} : pc'[u] = pc[u]
  /\ \A g \in Fronts \ {f} :
       /\ phase'[g] = phase[g] /\ at'[g] = at[g] /\ ring'[g] = ring[g]
       /\ g \in frontrunner => g \in frontrunner'

(* Every step of a front is such a step.                                   *)
LEMMA OthersKept ==
  ASSUME TypeOK, HelperTypes, ring \in [Fronts -> Rings], NEW f \in Fronts,
         FrontThread(f)
  PROVE  KeepsOthers(f)
<1>t. /\ phase \in [Fronts -> Phases] /\ at \in [Fronts -> Int]
      /\ pc \in [Threads -> Labels] /\ f \in Threads
  BY Actors DEF TypeOK, HelperTypes
<1>1. CASE f = 0 /\ (Setup \/ Wake)
  BY <1>t, <1>1 DEF KeepsOthers, Setup, Wake, Goto, frontVars, arguments, stores
<1>2. CASE Woken(f) \/ Reset(f) \/ Rouse(f) \/ Draw(f) \/ SignalAll(f) \/ Gather(f)
  <2>1. /\ UNCHANGED <<frontVars, arguments, stores, frontptr>>
        /\ \A u \in Threads \ {f} : pc'[u] = pc[u]
    BY <1>t, <1>2 DEF Woken, Reset, Rouse, Draw, SignalAll, Gather, Goto, sync
  <2> QED
    BY <2>1 DEF KeepsOthers, frontVars, arguments, stores
<1>3. CASE Move(f)
  <2>1. UNCHANGED <<nr_of_fronts, nr_of_threads, transient_offset, frontptr, pc, ring>>
    BY <1>3 DEF Move, arguments, stores, sync, Loop, AwaitBegin, AwaitAdvance, AwaitFront,
                PostBehind, Pass
  <2>2. /\ exit' = exit /\ at' = at /\ frontrunner \subseteq frontrunner'
        /\ \A g \in Fronts \ {f} : phase'[g] = phase[g]
    BY <1>t, <1>3 DEF Move, Go, Loop, AwaitBegin, AwaitAdvance, AwaitFront, PostBehind, Pass
  <2> QED
    BY <2>1, <2>2 DEF KeepsOthers
<1>4. CASE InitFront(f)
  BY <1>t, <1>4 DEF KeepsOthers, InitFront, Begin, Go, arguments, sync
<1>5. CASE Round(f)
  BY <1>t, <1>5 DEF KeepsOthers, Round, Test, Go, arguments, stores, sync
<1>6. CASE CheckStates(f)
  <2>1. FrontOf(f) = f
    BY DEF FrontOf
  <2>2. /\ UNCHANGED <<nr_of_fronts, nr_of_threads, transient_offset, frontptr, phase, at,
                       frontrunner>>
        /\ exit => exit'
    <3>1. CASE SolutionFound(f)
      BY <3>1 DEF SolutionFound, Found, arguments, sync
    <3>2. CASE Pop(f) \/ PopNew(f) \/ Store(f) \/ Ask(f)
      <4>1. UNCHANGED <<frontVars, arguments, sync>>
        BY <3>2 DEF Pop, PopNew, Store, Ask
      <4> QED
        BY <4>1 DEF frontVars, arguments, sync
    <3> QED
      BY <1>6, <3>1, <3>2 DEF CheckStates
  <2>3. \A u \in Threads \ {f} : pc'[u] = pc[u]
    BY <1>t, <1>6 DEF CheckStates, Pop, PopNew, Store, SolutionFound, Ask, Goto
  <2>4. \A g \in Fronts \ {f} : ring'[g] = ring[g]
    BY <1>6, <2>1 DEF CheckStates, Pop, PopNew, Store, SolutionFound, Ask, stores
  <2> QED
    BY <2>2, <2>3, <2>4 DEF KeepsOthers
<1>7. CASE RoundDone(f)
  BY <1>t, <1>7 DEF KeepsOthers, RoundDone, EndWork, Go, Goto, arguments, sync
<1>8. CASE AdvanceProgress(f)
  BY <1>t, <1>8 DEF KeepsOthers, AdvanceProgress, Advance, Go, arguments, sync
<1>9. CASE DeinitFront(f)
  BY <1>t, <1>9 DEF KeepsOthers, DeinitFront, Clear, OverWhenCleared, Go, arguments, sync
<1>10. CASE Terminate(f)
  BY <1>t, <1>10 DEF KeepsOthers, Terminate, End, Go, arguments, stores
<1> QED
  BY <1>1, <1>2, <1>3, <1>4, <1>5, <1>6, <1>7, <1>8, <1>9, <1>10 DEF FrontThread

(* So the same helpers are inside of each front.                           *)
LEMMA InsideKept ==
  ASSUME TypeOK, HelperTypes, NEW f \in Fronts, KeepsOthers(f)
  PROVE  /\ Fronts' = Fronts /\ Helpers' = Helpers /\ Threads' = Threads
         /\ \A g : InsideOf(g)' = InsideOf(g)
<1>1. Fronts' = Fronts /\ Helpers' = Helpers /\ Threads' = Threads
  BY DEF KeepsOthers, Fronts, Helpers, Threads
<1>2. \A h \in Helpers : h # f /\ h \in Threads
  BY Actors
<1>3. \A h \in Helpers : pc'[h] = pc[h]
  BY <1>2 DEF KeepsOthers
<1>4. ASSUME NEW g PROVE InsideOf(g)' = InsideOf(g)
  BY <1>1, <1>3 DEF InsideOf, Inside, Helping, KeepsOthers
<1> QED
  BY <1>1, <1>4

(***************************************************************************)
(* The rings stay under the helpers' hands.                                *)
(***************************************************************************)
LEMMA OtherRingStays ==
  ASSUME NEW g, RingStays(g), pc'[g] = pc[g], phase'[g] = phase[g],
         Linked(ring[g])' = Linked(ring[g]), idle'[g] = idle[g], exit => exit',
         Helpers' = Helpers, InsideOf(g)' \subseteq InsideOf(g),
         pc'[0] \in {"setup", "wake"} =>
           pc[0] \in {"setup", "wake"} /\ cursor'[0] = cursor[0]
  PROVE  RingStays(g)'
BY DEF RingStays

(* A front that stays outside, and goes to a phase in which its ring does  *)
(* not move, or has nobody inside.                                         *)
LEMMA OutsideRingStays ==
  ASSUME NEW f, RingStays(f), pc[f] = "outside", pc'[f] = pc[f], Helpers' = Helpers,
         pc'[0] \in {"setup", "wake"} =>
           pc[0] \in {"setup", "wake"} /\ cursor'[0] = cursor[0],
         idle'[f] = idle[f], InsideOf(f)' = InsideOf(f),
         InsideOf(f) # {} =>
           /\ phase'[f] \notin {"wait", "advance", "post"}
           /\ ~ exit' => /\ phase'[f] \notin {"clear", "pass"}
                         /\ phase'[f] \in {"loop", "init", "begin"} => ~ Linked(ring[f])'
  PROVE  RingStays(f)'
<1>1. "outside" \notin Early /\ "outside" \notin AtWork
  BY DEF Early, AtWork
<1> QED
  BY <1>1 DEF RingStays

(* A front that stays at work.                                             *)
LEMMA WorkRingStays ==
  ASSUME NEW f, RingStays(f), pc[f] \in AtWork, NEW l \in AtWork, pc'[f] = l,
         Helpers' = Helpers,
         phase'[f] = phase[f], InsideOf(f)' = InsideOf(f),
         pc'[0] \in {"setup", "wake"} =>
           pc[0] \in {"setup", "wake"} /\ cursor'[0] = cursor[0],
         l \in {"rouse", "empty"} => Helpers = {} \/ idle'[f]
  PROVE  RingStays(f)'
<1>1. l \notin Early /\ pc[f] # "start"
  BY DEF Early, AtWork
<1>2. phase[f] = "work"
  BY DEF RingStays
<1> QED
  BY <1>1, <1>2 DEF RingStays

(* All but the first front at its start leave the others' flags alone.     *)
WakesNobody(f) ==
  /\ \A g \in Fronts \ {f} : idle'[g] = idle[g] /\ cursor'[g] = cursor[g]
  /\ pc'[f] \in {"setup", "wake"} =>
       pc[f] \in {"setup", "wake"} /\ cursor'[f] = cursor[f]

(* The other fronts' rings stay, whatever such a step does to its own.     *)
LEMMA OtherRingsStay ==
  ASSUME TypeOK, HelperTypes, \A g \in Fronts : RingStays(g), NEW f \in Fronts,
         KeepsOthers(f), WakesNobody(f)
  PROVE  /\ \A g \in Fronts \ {f} : RingStays(g)'
         /\ pc'[0] \in {"setup", "wake"} =>
              pc[0] \in {"setup", "wake"} /\ cursor'[0] = cursor[0]
<1>1. /\ Helpers' = Helpers /\ \A g : InsideOf(g)' = InsideOf(g)
      /\ 0 \in Fronts /\ Fronts \subseteq Threads
  BY InsideKept, Actors
<1>2. pc'[0] \in {"setup", "wake"} =>
        pc[0] \in {"setup", "wake"} /\ cursor'[0] = cursor[0]
  BY <1>1 DEF KeepsOthers, WakesNobody
<1>3. ASSUME NEW g \in Fronts \ {f} PROVE RingStays(g)'
  <2>1. /\ pc'[g] = pc[g] /\ phase'[g] = phase[g] /\ ring'[g] = ring[g]
        /\ idle'[g] = idle[g] /\ (exit => exit')
    BY <1>1 DEF KeepsOthers, WakesNobody
  <2> QED
    BY <1>1, <1>2, <2>1, OtherRingStays DEF Linked
<1> QED
  BY <1>2, <1>3

(* What the lemmas on the single steps start from.                         *)
Crew(f) ==
  /\ TypeOK /\ HelpersInvariant /\ f \in Fronts /\ KeepsOthers(f)
  /\ ring \in [Fronts -> Rings]
  /\ \A g \in Fronts : RingStays(g)

(* What follows from that at once.                                         *)
LEMMA CrewFacts ==
  ASSUME NEW f, Crew(f)
  PROVE  /\ f \in Fronts /\ f \in Threads /\ 0 \in Fronts /\ 0 \in Threads
         /\ Fronts \subseteq Threads /\ Helpers \subseteq Threads
         /\ \A h \in Helpers : h \notin Fronts
         /\ Fronts' = Fronts /\ Helpers' = Helpers /\ Threads' = Threads
         /\ \A g : InsideOf(g)' = InsideOf(g)
         /\ HelperTypes /\ TypeOK /\ StartsFirst /\ LoweredAtWork /\ AllCounted
         /\ pc \in [Threads -> Labels] /\ idle \in [Threads -> BOOLEAN]
         /\ cursor \in [Fronts -> Nat] /\ phase \in [Fronts -> Phases]
         /\ \A g \in Fronts : RingStays(g)
BY Actors, InsideKept DEF Crew, HelpersInvariant, HelperTypes, TypeOK

(* The front stays outside.                                                *)
LEMMA RingStaysOutside ==
  ASSUME NEW f \in Fronts, Crew(f),
         Move(f) \/ InitFront(f) \/ AdvanceProgress(f) \/ DeinitFront(f)
         \/ Terminate(f) \/ (Round(f) /\ exit)
  PROVE  \A g \in Fronts : RingStays(g)'
<1> USE CrewFacts
<1>1. pc[f] = "outside" /\ pc' = pc /\ UNCHANGED <<idle, cursor>>
  BY DEF Move, InitFront, AdvanceProgress, DeinitFront, Terminate, Round, sync
<1>2. WakesNobody(f)
  BY <1>1 DEF WakesNobody
<1>3. InsideOf(f) # {} =>
        /\ phase'[f] \notin {"wait", "advance", "post"}
        /\ ~ exit' => /\ phase'[f] \notin {"clear", "pass"}
                      /\ phase'[f] \in {"loop", "init", "begin"} => ~ Linked(ring[f])'
  <2> SUFFICES ASSUME InsideOf(f) # {}
      PROVE  /\ phase'[f] \notin {"wait", "advance", "post"}
             /\ ~ exit' => /\ phase'[f] \notin {"clear", "pass"}
                           /\ phase'[f] \in {"loop", "init", "begin"} => ~ Linked(ring[f])'
    OBVIOUS
  <2>0. /\ phase[f] \notin {"wait", "advance", "post"}
        /\ ~ exit => /\ phase[f] \notin {"clear", "pass"}
                     /\ phase[f] \in {"loop", "init", "begin"} => ~ Linked(ring[f])
    BY DEF RingStays
  <2>1. CASE Move(f)
    <3>1. ring' = ring /\ exit' = exit
      BY <2>1 DEF Move, stores, Loop, AwaitBegin, AwaitAdvance, AwaitFront, PostBehind, Pass
    <3>2. \/ phase[f] = "loop" /\ phase'[f] \in {"init", "end"}
          \/ phase[f] = "init" /\ phase'[f] = "begin"
          \/ phase[f] = "wait"
          \/ phase[f] = "post"
          \/ phase[f] = "pass" /\ phase'[f] = "loop"
      BY <2>1 DEF Move, Go, Loop, AwaitBegin, AwaitAdvance, PostBehind, Pass
    <3> QED
      BY <2>0, <3>1, <3>2 DEF Linked
  <2>2. CASE InitFront(f)
    BY <2>2 DEF InitFront, Begin, Go
  <2>3. CASE AdvanceProgress(f)
    <3>1. phase[f] = "advance"
      BY <2>3 DEF AdvanceProgress, Advance, Go
    <3> QED
      BY <2>0, <3>1
  <2>4. CASE DeinitFront(f)
    <3>1. phase[f] = "clear" /\ (exit => exit') /\ phase'[f] \in {"pass", "loop"}
      BY <2>4 DEF DeinitFront, Clear, OverWhenCleared, Go
    <3> QED
      BY <2>0, <3>1
  <2>5. CASE Terminate(f)
    BY <2>5 DEF Terminate, End, Go
  <2>6. CASE Round(f) /\ exit
    BY <2>6 DEF Round, Test, Go
  <2> QED
    BY <2>1, <2>2, <2>3, <2>4, <2>5, <2>6
<1>4. RingStays(f)'
  BY <1>1, <1>2, <1>3, OtherRingsStay, OutsideRingStays DEF Crew
<1> QED
  BY <1>2, <1>4, OtherRingsStay DEF Crew

(* A round begins: the flag of a front with helpers is still up ...         *)
LEMMA RingStaysRound ==
  ASSUME NEW f \in Fronts, Crew(f), Round(f), ~ exit
  PROVE  \A g \in Fronts : RingStays(g)'
<1> USE CrewFacts
<1>1. /\ pc[f] = "outside" /\ UNCHANGED <<idle, cursor>> /\ phase'[f] = "work"
      /\ pc'[f] = IF Helpers = {} THEN "pop" ELSE "rouse"
  BY DEF Round, Test, Go, sync
<1>2. WakesNobody(f)
  BY <1>1 DEF WakesNobody
<1>3. pc'[f] \notin Early /\ "outside" \notin Early /\ "outside" \notin AtWork
      /\ "pop" \in AtWork
  BY <1>1 DEF Early, AtWork
<1>4. RingStays(f)'
  BY <1>1, <1>2, <1>3, OtherRingsStay DEF RingStays, Crew
<1> QED
  BY <1>2, <1>4, OtherRingsStay DEF Crew

(* ... and ends: it is up again, and nobody is inside.                      *)
LEMMA RingStaysDone ==
  ASSUME NEW f \in Fronts, Crew(f), RoundDone(f)
  PROVE  \A g \in Fronts : RingStays(g)'
<1> USE CrewFacts
<1>1. /\ pc[f] = "empty" /\ UNCHANGED <<idle, cursor>> /\ pc'[f] = "outside"
      /\ helpers[f] = 0
  BY DEF RoundDone, HelpersGone, Goto, sync
<1>2. WakesNobody(f)
  BY <1>1 DEF WakesNobody
<1>3. InsideOf(f)' = {}
  BY <1>1, NobodyInside
<1>4. "outside" \notin Early /\ "outside" \notin AtWork /\ "empty" \notin Early
  BY DEF Early, AtWork
<1>5. RingStays(f)'
  BY <1>1, <1>2, <1>3, <1>4, OtherRingsStay DEF RingStays, Crew
<1> QED
  BY <1>2, <1>5, OtherRingsStay DEF Crew

(* The front is at work.                                                   *)
LEMMA RingStaysAtWork ==
  ASSUME NEW f \in Fronts, Crew(f),
         Rouse(f) \/ Draw(f) \/ SignalAll(f) \/ CheckStates(f) \/ Gather(f)
  PROVE  \A g \in Fronts : RingStays(g)'
<1> USE CrewFacts
<1>1. phase' = phase
  <2>1. CASE CheckStates(f)
    BY <2>1, ChecksOn
  <2>2. CASE ~ CheckStates(f)
    BY <2>2 DEF Rouse, Draw, SignalAll, Gather, frontVars
  <2> QED
    BY <2>1, <2>2
<1>2. CASE Rouse(f)
  <2>1. /\ pc[f] = "rouse" /\ pc'[f] \in {"draw", "signal"}
        /\ \A g \in Fronts \ {f} : idle'[g] = idle[g] /\ cursor'[g] = cursor[g]
    BY <1>2 DEF Rouse, Goto
  <2> QED
    BY <1>1, <2>1, OtherRingsStay, WorkRingStays DEF WakesNobody, AtWork, Crew
<1>3. CASE Draw(f) \/ SignalAll(f)
  <2>1. /\ pc[f] \in {"draw", "signal"} /\ pc'[f] \in {"draw", "signal", "pop"}
        /\ cursor[f] \in Helpers
    BY <1>3 DEF Draw, SignalAll, Goto, LoweredAtWork
  <2>2. \A g \in Fronts \ {f} : idle'[g] = idle[g] /\ cursor'[g] = cursor[g]
    BY <1>3, <2>1 DEF Draw, SignalAll, Arouse
  <2> QED
    BY <1>1, <2>1, <2>2, OtherRingsStay, WorkRingStays DEF WakesNobody, AtWork, Crew
<1>4. CASE CheckStates(f)
  <2>1. pc[f] \in Checking /\ UNCHANGED <<idle, cursor>>
    BY <1>4, ChecksOn
  <2>2. PICK l \in Checking \union {Return(f)} : Goes(f, l)
    BY <1>4, ChecksOn
  <2>3. pc'[f] = l
    BY <2>2 DEF Goes
  <2>4. l \in Checking \/ l = "gather" \/ (l = "empty" /\ Helpers = {})
    BY <2>2 DEF Return
  <2>5. pc[f] \in AtWork /\ l \in AtWork /\ l \notin {"rouse", "setup", "wake"}
    BY <2>1, <2>4 DEF Checking, AtWork
  <2> QED
    BY <1>1, <2>1, <2>3, <2>4, <2>5, OtherRingsStay, WorkRingStays
    DEF WakesNobody, Crew, Checking
<1>5. CASE Gather(f)
  <2>1. /\ pc[f] = "gather" /\ pc'[f] = "empty" /\ idle'[f] /\ cursor' = cursor
        /\ \A g \in Fronts \ {f} : idle'[g] = idle[g]
    BY <1>5 DEF Gather, Goto
  <2> QED
    BY <1>1, <2>1, OtherRingsStay, WorkRingStays DEF WakesNobody, AtWork, Crew
<1> QED
  BY <1>2, <1>3, <1>4, <1>5

(* The start.                                                              *)
LEMMA RingStaysAtStart ==
  ASSUME NEW f \in Fronts, Crew(f),
         (f = 0 /\ (Setup \/ Wake)) \/ Woken(f) \/ Reset(f)
  PROVE  \A g \in Fronts : RingStays(g)'
<1> USE CrewFacts
<1>1. phase' = phase /\ exit' = exit /\ pc[f] \in Early
  BY DEF Setup, Wake, Woken, Reset, frontVars, Early
<1>2. pc[0] \in Early => InsideOf(0) = {}
  BY DEF StartsFirst, InsideOf, Inside, Helping
<1>3. CASE f = 0 /\ Setup
  <2>1. /\ pc[0] = "setup" /\ pc'[0] = "wake" /\ cursor' = cursor
        /\ \A g \in Fronts \ {f} : idle'[g] = idle[g]
    BY <1>3 DEF Setup, Goto
  <2>2. WakesNobody(f)
    BY <1>3, <2>1 DEF WakesNobody
  <2>3. "wake" \in Early /\ "wake" \notin AtWork
    BY DEF Early, AtWork
  <2>4. RingStays(0)'
    BY <1>1, <1>2, <1>3, <2>1, <2>3 DEF RingStays
  <2> QED
    BY <1>3, <2>2, <2>4, OtherRingsStay DEF Crew
<1>4. CASE f = 0 /\ Wake /\ cursor[0] + 1 < nr_of_fronts
  <2> DEFINE c == cursor[0] + 1
  <2>1. /\ pc[0] = "wake" /\ pc' = pc /\ ring' = ring
        /\ cursor' = [cursor EXCEPT ![0] = c]
        /\ idle' = [idle EXCEPT ![c] = FALSE]
    BY <1>4 DEF Wake, stores
  <2>2. c \in Nat /\ c > cursor[0] /\ c \in Fronts
    BY <1>4 DEF Fronts, TypeOK
  <2>3. cursor'[0] = c
    BY <2>1
  <2>4. ASSUME NEW g \in Fronts PROVE RingStays(g)'
    <3>1. g \in Nat
      BY DEF Fronts
    <3>2. g > c => g > cursor[0] /\ g # c
      BY <2>2, <3>1
    <3>3. g # c => idle'[g] = idle[g]
      BY <2>1
    <3>4. g = c => pc[g] = "start" /\ "start" \in Early
      BY <2>1, <2>2 DEF RingStays, Early
    <3> HIDE DEF c
    <3> QED
      BY <1>1, <1>4, <2>1, <2>3, <3>2, <3>3, <3>4 DEF RingStays, Linked
  <2> QED
    BY <2>4
<1>5. CASE f = 0 /\ Wake /\ ~ (cursor[0] + 1 < nr_of_fronts)
  <2>1. /\ pc[0] = "wake" /\ pc'[0] = "reset" /\ idle' = idle
        /\ \A g \in Fronts \ {0} : cursor'[g] = cursor[g]
    BY <1>5 DEF Wake, Goto
  <2>2. WakesNobody(f)
    BY <1>5, <2>1 DEF WakesNobody
  <2>3. "reset" \in Early /\ "reset" \notin AtWork
    BY DEF Early, AtWork
  <2>4. RingStays(0)'
    BY <1>1, <1>2, <1>5, <2>1, <2>3 DEF RingStays
  <2> QED
    BY <1>5, <2>2, <2>4, OtherRingsStay DEF Crew
<1>6. CASE Woken(f)
  <2>1. /\ pc[f] = "start" /\ ~ idle[f] /\ pc'[f] = "reset" /\ UNCHANGED <<ring, idle, cursor>>
    BY <1>6 DEF Woken, Goto, sync, stores
  <2>2. WakesNobody(f) /\ f # 0
    BY <2>1 DEF WakesNobody, StartsFirst
  <2>3. "reset" \in Early /\ "reset" \notin AtWork /\ "start" \in Early
    BY DEF Early, AtWork
  <2>4. pc'[0] = pc[0] /\ cursor'[0] = cursor[0]
    BY <2>1, <2>2 DEF Crew, KeepsOthers
  <2>5. RingStays(f)'
    BY <1>1, <2>1, <2>2, <2>3, <2>4 DEF RingStays, Linked
  <2> QED
    BY <2>2, <2>5, OtherRingsStay DEF Crew
<1>7. CASE Reset(f)
  <2>1. /\ pc[f] = "reset" /\ pc'[f] = "outside" /\ idle'[f] /\ UNCHANGED <<ring, cursor>>
        /\ \A g \in Fronts \ {f} : idle'[g] = idle[g]
    BY <1>7 DEF Reset, Goto, stores
  <2>2. WakesNobody(f)
    BY <2>1 DEF WakesNobody
  <2>3. "outside" \notin Early /\ "outside" \notin AtWork
    BY DEF Early, AtWork
  <2>4. RingStays(f)'
    <3>1. pc'[0] \in {"setup", "wake"} =>
            pc[0] \in {"setup", "wake"} /\ cursor'[0] = cursor[0]
      BY <2>2, OtherRingsStay DEF Crew
    <3> QED
      BY <1>1, <2>1, <2>3, <3>1 DEF RingStays, Linked
  <2> QED
    BY <2>2, <2>4, OtherRingsStay DEF Crew
<1> QED
  BY <1>3, <1>4, <1>5, <1>6, <1>7

(* Rings stay put for whoever is inside, whatever a front does.            *)
LEMMA RingStaysFront ==
  ASSUME TypeOK, HelpersInvariant, ring \in [Fronts -> Rings],
         \A g \in Fronts : RingStays(g), NEW f \in Fronts, FrontThread(f)
  PROVE  \A g \in Fronts : RingStays(g)'
<1>1. Crew(f)
  BY OthersKept DEF Crew, HelpersInvariant
<1> QED
  BY <1>1, RingStaysOutside, RingStaysRound, RingStaysDone, RingStaysAtWork,
     RingStaysAtStart
  DEF FrontThread

(* Who is in checkStates changes what one ring holds, and links none.      *)
LEMMA ChecksOneRing ==
  ASSUME ring \in [Fronts -> Rings], NEW t, NEW f \in Fronts, f = FrontOf(t),
         CheckStates(t)
  PROVE  \E s : SameSlots(ring[f], s) /\ ring' = [ring EXCEPT ![f] = s]
<1> DEFINE r == ring[f]
           Reaches(s) == SameSlots(r, s) /\ ring' = [ring EXCEPT ![f] = s]
<1>0. r \in Rings
  OBVIOUS
<1>1. ring' = ring => Reaches(r)
  BY DEF SameSlots
<1>2. ASSUME NEW m, ring' = [ring EXCEPT ![f].store[ring[f].active] = @ \ {m}]
      PROVE  \E s : Reaches(s)
  <2>1. Reaches([r EXCEPT !.store[r.active] = @ \ {m}])
    BY <1>0, <1>2 DEF SameSlots, Rings
  <2> QED
    BY <2>1
<1>3. ASSUME NEW m, ring' = [ring EXCEPT ![f].samevalue = @ \union {m}]
      PROVE  \E s : Reaches(s)
  <2>1. Reaches([r EXCEPT !.samevalue = @ \union {m}])
    BY <1>0, <1>3 DEF SameSlots, Rings
  <2> QED
    BY <2>1
<1>4. ASSUME NEW where, NEW o, NEW m,
             ring' = [ring EXCEPT ![f] = Insert(@, where, o, m)]
      PROVE  \E s : Reaches(s)
  <2>1. Reaches(Insert(r, where, o, m))
    BY <1>0, <1>4 DEF Insert, SameSlots, Rings
  <2> QED
    BY <2>1
<1> SUFFICES \E s : Reaches(s)
  OBVIOUS
<1> HIDE DEF Reaches
<1>5. CASE PopNew(t) \/ SolutionFound(t)
  BY <1>1, <1>5 DEF PopNew, SolutionFound, stores
<1>6. CASE Pop(t)
  BY <1>1, <1>2, <1>6 DEF Pop
<1>7. CASE Store(t)
  BY <1>1, <1>3, <1>7 DEF Store
<1>8. CASE Ask(t)
  BY <1>1, <1>4, <1>8 DEF Ask
<1> QED
  BY <1>5, <1>6, <1>7, <1>8 DEF CheckStates

(* Nor does it take the flag exit back.                                    *)
LEMMA ChecksLinkNothing ==
  ASSUME ring \in [Fronts -> Rings], NEW t, FrontOf(t) \in Fronts, CheckStates(t)
  PROVE  /\ \A g \in Fronts : Linked(ring[g])' = Linked(ring[g])
         /\ exit => exit'
<1>1. exit => exit'
  <2>1. CASE SolutionFound(t)
    BY <2>1 DEF SolutionFound, Found
  <2>2. CASE Pop(t) \/ PopNew(t) \/ Store(t) \/ Ask(t)
    BY <2>2 DEF Pop, PopNew, Store, Ask, frontVars
  <2> QED
    BY <2>1, <2>2 DEF CheckStates
<1>2. PICK s : SameSlots(ring[FrontOf(t)], s) /\ ring' = [ring EXCEPT ![FrontOf(t)] = s]
  BY ChecksOneRing
<1> QED
  BY <1>1, <1>2 DEF SameSlots, Linked

(* A step of a helper: who stays, and what does.                           *)
KeepsFronts(h) ==
  /\ UNCHANGED <<nr_of_fronts, nr_of_threads, transient_offset, phase, at, cursor,
                 frontrunner, first, last>>
  /\ exit => exit'
  /\ \A u \in Threads \ {h} : pc'[u] = pc[u]
  /\ \A g \in Fronts : idle'[g] = idle[g]
  /\ \A k \in Helpers \ {h} : frontptr'[k] = frontptr[k]
  /\ \A g \in Fronts : Linked(ring[g])' = Linked(ring[g])

(* Every step of a helper is such a step.                                  *)
LEMMA FrontsKept ==
  ASSUME TypeOK, HelperTypes, ring \in [Fronts -> Rings], NEW h \in Helpers,
         HelperThread(h)
  PROVE  KeepsFronts(h)
<1>t. /\ h \in Threads /\ pc \in [Threads -> Labels] /\ h \notin Fronts
      /\ frontptr \in [Helpers -> Fronts] /\ idle \in [Threads -> BOOLEAN]
  BY Actors DEF HelperTypes
<1>1. CASE Look(h) \/ Come(h) \/ Help(h) \/ Leave(h) \/ Doze(h) \/ Nap(h) \/ Awake(h)
  <2>1. UNCHANGED <<frontVars, arguments, stores, cursor>>
    BY <1>1 DEF Look, Come, Help, Leave, Doze, Nap, Awake, sync
  <2>2. \A u \in Threads \ {h} : pc'[u] = pc[u]
    BY <1>t, <1>1 DEF Look, Come, Help, Leave, Doze, Nap, Awake, Elsewhere, Goto
  <2>3. \A k \in Helpers \ {h} : frontptr'[k] = frontptr[k]
    BY <1>t, <1>1 DEF Look, Come, Help, Leave, Doze, Nap, Awake, Elsewhere, sync
  <2>4. \A g \in Fronts : idle'[g] = idle[g]
    <3>1. CASE Doze(h) \/ Nap(h)
      <4>1. \/ idle' = idle
            \/ idle' = [idle EXCEPT ![h] = FALSE]
            \/ idle' = [idle EXCEPT ![h] = TRUE]
        BY <3>1 DEF Doze, Nap
      <4>2. \A g \in Fronts : g \in Threads \ {h}
        BY <1>t, Actors
      <4>3. TRUE \in BOOLEAN /\ FALSE \in BOOLEAN
        OBVIOUS
      <4>4. /\ \A u \in Threads \ {h} : [idle EXCEPT ![h] = FALSE][u] = idle[u]
            /\ \A u \in Threads \ {h} : [idle EXCEPT ![h] = TRUE][u] = idle[u]
        BY <1>t, <4>3, OneFlag
      <4> QED
        BY <4>1, <4>2, <4>4, Zenon
    <3>2. CASE Look(h) \/ Come(h) \/ Help(h) \/ Leave(h) \/ Awake(h)
      <4>1. idle' = idle
        BY <3>2 DEF Look, Come, Help, Leave, Awake, sync
      <4> QED
        BY <4>1
    <3> QED
      BY <1>1, <3>1, <3>2
  <2> QED
    BY <2>1, <2>2, <2>3, <2>4 DEF KeepsFronts, frontVars, arguments, stores, Linked
<1>2. CASE CheckStates(h)
  <2>1. /\ UNCHANGED <<nr_of_fronts, nr_of_threads, phase, frontrunner, idle, cursor, frontptr>>
        /\ \E l : Goes(h, l)
    BY <1>t, <1>2, ChecksOn
  <2>2. \A u \in Threads \ {h} : pc'[u] = pc[u]
    BY <1>t, <2>1 DEF Goes
  <2>3. UNCHANGED <<transient_offset, at, first, last>>
    BY <1>2 DEF CheckStates, Pop, PopNew, Store, SolutionFound, Found, Ask, arguments,
                frontVars
  <2>4. FrontOf(h) \in Fronts
    BY <1>t DEF FrontOf
  <2> QED
    BY <1>2, <2>1, <2>2, <2>3, <2>4, ChecksLinkNothing DEF KeepsFronts
<1> QED
  BY <1>1, <1>2 DEF HelperThread

(* Who is inside after it.                                                 *)
LEMMA InsideChanges ==
  ASSUME TypeOK, HelperTypes, NEW h \in Helpers, KeepsFronts(h)
  PROVE  /\ Fronts' = Fronts /\ Helpers' = Helpers /\ Threads' = Threads
         /\ \A g \in Fronts : InsideOf(g)' \ {h} = InsideOf(g) \ {h}
         /\ \A g \in Fronts : pc'[g] = pc[g]
<1>1. Fronts' = Fronts /\ Helpers' = Helpers /\ Threads' = Threads
  BY DEF KeepsFronts, Fronts, Helpers, Threads
<1>2. \A k \in Helpers \ {h} : pc'[k] = pc[k]
  BY Actors DEF KeepsFronts
<1>3. ASSUME NEW g PROVE InsideOf(g)' \ {h} = InsideOf(g) \ {h}
  BY <1>1, <1>2 DEF InsideOf, Inside, Helping, KeepsFronts
<1>4. \A g \in Fronts : pc'[g] = pc[g]
  BY Actors DEF KeepsFronts
<1> QED
  BY <1>1, <1>3, <1>4

(* Only a helper that finds the flag lowered gets inside.                  *)
LEMMA HelperMoves ==
  ASSUME TypeOK, HelperTypes, NEW h \in Helpers, HelperThread(h),
         ~ (Come(h) /\ ~ idle[frontptr[h]])
  PROVE  Inside(h)' => Inside(h) /\ frontptr' = frontptr
<1>t. h \in Threads /\ pc \in [Threads -> Labels]
  BY Actors DEF HelperTypes
<1>1. CASE Look(h)
  <2>1. pc'[h] \in {"done", "come", "doze", "nap", "look"}
    BY <1>t, <1>1 DEF Look, Elsewhere, Goto
  <2> QED
    BY <2>1 DEF Inside, Helping
<1>2. CASE Come(h) /\ idle[frontptr[h]]
  <2>1. pc'[h] \in {"doze", "look"}
    BY <1>t, <1>2 DEF Come, Elsewhere, Goto
  <2> QED
    BY <2>1 DEF Inside, Helping
<1>3. CASE Help(h)
  BY <1>3 DEF Help, sync, Inside, Helping
<1>4. CASE CheckStates(h)
  <2>1. pc[h] \in Checking /\ frontptr' = frontptr
    BY <1>t, <1>4, ChecksOn
  <2> QED
    BY <2>1 DEF Inside, Helping, Checking
<1>5. CASE Leave(h) \/ Doze(h) \/ Nap(h)
  <2>1. pc'[h] \in {"look", "nap", "asleep"}
    BY <1>t, <1>5 DEF Leave, Doze, Nap, Goto
  <2> QED
    BY <2>1 DEF Inside, Helping
<1>6. CASE Awake(h)
  <2>1. pc'[h] \in {"look", "asleep", "start"}
    BY <1>t, <1>6 DEF Awake, Goto
  <2> QED
    BY <2>1 DEF Inside, Helping
<1> QED
  BY <1>1, <1>2, <1>3, <1>4, <1>5, <1>6 DEF HelperThread

(* Rings stay put for whoever is inside, whatever a helper does.           *)
LEMMA RingStaysHelper ==
  ASSUME TypeOK, HelpersInvariant, ring \in [Fronts -> Rings],
         \A g \in Fronts : RingStays(g), NEW h \in Helpers, HelperThread(h)
  PROVE  \A g \in Fronts : RingStays(g)'
<1>t. /\ HelperTypes /\ StartsFirst /\ KeepsFronts(h) /\ 0 \in Fronts
      /\ frontptr \in [Helpers -> Fronts]
  BY Actors, FrontsKept DEF HelpersInvariant, HelperTypes
<1>1. /\ Fronts' = Fronts /\ Helpers' = Helpers
      /\ \A g \in Fronts : pc'[g] = pc[g] /\ InsideOf(g)' \ {h} = InsideOf(g) \ {h}
  BY <1>t, InsideChanges
<1>2. CASE Come(h) /\ ~ idle[frontptr[h]]
  <2>1. pc[h] = "come" /\ frontptr' = frontptr
    BY <1>2 DEF Come
  <2>2. pc[0] \notin Early
    BY <2>1, <1>t DEF StartsFirst
  <2>3. ASSUME NEW g \in Fronts PROVE RingStays(g)'
    <3>1. CASE g = frontptr[h]
      <4>1. pc[g] \in AtWork \/ (pc[g] \in Early /\ g # 0)
        BY <1>2, <2>2, <3>1 DEF RingStays
      <4>2. phase[g] = "work" \/ (phase[g] = "loop" /\ ~ Linked(ring[g]))
        BY <2>3, <4>1 DEF RingStays
      <4> QED
        BY <1>t, <1>1, <2>3, <4>2 DEF RingStays, KeepsFronts
    <3>2. CASE g # frontptr[h]
      <4>1. InsideOf(g)' \subseteq InsideOf(g)
        BY <1>1, <2>1, <3>2 DEF InsideOf
      <4> QED
        BY <1>t, <1>1, <4>1, OtherRingStays DEF KeepsFronts
    <3> QED
      BY <3>1, <3>2
  <2> QED
    BY <2>3
<1>3. CASE ~ (Come(h) /\ ~ idle[frontptr[h]])
  <2>1. Inside(h)' => Inside(h) /\ frontptr' = frontptr
    BY <1>t, <1>3, HelperMoves
  <2>2. \A g \in Fronts : InsideOf(g)' \subseteq InsideOf(g)
    BY <1>1, <2>1 DEF InsideOf
  <2> QED
    BY <1>t, <1>1, <2>2, OtherRingStays DEF KeepsFronts
<1> QED
  BY <1>2, <1>3

(***************************************************************************)
(* What the rings and the lists hold.                                      *)
(***************************************************************************)
Starting == {"pass", "loop", "init", "begin"}

(* Where a thread holds a marking.                                         *)
InHands == {"swap", "keep", "fire"}

(* Whoever looks at front g's current store goes on doing so, or the front *)
(* itself does.                                                            *)
LooksOn(g) ==
  phase'[g] = "work" /\ ~ exit' =>
    \/ pc'[g] \in Looking
    \/ /\ phase[g] = "work" /\ ~ exit
       /\ \A t \in {g} \union InsideOf(g) :
            pc[t] \in Looking => pc'[t] \in Looking /\ t \in {g} \union InsideOf(g)'

(* Front g gets no nearer to anything that its ring would have to be fit   *)
(* for.                                                                    *)
Follows(g) ==
  /\ Running(g)' => Running(g) /\ at'[g] = at[g]
  /\ ~ exit' => ~ exit /\ (g \in frontrunner => g \in frontrunner')
                       /\ (phase'[g] \in Starting => phase[g] \in Starting)
  /\ phase'[g] \in {"wait", "advance"} => phase[g] \in {"wait", "advance"}
  /\ LooksOn(g)

(* The parts of ProgressInvariant that are about one front's ring ...      *)
RingFits(g) == RingRight(g) /\ Prepared(g) /\ Searched(g)

(* ... and all that are about markings.                                    *)
DataFits ==
  /\ ListsRight
  /\ ns \in [Threads -> Markings] /\ entry \in [Threads -> Int]
  /\ \A g \in Fronts : RingFits(g)
  /\ \A t \in Threads : InHand(t)

(* A ring nobody touches stays right while the lists grow around it.       *)
LEMMA StaysRight ==
  ASSUME NEW g, RingRight(g), ring'[g] = ring[g], transient_offset' = transient_offset,
         first \in Int, last \in Int, first' \in Int, last' \in Int,
         first' <= first, last <= last',
         Running(g)' => Running(g) /\ at'[g] = at[g]
  PROVE  RingRight(g)'
<1>1. PlaceOf(ring[g], 0) \in Int /\ back_offset \in Int /\ front_offset \in Int
  BY PlaceIsInt, Sizes DEF RingRight
<1>2. InPlace(ring[g]) => InPlace(ring[g])'
  BY DEF InPlace, PlaceOf, Slot
<1>3. WithinLists(ring[g]) => WithinLists(ring[g])'
  BY <1>1 DEF WithinLists, PlaceOf, Slot
<1>4. Blank(ring[g]) => Blank(ring[g])'
  BY DEF Blank
<1> QED
  BY <1>2, <1>3, <1>4 DEF RingRight, Linked, PlaceOf, Slot

(* The same for all that is said of a ring.                                *)
LEMMA StaysFit ==
  ASSUME NEW g, RingFits(g), ring'[g] = ring[g], transient_offset' = transient_offset,
         first \in Int, last \in Int, first' \in Int, last' \in Int,
         first' <= first, last <= last',
         first' = first \/ exit \/ ~ (g \in frontrunner /\ phase[g] \in Starting),
         Follows(g)
  PROVE  RingFits(g)'
<1>1. RingRight(g)'
  BY StaysRight DEF RingFits, Follows
<1>2. Prepared(g)'
  BY DEF RingFits, Follows, Prepared, Starting, Blank
<1>3. Searched(g)'
  <2> SUFFICES ASSUME ring[g].store[ring[g].active] # {}
               PROVE  /\ phase'[g] \notin {"wait", "advance"}
                      /\ phase'[g] = "work" /\ ~ exit' =>
                           \E t \in {g} \union InsideOf(g)' : pc'[t] \in Looking
    BY DEF Searched
  <2>1. /\ phase[g] \notin {"wait", "advance"}
        /\ phase[g] = "work" /\ ~ exit =>
             \E t \in {g} \union InsideOf(g) : pc[t] \in Looking
    BY DEF RingFits, Searched
  <2> QED
    BY <2>1 DEF Follows, LooksOn
<1> QED
  BY <1>1, <1>2, <1>3 DEF RingFits

(* A marking in hand stays right while the slots of the ring stay.         *)
LEMMA StaysInHand ==
  ASSUME NEW t, InHand(t), ns'[t] = ns[t],
         pc'[t] \in InHands =>
           /\ pc'[t] = pc[t] /\ entry'[t] = entry[t] /\ FrontOf(t)' = FrontOf(t)
           /\ SameSlots(ring[FrontOf(t)], ring'[FrontOf(t)])
  PROVE  InHand(t)'
<1>1. CASE pc'[t] \in InHands
  BY <1>1, SlotsStay DEF InHand, InHands, PlaceFor
<1>2. CASE pc'[t] \notin InHands
  BY <1>2 DEF InHand, InHands
<1> QED
  BY <1>1, <1>2

(* Lists nobody touches stay right.                                        *)
LEMMA StayInLists ==
  ASSUME ListsRight, UNCHANGED <<first, last, transient_offset, new, old>>,
         pc'[0] \in Early => pc[0] \in Early
  PROVE  ListsRight'
BY DEF ListsRight

(* Another front, when front f moves.                                      *)
LEMMA OthersFollow ==
  ASSUME NEW f, Crew(f), NEW g \in Fronts, g # f
  PROVE  Follows(g) /\ ring'[g] = ring[g]
<1> USE CrewFacts
<1>1. /\ phase'[g] = phase[g] /\ at'[g] = at[g] /\ (exit => exit')
      /\ (g \in frontrunner => g \in frontrunner') /\ ring'[g] = ring[g]
      /\ \A u \in Threads \ {f} : pc'[u] = pc[u]
  BY DEF Crew, KeepsOthers
<1>2. \A t \in {g} \union InsideOf(g) : t \in Threads /\ t # f
  BY DEF InsideOf
<1>3. LooksOn(g)
  BY <1>1, <1>2 DEF LooksOn
<1> QED
  BY <1>1, <1>3 DEF Follows, Running

(* A step of a front that touches no marking.                              *)
LEMMA FitWithoutData ==
  ASSUME NEW f, Crew(f), DataFits,
         UNCHANGED <<ring, new, old, ns, entry, first, last>>,
         Follows(f), pc'[f] \notin InHands, pc'[f] \in Early => pc[f] \in Early
  PROVE  DataFits' /\ ring' \in [Fronts' -> Rings]
<1> USE CrewFacts
<1>0. /\ \A u \in Threads \ {f} : pc'[u] = pc[u]
      /\ UNCHANGED <<transient_offset, frontptr>>
  BY DEF Crew, KeepsOthers
<1>1. ListsRight'
  <2>1. pc'[0] \in Early => pc[0] \in Early
    BY <1>0
  <2> QED
    BY <1>0, <2>1, StayInLists DEF DataFits
<1>2. ring' \in [Fronts' -> Rings]
  BY DEF Crew
<1>3. ASSUME NEW g \in Fronts PROVE RingFits(g)'
  <2>1. Follows(g)
    BY OthersFollow
  <2>2. first \in Int /\ last \in Int
    BY DEF TypeOK
  <2> QED
    BY <1>0, <2>1, <2>2, StaysFit DEF DataFits
<1>4. ASSUME NEW t \in Threads PROVE InHand(t)'
  <2>1. pc'[t] \in InHands => pc'[t] = pc[t]
    BY <1>0
  <2>2. FrontOf(t)' = FrontOf(t)
    BY <1>0 DEF FrontOf
  <2>3. SameSlots(ring[FrontOf(t)], ring'[FrontOf(t)])
    BY DEF SameSlots
  <2> QED
    BY <2>1, <2>2, <2>3, StaysInHand DEF DataFits
<1> QED
  BY <1>1, <1>2, <1>3, <1>4 DEF DataFits

(* The steps of a front that change neither rings nor lists ...            *)
QuietStep(f) ==
  \/ Woken(f) \/ Reset(f) \/ Move(f) \/ Round(f)
  \/ Rouse(f) \/ Draw(f) \/ SignalAll(f) \/ Gather(f) \/ Terminate(f)
  \/ f = 0 /\ Wake
  \/ InitFront(f) /\ exit

(* ... leave everything right.                                             *)
LEMMA QuietFits ==
  ASSUME NEW f, Crew(f), DataFits, QuietStep(f)
  PROVE  DataFits' /\ ring' \in [Fronts' -> Rings]
<1> USE CrewFacts
<1>1. UNCHANGED <<ring, new, old, ns, entry, first, last>>
  <2>1. CASE Move(f)
    BY <2>1 DEF Move, stores, local, Loop, AwaitBegin, AwaitAdvance, AwaitFront, PostBehind,
                Pass
  <2>2. CASE Round(f) \/ Terminate(f)
    BY <2>2 DEF Round, Test, Terminate, End, stores, local
  <2>3. CASE InitFront(f) /\ exit
    BY <2>3 DEF InitFront, Begin, local
  <2>4. CASE (f = 0 /\ Wake) \/ Woken(f) \/ Reset(f) \/ Rouse(f) \/ Draw(f)
             \/ SignalAll(f) \/ Gather(f)
    BY <2>4 DEF Wake, Woken, Reset, Rouse, Draw, SignalAll, Gather, stores, local, frontVars
  <2> QED
    BY <2>1, <2>2, <2>3, <2>4 DEF QuietStep
<1>2. pc'[f] \notin InHands /\ (pc'[f] \in Early => pc[f] \in Early)
  <2>1. CASE Move(f) \/ Terminate(f) \/ (InitFront(f) /\ exit)
    BY <2>1 DEF Move, Terminate, InitFront, InHands
  <2>2. CASE Round(f)
    <3>1. pc[f] = "outside" /\ pc'[f] \in {"outside", "pop", "rouse"}
      BY <2>2 DEF Round
    <3> QED
      BY <3>1 DEF InHands, Early
  <2>3. CASE (f = 0 /\ Wake) \/ Woken(f) \/ Reset(f)
    <3>1. pc[f] \in {"wake", "start", "reset"} /\ pc'[f] \in {"wake", "reset", "outside"}
      BY <2>3 DEF Wake, Woken, Reset, Goto
    <3> QED
      BY <3>1 DEF InHands, Early
  <2>4. CASE Rouse(f) \/ Draw(f) \/ SignalAll(f) \/ Gather(f)
    <3>1. pc'[f] \in {"draw", "signal", "pop", "empty"}
      BY <2>4 DEF Rouse, Draw, SignalAll, Gather, Goto
    <3> QED
      BY <3>1 DEF InHands, Early
  <2> QED
    BY <2>1, <2>2, <2>3, <2>4 DEF QuietStep
<1>3. Follows(f)
  <2>1. CASE Move(f)
    <3>1. /\ UNCHANGED <<at, exit>> /\ frontrunner \subseteq frontrunner'
          /\ \/ phase[f] = "loop" /\ phase'[f] = (IF exit THEN "end" ELSE "init")
             \/ phase[f] = "init" /\ phase'[f] = "begin"
             \/ phase[f] = "wait" /\ phase'[f] = "advance"
             \/ phase[f] = "post" /\ phase'[f] = "test"
             \/ phase[f] = "pass" /\ phase'[f] = "loop"
      BY <2>1 DEF Move, Go, Loop, AwaitBegin, AwaitAdvance, AwaitFront, PostBehind, Pass
    <3> QED
      BY <3>1 DEF Follows, LooksOn, Running, Starting
  <2>2. CASE Round(f)
    <3>1. /\ UNCHANGED <<at, exit, frontrunner>> /\ phase[f] = "test"
          /\ phase'[f] = (IF exit THEN "clear" ELSE "work")
          /\ ~ exit => pc'[f] \in {"pop", "rouse"}
      BY <2>2 DEF Round, Test, Go
    <3> QED
      BY <3>1 DEF Follows, LooksOn, Running, Starting, Looking
  <2>3. CASE Terminate(f) \/ (InitFront(f) /\ exit)
    <3>1. UNCHANGED <<at, exit, frontrunner>> /\ phase'[f] \in {"done", "end"}
      BY <2>3 DEF Terminate, End, InitFront, Begin, Go
    <3> QED
      BY <3>1 DEF Follows, LooksOn, Running, Starting
  <2>4. CASE (f = 0 /\ Wake) \/ Woken(f) \/ Reset(f)
    <3>1. UNCHANGED <<at, exit, frontrunner, phase>> /\ pc[f] \in Early
      BY <2>4 DEF Wake, Woken, Reset, frontVars, Early
    <3>2. phase[f] = "loop"
      BY <3>1 DEF RingStays
    <3> QED
      BY <3>1, <3>2 DEF Follows, LooksOn, Running, Starting
  <2>5. CASE Rouse(f) \/ Draw(f) \/ SignalAll(f)
    <3>1. UNCHANGED <<at, exit, frontrunner, phase>> /\ pc'[f] \in {"draw", "signal", "pop"}
      BY <2>5 DEF Rouse, Draw, SignalAll, frontVars, Goto
    <3> QED
      BY <3>1 DEF Follows, LooksOn, Running, Starting, Looking
  <2>6. CASE Gather(f)
    <3>1. /\ UNCHANGED <<at, exit, frontrunner, phase>> /\ pc[f] = "gather"
          /\ \A h \in Helpers : pc'[h] = pc[h]
      BY <2>6 DEF Gather, frontVars, Goto
    <3>2. LooksOn(f)
      <4>1. \A t \in {f} \union InsideOf(f) : pc[t] \in Looking => t \in Helpers
        BY <3>1 DEF InsideOf, Looking
      <4> QED
        BY <3>1, <4>1 DEF LooksOn
    <3> QED
      BY <3>1, <3>2 DEF Follows, Running
  <2> QED
    BY <2>1, <2>2, <2>3, <2>4, <2>5, <2>6 DEF QuietStep
<1> QED
  BY <1>1, <1>2, <1>3, FitWithoutData

(* While a front runs nobody else leads and is about to begin.             *)
LEMMA NobodyStarts ==
  ASSUME FrontsInvariant, ~ exit, NEW f \in Fronts, NEW g \in Fronts, g # f, Running(f)
  PROVE  ~ (g \in frontrunner /\ phase[g] \in Starting)
<1> SUFFICES ASSUME g \in frontrunner, phase[g] \in Starting PROVE FALSE
  OBVIOUS
<1>1. TypeOK /\ InOrder /\ nr_of_fronts \in Nat \ {0} /\ Leads(g)
  BY DEF FrontsInvariant, TypeOK, Leads
<1>2. Rank(g, g) < Rank(g, f)
  <2>1. /\ Rank(g, g) = 0 /\ Rank(g, f) # 0
        /\ Rank(g, f) \in 0 .. nr_of_fronts - 1
    BY <1>1, Ranks
  <2> QED
    BY <1>1, <2>1
<1>3. InLine(g)
  BY <1>1, <1>2 DEF InOrder, AllApart
<1>4. phase[g] # "pass"
  BY <1>1 DEF InOrder, OneLeader
<1> QED
  BY <1>3, <1>4 DEF InLine, Running, Starting

(* The lists are lengthened by empty stores.                               *)
LEMMA ListGrows ==
  ASSUME NEW list \in [first .. last -> SUBSET Markings],
         \A q \in first .. last : Belongs(list[q], q)
  PROVE  /\ Lengthen(list) \in [first' .. last' -> SUBSET Markings]
         /\ \A q \in first' .. last' : Belongs(Lengthen(list)[q], q)
<1>1. \A q \in first' .. last' :
        Lengthen(list)[q] = IF q \in first .. last THEN list[q] ELSE {}
  BY DEF Lengthen
<1>2. \A q \in first' .. last' : Lengthen(list)[q] \in SUBSET Markings
  BY <1>1
<1>3. Lengthen(list) \in [first' .. last' -> SUBSET Markings]
  <2>1. Lengthen(list) = [q \in first' .. last' |-> Lengthen(list)[q]]
    BY DEF Lengthen
  <2> HIDE DEF Lengthen
  <2> QED
    BY <1>2, <2>1
<1>4. \A q \in first' .. last' : Belongs(Lengthen(list)[q], q)
  BY <1>1 DEF Belongs
<1> QED
  BY <1>3, <1>4

(* So both lists stay right when they are lengthened.                      *)
LEMMA ListsGrow ==
  ASSUME ListsRight, Lists, first \in Int, last \in Int, first' \in Int, last' \in Int,
         first' <= first, last <= last', transient_offset' = transient_offset,
         pc'[0] \notin Early
  PROVE  ListsRight'
<1>1. /\ new \in [first .. last -> SUBSET Markings]
      /\ old \in [first .. last -> SUBSET Markings]
      /\ \A q \in first .. last : Belongs(new[q], q) /\ Belongs(old[q], q)
  BY DEF ListsRight
<1>2. /\ new' = Lengthen(new) /\ old' = Lengthen(old)
  BY DEF Lists
<1>3. /\ new' \in [first' .. last' -> SUBSET Markings]
      /\ old' \in [first' .. last' -> SUBSET Markings]
      /\ \A q \in first' .. last' : Belongs(new'[q], q) /\ Belongs(old'[q], q)
  BY <1>1, <1>2, ListGrows
<1>4. first' + store_size <= last'
  BY Sizes DEF ListsRight
<1> QED
  BY <1>3, <1>4 DEF ListsRight, Belongs, PlaceFor

(* Front f moves its ring, and nobody has a marking of it in hand, or the  *)
(* slots stay.                                                             *)
LEMMA HandsKeep ==
  ASSUME NEW f, Crew(f), UNCHANGED <<ns, entry>>, pc'[f] \notin InHands,
         \A t \in Threads : InHand(t),
         \/ SameSlots(ring[f], ring'[f])
         \/ pc[f] \notin InHands /\ \A h \in InsideOf(f) : pc[h] \notin InHands
  PROVE  \A t \in Threads : InHand(t)'
<1> USE CrewFacts
<1> SUFFICES ASSUME NEW t \in Threads PROVE InHand(t)'
  OBVIOUS
<1>1. /\ \A u \in Threads \ {f} : pc'[u] = pc[u]
      /\ \A g \in Fronts \ {f} : ring'[g] = ring[g]
      /\ frontptr' = frontptr
  BY DEF Crew, KeepsOthers
<1>2. FrontOf(t)' = FrontOf(t) /\ FrontOf(t) \in Fronts
  <2>1. \A u \in Threads : u \notin Fronts => u \in Helpers
    BY Actors
  <2> QED
    BY <1>1, <2>1 DEF FrontOf, HelperTypes
<1>3. ASSUME pc'[t] \in InHands PROVE SameSlots(ring[FrontOf(t)], ring'[FrontOf(t)])
  <2>1. CASE FrontOf(t) # f
    BY <1>1, <1>2, <2>1 DEF SameSlots
  <2>2. CASE FrontOf(t) = f
    <3>1. t # f /\ pc[t] = pc'[t]
      BY <1>1, <1>3
    <3>2. t \in InsideOf(f)
      <4>1. t \in Helpers
        BY <2>2, <3>1, Actors DEF FrontOf
      <4> QED
        BY <1>3, <2>2, <3>1, <4>1 DEF InsideOf, Inside, Helping, FrontOf, InHands
    <3> QED
      BY <1>3, <2>2, <3>1, <3>2
  <2> QED
    BY <2>1, <2>2
<1>4. pc'[t] \in InHands => pc'[t] = pc[t]
  BY <1>1
<1> QED
  BY <1>2, <1>3, <1>4, StaysInHand

(* What front f leaves to the others when it has changed the lists.        *)
LEMMA OthersFit ==
  ASSUME NEW f, Crew(f), \A g \in Fronts : RingFits(g), FrontsInvariant,
         first' \in Int, last' \in Int, first' <= first, last <= last',
         first' = first \/ Running(f)
  PROVE  \A g \in Fronts \ {f} : RingFits(g)'
<1> USE CrewFacts
<1> SUFFICES ASSUME NEW g \in Fronts \ {f} PROVE RingFits(g)'
  OBVIOUS
<1>1. Follows(g) /\ ring'[g] = ring[g]
  BY OthersFollow
<1>2. first' = first \/ exit \/ ~ (g \in frontrunner /\ phase[g] \in Starting)
  BY NobodyStarts
<1>3. first \in Int /\ last \in Int /\ transient_offset' = transient_offset
  BY DEF TypeOK, Crew, KeepsOthers
<1> QED
  BY <1>1, <1>2, <1>3, StaysFit

(* A ring that has been replaced.                                          *)
LEMMA RingReplaced ==
  ASSUME NEW f, NEW s \in Rings, ring'[f] = s, transient_offset' = transient_offset,
         Linked(s) => /\ InPlace(s)
                      /\ first' + back_offset <= PlaceOf(s, 0)
                      /\ PlaceOf(s, 0) + front_offset <= last',
         ~ Linked(s) => Blank(s),
         Running(f)' => Linked(s) /\ PlaceOf(s, 0) = at'[f]
  PROVE  RingRight(f)'
<1>1. Slot(ring[f], 0)' = Slot(s, 0) /\ PlaceOf(ring[f], 0)' = PlaceOf(s, 0)
  BY DEF Slot, PlaceOf
<1>2. /\ Linked(ring[f])' = Linked(s)
      /\ Blank(s) => Blank(ring[f])'
  BY DEF Linked, Blank
<1>3. InPlace(s) => InPlace(ring[f])'
  BY DEF InPlace, Slot, PlaceOf
<1>4. Linked(s) => WithinLists(ring[f])'
  BY <1>1 DEF WithinLists
<1> QED
  BY <1>1, <1>2, <1>3, <1>4 DEF RingRight

(* Front 0 puts the initial marking where it belongs.                      *)
LEMMA SetupFits ==
  ASSUME Crew(0), FrontsInvariant, DataFits, Setup
  PROVE  DataFits' /\ ring' \in [Fronts' -> Rings]
<1> USE CrewFacts
<1> DEFINE r == ring[0]
           k == Link(r, first)
           s == Insert(k, "store", 0, InitialMarking)
<1>1. /\ pc[0] = "setup" /\ pc'[0] = "wake" /\ pc[0] \in Early
      /\ UNCHANGED <<frontVars, arguments, new, old, ns, entry, frontptr>>
      /\ ring' = [ring EXCEPT ![0] = s]
  BY DEF Setup, Goto, local, Early
<1>2. /\ ~ exit /\ frontrunner = {0} /\ first = 0 /\ last \in Int /\ store_size <= last
      /\ phase[0] = "loop" /\ InsideOf(0) = {} /\ transient_offset \in Nat
      /\ r \in Rings /\ RingFits(0)
  <2>1. phase[0] = "loop"
    BY <1>1 DEF RingStays
  <2>2. InsideOf(0) = {}
    BY <1>1 DEF StartsFirst, InsideOf, Inside, Helping
  <2>3. first = 0 /\ first + store_size <= last /\ last \in Int /\ transient_offset \in Nat
    BY <1>1, Sizes DEF DataFits, ListsRight, TypeOK
  <2> QED
    BY <1>1, <2>1, <2>2, <2>3, Sizes DEF StartsFirst, Crew, DataFits
<1>3. /\ k \in Rings /\ Linked(k) /\ InPlace(k) /\ PlaceOf(k, 0) = back_offset
      /\ k.active = back_offset /\ k.place = [i \in Slots |-> first + i]
  <2>1. /\ Linked(r) => InPlace(r)
        /\ ~ Linked(r) => Blank(r)
        /\ Blank(r) \/ (r.active = back_offset /\ r.place = [i \in Slots |-> first + i])
    BY <1>2 DEF RingFits, RingRight, Prepared
  <2>2. PlaceOf(k, 0) = first + back_offset /\ first \in Int
    BY <1>2, <2>1, RingLinks
  <2>3. PlaceOf(k, 0) = back_offset
    BY <1>2, <2>2, Sizes
  <2> QED
    BY <1>2, <2>1, <2>3, RingLinks
<1>4. s \in Rings /\ SameSlots(k, s) /\ InPlace(s)
  <2>1. InitialMarking \in Markings /\ Progress[InitialMarking] \in Int
    BY MarkingsAssumption, ProgressAssumption
  <2>2. 0 \in Offsets /\ PlaceFor(InitialMarking) = PlaceOf(k, 0) + 0
    BY <1>3, <2>1, Sizes DEF PlaceFor, Offsets
  <2> HIDE DEF k
  <2> QED
    BY <1>2, <1>3, <2>1, <2>2, RingInserts
<1>5. /\ Linked(s) /\ PlaceOf(s, 0) = back_offset
      /\ s.active = back_offset /\ s.place = [i \in Slots |-> first + i]
  BY <1>3, <1>4, SlotsStay DEF SameSlots
<1> HIDE DEF r, k, s
<1>6. ring' \in [Fronts' -> Rings] /\ ring'[0] = s
  BY <1>1, <1>4 DEF Crew
<1>7. RingFits(0)'
  <2>1. /\ first' + back_offset <= PlaceOf(s, 0)
        /\ PlaceOf(s, 0) + front_offset <= last'
    BY <1>1, <1>2, <1>5, Sizes DEF frontVars
  <2>2. phase'[0] = "loop" /\ UNCHANGED <<first, last, transient_offset, frontrunner>>
    BY <1>1, <1>2 DEF frontVars, arguments
  <2>3. RingRight(0)'
    <3>1. ~ Running(0)'
      BY <2>2 DEF Running
    <3> QED
      BY <1>4, <1>5, <1>6, <2>1, <2>2, <3>1, RingReplaced
  <2>4. Prepared(0)'
    BY <1>2, <1>5, <1>6, <2>2 DEF Prepared
  <2>5. Searched(0)'
    BY <2>2 DEF Searched
  <2> QED
    BY <2>3, <2>4, <2>5 DEF RingFits
<1>8. \A g \in Fronts : RingFits(g)'
  BY <1>1, <1>2, <1>7, OthersFit DEF frontVars, DataFits
<1>9. \A t \in Threads : InHand(t)'
  BY <1>1, <1>2, HandsKeep DEF DataFits, InHands
<1>10. ListsRight'
  BY <1>1, StayInLists DEF DataFits, frontVars, arguments
<1> QED
  BY <1>1, <1>6, <1>8, <1>9, <1>10 DEF DataFits

(* initFront links a ring that is empty or has been linked so.             *)
LEMMA InitFits ==
  ASSUME NEW f, Crew(f), FrontsInvariant, DataFits, InitFront(f), ~ exit
  PROVE  DataFits' /\ ring' \in [Fronts' -> Rings]
<1> USE CrewFacts
<1> DEFINE r == ring[f]
           s == Link(r, first)
<1>1. /\ pc[f] = "outside" /\ pc' = pc /\ phase[f] = "begin" /\ phase'[f] = "test"
      /\ UNCHANGED <<first, last, frontrunner, exit, arguments, new, old, ns, entry>>
      /\ ring' = [ring EXCEPT ![f] = s]
      /\ at'[f] = first + back_offset
  BY DEF InitFront, Begin, Go, TypeOK, local
<1>2. /\ r \in Rings /\ RingRight(f) /\ Prepared(f)
      /\ first \in Int /\ last \in Int /\ first + store_size <= last
  BY DEF Crew, DataFits, RingFits, ListsRight, TypeOK
<1>3. /\ s \in Rings /\ Linked(s) /\ InPlace(s) /\ PlaceOf(s, 0) = first + back_offset
  <2>1. /\ Linked(r) => InPlace(r)
        /\ ~ Linked(r) => Blank(r)
        /\ Blank(r) \/ (r.active = back_offset /\ r.place = [i \in Slots |-> first + i])
    BY <1>1, <1>2 DEF RingRight, Prepared
  <2> QED
    BY <1>2, <2>1, RingLinks
<1> HIDE DEF s
<1>4. ring' \in [Fronts' -> Rings] /\ ring'[f] = s
  BY <1>1, <1>3 DEF Crew
<1>5. RingFits(f)'
  <2>1. /\ first' + back_offset <= PlaceOf(s, 0)
        /\ PlaceOf(s, 0) + front_offset <= last'
    BY <1>1, <1>2, <1>3, Sizes
  <2>2. RingRight(f)'
    BY <1>1, <1>3, <1>4, <2>1, RingReplaced DEF arguments
  <2>3. Prepared(f)' /\ Searched(f)'
    BY <1>1 DEF Prepared, Searched
  <2> QED
    BY <2>2, <2>3 DEF RingFits
<1>6. \A g \in Fronts : RingFits(g)'
  BY <1>1, <1>2, <1>5, OthersFit DEF DataFits
<1>7. \A t \in Threads : InHand(t)'
  <2>1. ASSUME NEW h \in InsideOf(f) PROVE pc[h] \notin InHands
    <3>1. ~ Linked(ring[f])
      BY <1>1 DEF RingStays
    <3>2. h \in Threads /\ FrontOf(h) = f
      BY DEF InsideOf, FrontOf
    <3> QED
      BY <3>1, <3>2 DEF DataFits, InHand, InHands
  <2> QED
    BY <1>1, <2>1, HandsKeep DEF DataFits, InHands
<1>8. ListsRight'
  BY <1>1, StayInLists DEF DataFits, arguments
<1> QED
  BY <1>1, <1>4, <1>6, <1>7, <1>8 DEF DataFits

(* A round ends when the store with the current value is empty.            *)
LEMMA DoneFits ==
  ASSUME NEW f, Crew(f), FrontsInvariant, DataFits, RoundDone(f)
  PROVE  DataFits' /\ ring' \in [Fronts' -> Rings]
<1> USE CrewFacts
<1>1. /\ pc[f] = "empty" /\ pc'[f] = "outside" /\ helpers[f] = 0 /\ phase[f] = "work"
      /\ phase'[f] = (IF exit THEN "clear" ELSE "wait")
      /\ UNCHANGED <<last, frontrunner, exit, at, arguments, ring, ns, entry>>
      /\ first' = first \/ (~ exit /\ first' = first - back_progress[f])
      /\ Lists
  BY DEF RoundDone, HelpersGone, EndWork, Go, Goto, local
<1>2. first \in Int /\ last \in Int /\ first' \in Int /\ first' <= first
  <2>1. back_progress[f] \in Nat /\ first \in Int /\ last \in Int
    BY DEF TypeOK
  <2> QED
    BY <1>1, <2>1
<1>3. InsideOf(f) = {}
  BY <1>1, NobodyInside
<1>4. RingFits(f)'
  <2>1. RingRight(f)'
    <3>1. Running(f) /\ at'[f] = at[f]
      BY <1>1 DEF Running
    <3> QED
      BY <1>1, <1>2, <3>1, StaysRight DEF DataFits, RingFits, arguments
  <2>2. Prepared(f)'
    BY <1>1 DEF Prepared
  <2>3. Searched(f)'
    BY <1>1, <1>3 DEF DataFits, RingFits, Searched, Looking
  <2> QED
    BY <2>1, <2>2, <2>3 DEF RingFits
<1>5. \A g \in Fronts : RingFits(g)'
  <2>1. Running(f)
    BY <1>1 DEF Running
  <2> QED
    BY <1>1, <1>2, <1>4, <2>1, OthersFit DEF DataFits
<1>6. \A t \in Threads : InHand(t)'
  <2>1. SameSlots(ring[f], ring'[f])
    BY <1>1 DEF SameSlots
  <2> QED
    BY <1>1, <2>1, HandsKeep DEF DataFits, InHands
<1>7. ListsRight'
  <2>1. pc'[0] \notin Early
    <3>1. "empty" \notin Early /\ "outside" \notin Early /\ "empty" # "outside"
      BY DEF Early
    <3>2. pc[0] \notin Early
      BY <1>1, <3>1 DEF StartsFirst
    <3>3. f # 0 => pc'[0] = pc[0]
      BY DEF Crew, KeepsOthers
    <3> QED
      BY <1>1, <3>1, <3>2, <3>3
  <2> QED
    BY <1>1, <1>2, <2>1, ListsGrow DEF DataFits, arguments
<1> QED
  BY <1>1, <1>5, <1>6, <1>7 DEF DataFits, Crew

(* The ring moves on with nobody inside.                                   *)
LEMMA AdvanceFits ==
  ASSUME NEW f, Crew(f), FrontsInvariant, DataFits, AdvanceProgress(f)
  PROVE  DataFits' /\ ring' \in [Fronts' -> Rings]
<1> USE CrewFacts
<1>1. /\ pc[f] = "outside" /\ pc' = pc /\ phase[f] = "advance"
      /\ UNCHANGED <<frontrunner, exit, arguments, ns, entry>>
      /\ Lists
      /\ \/ /\ phase'[f] = "post" /\ at'[f] = at[f] + 1 /\ first' = first
            /\ last' = IF at[f] + front_offset < last THEN last ELSE last + 1
            /\ ring' = [ring EXCEPT ![f] = Advanced(@, transient_offset)]
         \/ /\ phase'[f] = "clear" /\ at'[f] = at[f] /\ last' = last /\ ring' = ring
            /\ \E age \in 0 .. back_progress[f] : first' = first - age
  <2>1. back_progress[f] \in Nat
    BY DEF TypeOK
  <2>2. Age(ring[f], new, back_progress[f]) \in 0 .. back_progress[f]
    BY <2>1, AgeInRange
  <2> QED
    BY <2>2 DEF AdvanceProgress, Advance, Go, TypeOK, local
<1>2. /\ first \in Int /\ last \in Int /\ first' \in Int /\ last' \in Int
      /\ first' <= first /\ last <= last' /\ at[f] \in Int
  <2>1. back_progress[f] \in Nat /\ first \in Int /\ last \in Int /\ at[f] \in Int
    BY DEF TypeOK
  <2> QED
    BY <1>1, <2>1
<1>3. InsideOf(f) = {}
  BY <1>1 DEF RingStays
<1>4. Running(f) /\ RingRight(f) /\ ring[f] \in Rings /\ ring[f].store[ring[f].active] = {}
  BY <1>1 DEF Running, DataFits, RingFits, RingRight, Searched
<1>5. RingRight(f)' /\ ring' \in [Fronts' -> Rings]
  <2>1. CASE phase'[f] = "clear"
    BY <1>1, <1>2, <1>4, <2>1, StaysRight DEF arguments, Crew
  <2>2. CASE phase'[f] = "post"
    <3> DEFINE s == Advanced(ring[f], transient_offset)
    <3>1. /\ Linked(ring[f]) /\ InPlace(ring[f]) /\ WithinLists(ring[f])
          /\ PlaceOf(ring[f], 0) = at[f]
      BY <1>4 DEF RingRight
    <3>2. transient_offset \in 0 .. back_offset
      BY DEF DataFits, ListsRight
    <3>3. s \in Rings /\ Linked(s) /\ InPlace(s) /\ PlaceOf(s, 0) = at[f] + 1
      BY <1>4, <3>1, <3>2, RingAdvances DEF Linked
    <3>4. ring' = [ring EXCEPT ![f] = s]
      BY <1>1, <2>2
    <3> HIDE DEF s
    <3>5. ring' \in [Fronts' -> Rings] /\ ring'[f] = s
      BY <3>3, <3>4 DEF Crew
    <3>6. /\ at'[f] = at[f] + 1 /\ first' = first
          /\ last' = IF at[f] + front_offset < last THEN last ELSE last + 1
      BY <1>1, <2>2
    <3>7. first + back_offset <= at[f] /\ at[f] + front_offset <= last
      BY <3>1 DEF WithinLists
    <3>8. /\ first' + back_offset <= at[f] + 1
          /\ at[f] + 1 + front_offset <= last'
      BY <1>2, <3>6, <3>7, Sizes
    <3> QED
      BY <1>1, <3>3, <3>5, <3>6, <3>8, RingReplaced DEF arguments
  <2> QED
    BY <1>1, <2>1, <2>2
<1>6. RingFits(f)'
  <2>1. Prepared(f)' /\ Searched(f)'
    BY <1>1 DEF Prepared, Searched
  <2> QED
    BY <1>5, <2>1 DEF RingFits
<1>7. \A g \in Fronts : RingFits(g)'
  BY <1>2, <1>4, <1>6, OthersFit DEF DataFits
<1>8. \A t \in Threads : InHand(t)'
  BY <1>1, <1>3, HandsKeep DEF DataFits, InHands
<1>9. ListsRight'
  <2>1. pc'[0] \notin Early
    BY <1>1 DEF StartsFirst
  <2> QED
    BY <1>1, <1>2, <2>1, ListsGrow DEF DataFits, arguments
<1> QED
  BY <1>1, <1>5, <1>7, <1>8, <1>9 DEF DataFits

(* deinitFront empties the ring.                                           *)
LEMMA DeinitFits ==
  ASSUME NEW f, Crew(f), FrontsInvariant, DataFits, DeinitFront(f)
  PROVE  DataFits' /\ ring' \in [Fronts' -> Rings]
<1> USE CrewFacts
<1> DEFINE r == ring[f]
           s == Emptied(r)
<1>1. /\ pc[f] = "outside" /\ pc' = pc /\ phase'[f] \in {"pass", "loop"}
      /\ UNCHANGED <<first, last, arguments, new, old, ns, entry>>
      /\ ring' = [ring EXCEPT ![f] = s]
  BY DEF DeinitFront, Clear, Go, local
<1>2. r \in Rings /\ RingRight(f) /\ first \in Int /\ last \in Int
  BY DEF Crew, DataFits, RingFits, TypeOK
<1>3. /\ s \in Rings /\ SameSlots(r, s) /\ Blank(s) /\ s.store[s.active] = {}
      /\ InPlace(r) => InPlace(s)
  BY <1>2, RingEmpties
<1> HIDE DEF s
<1>4. ring' \in [Fronts' -> Rings] /\ ring'[f] = s
  BY <1>1, <1>3 DEF Crew
<1>5. RingFits(f)'
  <2>1. RingRight(f)'
    <3>1. Linked(s) => /\ InPlace(s)
                       /\ first' + back_offset <= PlaceOf(s, 0)
                       /\ PlaceOf(s, 0) + front_offset <= last'
      BY <1>1, <1>2, <1>3, SlotsStay DEF RingRight, WithinLists
    <3>2. ~ Running(f)'
      BY <1>1 DEF Running
    <3> QED
      BY <1>1, <1>3, <1>4, <3>1, <3>2, RingReplaced DEF arguments
  <2>2. Prepared(f)'
    BY <1>3, <1>4 DEF Prepared, Blank
  <2>3. Searched(f)'
    BY <1>3, <1>4 DEF Searched
  <2> QED
    BY <2>1, <2>2, <2>3 DEF RingFits
<1>6. \A g \in Fronts : RingFits(g)'
  BY <1>1, <1>2, <1>5, OthersFit DEF DataFits
<1>7. \A t \in Threads : InHand(t)'
  BY <1>1, <1>3, <1>4, HandsKeep DEF DataFits, InHands
<1>8. ListsRight'
  BY <1>1, StayInLists DEF DataFits, arguments
<1> QED
  BY <1>1, <1>4, <1>6, <1>7, <1>8 DEF DataFits

(***************************************************************************)
(* checkStates, by a front or a helper.                                    *)
(***************************************************************************)
Checker(t, f) ==
  /\ TypeOK /\ HelpersInvariant /\ ring \in [Fronts -> Rings]
  /\ \A g \in Fronts : RingStays(g)
  /\ DataFits
  /\ t \in Threads /\ f = FrontOf(t) /\ CheckStates(t)

(* What a step of checkStates leaves alone.                                *)
LEMMA CheckerStays ==
  ASSUME NEW t, NEW f, Checker(t, f)
  PROVE  /\ f \in Fronts /\ t \in {f} \union InsideOf(f)
         /\ \A u \in Threads : FrontOf(u) \in Fronts
         /\ Fronts' = Fronts /\ Threads' = Threads
         /\ UNCHANGED <<phase, at, frontrunner, first, last, transient_offset, frontptr>>
         /\ exit => exit'
         /\ \A u \in Threads \ {t} : pc'[u] = pc[u]
         /\ \A g \in Fronts : InsideOf(g)' = InsideOf(g)
         /\ phase[f] \notin {"wait", "advance"}
         /\ Linked(ring[f]) /\ ~ exit => phase[f] \notin Starting
         /\ pc' \in [Threads -> Labels] /\ (pc'[0] \in Early => pc[0] \in Early)
<1>t. /\ HelperTypes /\ t \in Threads /\ pc \in [Threads -> Labels]
      /\ frontptr \in [Helpers -> Fronts]
      /\ Fronts \subseteq Threads /\ Helpers \subseteq Threads
      /\ \A h \in Helpers : h \notin Fronts
      /\ \A u \in Threads : u \notin Fronts => u \in Helpers
  BY Actors DEF Checker, HelpersInvariant, HelperTypes
<1>0. \A u \in Threads : FrontOf(u) \in Fronts
  BY <1>t DEF FrontOf
<1>1. /\ pc[t] \in Checking
      /\ UNCHANGED <<nr_of_fronts, nr_of_threads, phase, frontrunner, frontptr>>
  BY <1>t, ChecksOn DEF Checker
<1>2. PICK l \in Checking \union {Return(t)} : Goes(t, l)
  BY <1>t, ChecksOn DEF Checker
<1>3. l \in Checking \union {"leave", "gather", "empty"} /\ l \in Labels
  BY <1>2 DEF Return, Checking, Labels, AtWork
<1>4. /\ Fronts' = Fronts /\ Threads' = Threads /\ Helpers' = Helpers
      /\ pc' \in [Threads -> Labels] /\ pc'[t] = l
      /\ \A u \in Threads \ {t} : pc'[u] = pc[u]
  BY <1>t, <1>2, <1>3, GoesFacts
<1>5. \A h \in Helpers : Inside(h)' <=> Inside(h)
  <2>1. t \in Helpers => l \in Checking \union {"leave"}
    BY <1>2 DEF Return
  <2> QED
    BY <1>t, <1>1, <1>4, <2>1 DEF Inside, Helping, Checking
<1>6. \A g \in Fronts : InsideOf(g)' = InsideOf(g)
  BY <1>1, <1>4, <1>5 DEF InsideOf
<1>7. f \in Fronts /\ t \in {f} \union InsideOf(f)
  BY <1>t, <1>0, <1>1 DEF Checker, FrontOf, InsideOf, Inside, Helping, Checking
<1>8. /\ phase[f] \notin {"wait", "advance"}
      /\ Linked(ring[f]) /\ ~ exit => phase[f] \notin Starting
  <2>1. CASE t = f
    <3>1. pc[f] \in AtWork
      BY <1>1, <2>1 DEF Checking, AtWork
    <3>2. phase[f] = "work"
      BY <1>7, <3>1 DEF Checker, RingStays
    <3> QED
      BY <3>2 DEF Starting
  <2>2. CASE t \in InsideOf(f)
    BY <1>7, <2>2 DEF Checker, RingStays, Starting
  <2> QED
    BY <1>7, <2>1, <2>2
<1>9. UNCHANGED <<transient_offset, at, first, last>>
  BY DEF Checker, CheckStates, Pop, PopNew, Store, SolutionFound, Found, Ask, arguments,
         frontVars
<1>10. exit => exit'
  BY <1>7, ChecksLinkNothing DEF Checker
<1>11. pc'[0] \in Early => pc[0] \in Early
  <2>1. l \notin Early
    BY <1>3 DEF Checking, Early
  <2>2. 0 \in Threads
    BY Actors DEF Checker, HelpersInvariant
  <2> QED
    BY <1>4, <2>1, <2>2
<1> QED
  BY <1>0, <1>1, <1>4, <1>6, <1>7, <1>8, <1>9, <1>10, <1>11

(* Its ring has become s, with the slots where they were.                  *)
LEMMA CheckedRingFits ==
  ASSUME NEW t, NEW f, Checker(t, f), NEW s \in Rings, ring' = [ring EXCEPT ![f] = s],
         SameSlots(ring[f], s),
         IF Linked(ring[f]) THEN InPlace(s) ELSE s = ring[f],
         \/ pc'[t] \in Looking
         \/ exit'
         \/ s.store[s.active] = {}
         \/ s.store[s.active] = ring[f].store[s.active] /\ pc[t] \notin Looking
  PROVE  ring' \in [Fronts' -> Rings] /\ \A g \in Fronts : RingFits(g)'
<1> USE CheckerStays
<1>1. /\ ring' \in [Fronts' -> Rings] /\ ring'[f] = s
      /\ \A g \in Fronts \ {f} : ring'[g] = ring[g]
  BY DEF Checker
<1>2. /\ first \in Int /\ last \in Int /\ first' \in Int /\ last' \in Int
      /\ first' <= first /\ last <= last'
  BY DEF Checker, TypeOK
<1>3. RingRight(f) /\ Prepared(f) /\ Searched(f)
  BY DEF Checker, DataFits, RingFits
<1>4. RingFits(f)'
  <2>1. RingRight(f)'
    <3>1. /\ Linked(s) => /\ InPlace(s)
                          /\ first' + back_offset <= PlaceOf(s, 0)
                          /\ PlaceOf(s, 0) + front_offset <= last'
          /\ ~ Linked(s) => Blank(s)
      BY <1>3, SlotsStay DEF RingRight, WithinLists
    <3>2. Running(f)' => Linked(s) /\ PlaceOf(s, 0) = at'[f]
      BY <1>3, SlotsStay DEF RingRight, Running
    <3> QED
      BY <1>1, <3>1, <3>2, RingReplaced
  <2>2. Prepared(f)'
    <3>1. CASE Linked(ring[f])
      BY <3>1 DEF Prepared, Starting
    <3>2. CASE ~ Linked(ring[f])
      BY <1>1, <1>3, <3>2 DEF RingRight, Prepared, Blank
    <3> QED
      BY <3>1, <3>2
  <2>3. Searched(f)'
    <3> SUFFICES ASSUME s.store[s.active] # {}, phase'[f] = "work", ~ exit'
                 PROVE  \E u \in {f} \union InsideOf(f)' : pc'[u] \in Looking
      BY <1>1 DEF Searched
    <3>1. CASE pc'[t] \in Looking
      BY <3>1
    <3>2. CASE pc'[t] \notin Looking
      <4>1. ring[f].store[ring[f].active] # {} /\ pc[t] \notin Looking
        BY <3>2 DEF SameSlots
      <4>2. PICK u \in {f} \union InsideOf(f) : pc[u] \in Looking
        BY <1>3, <4>1 DEF Searched
      <4>3. u # t /\ u \in Threads
        BY <4>1, <4>2, Actors DEF Checker, HelpersInvariant, InsideOf
      <4> QED
        BY <4>2, <4>3
    <3> QED
      BY <3>1, <3>2
  <2> QED
    BY <2>1, <2>2, <2>3 DEF RingFits
<1>5. ASSUME NEW g \in Fronts, g # f PROVE RingFits(g)'
  <2>1. \A u \in {g} \union InsideOf(g) : u \in Threads /\ u # t
    BY <1>5, Actors DEF Checker, HelpersInvariant, InsideOf, FrontOf
  <2>2. LooksOn(g)
    BY <2>1 DEF LooksOn
  <2>3. Follows(g)
    BY <2>2 DEF Follows, Running
  <2>4. RingFits(g)
    BY DEF Checker, DataFits
  <2>5. ring'[g] = ring[g]
    BY <1>1, <1>5
  <2> QED
    BY <1>2, <2>3, <2>4, <2>5, StaysFit
<1> QED
  BY <1>1, <1>4, <1>5

(* The markings in the hands of all who have not taken one just now.       *)
LEMMA CheckedInHand ==
  ASSUME NEW t, NEW f, Checker(t, f), NEW s, ring' = [ring EXCEPT ![f] = s],
         SameSlots(ring[f], s),
         NEW u \in Threads, u # t \/ pc'[t] \notin InHands,
         ns'[u] = ns[u], entry'[u] = entry[u]
  PROVE  InHand(u)'
<1> USE CheckerStays
<1>1. FrontOf(u)' = FrontOf(u)
  BY DEF FrontOf
<1>2. SameSlots(ring[FrontOf(u)], ring'[FrontOf(u)])
  BY DEF Checker, SameSlots
<1>3. pc'[u] \in InHands => pc'[u] = pc[u]
  OBVIOUS
<1>4. InHand(u)
  BY DEF Checker, DataFits
<1>5. pc'[u] \in InHands => entry'[u] = entry[u]
  OBVIOUS
<1> QED
  BY <1>1, <1>2, <1>3, <1>4, <1>5, StaysInHand

(* A store of a list changes, and holds what belongs there.                *)
LEMMA ListChanges ==
  ASSUME NEW list \in [first .. last -> SUBSET Markings],
         \A p \in first .. last : Belongs(list[p], p),
         NEW q \in first .. last, NEW M \in SUBSET Markings, Belongs(M, q)
  PROVE  /\ [list EXCEPT ![q] = M] \in [first .. last -> SUBSET Markings]
         /\ \A p \in first .. last : Belongs([list EXCEPT ![q] = M][p], p)
OBVIOUS

(* So both lists stay right when one of their stores changes.              *)
LEMMA ListsChange ==
  ASSUME ListsRight, UNCHANGED <<first, last, transient_offset>>,
         pc'[0] \in Early => pc[0] \in Early,
         NEW q \in first .. last, NEW M \in SUBSET Markings, Belongs(M, q),
         \/ new' = new /\ old' = [old EXCEPT ![q] = M]
         \/ old' = old /\ new' = [new EXCEPT ![q] = M]
  PROVE  ListsRight'
<1>1. /\ new \in [first .. last -> SUBSET Markings]
      /\ old \in [first .. last -> SUBSET Markings]
      /\ \A p \in first .. last : Belongs(new[p], p) /\ Belongs(old[p], p)
  BY DEF ListsRight
<1>2. /\ new' \in [first .. last -> SUBSET Markings]
      /\ old' \in [first .. last -> SUBSET Markings]
      /\ \A p \in first .. last : Belongs(new'[p], p) /\ Belongs(old'[p], p)
  BY <1>1, ListChanges
<1> QED
  BY <1>2 DEF ListsRight, Belongs, PlaceFor

(* What a checker that stays with its ring leaves.                         *)
LEMMA UntouchedRingFits ==
  ASSUME NEW t, NEW f, Checker(t, f), ring' = ring,
         \/ pc'[t] \in Looking
         \/ exit'
         \/ ring[f].store[ring[f].active] = {}
         \/ pc[t] \notin Looking
  PROVE  /\ ring' \in [Fronts' -> Rings] /\ \A g \in Fronts : RingFits(g)'
         /\ \A u \in Threads : (u # t \/ pc'[t] \notin InHands)
              /\ ns'[u] = ns[u] /\ entry'[u] = entry[u] => InHand(u)'
<1>1. f \in Fronts /\ ring[f] \in Rings /\ RingRight(f)
  BY CheckerStays DEF Checker, DataFits, RingFits
<1>2. ring' = [ring EXCEPT ![f] = ring[f]] /\ SameSlots(ring[f], ring[f])
  BY <1>1 DEF Checker, SameSlots
<1>3. Linked(ring[f]) => InPlace(ring[f])
  BY <1>1 DEF RingRight
<1>4. ring' \in [Fronts' -> Rings] /\ \A g \in Fronts : RingFits(g)'
  BY <1>1, <1>2, <1>3, CheckedRingFits
<1>5. \A u \in Threads : (u # t \/ pc'[t] \notin InHands)
              /\ ns'[u] = ns[u] /\ entry'[u] = entry[u] => InHand(u)'
  BY <1>2, CheckedInHand
<1> QED
  BY <1>4, <1>5

(* A marking in hand is from a ring that has been linked.                  *)
LEMMA HandFacts ==
  ASSUME NEW t, NEW f, Checker(t, f), pc[t] \in InHands
  PROVE  /\ ring[f] \in Rings /\ Linked(ring[f]) /\ InPlace(ring[f]) /\ WithinLists(ring[f])
         /\ ns[t] \in Markings /\ PlaceFor(ns[t]) = PlaceOf(ring[f], 0)
         /\ PlaceOf(ring[f], 0) \in Int
         /\ \A o \in Offsets : PlaceOf(ring[f], 0) + o \in first .. last
         /\ \A o \in Offsets : PlaceOf(ring[f], o) = PlaceOf(ring[f], 0) + o
         /\ 0 \in Offsets
<1>1. f \in Fronts /\ ring[f] \in Rings /\ RingRight(f)
  BY CheckerStays DEF Checker, DataFits, RingFits
<1>2. Linked(ring[f]) /\ ns[t] \in Markings /\ PlaceFor(ns[t]) = PlaceOf(ring[f], 0)
  BY DEF Checker, DataFits, InHand, InHands, Checker
<1>3. InPlace(ring[f]) /\ WithinLists(ring[f])
  BY <1>1, <1>2 DEF RingRight
<1>4. PlaceOf(ring[f], 0) \in Int /\ 0 \in Offsets
  BY <1>1, PlaceIsInt
<1>5. ASSUME NEW o \in Offsets PROVE PlaceOf(ring[f], 0) + o \in first .. last
  <2>1. o \in Int /\ - back_offset <= o /\ o <= front_offset /\ first \in Int /\ last \in Int
    BY Sizes DEF Offsets, Checker, TypeOK
  <2> QED
    BY <1>3, <1>4, <2>1, Sizes DEF WithinLists
<1> QED
  BY <1>1, <1>2, <1>3, <1>4, <1>5 DEF InPlace

(* popState takes a transient marking of the current value.                *)
LEMMA PopFits ==
  ASSUME NEW t, NEW f, Checker(t, f), Pop(t)
  PROVE  DataFits' /\ ring' \in [Fronts' -> Rings]
<1> USE CheckerStays
<1>0. t \in Threads /\ f = FrontOf(t) /\ ring[f] \in Rings /\ RingRight(f)
  BY DEF Checker, DataFits, RingFits
<1>1. /\ pc[t] = "pop" /\ entry' = entry /\ UNCHANGED <<new, old>>
  BY DEF Pop
<1>2. ListsRight'
  BY <1>1, StayInLists DEF Checker, DataFits
<1>3. CASE ring' = ring /\ ns' = ns
  <2>0. ns' \in [Threads' -> Markings] /\ entry' \in [Threads' -> Int]
    BY <1>1, <1>3 DEF Checker, DataFits
  <2>1. \/ exit /\ pc'[t] = Return(t)
        \/ ring[f].store[ring[f].active] = {} /\ pc'[t] = "popnew"
        \/ /\ ~ exit /\ pc'[t] = "swap"
           /\ \E m \in ring[f].store[ring[f].active] :
                ring' = [ring EXCEPT ![f].store[ring[f].active] = @ \ {m}]
    BY <1>0 DEF Pop, Goto, Checker, HelpersInvariant, HelperTypes
  <2>2. CASE exit /\ pc'[t] = Return(t)
    <3>1. pc'[t] \notin InHands /\ exit'
      BY <2>2 DEF Return, InHands
    <3> QED
      BY <1>1, <1>2, <1>3, <2>0, <3>1, UntouchedRingFits DEF DataFits
  <2>3. CASE ring[f].store[ring[f].active] = {} /\ pc'[t] = "popnew"
    <3>1. pc'[t] \notin InHands
      BY <2>3 DEF InHands
    <3> QED
      BY <1>1, <1>2, <1>3, <2>0, <2>3, <3>1, UntouchedRingFits DEF DataFits
  <2>4. ASSUME NEW m \in ring[f].store[ring[f].active],
               ring' = [ring EXCEPT ![f].store[ring[f].active] = @ \ {m}]
        PROVE  FALSE
    <3>1. ring'[f].store[ring[f].active] = ring[f].store[ring[f].active] \ {m}
      BY <1>0, <2>4 DEF Checker, Rings
    <3> QED
      BY <1>3, <3>1
  <2> QED
    BY <2>1, <2>2, <2>3, <2>4
<1>4. ASSUME NEW m \in ring[f].store[ring[f].active], ns' = [ns EXCEPT ![t] = m],
             ring' = [ring EXCEPT ![f].store[ring[f].active] = @ \ {m}], Goto(t, "swap")
      PROVE  DataFits' /\ ring' \in [Fronts' -> Rings]
  <2> DEFINE s == [ring[f] EXCEPT !.store[ring[f].active] = @ \ {m}]
  <2>1. Linked(ring[f]) /\ InPlace(ring[f]) /\ m \in Markings
        /\ PlaceFor(m) = PlaceOf(ring[f], 0)
    <3>1. ring[f].active \in Slots /\ ring[f].store[ring[f].active] \in SUBSET Markings
      BY <1>0 DEF Rings
    <3>2. Linked(ring[f]) /\ InPlace(ring[f])
      BY <1>0, <3>1 DEF RingRight, Blank
    <3>3. /\ 0 \in Offsets /\ Slot(ring[f], 0) = ring[f].active
          /\ PlaceOf(ring[f], 0) \in Int
      BY <1>0, <3>1, SlotsDiffer, PlaceIsInt
    <3>4. PlaceFor(m) = PlaceOf(ring[f], 0) + 0
      BY <3>2, <3>3 DEF InPlace, Belongs
    <3> QED
      BY <3>1, <3>2, <3>3, <3>4
  <2>2. s \in Rings /\ SameSlots(ring[f], s) /\ InPlace(s)
    BY <1>0, <2>1, RingPops
  <2>3. ring' = [ring EXCEPT ![f] = s]
    BY <1>4
  <2> HIDE DEF s
  <2>4. pc'[t] = "swap" /\ "swap" \in Looking
    BY <1>0, <1>4 DEF Goto, Checker, HelpersInvariant, HelperTypes, Looking
  <2>5. ring' \in [Fronts' -> Rings] /\ \A g \in Fronts : RingFits(g)'
    BY <2>1, <2>2, <2>3, <2>4, CheckedRingFits
  <2>6. ns' \in [Threads' -> Markings] /\ entry' \in [Threads' -> Int]
    BY <1>1, <1>4, <2>1 DEF Checker, DataFits
  <2>7. ASSUME NEW u \in Threads PROVE InHand(u)'
    <3>1. CASE u # t
      <4>1. ns'[u] = ns[u] /\ entry'[u] = entry[u]
        BY <1>1, <1>4, <3>1
      <4> QED
        BY <2>2, <2>3, <3>1, <4>1, CheckedInHand
    <3>2. CASE u = t
      <4>1. FrontOf(t)' = f /\ ring'[f] = s /\ ns'[t] = m
        <5>1. t \in DOMAIN ns
          BY DEF Checker, DataFits
        <5> QED
          BY <1>0, <1>4, <2>3, <5>1 DEF FrontOf, Checker
      <4>2. Linked(s) /\ PlaceOf(s, 0) = PlaceOf(ring[f], 0)
        BY <2>1, <2>2, SlotsStay
      <4> QED
        BY <2>1, <2>4, <3>2, <4>1, <4>2 DEF InHand, PlaceFor, Linked, PlaceOf, Slot
    <3> QED
      BY <3>1, <3>2
  <2> QED
    BY <1>2, <2>5, <2>6, <2>7 DEF DataFits
<1> QED
  BY <1>0, <1>3, <1>4 DEF Pop

(* popState takes a new persistent marking, or finds none.                 *)
LEMMA PopNewFits ==
  ASSUME NEW t, NEW f, Checker(t, f), PopNew(t)
  PROVE  DataFits' /\ ring' \in [Fronts' -> Rings]
<1> USE CheckerStays
<1> DEFINE q == PlaceOf(ring[f], 0)
<1>0. /\ t \in Threads /\ f = FrontOf(t) /\ ring[f] \in Rings /\ RingRight(f)
      /\ pc \in [Threads -> Labels] /\ ns \in [Threads -> Markings]
      /\ entry \in [Threads -> Int]
  BY DEF Checker, DataFits, RingFits, HelpersInvariant, HelperTypes
<1>1. /\ pc[t] = "popnew" /\ ring' = ring /\ entry' = entry /\ old' = old
      /\ pc[t] \notin Looking
  BY DEF PopNew, Looking
<1>2. CASE new' = new /\ ns' = ns /\ Goto(t, Return(t))
  <2>1. pc'[t] \notin InHands
    BY <1>0, <1>2 DEF Return, InHands, Goto
  <2>2. ListsRight'
    BY <1>1, <1>2, StayInLists DEF Checker, DataFits
  <2> QED
    BY <1>0, <1>1, <1>2, <2>1, <2>2, UntouchedRingFits DEF DataFits
<1>3. ASSUME Linked(ring[f]), NEW m \in new[q], new' = [new EXCEPT ![q] = @ \ {m}],
             ns' = [ns EXCEPT ![t] = m], Goto(t, "keep")
      PROVE  DataFits' /\ ring' \in [Fronts' -> Rings]
  <2>1. InPlace(ring[f]) /\ q \in first .. last
    <3>1. InPlace(ring[f]) /\ WithinLists(ring[f]) /\ q \in Int
      BY <1>0, <1>3, PlaceIsInt DEF RingRight
    <3>2. first \in Int /\ last \in Int /\ first + back_offset <= q /\ q + front_offset <= last
      BY <3>1 DEF WithinLists, Checker, TypeOK
    <3> HIDE DEF q
    <3> QED
      BY <3>1, <3>2, Sizes
  <2>2. /\ new[q] \in SUBSET Markings /\ Belongs(new[q], q)
        /\ m \in Markings /\ PlaceFor(m) = q
    BY <1>3, <2>1 DEF Checker, DataFits, ListsRight, Belongs
  <2>3. ListsRight'
    <3>1. /\ new[q] \ {m} \in SUBSET Markings /\ Belongs(new[q] \ {m}, q)
          /\ new' = [new EXCEPT ![q] = new[q] \ {m}]
      BY <1>3, <2>2 DEF Belongs
    <3>2. ListsRight
      BY DEF Checker, DataFits
    <3> HIDE DEF q
    <3> QED
      BY <1>1, <2>1, <3>1, <3>2, ListsChange
  <2>4. pc'[t] = "keep" /\ "keep" \in Looking
    BY <1>0, <1>3 DEF Goto, Looking
  <2>5. /\ ring' \in [Fronts' -> Rings] /\ \A g \in Fronts : RingFits(g)'
        /\ \A u \in Threads : u # t => InHand(u)'
    BY <1>1, <1>3, <2>4, UntouchedRingFits
  <2>6. InHand(t)'
    <3>1. FrontOf(t)' = f /\ ns'[t] = m
      BY <1>0, <1>3 DEF FrontOf
    <3> QED
      BY <1>1, <1>3, <2>2, <2>4, <3>1 DEF InHand, PlaceFor, PlaceOf, Slot, Linked
  <2>7. ns' \in [Threads' -> Markings] /\ entry' \in [Threads' -> Int]
    BY <1>0, <1>1, <1>3, <2>2
  <2> QED
    BY <2>3, <2>5, <2>6, <2>7 DEF DataFits
<1> QED
  BY <1>0, <1>2, <1>3 DEF PopNew

(* A thread that has found a solution puts nothing anywhere.               *)
LEMMA FoundFits ==
  ASSUME NEW t, NEW f, Checker(t, f), SolutionFound(t)
  PROVE  DataFits' /\ ring' \in [Fronts' -> Rings]
<1> USE CheckerStays
<1>1. /\ t \in Threads /\ pc \in [Threads -> Labels] /\ exit'
      /\ UNCHANGED <<ring, new, old, ns, entry>> /\ pc'[t] = Return(t)
  BY DEF Checker, HelpersInvariant, HelperTypes, SolutionFound, Found, Goto, stores, local
<1>2. pc'[t] \notin InHands
  BY <1>1 DEF Return, InHands
<1>3. ListsRight'
  BY <1>1, StayInLists DEF Checker, DataFits
<1>4. ns' \in [Threads' -> Markings] /\ entry' \in [Threads' -> Int]
  BY <1>1 DEF Checker, DataFits
<1> QED
  BY <1>1, <1>2, <1>3, <1>4, UntouchedRingFits DEF DataFits

(* A marking is put back with those of the current value.                  *)
LEMMA StoreFits ==
  ASSUME NEW t, NEW f, Checker(t, f), Store(t)
  PROVE  DataFits' /\ ring' \in [Fronts' -> Rings]
<1> USE CheckerStays
<1> DEFINE q == PlaceOf(ring[f], 0)
           m == ns[t]
           n == Len(getFirelist(ns[t]))
<1>0. /\ t \in Threads /\ f = FrontOf(t)
      /\ pc \in [Threads -> Labels] /\ ns \in [Threads -> Markings]
      /\ entry \in [Threads -> Int]
  BY DEF Checker, DataFits, HelpersInvariant, HelperTypes
<1>1. /\ pc[t] \in InHands /\ UNCHANGED <<new, ns>>
      /\ entry' = [entry EXCEPT ![t] = IF m \in goal THEN 0 ELSE n]
      /\ pc'[t] = IF m \in goal THEN "found" ELSE IF n = 0 THEN "pop" ELSE "fire"
  BY <1>0 DEF Store, InHands, Goto
<1>2. /\ ring[f] \in Rings /\ Linked(ring[f]) /\ InPlace(ring[f])
      /\ m \in Markings /\ PlaceFor(m) = q /\ q \in first .. last
  <2>1. q + 0 \in first .. last /\ q \in Int
    BY <1>1, HandFacts
  <2> HIDE DEF q
  <2> QED
    BY <1>1, <2>1, HandFacts DEF q
<1>3. n \in Nat /\ pc'[t] \in Looking
  <2>1. n \in Nat
    BY <1>2, SweepFirelistAssumption
  <2> QED
    BY <1>1, <2>1 DEF Looking
<1>4. PICK s \in Rings :
        /\ ring' = [ring EXCEPT ![f] = s] /\ SameSlots(ring[f], s) /\ InPlace(s)
  <2>1. CASE ring' = ring
    BY <1>2, <2>1 DEF Checker, SameSlots
  <2>2. CASE ring' = [ring EXCEPT ![f].samevalue = @ \union {ns[t]}]
    <3> DEFINE s == [ring[f] EXCEPT !.samevalue = @ \union {m}]
    <3>1. s \in Rings /\ SameSlots(ring[f], s) /\ InPlace(s)
      BY <1>2, RingKeeps
    <3>2. ring' = [ring EXCEPT ![f] = s]
      BY <2>2
    <3> HIDE DEF s
    <3> QED
      BY <3>1, <3>2
  <2> QED
    BY <1>0, <2>1, <2>2 DEF Store
<1>5. ring' \in [Fronts' -> Rings] /\ \A g \in Fronts : RingFits(g)'
  BY <1>2, <1>3, <1>4, CheckedRingFits
<1>6. ListsRight'
  <2>0. ListsRight
    BY DEF Checker, DataFits
  <2>1. CASE old' = old
    BY <1>1, <2>0, <2>1, StayInLists
  <2>2. CASE old' = [old EXCEPT ![q] = @ \union {ns[t]}]
    <3>1. /\ old' = [old EXCEPT ![q] = old[q] \union {m}]
          /\ old[q] \union {m} \in SUBSET Markings /\ Belongs(old[q] \union {m}, q)
      BY <1>2, <2>0, <2>2 DEF ListsRight, Belongs
    <3> HIDE DEF q
    <3> QED
      BY <1>1, <1>2, <2>0, <3>1, ListsChange
  <2> QED
    BY <1>0, <2>1, <2>2 DEF Store
<1>7. ASSUME NEW u \in Threads PROVE InHand(u)'
  <2>1. CASE u # t
    <3>1. ns'[u] = ns[u] /\ entry'[u] = entry[u]
      BY <1>1, <2>1
    <3> QED
      BY <1>4, <2>1, <3>1, CheckedInHand
  <2>2. CASE u = t
    <3>1. FrontOf(t)' = f /\ ring'[f] = s /\ ns'[t] = m
      BY <1>0, <1>1, <1>4 DEF FrontOf, Checker
    <3>2. Linked(s) /\ PlaceOf(s, 0) = q
      BY <1>2, <1>4, SlotsStay
    <3>3. pc'[t] = "fire" => entry'[t] \in 1 .. n
      BY <1>0, <1>1, <1>3
    <3> QED
      BY <1>1, <1>2, <2>2, <3>1, <3>2, <3>3 DEF InHand, PlaceFor, Linked, PlaceOf, Slot
  <2> QED
    BY <2>1, <2>2
<1>8. ns' \in [Threads' -> Markings] /\ entry' \in [Threads' -> Int]
  BY <1>0, <1>1, <1>3
<1> QED
  BY <1>5, <1>6, <1>7, <1>8 DEF DataFits

(* A successor lies as far away as the transition says.                    *)
LEMMA Successors ==
  ASSUME NEW m \in Markings, NEW i \in 1 .. Len(getFirelist(m))
  PROVE  LET fired == getFirelist(m)[i]
         IN  /\ Fire(m, fired) \in Markings
             /\ ProgressMeasure[fired] \in Offsets
             /\ PlaceFor(Fire(m, fired)) = PlaceFor(m) + ProgressMeasure[fired]
<1> DEFINE fired == getFirelist(m)[i]
<1>1. fired \in Transition /\ Enabled(m, fired)
  <2>1. PICK T, L : /\ T = {t \in Transition : Enabled(m, t)} /\ L = getFirelist(m)
                    /\ L \in Seq(T)
    BY SweepFirelistAssumption
  <2>2. i \in 1 .. Len(L)
    BY <2>1
  <2>3. L[i] \in T
    BY <2>1, <2>2
  <2> QED
    BY <2>1, <2>3
<1> HIDE DEF fired
<1>2. /\ Fire(m, fired) \in Markings
      /\ Progress[Fire(m, fired)] = Progress[m] + ProgressMeasure[fired]
      /\ Progress[m] \in Int /\ Progress[InitialMarking] \in Int
      /\ ProgressMeasure[fired] \in Int
  BY <1>1, MarkingsAssumption, ProgressAssumption, MeasureAssumption
<1>3. ProgressMeasure[fired] \in Offsets
  <2>1. ProgressMeasure[fired] \in Measures
    BY <1>1 DEF Measures
  <2>2. - back_offset <= ProgressMeasure[fired] /\ ProgressMeasure[fired] <= front_offset
    BY <2>1, MeasureAssumption
  <2> QED
    BY <1>2, <2>2, Sizes DEF Offsets
<1>4. PlaceFor(Fire(m, fired)) = PlaceFor(m) + ProgressMeasure[fired]
  BY <1>2, Sizes DEF PlaceFor
<1> QED
  BY <1>2, <1>3, <1>4 DEF fired

(* A successor is looked for, and inserted, at its own value.              *)
LEMMA AskFits ==
  ASSUME NEW t, NEW f, Checker(t, f), Ask(t)
  PROVE  DataFits' /\ ring' \in [Fronts' -> Rings]
<1> USE CheckerStays
<1>0. /\ t \in Threads /\ f = FrontOf(t) /\ f \in Fronts
      /\ pc \in [Threads -> Labels] /\ ns \in [Threads -> Markings]
      /\ entry \in [Threads -> Int]
  BY DEF Checker, DataFits, HelpersInvariant, HelperTypes
<1>1. PICK m, o, q, where :
        /\ m = Fire(ns[t], getFirelist(ns[t])[entry[t]])
        /\ o = ProgressMeasure[getFirelist(ns[t])[entry[t]]]
        /\ q = PlaceOf(ring[f], o)
        /\ where = Probes(o)[Len(Probes(o))]
  OBVIOUS
<1>2. /\ pc[t] = "fire" /\ UNCHANGED <<old, ns>>
      /\ \/ ring' = ring /\ new' = new
         \/ /\ ring' = [ring EXCEPT ![f] = Insert(@, where, o, m)]
            /\ new' = IF where = "new" THEN [new EXCEPT ![q] = @ \union {m}] ELSE new
  BY <1>0, <1>1 DEF Ask
<1>3. \/ pc'[t] = "pop"
      \/ pc'[t] = "fire" /\ (entry' = entry \/ (entry[t] # 1
                              /\ entry' = [entry EXCEPT ![t] = @ - 1]))
  BY <1>0 DEF Ask, Goto
<1>4. entry' = entry \/ entry' = [entry EXCEPT ![t] = @ - 1]
  BY <1>0 DEF Ask
<1>5. /\ ring[f] \in Rings /\ Linked(ring[f]) /\ InPlace(ring[f]) /\ ns[t] \in Markings
      /\ PlaceFor(ns[t]) = PlaceOf(ring[f], 0) /\ PlaceOf(ring[f], 0) \in Int
  BY <1>2, HandFacts DEF InHands
<1>6. /\ entry[t] \in 1 .. Len(getFirelist(ns[t]))
      /\ m \in Markings /\ o \in Offsets /\ PlaceFor(m) = PlaceOf(ring[f], 0) + o
      /\ q = PlaceOf(ring[f], 0) + o /\ q \in first .. last
  <2>1. entry[t] \in 1 .. Len(getFirelist(ns[t]))
    BY <1>0, <1>2 DEF Checker, DataFits, InHand
  <2>2. m \in Markings /\ o \in Offsets /\ PlaceFor(m) = PlaceOf(ring[f], 0) + o
    BY <1>1, <1>5, <2>1, Successors
  <2> QED
    BY <1>1, <1>2, <2>1, <2>2, HandFacts DEF InHands
<1>7. where = "new" \/ (o >= 0 /\ transient_offset \in Nat)
  <2>1. o \in Int
    BY <1>5, <1>6, PlaceIsInt
  <2>2. transient_offset \in Nat
    BY Sizes DEF Checker, DataFits, ListsRight
  <2>3. o < 0 => where = "new"
    BY <1>1, <2>1 DEF Probes
  <2> QED
    BY <2>1, <2>2, <2>3
<1>8. pc'[t] \in Looking
  BY <1>3 DEF Looking
<1>9. PICK s \in Rings :
        /\ ring' = [ring EXCEPT ![f] = s] /\ SameSlots(ring[f], s) /\ InPlace(s)
  <2>1. CASE ring' = ring
    BY <1>5, <2>1 DEF Checker, SameSlots
  <2>2. CASE ring' = [ring EXCEPT ![f] = Insert(@, where, o, m)]
    <3> DEFINE s == Insert(ring[f], where, o, m)
    <3>1. s \in Rings /\ SameSlots(ring[f], s) /\ InPlace(s)
      BY <1>5, <1>6, <1>7, RingInserts
    <3>2. ring' = [ring EXCEPT ![f] = s]
      BY <2>2
    <3> HIDE DEF s
    <3> QED
      BY <3>1, <3>2
  <2> QED
    BY <1>2, <2>1, <2>2
<1>10. ring' \in [Fronts' -> Rings] /\ \A g \in Fronts : RingFits(g)'
  BY <1>5, <1>8, <1>9, CheckedRingFits
<1>11. ListsRight'
  <2>0. ListsRight
    BY DEF Checker, DataFits
  <2>1. CASE new' = new
    BY <1>2, <2>0, <2>1, StayInLists
  <2>2. CASE new' = [new EXCEPT ![q] = @ \union {m}]
    <3>1. /\ new' = [new EXCEPT ![q] = new[q] \union {m}]
          /\ new[q] \union {m} \in SUBSET Markings /\ Belongs(new[q] \union {m}, q)
      BY <1>6, <2>0, <2>2 DEF ListsRight, Belongs
    <3> QED
      BY <1>2, <1>6, <2>0, <3>1, ListsChange
  <2> QED
    BY <1>2, <2>1, <2>2
<1>12. ASSUME NEW u \in Threads PROVE InHand(u)'
  <2>1. CASE u # t
    <3>1. ns'[u] = ns[u] /\ entry'[u] = entry[u]
      <4>1. ns'[u] = ns[u]
        BY <1>2
      <4>2. CASE entry' = entry
        BY <4>1, <4>2
      <4>3. CASE entry' = [entry EXCEPT ![t] = @ - 1]
        BY <1>0, <2>1, <4>1, <4>3
      <4> QED
        BY <1>4, <4>2, <4>3
    <3> QED
      BY <1>9, <2>1, <3>1, CheckedInHand
  <2>2. CASE u = t
    <3>1. FrontOf(t)' = f /\ ring'[f] = s /\ ns'[t] = ns[t]
      BY <1>0, <1>2, <1>9 DEF FrontOf, Checker
    <3>2. Linked(s) /\ PlaceOf(s, 0) = PlaceOf(ring[f], 0)
      BY <1>5, <1>9, SlotsStay
    <3>3. pc'[t] = "fire" => entry'[t] \in 1 .. Len(getFirelist(ns[t]))
      BY <1>0, <1>3, <1>6
    <3> QED
      BY <1>5, <2>2, <3>1, <3>2, <3>3 DEF InHand, PlaceFor, Linked, PlaceOf, Slot
  <2> QED
    BY <2>1, <2>2
<1>13. ns' \in [Threads' -> Markings] /\ entry' \in [Threads' -> Int]
  BY <1>0, <1>2, <1>4
<1> QED
  BY <1>10, <1>11, <1>12, <1>13 DEF DataFits

(***************************************************************************)
(* The helpers outside of checkStates.                                     *)
(***************************************************************************)
HelperQuiet(h) == Look(h) \/ Come(h) \/ Help(h) \/ Leave(h) \/ Doze(h) \/ Nap(h) \/ Awake(h)

(* Of those who look at a front's current store only one that comes in is  *)
(* here, and goes on to look unless the search is over.                    *)
LEMMA HelperLooks ==
  ASSUME HelperTypes, NEW h \in Threads, HelperQuiet(h), pc[h] \in Looking, ~ exit
  PROVE  pc'[h] \in Looking /\ frontptr' = frontptr
<1>1. Help(h)
  BY DEF HelperQuiet, Look, Come, Leave, Doze, Nap, Awake, Looking
<1> QED
  BY <1>1 DEF Help, Goto, sync, HelperTypes, Looking

(* None of these steps puts a marking into the hands of a helper.          *)
LEMMA HelperGoes ==
  ASSUME HelperTypes, NEW h \in Threads, HelperQuiet(h)
  PROVE  pc'[h] \notin InHands
<1>1. pc'[h] \in {"done", "come", "doze", "nap", "look", "help", "leave", "pop", "asleep", "start"}
  <2>1. CASE Look(h) \/ Come(h)
    BY <2>1 DEF Look, Come, Elsewhere, Goto, HelperTypes
  <2>2. CASE Help(h) \/ Leave(h) \/ Doze(h) \/ Nap(h) \/ Awake(h)
    BY <2>2 DEF Help, Leave, Doze, Nap, Awake, Goto, HelperTypes
  <2> QED
    BY <2>1, <2>2 DEF HelperQuiet
<1> QED
  BY <1>1 DEF InHands

(* So everything stays right when helpers come and go.                     *)
LEMMA HelperQuietFits ==
  ASSUME TypeOK, HelpersInvariant, ring \in [Fronts -> Rings], DataFits,
         NEW h \in Helpers, HelperQuiet(h)
  PROVE  DataFits' /\ ring' \in [Fronts' -> Rings]
<1>t. /\ HelperTypes /\ h \in Threads /\ h # 0 /\ 0 \in Fronts /\ KeepsFronts(h)
      /\ Fronts \subseteq Threads /\ \A g \in Fronts : g # h
  BY Actors, FrontsKept DEF HelpersInvariant, HelperQuiet, HelperThread
<1>1. UNCHANGED <<frontVars, arguments, stores, ns, entry>>
  BY DEF HelperQuiet, Look, Come, Help, Leave, Doze, Nap, Awake, local
<1>2. /\ Fronts' = Fronts /\ Helpers' = Helpers /\ Threads' = Threads
      /\ \A g \in Fronts : pc'[g] = pc[g] /\ InsideOf(g)' \ {h} = InsideOf(g) \ {h}
      /\ \A u \in Threads \ {h} : pc'[u] = pc[u]
      /\ \A k \in Helpers \ {h} : frontptr'[k] = frontptr[k]
  BY <1>t, InsideChanges DEF KeepsFronts
<1>3. ring' \in [Fronts' -> Rings]
  BY <1>1, <1>2 DEF stores
<1>4. ListsRight'
  BY <1>t, <1>1, <1>2, StayInLists DEF DataFits, stores, frontVars, arguments
<1>5. ASSUME NEW g \in Fronts PROVE RingFits(g)'
  <2>1. ASSUME NEW u \in {g} \union InsideOf(g), pc[u] \in Looking, ~ exit
        PROVE  pc'[u] \in Looking /\ u \in {g} \union InsideOf(g)'
    <3>1. CASE u # h
      <4>1. u \in Threads
        BY <1>t, Actors DEF InsideOf
      <4> QED
        BY <1>2, <2>1, <3>1, <4>1
    <3>2. CASE u = h
      <4>1. pc'[h] \in Looking /\ frontptr' = frontptr
        BY <1>t, <2>1, <3>2, HelperLooks
      <4>2. frontptr[h] = g
        BY <1>t, <3>2 DEF InsideOf
      <4>3. Inside(h)'
        <5>1. pc'[h] \notin {"rouse", "draw", "signal"}
          BY <1>t, <2>1, <3>2, <4>1
          DEF HelperQuiet, Look, Come, Help, Leave, Doze, Nap, Awake, Goto, HelperTypes, Looking
        <5> QED
          BY <4>1, <5>1 DEF Looking, Inside, Helping
      <4> QED
        BY <1>2, <3>2, <4>1, <4>2, <4>3 DEF InsideOf
    <3> QED
      BY <3>1, <3>2
  <2>2. Follows(g)
    BY <1>1, <2>1 DEF Follows, LooksOn, Running, frontVars
  <2>3. first \in Int /\ last \in Int
    BY DEF TypeOK
  <2> QED
    BY <1>1, <2>2, <2>3, StaysFit DEF DataFits, frontVars, stores, arguments
<1>6. ASSUME NEW u \in Threads PROVE InHand(u)'
  <2>1. CASE u = h
    <3>1. pc'[u] \notin InHands
      BY <1>t, <2>1, HelperGoes
    <3> QED
      BY <3>1 DEF InHand, InHands
  <2>2. CASE u # h
    <3>1. FrontOf(u)' = FrontOf(u)
      <4>1. u \in Helpers \/ u \in Fronts
        BY Actors DEF HelpersInvariant
      <4> QED
        BY <1>2, <2>2, <4>1 DEF FrontOf
    <3>2. SameSlots(ring[FrontOf(u)], ring'[FrontOf(u)])
      BY <1>1 DEF SameSlots, stores
    <3>3. pc'[u] = pc[u] /\ ns'[u] = ns[u] /\ entry'[u] = entry[u]
      BY <1>1, <1>2, <2>2
    <3> QED
      BY <3>1, <3>2, <3>3, StaysInHand DEF DataFits
  <2> QED
    BY <2>1, <2>2
<1> QED
  BY <1>1, <1>2, <1>3, <1>4, <1>5, <1>6 DEF DataFits

(***************************************************************************)
(* The theorem.                                                            *)
(***************************************************************************)
LEMMA ProgressParts ==
  ProgressInvariant <=> /\ DataFits /\ ring \in [Fronts -> Rings]
                        /\ \A f \in Fronts : RingStays(f)
BY DEF ProgressInvariant, DataFits, RingFits

(* Every step of checkStates leaves the markings where they belong.        *)
LEMMA ChecksFit ==
  ASSUME NEW t, Checker(t, FrontOf(t))
  PROVE  DataFits' /\ ring' \in [Fronts' -> Rings]
BY PopFits, PopNewFits, StoreFits, FoundFits, AskFits DEF Checker, CheckStates

(* Every step of a front keeps the invariant ...                           *)
LEMMA FrontFits ==
  ASSUME FrontsInvariant, HelpersInvariant, ProgressInvariant,
         NEW f \in Fronts, FrontThread(f)
  PROVE  ProgressInvariant'
<1>1. /\ TypeOK /\ HelperTypes /\ DataFits /\ ring \in [Fronts -> Rings]
      /\ \A g \in Fronts : RingStays(g)
  BY ProgressParts DEF FrontsInvariant, HelpersInvariant
<1>2. Crew(f)
  BY <1>1, OthersKept DEF Crew
<1>3. Fronts' = Fronts /\ f \in Threads
  BY <1>2, CrewFacts
<1>4. \A g \in Fronts : RingStays(g)'
  BY <1>1, RingStaysFront
<1>5. DataFits' /\ ring' \in [Fronts' -> Rings]
  <2>1. CASE QuietStep(f)
    BY <1>1, <1>2, <2>1, QuietFits
  <2>2. CASE f = 0 /\ Setup
    BY <1>1, <1>2, <2>2, SetupFits
  <2>3. CASE InitFront(f) /\ ~ exit
    BY <1>1, <1>2, <2>3, InitFits
  <2>4. CASE RoundDone(f)
    BY <1>1, <1>2, <2>4, DoneFits
  <2>5. CASE AdvanceProgress(f)
    BY <1>1, <1>2, <2>5, AdvanceFits
  <2>6. CASE DeinitFront(f)
    BY <1>1, <1>2, <2>6, DeinitFits
  <2>7. CASE CheckStates(f)
    <3>1. Checker(f, FrontOf(f))
      BY <1>1, <1>3, <2>7 DEF Checker
    <3> QED
      BY <3>1, ChecksFit
  <2> QED
    BY <2>1, <2>2, <2>3, <2>4, <2>5, <2>6, <2>7 DEF FrontThread, QuietStep
<1> QED
  BY <1>3, <1>4, <1>5 DEF ProgressInvariant, DataFits, RingFits

(* ... and so does every step of a helper ...                              *)
LEMMA HelperFits ==
  ASSUME FrontsInvariant, HelpersInvariant, ProgressInvariant,
         NEW h \in Helpers, HelperThread(h)
  PROVE  ProgressInvariant'
<1>1. /\ TypeOK /\ HelperTypes /\ DataFits /\ ring \in [Fronts -> Rings]
      /\ \A g \in Fronts : RingStays(g)
  BY ProgressParts DEF FrontsInvariant, HelpersInvariant
<1>2. Fronts' = Fronts /\ h \in Threads
  BY <1>1, FrontsKept, InsideChanges, Actors
<1>3. \A g \in Fronts : RingStays(g)'
  BY <1>1, RingStaysHelper
<1>4. DataFits' /\ ring' \in [Fronts' -> Rings]
  <2>1. CASE HelperQuiet(h)
    BY <1>1, <2>1, HelperQuietFits
  <2>2. CASE CheckStates(h)
    <3>1. Checker(h, FrontOf(h))
      BY <1>1, <1>2, <2>2 DEF Checker
    <3> QED
      BY <3>1, ChecksFit
  <2> QED
    BY <2>1, <2>2 DEF HelperThread, HelperQuiet
<1> QED
  BY <1>2, <1>3, <1>4 DEF ProgressInvariant, DataFits, RingFits

(* ... hence every step of the program.                                    *)
LEMMA ProgressStep ==
  FrontsInvariant /\ HelpersInvariant /\ ProgressInvariant /\ [Next]_vars
    => ProgressInvariant'
<1> SUFFICES ASSUME FrontsInvariant, HelpersInvariant, ProgressInvariant, [Next]_vars
             PROVE  ProgressInvariant'
  OBVIOUS
<1>1. CASE UNCHANGED vars \/ Join \/ Over
  <2>1. UNCHANGED <<frontVars, arguments, stores, pc, ns, entry, idle, cursor, frontptr>>
    BY <1>1 DEF Over, Join, vars, local, sync
  <2> USE <2>1 DEF frontVars, arguments, stores
  <2>2. Fronts' = Fronts /\ Threads' = Threads /\ Helpers' = Helpers
    BY DEF Fronts, Threads, Helpers
  <2>3. ListsRight' /\ ring' \in [Fronts' -> Rings]
        /\ ns' \in [Threads' -> Markings] /\ entry' \in [Threads' -> Int]
    BY <2>2, StayInLists DEF ProgressInvariant
  <2>4. \A g : InsideOf(g)' = InsideOf(g)
    BY <2>2 DEF InsideOf, Inside, Helping
  <2>5. ASSUME NEW g \in Fronts
        PROVE  RingStays(g)' /\ RingRight(g)' /\ Prepared(g)' /\ Searched(g)'
    <3>1. RingStays(g) /\ RingFits(g) /\ first \in Int /\ last \in Int
      BY DEF ProgressInvariant, RingFits, FrontsInvariant, TypeOK
    <3>2. RingStays(g)'
      BY <2>2, <2>4, <3>1 DEF RingStays, Linked
    <3>3. Follows(g)
      BY <2>4 DEF Follows, LooksOn, Running
    <3>4. RingFits(g)'
      BY <3>1, <3>3, StaysFit
    <3> QED
      BY <3>2, <3>4 DEF RingFits
  <2>6. ASSUME NEW t \in Threads PROVE InHand(t)'
    <3>1. FrontOf(t)' = FrontOf(t) /\ SameSlots(ring[FrontOf(t)], ring'[FrontOf(t)])
      BY <2>2 DEF FrontOf, SameSlots
    <3> QED
      BY <3>1, StaysInHand DEF ProgressInvariant
  <2> QED
    BY <2>2, <2>3, <2>5, <2>6 DEF ProgressInvariant
<1>2. ASSUME NEW t \in Threads, Step(t)
      PROVE  ProgressInvariant'
  <2>1. CASE t \in Fronts
    BY <1>2, <2>1, FrontFits DEF Step
  <2>2. CASE t \notin Fronts
    <3>1. t \in Helpers
      BY <1>2, <2>2, Actors DEF FrontsInvariant, HelpersInvariant
    <3>2. HelperThread(t)
      BY <1>2, <2>2 DEF Step
    <3> QED
      BY <3>1, <3>2, HelperFits
  <2> QED
    BY <2>1, <2>2
<1> QED
  BY <1>1, <1>2 DEF Next

(* The constructor makes an empty ring.                                    *)
LEMMA NewRingBlank == NewRing \in Rings /\ Blank(NewRing) /\ ~ Linked(NewRing)
<1>1. store_size - front_offset - 1 \in Slots /\ 0 \in Int
  BY Sizes DEF Slots
<1> QED
  BY <1>1 DEF NewRing, Rings, Blank, Linked

(* The start.                                                              *)
LEMMA ProgressInit == Init => ProgressInvariant
<1> SUFFICES ASSUME Init PROVE ProgressInvariant
  OBVIOUS
<1>1. FrontsInit /\ TypeOK /\ HelpersInvariant /\ HelperTypes
  BY InitTypes, HelpersInit DEF Init, HelpersInvariant
<1>2. /\ 0 \in Fronts /\ Fronts \subseteq Threads /\ Helpers \subseteq Threads
      /\ \A h \in Helpers : h \notin Fronts /\ h # 0
  BY <1>1, Actors
<1>3. \A f \in Fronts : ring[f] = NewRing
  BY DEF Init
<1>4. \A f \in Fronts : phase[f] = "loop" /\ frontrunner = {0} /\ ~ exit /\ first = 0
        /\ ~ Running(f)
  BY <1>1 DEF FrontsInit, Running
<1>5. \A t \in Threads : pc[t] = IF t = 0 THEN "setup" ELSE "start"
  BY DEF Init
<1>6. \A f \in Fronts : InsideOf(f) = {}
  BY <1>2, <1>5 DEF InsideOf, Inside, Helping
<1>7. ListsRight
  <2>1. first + store_size <= last
    BY <1>1, Sizes DEF FrontsInit
  <2>2. transient_offset \in 0 .. back_offset
    <3>1. PICK a \in Arguments : transient_offset = a.transient_offset
      BY DEF Init
    <3>2. transient_offset \in {0} \union {- x : x \in {y \in Measures : y < 0}}
      BY <3>1, MeasureAssumption
    <3>3. \A x \in Measures : x \in Int /\ - back_offset <= x
      BY MeasureAssumption DEF Measures
    <3> QED
      BY <3>2, <3>3, Sizes
  <2>3. /\ new = [q \in first .. last |-> {}] /\ old = [q \in first .. last |-> {}]
    BY DEF Init
  <2> QED
    BY <1>2, <1>4, <2>1, <2>2, <2>3 DEF ListsRight, Belongs
<1>8. ring \in [Fronts -> Rings]
  BY NewRingBlank DEF Init
<1>9. ns \in [Threads -> Markings] /\ entry \in [Threads -> Int]
  BY MarkingsAssumption DEF Init
<1>10. ASSUME NEW f \in Fronts
       PROVE  RingStays(f) /\ RingRight(f) /\ Prepared(f) /\ Searched(f)
  <2>1. ring[f] = NewRing /\ NewRing \in Rings /\ Blank(NewRing) /\ ~ Linked(NewRing)
    BY <1>3, NewRingBlank
  <2>2. pc[f] \in {"setup", "start"} /\ (f # 0 => pc[f] = "start")
    BY <1>2, <1>5
  <2>3. RingStays(f)
    <3>1. idle[f] = TRUE /\ cursor[0] = 0 /\ phase[f] = "loop" /\ InsideOf(f) = {}
      BY <1>2, <1>4, <1>6 DEF Init
    <3>2. f > cursor[0] => f # 0
      BY <3>1
    <3> QED
      BY <2>1, <2>2, <3>1, <3>2 DEF RingStays, AtWork, Early
  <2>4. RingRight(f) /\ Prepared(f)
    BY <1>4, <2>1 DEF RingRight, Prepared
  <2>5. Searched(f)
    <3>1. ring[f].active \in Slots
      BY <2>1 DEF Rings
    <3> QED
      BY <2>1, <3>1 DEF Searched, Blank
  <2> QED
    BY <2>3, <2>4, <2>5
<1>11. \A t \in Threads : InHand(t)
  BY <1>5 DEF InHand
<1> QED
  BY <1>7, <1>8, <1>9, <1>10, <1>11 DEF ProgressInvariant

(* Whatever a store of a ring or of the two lists holds has the progress   *)
(* value the store is for (SweepRingStore.inc:92, 261, 293, Sweep.inc:889).*)
THEOREM MarkingsStayAtProgress == Spec => []MarkingsAtTheirProgress
<1>1. FrontsInvariant /\ HelpersInvariant /\ ProgressInvariant /\ [Next]_vars
        => FrontsInvariant' /\ HelpersInvariant' /\ ProgressInvariant'
  BY NextMoves, NextInvariant, HelpersStep, ProgressStep DEF FrontsInvariant
<1>2. Init => FrontsInvariant /\ HelpersInvariant /\ ProgressInvariant
  BY InitInvariant, HelpersInit, ProgressInit DEF Init
<1>3. ProgressInvariant => MarkingsAtTheirProgress
  <2> SUFFICES ASSUME ProgressInvariant PROVE MarkingsAtTheirProgress
    OBVIOUS
  <2>1. \A q \in first .. last : Belongs(new[q] \union old[q], q)
    BY DEF ProgressInvariant, ListsRight, Belongs
  <2>2. \A f \in Fronts : Running(f) => InPlace(ring[f]) /\ PlaceOf(ring[f], 0) = at[f]
    BY DEF ProgressInvariant, RingRight
  <2> QED
    BY <2>1, <2>2 DEF MarkingsAtTheirProgress, InPlace, Offsets
<1> QED
  BY <1>1, <1>2, <1>3, PTL DEF Spec

(***************************************************************************)
(* The contract: nothing that has been seen is lost before the search is   *)
(* over, however the fronts hand persistent markings to each other.        *)
(***************************************************************************)

(* The marking of a thread between popState and the last successor.        *)
Hands == {"swap", "keep", "fire", "found"}

(* A marking that has been dealt with.                                     *)
Expanded(m) == m \notin goal /\ Search!Successors(m) \subseteq seen

(* A marking that has not is in somebody's hands, among the transient ones *)
(* that a front has ahead, or among the new persistent ones.               *)
Held(t, m) == pc[t] \in Hands /\ ns[t] = m
Ahead(f, m) == \E o \in 0 .. front_offset : m \in ring[f].store[Slot(ring[f], o)]
Pending(m) ==
  \/ \E q \in first .. last : m \in new[q]
  \/ \E f \in Fronts : Ahead(f, m)
  \/ \E t \in Threads : Held(t, m)

(* Whatever is stored anywhere has been seen.                              *)
SeenAll ==
  /\ IF pc[0] = "setup" THEN seen = {} ELSE InitialMarking \in seen
  /\ \A q \in first .. last : new[q] \union old[q] \subseteq seen
  /\ \A f \in Fronts :
       /\ ring[f].samevalue \subseteq seen
       /\ \A i \in Slots : ring[f].store[i] \subseteq seen
  /\ \A t \in Threads : pc[t] \in Hands => ns[t] \in seen

(* A thread whose solution counts has left checkStates for good: its       *)
(* marking is the one that was found.                                      *)
Returned == {"gather", "empty", "outside", "leave", "look", "done"}
SolutionsRight ==
  /\ solution \subseteq Threads
  /\ \A t \in solution :
       exit /\ ns[t] \in goal \intersect seen /\ pc[t] \in Returned
  /\ answer # "searching" => Ended

(* A marking in hand has been looked at as far as the thread is with it.   *)
HandRight(t) ==
  /\ pc[t] \in Hands => Linked(ring[FrontOf(t)])
  /\ pc[t] = "found" => ns[t] \in goal
  /\ pc[t] = "fire" =>
       /\ ns[t] \notin goal
       /\ \A i \in DOMAIN getFirelist(ns[t]) :
            i > entry[t] => Fire(ns[t], getFirelist(ns[t])[i]) \in seen

(* Every marking that has been seen has been dealt with or will be; when   *)
(* the search is over without a solution, all have been.                   *)
NothingLost ==
  IF ~ exit THEN \A m \in seen : Expanded(m) \/ Pending(m)
    ELSE solution = {} =>
      /\ \A m \in seen : Expanded(m)
      /\ \A t \in Threads : pc[t] \notin Hands
      /\ \A q \in first .. last : new[q] = {}

(* A front that may still extend the list has gone as far as its counter   *)
(* has sunk, no less.                                                      *)
Reaches ==
  \A f \in Fronts : Running(f) /\ phase[f] # "clear" =>
     at[f] + back_progress[f] + (IF phase[f] \in {"wait", "advance"} THEN 1 ELSE 0)
       >= Start + back_offset

(* A new persistent marking is not beyond the last front, and before the   *)
(* place where the fronts begin only while some front may still extend the *)
(* list that far.                                                          *)
NewWithin ==
  \A q \in first .. last : new[q] # {} =>
    /\ q + front_offset < last
    /\ q >= Start \/ \E f \in Fronts : Running(f) /\ q >= Start - back_progress[f]

(* The new persistent markings of the current value have been taken ...    *)
Passed(f) ==
  pc[f] \in {"gather", "empty"} \/ phase[f] \in {"wait", "advance", "clear"} => new[at[f]] = {}

(* ... and at the end there is nothing ahead.                              *)
AtEnd(f) ==
  phase[f] = "clear" =>
    /\ \A o \in 0 .. front_offset : ring[f].store[Slot(ring[f], o)] = {}
    /\ at[f] + front_offset >= last

(* A front with nothing ahead, and nobody at work on anything.             *)
Idle(g) ==
  /\ \A o \in 0 .. front_offset : ring[g].store[Slot(ring[g], o)] = {}
  /\ \A t \in Threads : FrontOf(t) = g => pc[t] \notin Hands

(* As long as a front has made no marking persistent it leaves nothing     *)
(* behind, and those that follow it have nothing to do.                    *)
NothingBehind(f) ==
  Running(f) /\ ring[f].new_persistent_empty =>
    /\ \A q \in first .. last : q < at[f] => new[q] = {}
    /\ \A l, g \in Fronts : Leads(l) /\ Rank(l, f) < Rank(l, g) => Idle(g)

(* All this holds while the search is on.                                  *)
Sweeping ==
  /\ Reaches /\ NewWithin
  /\ \A f \in Fronts : Passed(f) /\ AtEnd(f) /\ NothingBehind(f)

(* The invariant behind the contract ...                                   *)
ContractInvariant ==
  /\ SeenAll /\ SolutionsRight /\ NothingLost
  /\ \A t \in Threads : HandRight(t)
  /\ exit \/ Sweeping

(* ... and what it rests on.                                               *)
Scene == FrontsInvariant /\ HelpersInvariant /\ ProgressInvariant

(* What all that follows needs of it.                                      *)
LEMMA SceneFacts ==
  ASSUME Scene
  PROVE  /\ TypeOK /\ HelpersInvariant /\ HelperTypes /\ StartsFirst /\ DataFits
         /\ ring \in [Fronts -> Rings]
         /\ \A f \in Fronts : RingStays(f) /\ RingRight(f) /\ Prepared(f) /\ Searched(f)
         /\ nr_of_fronts \in Nat \ {0}
         /\ 0 \in Fronts /\ Fronts \subseteq Threads /\ Helpers \subseteq Threads
         /\ \A h \in Helpers : h \notin Fronts
         /\ \A t \in Threads : t \notin Fronts => t \in Helpers
         /\ \A t \in Threads : FrontOf(t) \in Fronts
         /\ \A f \in Fronts : FrontOf(f) = f
         /\ pc \in [Threads -> Labels] /\ phase \in [Fronts -> Phases]
         /\ at \in [Fronts -> Int] /\ back_progress \in [Fronts -> Nat]
         /\ first \in Int /\ last \in Int /\ exit \in BOOLEAN
         /\ new \in [first .. last -> SUBSET Markings]
         /\ old \in [first .. last -> SUBSET Markings]
         /\ ns \in [Threads -> Markings] /\ entry \in [Threads -> Int]
         /\ first + store_size <= last /\ transient_offset \in 0 .. back_offset
         /\ ~ exit => InOrder
<1>1. /\ TypeOK /\ HelperTypes /\ StartsFirst /\ DataFits /\ ring \in [Fronts -> Rings]
      /\ \A f \in Fronts : RingStays(f) /\ RingRight(f) /\ Prepared(f) /\ Searched(f)
      /\ HelpersInvariant
  BY ProgressParts DEF Scene, FrontsInvariant, HelpersInvariant, ProgressInvariant
<1>2. /\ 0 \in Fronts /\ Fronts \subseteq Threads /\ Helpers \subseteq Threads
      /\ \A h \in Helpers : h \notin Fronts
      /\ \A t \in Threads : t \notin Fronts => t \in Helpers
  BY <1>1, Actors
<1>3. /\ \A t \in Threads : FrontOf(t) \in Fronts
      /\ \A f \in Fronts : FrontOf(f) = f
  BY <1>1, <1>2 DEF FrontOf, HelperTypes
<1>4. /\ new \in [first .. last -> SUBSET Markings]
      /\ old \in [first .. last -> SUBSET Markings]
      /\ first + store_size <= last /\ transient_offset \in 0 .. back_offset
      /\ ns \in [Threads -> Markings] /\ entry \in [Threads -> Int]
  BY <1>1 DEF DataFits, ListsRight
<1>5. ~ exit => InOrder
  BY DEF Scene, FrontsInvariant
<1> QED
  BY <1>1, <1>2, <1>3, <1>4, <1>5 DEF TypeOK, HelperTypes

(* While the search is on a marking in hand is from a front that runs, and *)
(* works or is about to.                                                   *)
LEMMA HandsRun ==
  ASSUME Scene, ~ exit, NEW t \in Threads, pc[t] \in Hands, HandRight(t)
  PROVE  /\ FrontOf(t) \in Fronts /\ Linked(ring[FrontOf(t)])
         /\ phase[FrontOf(t)] \in {"test", "work"} /\ Running(FrontOf(t))
         /\ t \in {FrontOf(t)} \union InsideOf(FrontOf(t))
<1> USE SceneFacts
<1>1. Linked(ring[FrontOf(t)]) /\ FrontOf(t) \in Fronts
  BY DEF HandRight
<1>2. CASE t \in Fronts
  <2>1. pc[t] \in AtWork /\ FrontOf(t) = t
    BY <1>2 DEF Hands, AtWork
  <2>2. phase[t] = "work"
    BY <1>2, <2>1 DEF RingStays
  <2> QED
    BY <1>1, <2>1, <2>2 DEF Running
<1>3. CASE t \notin Fronts
  <2>1. t \in InsideOf(FrontOf(t))
    BY <1>3 DEF InsideOf, Inside, Helping, FrontOf, Hands
  <2>2. phase[FrontOf(t)] \notin {"wait", "advance", "post", "clear", "pass", "loop", "init", "begin"}
    BY <1>1, <2>1 DEF RingStays
  <2>3. phase[FrontOf(t)] \notin {"end", "done"}
    BY <1>1 DEF InOrder, OneLeader
  <2>4. phase[FrontOf(t)] \in {"test", "work"}
    BY <1>1, <2>2, <2>3 DEF Phases
  <2> QED
    BY <1>1, <2>1, <2>4 DEF Running
<1> QED
  BY <1>2, <1>3

(* One of two fronts that run is store_size ahead, and it is the one with  *)
(* the lower rank.                                                         *)
LEMMA WindowsDiffer ==
  ASSUME Scene, ~ exit, NEW l \in Fronts, Leads(l), NEW f \in Fronts, NEW g \in Fronts,
         f # g, Running(f), Running(g)
  PROVE  \/ Rank(l, f) < Rank(l, g) /\ at[f] - at[g] >= store_size
         \/ Rank(l, g) < Rank(l, f) /\ at[g] - at[f] >= store_size
<1> USE SceneFacts
<1>1. Rank(l, f) # Rank(l, g) /\ Rank(l, f) \in Int /\ Rank(l, g) \in Int
  BY RanksDiffer, Ranks
<1>2. Rank(l, f) < Rank(l, g) \/ Rank(l, g) < Rank(l, f)
  BY <1>1
<1> QED
  BY <1>2 DEF InOrder, AllApart

(* While the search is on one front leads.                                 *)
LEMMA WhoLeads ==
  ASSUME Scene, ~ exit
  PROVE  \E l \in Fronts : Leads(l) /\ \A k \in Fronts : Leads(k) => k = l
BY SceneFacts DEF InOrder, OneLeader

(* The window of a front that runs is within the lists.                    *)
LEMMA RunningFacts ==
  ASSUME Scene, NEW f \in Fronts, Running(f)
  PROVE  /\ Linked(ring[f]) /\ InPlace(ring[f]) /\ PlaceOf(ring[f], 0) = at[f]
         /\ at[f] \in Int /\ first + back_offset <= at[f] /\ at[f] + front_offset <= last
         /\ at[f] \in first .. last
         /\ \A o \in Offsets : PlaceOf(ring[f], o) = at[f] + o /\ at[f] + o \in first .. last
<1> USE SceneFacts, Sizes
<1>1. /\ Linked(ring[f]) /\ InPlace(ring[f]) /\ WithinLists(ring[f])
      /\ PlaceOf(ring[f], 0) = at[f] /\ at[f] \in Int
  BY DEF RingRight
<1>2. first + back_offset <= at[f] /\ at[f] + front_offset <= last
  BY <1>1 DEF WithinLists
<1>3. ASSUME NEW o \in Offsets PROVE at[f] + o \in first .. last
  <2>1. o \in Int /\ - back_offset <= o /\ o <= front_offset
    BY DEF Offsets
  <2> QED
    BY <1>1, <1>2, <2>1
<1>4. at[f] \in first .. last
  BY <1>1, <1>2
<1> QED
  BY <1>1, <1>2, <1>3, <1>4 DEF InPlace

(* A step that touches no marking.                                         *)
Calm ==
  /\ UNCHANGED <<nr_of_fronts, nr_of_threads, goal, new, old, ring, seen, solution,
                 first, last, at, back_progress, exit, ns, entry>>
  /\ \A t \in Threads : pc[t] \in Hands \/ pc'[t] \in Hands =>
       pc'[t] = pc[t] /\ FrontOf(t)' = FrontOf(t)
  /\ pc'[0] = "setup" <=> pc[0] = "setup"
  /\ \A f \in Fronts :
       /\ Running(f)' <=> Running(f)
       /\ phase'[f] \in {"wait", "advance"} <=> phase[f] \in {"wait", "advance"}
       /\ phase'[f] = "clear" => phase[f] = "clear" \/ exit
       /\ phase[f] = "clear" => phase'[f] = "clear"
       /\ pc'[f] \in {"gather", "empty"} =>
            pc[f] \in {"gather", "empty"} \/ exit \/ new[at[f]] = {}

(* Such a step leaves the threads who they are ...                         *)
LEMMA CalmCrew ==
  ASSUME Calm
  PROVE  Fronts' = Fronts /\ Threads' = Threads /\ Helpers' = Helpers
BY DEF Calm, Fronts, Threads, Helpers

(* ... loses none.                                                         *)
LEMMA CalmData ==
  ASSUME Scene, SeenAll, NothingLost, \A t \in Threads : HandRight(t), Calm
  PROVE  SeenAll' /\ NothingLost' /\ \A t \in Threads' : HandRight(t)'
<1> USE CalmCrew
<1>1. SeenAll'
  <2>1. \A t \in Threads : pc'[t] \in Hands => pc[t] \in Hands
    BY DEF Calm
  <2>2. IF pc'[0] = "setup" THEN seen' = {} ELSE InitialMarking \in seen'
    BY DEF Calm, SeenAll
  <2>3. \A q \in first' .. last' : new'[q] \union old'[q] \subseteq seen'
    BY DEF Calm, SeenAll
  <2>4. \A f \in Fronts' :
          /\ ring'[f].samevalue \subseteq seen'
          /\ \A i \in Slots : ring'[f].store[i] \subseteq seen'
    BY DEF Calm, SeenAll
  <2>5. \A t \in Threads' : pc'[t] \in Hands => ns'[t] \in seen'
    BY <2>1 DEF Calm, SeenAll
  <2> QED
    BY <2>2, <2>3, <2>4, <2>5 DEF SeenAll
<1>2. \A t \in Threads' : HandRight(t)'
  <2> SUFFICES ASSUME NEW t \in Threads PROVE HandRight(t)'
    OBVIOUS
  <2>1. CASE pc'[t] \in Hands
    BY <2>1 DEF Calm, HandRight, Linked
  <2>2. CASE pc'[t] \notin Hands
    BY <2>2 DEF HandRight, Hands
  <2> QED
    BY <2>1, <2>2
<1>3. ASSUME NEW m PROVE Expanded(m) => Expanded(m)'
  BY DEF Calm, Expanded, Search!Successors
<1>4. ASSUME NEW m, Pending(m) PROVE Pending(m)'
  <2>1. CASE \E q \in first .. last : m \in new[q]
    BY <2>1 DEF Calm, Pending
  <2>2. CASE \E f \in Fronts : Ahead(f, m)
    <3>1. \E f \in Fronts' : Ahead(f, m)'
      BY <2>2 DEF Calm, Ahead, Slot
    <3> QED
      BY <3>1 DEF Pending
  <2>3. CASE \E t \in Threads : Held(t, m)
    <3>1. \E t \in Threads' : Held(t, m)'
      BY <2>3 DEF Calm, Held
    <3> QED
      BY <3>1 DEF Pending
  <2> QED
    BY <1>4, <2>1, <2>2, <2>3 DEF Pending
<1>5. NothingLost'
  <2>1. CASE ~ exit
    <3>1. \A m \in seen' : Expanded(m)' \/ Pending(m)'
      BY <1>3, <1>4, <2>1 DEF Calm, NothingLost
    <3> QED
      BY <2>1, <3>1 DEF NothingLost, Calm
  <2>2. CASE exit /\ solution = {}
    <3>1. \A m \in seen' : Expanded(m)'
      BY <1>3, <2>2 DEF Calm, NothingLost
    <3>2. \A t \in Threads' : pc'[t] \notin Hands
      BY <2>2 DEF Calm, NothingLost
    <3>3. \A q \in first' .. last' : new'[q] = {}
      BY <2>2 DEF Calm, NothingLost
    <3> QED
      BY <2>2, <3>1, <3>2, <3>3 DEF NothingLost, Calm
  <2>3. CASE exit /\ solution # {}
    BY <2>3 DEF NothingLost, Calm
  <2> QED
    BY <2>1, <2>2, <2>3
<1> QED
  BY <1>1, <1>2, <1>5

(* Who comes after a front is the same, or idle.                           *)
SameOrder ==
  \A l, f, g \in Fronts :
    Leads(l)' /\ Rank(l, f) < Rank(l, g) /\ Running(f) /\ f # g =>
      Idle(g) \/ \E k \in Fronts : Leads(k) /\ Rank(k, f) < Rank(k, g)

(* ... and the fronts where they were.                                     *)
LEMMA CalmSweeps ==
  ASSUME Scene, ~ exit, Sweeping, Calm, SameOrder
  PROVE  Sweeping'
<1> USE CalmCrew
<1>0. /\ UNCHANGED <<nr_of_fronts, new, ring, first, last, at, back_progress>>
      /\ \A f \in Fronts :
           /\ Running(f)' <=> Running(f)
           /\ phase'[f] \in {"wait", "advance"} <=> phase[f] \in {"wait", "advance"}
           /\ phase'[f] = "clear" <=> phase[f] = "clear"
           /\ pc'[f] \in {"gather", "empty"} =>
                pc[f] \in {"gather", "empty"} \/ new[at[f]] = {}
  BY DEF Calm
<1>1. Reaches'
  BY <1>0 DEF Sweeping, Reaches, Start
<1>2. NewWithin'
  BY <1>0 DEF Sweeping, NewWithin, Start
<1>3. ASSUME NEW f \in Fronts PROVE Passed(f)'
  BY <1>0 DEF Sweeping, Passed
<1>4. ASSUME NEW f \in Fronts PROVE AtEnd(f)'
  BY <1>0 DEF Sweeping, AtEnd, Slot
<1>5. ASSUME NEW g \in Fronts, Idle(g) PROVE Idle(g)'
  <2>1. \A o \in 0 .. front_offset : ring'[g].store[Slot(ring'[g], o)] = {}
    BY <1>0, <1>5 DEF Idle, Slot
  <2>2. ASSUME NEW t \in Threads, FrontOf(t)' = g PROVE pc'[t] \notin Hands
    BY <1>5, <2>2 DEF Calm, Idle
  <2> QED
    BY <2>1, <2>2 DEF Idle, Slot
<1>6. ASSUME NEW f \in Fronts PROVE NothingBehind(f)'
  <2> SUFFICES ASSUME Running(f), ring[f].new_persistent_empty
               PROVE  /\ \A q \in first' .. last' : q < at'[f] => new'[q] = {}
                      /\ \A l, g \in Fronts' :
                           Leads(l)' /\ Rank(l, f)' < Rank(l, g)' => Idle(g)'
    BY <1>0 DEF NothingBehind
  <2>1. /\ \A q \in first .. last : q < at[f] => new[q] = {}
        /\ \A l, g \in Fronts : Leads(l) /\ Rank(l, f) < Rank(l, g) => Idle(g)
    BY DEF Sweeping, NothingBehind
  <2>2. ASSUME NEW l \in Fronts, NEW g \in Fronts, Leads(l)', Rank(l, f) < Rank(l, g)
        PROVE  Idle(g)'
    <3>1. f # g
      BY <2>2, SceneFacts, Ranks
    <3>2. Idle(g) \/ \E k \in Fronts : Leads(k) /\ Rank(k, f) < Rank(k, g)
      BY <2>2, <3>1 DEF SameOrder
    <3> QED
      BY <1>5, <2>1, <3>2
  <2>3. \A l, g \in Fronts : Rank(l, g)' = Rank(l, g)
    BY <1>0 DEF Rank
  <2> QED
    BY <1>0, <2>1, <2>2, <2>3
<1> QED
  BY <1>1, <1>2, <1>3, <1>4, <1>6 DEF Sweeping

(* The quiet steps of a front ...                                          *)
LEMMA QuietCalm ==
  ASSUME Scene, NEW f \in Fronts, QuietStep(f)
  PROVE  Calm /\ (exit \/ SameOrder)
<1>t. /\ HelperTypes /\ pc \in [Threads -> Labels] /\ phase \in [Fronts -> Phases]
      /\ f \in Threads /\ 0 \in Threads
      /\ \A g \in Fronts : RingStays(g)
      /\ TypeOK /\ ring \in [Fronts -> Rings]
  BY SceneFacts
<1>1. UNCHANGED <<nr_of_threads, goal, ring, new, old, seen, solution, ns, entry, first,
                  last, at, back_progress, exit, nr_of_fronts>>
  <2>1. CASE Move(f)
    BY <2>1 DEF Move, arguments, stores, local, Loop, AwaitBegin, AwaitAdvance, AwaitFront, PostBehind,
                Pass
  <2>2. CASE Round(f) \/ Terminate(f)
    BY <2>2 DEF Round, Test, Terminate, End, arguments, stores, local
  <2>3. CASE InitFront(f) /\ exit
    BY <2>3 DEF InitFront, Begin, arguments, local
  <2>4. CASE (f = 0 /\ Wake) \/ Woken(f) \/ Reset(f) \/ Rouse(f) \/ Draw(f)
             \/ SignalAll(f) \/ Gather(f)
    BY <2>4 DEF Wake, Woken, Reset, Rouse, Draw, SignalAll, Gather, arguments, stores, local, frontVars
  <2> QED
    BY <2>1, <2>2, <2>3, <2>4 DEF QuietStep
<1>2. /\ \A u \in Threads \ {f} : pc'[u] = pc[u]
      /\ frontptr' = frontptr
      /\ \A g \in Fronts \ {f} : phase'[g] = phase[g]
  BY <1>t, OthersKept DEF KeepsOthers, QuietStep, FrontThread
<1>3. /\ pc[f] \notin Hands \union {"setup"} /\ pc'[f] \notin Hands \union {"setup"}
      /\ pc'[f] \in {"gather", "empty"} => pc[f] = "gather"
  <2>1. CASE Move(f) \/ Terminate(f) \/ (InitFront(f) /\ exit)
    BY <2>1 DEF Move, Terminate, InitFront, Hands
  <2>2. CASE Round(f)
    <3>1. pc[f] = "outside" /\ pc'[f] \in {"outside", "pop", "rouse"}
      BY <1>t, <2>2 DEF Round
    <3> QED
      BY <3>1 DEF Hands
  <2>3. CASE (f = 0 /\ Wake) \/ Woken(f) \/ Reset(f)
    <3>1. pc[f] \in {"wake", "start", "reset"} /\ pc'[f] \in {"wake", "reset", "outside"}
      BY <1>t, <2>3 DEF Wake, Woken, Reset, Goto
    <3> QED
      BY <3>1 DEF Hands
  <2>4. CASE Rouse(f) \/ Draw(f) \/ SignalAll(f)
    <3>1. pc[f] \in {"rouse", "draw", "signal"} /\ pc'[f] \in {"draw", "signal", "pop"}
      BY <1>t, <2>4 DEF Rouse, Draw, SignalAll, Goto
    <3> QED
      BY <3>1 DEF Hands
  <2>5. CASE Gather(f)
    <3>1. pc[f] = "gather" /\ pc'[f] = "empty"
      BY <1>t, <2>5 DEF Gather, Goto
    <3> QED
      BY <3>1 DEF Hands
  <2> QED
    BY <2>1, <2>2, <2>3, <2>4, <2>5 DEF QuietStep
<1>4. /\ Running(f)' <=> Running(f)
      /\ phase'[f] \in {"wait", "advance"} <=> phase[f] \in {"wait", "advance"}
      /\ phase'[f] = "clear" => phase[f] = "clear" \/ exit
      /\ phase[f] = "clear" => phase'[f] = "clear"
      /\ phase'[f] = "pass" => phase[f] = "pass"
      /\ \/ frontrunner' = frontrunner
         \/ /\ phase[f] = "pass" /\ phase'[f] = "loop"
            /\ frontrunner' = frontrunner \union {Behind(f)}
  <2>1. CASE Move(f)
    <3>1. \/ phase[f] = "loop" /\ phase'[f] = (IF exit THEN "end" ELSE "init") /\ frontrunner' = frontrunner
          \/ phase[f] = "init" /\ phase'[f] = "begin" /\ frontrunner' = frontrunner
          \/ phase[f] = "wait" /\ phase'[f] = "advance" /\ frontrunner' = frontrunner
          \/ phase[f] = "post" /\ phase'[f] = "test" /\ frontrunner' = frontrunner
          \/ /\ phase[f] = "pass" /\ phase'[f] = "loop"
             /\ frontrunner' = frontrunner \union {Behind(f)}
      BY <1>t, <2>1 DEF Move, Go, Loop, AwaitBegin, AwaitAdvance, AwaitFront, PostBehind, Pass
    <3> QED
      BY <3>1 DEF Running
  <2>2. CASE Round(f)
    <3>1. phase[f] = "test" /\ phase'[f] = (IF exit THEN "clear" ELSE "work")
          /\ frontrunner' = frontrunner
      BY <1>t, <2>2 DEF Round, Test, Go
    <3> QED
      BY <3>1 DEF Running
  <2>3. CASE Terminate(f) \/ (InitFront(f) /\ exit)
    <3>1. phase'[f] \in {"done", "end"} /\ phase[f] \in {"begin", "end"}
          /\ frontrunner' = frontrunner
      BY <1>t, <2>3 DEF Terminate, End, InitFront, Begin, Go
    <3> QED
      BY <3>1 DEF Running
  <2>4. CASE (f = 0 /\ Wake) \/ Woken(f) \/ Reset(f) \/ Rouse(f) \/ Draw(f)
             \/ SignalAll(f) \/ Gather(f)
    <3>1. phase' = phase /\ frontrunner' = frontrunner
      BY <2>4 DEF Wake, Woken, Reset, Rouse, Draw, SignalAll, Gather, frontVars
    <3> QED
      BY <3>1 DEF Running
  <2> QED
    BY <2>1, <2>2, <2>3, <2>4 DEF QuietStep
<1>5. Calm
  <2>1. ASSUME NEW t \in Threads, pc[t] \in Hands \/ pc'[t] \in Hands
        PROVE  pc'[t] = pc[t] /\ FrontOf(t)' = FrontOf(t)
    <3>1. t # f
      BY <1>3, <2>1
    <3>2. Fronts' = Fronts
      BY <1>1 DEF Fronts
    <3> QED
      BY <1>2, <3>1, <3>2 DEF FrontOf
  <2>2. pc'[0] = "setup" <=> pc[0] = "setup"
    BY <1>t, <1>2, <1>3
  <2>3. ASSUME NEW g \in Fronts
        PROVE  /\ Running(g)' <=> Running(g)
               /\ phase'[g] \in {"wait", "advance"} <=> phase[g] \in {"wait", "advance"}
               /\ phase'[g] = "clear" => phase[g] = "clear" \/ exit
               /\ phase[g] = "clear" => phase'[g] = "clear"
               /\ pc'[g] \in {"gather", "empty"} => pc[g] \in {"gather", "empty"}
    <3>1. CASE g = f
      BY <1>3, <1>4, <3>1
    <3>2. CASE g # f
      <4>1. pc'[g] = pc[g] /\ phase'[g] = phase[g]
        BY <1>2, <3>2, SceneFacts
      <4> QED
        BY <4>1 DEF Running
    <3> QED
      BY <3>1, <3>2
  <2> QED
    BY <1>1, <2>1, <2>2, <2>3 DEF Calm
<1>6. ASSUME ~ exit PROVE SameOrder
  <2>1. CASE frontrunner' = frontrunner
    <3>1. \A l \in Fronts : Leads(l)' => Leads(l)
      BY <1>2, <1>4, <2>1 DEF Leads
    <3> QED
      BY <3>1 DEF SameOrder
  <2>2. CASE phase[f] = "pass" /\ phase'[f] = "loop" /\ frontrunner' = frontrunner \union {Behind(f)}
    <3>0. InOrder /\ nr_of_fronts \in Nat \ {0} /\ nr_of_fronts > 1
      BY <1>6, <2>2, SceneFacts DEF InOrder, OneLeader
    <3>1. /\ Leads(f) /\ \A l \in Fronts : Leads(l) => l = f
          /\ f \notin frontrunner
      BY <2>2, <3>0 DEF InOrder, OneLeader, Leads
    <3>2. ASSUME NEW l \in Fronts, Leads(l)' PROVE l = Behind(f)
      <4>1. l # f => ~ Leads(l)
        BY <3>1
      <4> QED
        BY <1>2, <2>2, <3>1, <3>2, <4>1 DEF Leads
    <3>3. ASSUME NEW e \in Fronts, NEW g \in Fronts, Rank(Behind(f), e) < Rank(Behind(f), g),
                 Running(e)
          PROVE  Idle(g) \/ Rank(f, e) < Rank(f, g)
      <4>1. e # f
        BY <2>2, <3>3 DEF Running
      <4>2. CASE g # f
        <5>1. Rank(Behind(f), e) = Rank(f, e) - 1 /\ Rank(Behind(f), g) = Rank(f, g) - 1
              /\ Rank(f, e) \in Int /\ Rank(f, g) \in Int
          BY <3>0, <4>1, <4>2, Ranks
        <5> QED
          BY <3>3, <5>1
      <4>3. CASE g = f
        <5>1. Blank(ring[f])
          BY <1>6, <2>2, <3>1, SceneFacts DEF Prepared
        <5>2. \A o \in 0 .. front_offset : ring[f].store[Slot(ring[f], o)] = {}
          <6>1. ring[f].active \in Slots
            BY SceneFacts DEF Rings
          <6>2. \A o \in 0 .. front_offset : o \in Offsets
            BY Sizes DEF Offsets
          <6> QED
            BY <5>1, <6>1, <6>2, SlotsDiffer DEF Blank
        <5>3. ASSUME NEW t \in Threads, FrontOf(t) = f, pc[t] \in Hands PROVE FALSE
          <6>1. CASE t \in Fronts
            <7>1. t = f /\ pc[f] \in AtWork
              BY <5>3, <6>1, SceneFacts DEF Hands, AtWork
            <7> QED
              BY <1>t, <2>2, <7>1 DEF RingStays
          <6>2. CASE t \notin Fronts
            <7>1. t \in InsideOf(f)
              BY <5>3, <6>2, SceneFacts DEF InsideOf, Inside, Helping, FrontOf, Hands
            <7> QED
              BY <1>t, <1>6, <2>2, <7>1 DEF RingStays
          <6> QED
            BY <6>1, <6>2
        <5> QED
          BY <4>3, <5>2, <5>3 DEF Idle
      <4> QED
        BY <4>2, <4>3
    <3> QED
      BY <3>1, <3>2, <3>3 DEF SameOrder
  <2> QED
    BY <1>4, <2>1, <2>2
<1> QED
  BY <1>5, <1>6

(* ... and of a helper are such steps ...                                  *)
LEMMA HelperCalm ==
  ASSUME Scene, NEW h \in Helpers, HelperQuiet(h)
  PROVE  Calm /\ SameOrder
<1>t. /\ HelperTypes /\ pc \in [Threads -> Labels] /\ h \in Threads /\ h \notin Fronts /\ h # 0
      /\ Fronts \subseteq Threads
      /\ TypeOK /\ ring \in [Fronts -> Rings]
  BY SceneFacts
<1>1. UNCHANGED <<frontVars, arguments, stores, ns, entry, solution>>
  BY DEF HelperQuiet, Look, Come, Help, Leave, Doze, Nap, Awake, local
<1>2. /\ \A u \in Threads \ {h} : pc'[u] = pc[u]
      /\ \A k \in Helpers \ {h} : frontptr'[k] = frontptr[k]
  BY <1>t, FrontsKept DEF KeepsFronts, HelperQuiet, HelperThread
<1>3. pc[h] \notin Hands
  BY DEF HelperQuiet, Look, Come, Help, Leave, Doze, Nap, Awake, Hands
<1>4. pc'[h] \notin Hands
  <2>1. pc'[h] \in {"done", "come", "doze", "nap", "look", "help", "leave",
               "pop", "asleep", "start"}
    <3>1. CASE Look(h) \/ Come(h)
      BY <1>t, <3>1 DEF Look, Come, Elsewhere, Goto
    <3>2. CASE Help(h) \/ Leave(h) \/ Doze(h) \/ Nap(h) \/ Awake(h)
      BY <1>t, <3>2 DEF Help, Leave, Doze, Nap, Awake, Goto
    <3> QED
      BY <3>1, <3>2 DEF HelperQuiet
  <2> QED
    BY <2>1 DEF Hands
<1>5. ASSUME NEW t \in Threads, pc[t] \in Hands \/ pc'[t] \in Hands
      PROVE  pc'[t] = pc[t] /\ FrontOf(t)' = FrontOf(t)
  <2>1. t # h
    BY <1>3, <1>4, <1>5
  <2>2. Fronts' = Fronts
    BY <1>1 DEF Fronts, frontVars
  <2>3. t \notin Fronts => t \in Helpers
    BY SceneFacts
  <2> QED
    BY <1>2, <2>1, <2>2, <2>3 DEF FrontOf
<1>6. \A g \in Fronts : pc'[g] = pc[g]
  BY <1>t, <1>2
<1>7. Calm
  <2>1. pc'[0] = pc[0]
    BY <1>6, SceneFacts
  <2> QED
    BY <1>1, <1>5, <1>6, <2>1 DEF Calm, frontVars, arguments, stores, Running
<1> QED
  BY <1>1, <1>7 DEF SameOrder, Leads, frontVars

(* ... and so is all that touches nothing but the answer.                  *)
LEMMA OverCalm ==
  ASSUME Scene, UNCHANGED vars \/ Join \/ Over
  PROVE  Calm /\ SameOrder
<1>1. UNCHANGED <<frontVars, arguments, stores, pc, ns, entry, frontptr, solution>>
  BY DEF Over, Join, vars, local, sync
<1>2. Fronts' = Fronts
  BY <1>1 DEF Fronts, frontVars
<1>3. Calm
  BY <1>1, <1>2 DEF Calm, frontVars, arguments, stores, Running, FrontOf
<1> QED
  BY <1>1, <1>3 DEF SameOrder, Leads, frontVars

(* A front that is done stays so.                                          *)
LEMMA DoneStays ==
  ASSUME TypeOK, [FrontsNext]_frontVars, NEW g \in Fronts, phase[g] = "done"
  PROVE  phase'[g] = "done"
<1>1. CASE UNCHANGED frontVars \/ Found
  BY <1>1 DEF frontVars, Found
<1>2. ASSUME NEW f \in Fronts, FrontStep(f) PROVE phase'[g] = "done"
  <2>1. ASSUME NEW from, NEW to, Go(f, from, to), from # "done" PROVE phase'[g] = "done"
    BY <2>1 DEF TypeOK, Go
  <2>2. CASE Loop(f) \/ AwaitBegin(f) \/ Begin(f) \/ Test(f) \/ AwaitAdvance(f)
    BY <2>1, <2>2 DEF Loop, AwaitBegin, Begin, Test, AwaitAdvance
  <2>3. CASE \E lowest \in BOOLEAN : EndWork(f, lowest)
    BY <2>1, <2>3 DEF EndWork
  <2>4. CASE \E ahead \in BOOLEAN, age \in 0 .. back_progress[f] : Advance(f, ahead, age)
    BY <2>1, <2>4 DEF Advance
  <2>5. CASE PostBehind(f) \/ Pass(f) \/ End(f) \/ \E none \in BOOLEAN : Clear(f, none)
    BY <2>1, <2>5 DEF PostBehind, Pass, End, Clear
  <2> QED
    BY <1>2, <2>2, <2>3, <2>4, <2>5 DEF FrontStep
<1> QED
  BY <1>1, <1>2 DEF FrontsNext

(* What a thread with a solution does: it returns.                         *)
LEMMA SolverReturns ==
  ASSUME Scene, NEW t \in Threads, Step(t), exit, pc[t] \in Returned
  PROVE  pc'[t] \in Returned /\ ns' = ns /\ solution' = solution
<1>t. HelperTypes /\ pc \in [Threads -> Labels]
  BY SceneFacts
<1>1. CASE t \in Fronts
  <2>1. FrontThread(t)
    BY <1>1 DEF Step
  <2>2. CASE (t = 0 /\ (Setup \/ Wake)) \/ Woken(t) \/ Reset(t) \/ Rouse(t) \/ Draw(t)
             \/ SignalAll(t) \/ CheckStates(t)
    <3>1. pc[t] \in {"setup", "wake", "start", "reset", "rouse", "draw", "signal", "pop", "popnew",
                     "swap", "keep", "fire", "found"}
      BY <2>2 DEF Setup, Wake, Woken, Reset, Rouse, Draw, SignalAll, CheckStates, Pop, PopNew, Store,
                  SolutionFound, Ask
    <3> QED
      BY <3>1 DEF Returned
  <2>3. CASE Move(t) \/ InitFront(t) \/ AdvanceProgress(t) \/ DeinitFront(t) \/ Terminate(t)
             \/ Round(t)
    <3>1. pc' = pc /\ ns' = ns /\ solution' = solution
      BY <2>3 DEF Move, InitFront, AdvanceProgress, DeinitFront, Terminate, Round, local
    <3> QED
      BY <3>1
  <2>4. CASE Gather(t)
    <3>1. pc'[t] = "empty" /\ ns' = ns /\ solution' = solution
      BY <1>t, <2>4 DEF Gather, Goto, local
    <3> QED
      BY <3>1 DEF Returned
  <2>5. CASE RoundDone(t)
    <3>1. pc'[t] = "outside" /\ ns' = ns /\ solution' = solution
      BY <1>t, <2>5 DEF RoundDone, Goto, local
    <3> QED
      BY <3>1 DEF Returned
  <2> QED
    BY <2>1, <2>2, <2>3, <2>4, <2>5 DEF FrontThread
<1>2. CASE t \notin Fronts
  <2>1. HelperThread(t)
    BY <1>2 DEF Step
  <2>2. CASE Come(t) \/ Help(t) \/ CheckStates(t) \/ Doze(t) \/ Nap(t) \/ Awake(t)
    <3>1. pc[t] \in {"come", "help", "doze", "nap", "start", "asleep", "pop", "popnew",
                     "swap", "keep", "fire", "found"}
      BY <2>2 DEF Come, Help, Doze, Nap, Awake, CheckStates, Pop, PopNew, Store,
                  SolutionFound, Ask
    <3> QED
      BY <3>1 DEF Returned
  <2>3. CASE Look(t)
    <3>1. pc'[t] = "done" /\ ns' = ns /\ solution' = solution
      BY <1>t, <2>3 DEF Look, Goto, local
    <3> QED
      BY <3>1 DEF Returned
  <2>4. CASE Leave(t)
    <3>1. pc'[t] = "look" /\ ns' = ns /\ solution' = solution
      BY <1>t, <2>4 DEF Leave, Goto, local
    <3> QED
      BY <3>1 DEF Returned
  <2> QED
    BY <2>1, <2>2, <2>3, <2>4 DEF HelperThread
<1> QED
  BY <1>1, <1>2

(* What a step of one thread leaves alone.                                 *)
LEMMA StepKeeps ==
  ASSUME Scene, NEW t \in Threads, Step(t)
  PROVE  /\ Fronts' = Fronts /\ Threads' = Threads /\ Helpers' = Helpers
         /\ goal' = goal /\ answer' = answer /\ witness' = witness
         /\ seen \subseteq seen' \/ pc[0] = "setup"
         /\ exit => exit'
         /\ \A u \in Threads \ {t} : pc'[u] = pc[u] /\ ns'[u] = ns[u]
         /\ pc[t] # "found" => solution' = solution
<1>t. /\ HelperTypes /\ TypeOK /\ ring \in [Fronts -> Rings] /\ pc \in [Threads -> Labels]
      /\ ns \in [Threads -> Markings]
  BY SceneFacts
<1>1. CASE t \in Fronts
  <2>1. FrontThread(t)
    BY <1>1 DEF Step
  <2>2. KeepsOthers(t)
    BY <1>t, <1>1, <2>1, OthersKept
  <2>3. Fronts' = Fronts /\ Threads' = Threads /\ Helpers' = Helpers
        /\ (exit => exit') /\ \A u \in Threads \ {t} : pc'[u] = pc[u]
    BY <2>2 DEF KeepsOthers, Fronts, Threads, Helpers
  <2>4. CASE CheckStates(t)
    BY <1>t, <2>3, <2>4 DEF CheckStates, Pop, PopNew, Store, SolutionFound, Ask, arguments, caller, stores, local
  <2>5. CASE t = 0 /\ Setup
    BY <1>t, <2>3, <2>5 DEF Setup, arguments, caller, local
  <2>6. CASE (t = 0 /\ Wake) \/ Woken(t) \/ Reset(t) \/ Rouse(t) \/ Draw(t)
             \/ SignalAll(t) \/ Gather(t) \/ Move(t) \/ Round(t) \/ Terminate(t)
    BY <2>3, <2>6 DEF Wake, Woken, Reset, Rouse, Draw, SignalAll, Gather, Move, Round, Terminate,
       arguments, caller, local, stores
  <2>7. CASE InitFront(t) \/ AdvanceProgress(t) \/ DeinitFront(t) \/ RoundDone(t)
    BY <2>3, <2>7 DEF InitFront, AdvanceProgress, DeinitFront, RoundDone, arguments, caller, local
  <2> QED
    BY <2>1, <2>4, <2>5, <2>6, <2>7 DEF FrontThread
<1>2. CASE t \notin Fronts
  <2>0. t \in Helpers
    BY <1>2, SceneFacts
  <2>1. HelperThread(t)
    BY <1>2 DEF Step
  <2>2. KeepsFronts(t)
    BY <1>t, <2>0, <2>1, FrontsKept
  <2>3. Fronts' = Fronts /\ Threads' = Threads /\ Helpers' = Helpers
        /\ (exit => exit') /\ \A u \in Threads \ {t} : pc'[u] = pc[u]
    BY <2>2 DEF KeepsFronts, Fronts, Threads, Helpers
  <2>4. CASE CheckStates(t)
    BY <1>t, <2>3, <2>4 DEF CheckStates, Pop, PopNew, Store, SolutionFound, Ask, arguments, caller, stores, local
  <2>5. CASE HelperQuiet(t)
    BY <2>3, <2>5 DEF HelperQuiet, Look, Come, Help, Leave, Doze, Nap, Awake,
       arguments, caller, local, stores
  <2> QED
    BY <2>1, <2>4, <2>5 DEF HelperThread, HelperQuiet
<1> QED
  BY <1>1, <1>2

(* Who has found a solution keeps it, and the search has ended for all who *)
(* have got an answer.                                                     *)
LEMMA SolutionsStep ==
  ASSUME Scene, SeenAll, SolutionsRight, \A t \in Threads : HandRight(t), [Next]_vars
  PROVE  SolutionsRight'
<1>0. [FrontsNext]_frontVars /\ TypeOK
  BY SceneFacts, NextMoves
<1>1. CASE UNCHANGED vars \/ Join \/ Over
  <2>1. UNCHANGED <<frontVars, arguments, stores, pc, ns, entry, frontptr, solution>>
        /\ (answer' # "searching" => answer # "searching" \/ Ended)
    BY <1>1 DEF Over, Join, vars, local, sync, caller
  <2>2. Threads' = Threads /\ Fronts' = Fronts /\ Helpers' = Helpers
    BY <2>1 DEF Threads, Fronts, Helpers, frontVars, arguments
  <2>3. Ended => Ended'
    BY <2>1, <2>2 DEF Ended, frontVars
  <2> QED
    BY <2>1, <2>2, <2>3 DEF SolutionsRight, frontVars, arguments, stores
<1>2. ASSUME NEW t \in Threads, Step(t)
      PROVE  SolutionsRight'
  <2>1. /\ Fronts' = Fronts /\ Threads' = Threads /\ Helpers' = Helpers
        /\ goal' = goal /\ answer' = answer
        /\ seen \subseteq seen' \/ pc[0] = "setup"
        /\ exit => exit'
        /\ \A u \in Threads \ {t} : pc'[u] = pc[u] /\ ns'[u] = ns[u]
        /\ pc[t] # "found" => solution' = solution
    BY <1>2, StepKeeps
  <2>2. seen \subseteq seen'
    BY <2>1 DEF SeenAll
  <2>3. Ended => Ended'
    <3>1. ASSUME NEW h \in Helpers, pc[h] = "done" PROVE pc'[h] = "done"
      <4>1. CASE h # t
        BY <2>1, <3>1, <4>1, SceneFacts
      <4>2. CASE h = t
        <5>1. HelperThread(t)
          BY <1>2, <4>2, SceneFacts DEF Step
        <5> QED
          BY <3>1, <4>2, <5>1 DEF HelperThread, Look, Come, Help, Leave, Doze, Nap, Awake,
             CheckStates, Pop, PopNew, Store, SolutionFound, Ask
      <4> QED
        BY <4>1, <4>2
    <3> QED
      BY <1>0, <2>1, <3>1, DoneStays DEF Ended
  <2>4. CASE pc[t] = "found"
    <3>1. SolutionFound(t)
      <4>1. FrontThread(t) \/ HelperThread(t)
        BY <1>2 DEF Step
      <4> QED
        BY <2>4, <4>1, SceneFacts DEF FrontThread, HelperThread, Setup, Wake, Woken, Reset, Move, InitFront, Round, Rouse,
          Draw, SignalAll, CheckStates, Gather, RoundDone, AdvanceProgress, DeinitFront, Terminate,
          Look, Come, Help, Leave, Doze, Nap, Awake, Pop, PopNew, Store, Ask
    <3>2. exit' /\ solution' = solution \union {t} /\ ns' = ns /\ pc'[t] = Return(t)
      BY <3>1, SceneFacts DEF SolutionFound, Found, Goto, local
    <3>3. Return(t) \in Returned
      BY DEF Return, Returned
    <3>4. ns[t] \in goal /\ ns[t] \in seen
      BY <2>4 DEF HandRight, SeenAll, Hands
    <3>5. \A u \in solution' : ns'[u] \in goal' \intersect seen' /\ pc'[u] \in Returned
      BY <2>1, <2>2, <3>2, <3>3, <3>4 DEF SolutionsRight
    <3> QED
      BY <2>1, <2>3, <3>2, <3>5 DEF SolutionsRight
  <2>5. CASE pc[t] # "found"
    <3>1. solution' = solution
      BY <2>1, <2>5
    <3>2. ASSUME NEW u \in solution
          PROVE  exit' /\ ns'[u] \in goal' \intersect seen' /\ pc'[u] \in Returned
      <4>1. u \in Threads /\ exit /\ ns[u] \in goal \intersect seen /\ pc[u] \in Returned
        BY DEF SolutionsRight
      <4>2. ns'[u] = ns[u] /\ pc'[u] \in Returned
        <5>1. CASE u = t
          BY <1>2, <4>1, <5>1, SolverReturns
        <5>2. CASE u # t
          BY <2>1, <4>1, <5>2
        <5> QED
          BY <5>1, <5>2
      <4> QED
        BY <2>1, <2>2, <4>1, <4>2
    <3> QED
      BY <2>1, <2>3, <3>1, <3>2 DEF SolutionsRight
  <2> QED
    BY <2>4, <2>5
<1> QED
  BY <1>1, <1>2 DEF Next

(* A checker that takes a marking m out of a store.                        *)
Takes(t, f, m) ==
  /\ pc[t] \notin Hands /\ pc'[t] \in {"swap", "keep"} /\ ns' = [ns EXCEPT ![t] = m]
  /\ UNCHANGED <<frontVars, arguments, old, seen, entry, solution, sync>>
  /\ Linked(ring[f]) /\ m \in seen
  /\ \A g \in Fronts :
       /\ SameSlots(ring[g], ring'[g]) /\ ring'[g].samevalue = ring[g].samevalue
       /\ ring'[g].new_persistent_empty = ring[g].new_persistent_empty
       /\ \A i \in Slots : /\ ring'[g].store[i] \subseteq ring[g].store[i]
                           /\ ring[g].store[i] \ {m} \subseteq ring'[g].store[i]
       /\ g # f => ring'[g] = ring[g]
  /\ \A q \in first .. last : new'[q] \subseteq new[q] /\ new[q] \ {m} \subseteq new'[q]
  /\ \/ new' = new /\ ~ exit /\ m \in ring[f].store[Slot(ring[f], 0)]
     \/ ring' = ring /\ PlaceOf(ring[f], 0) \in first .. last /\ m \in new[PlaceOf(ring[f], 0)]

(* Both halves of popState take a marking, or are calm.                    *)
LEMMA PopTakes ==
  ASSUME Scene, SeenAll, NEW t, NEW f, Checker(t, f), Pop(t)
  PROVE  (Calm /\ SameOrder) \/ \E m : Takes(t, f, m)
<1> USE SceneFacts
<1>0. t \in Threads /\ f = FrontOf(t) /\ f \in Fronts /\ ring[f] \in Rings
      /\ Fronts' = Fronts /\ Threads' = Threads
      /\ \A u \in Threads \ {t} : pc'[u] = pc[u]
  BY CheckerStays DEF Checker
<1>1. /\ pc[t] = "pop"
      /\ UNCHANGED <<frontVars, arguments, new, old, seen, entry, solution, sync>>
  BY DEF Pop
<1>2. CASE exit /\ Goto(t, Return(t)) /\ UNCHANGED <<ring, ns>>
  <2>1. pc'[t] \in {"leave", "gather", "empty"}
    BY <1>0, <1>2 DEF Goto, Return
  <2>2. Calm
    BY <1>0, <1>1, <1>2, <2>1 DEF Calm, frontVars, arguments, sync, Running, FrontOf, Hands
  <2> QED
    BY <1>1, <2>2 DEF SameOrder, Leads, frontVars
<1>3. CASE Goto(t, "popnew") /\ UNCHANGED <<ring, ns>>
  <2>1. pc'[t] = "popnew"
    BY <1>0, <1>3 DEF Goto
  <2>2. Calm
    BY <1>0, <1>1, <1>3, <2>1 DEF Calm, frontVars, arguments, sync, Running, FrontOf, Hands
  <2> QED
    BY <1>1, <2>2 DEF SameOrder, Leads, frontVars
<1>4. ASSUME ~ exit, NEW m \in ring[f].store[ring[f].active], ns' = [ns EXCEPT ![t] = m],
             ring' = [ring EXCEPT ![f].store[ring[f].active] = @ \ {m}], Goto(t, "swap")
      PROVE  Takes(t, f, m)
  <2> DEFINE s == [ring[f] EXCEPT !.store[ring[f].active] = @ \ {m}]
  <2>1. /\ ring[f].active \in Slots /\ ring[f].active = Slot(ring[f], 0)
        /\ ring[f].store \in [Slots -> SUBSET Markings]
    BY <1>0, SlotsDiffer DEF Rings
  <2>2. /\ s \in Rings /\ SameSlots(ring[f], s) /\ s.samevalue = ring[f].samevalue
        /\ s.new_persistent_empty = ring[f].new_persistent_empty
        /\ s.store = [ring[f].store EXCEPT ![ring[f].active] = @ \ {m}]
    BY <1>0, <2>1 DEF Rings, SameSlots
  <2>3. ring' = [ring EXCEPT ![f] = s]
    BY <1>4
  <2> HIDE DEF s
  <2>4. ring'[f] = s /\ \A g \in Fronts \ {f} : ring'[g] = ring[g]
    BY <1>0, <2>3
  <2>5. \A i \in Slots : s.store[i] \subseteq ring[f].store[i]
                      /\ ring[f].store[i] \ {m} \subseteq s.store[i]
    BY <2>1, <2>2
  <2>6. Linked(ring[f])
    BY <1>0, <1>4, <2>1 DEF RingRight, Blank
  <2>7. m \in seen
    BY <1>0, <1>4, <2>1 DEF SeenAll
  <2>8. pc'[t] = "swap"
    BY <1>0, <1>4 DEF Goto
  <2>9. ASSUME NEW g \in Fronts
        PROVE /\ SameSlots(ring[g], ring'[g]) /\ ring'[g].samevalue = ring[g].samevalue
              /\ ring'[g].new_persistent_empty = ring[g].new_persistent_empty
              /\ \A i \in Slots : /\ ring'[g].store[i] \subseteq ring[g].store[i]
                                  /\ ring[g].store[i] \ {m} \subseteq ring'[g].store[i]
    <3>1. CASE g = f
      BY <2>2, <2>4, <2>5, <3>1
    <3>2. CASE g # f
      BY <2>4, <3>2 DEF SameSlots
    <3> QED
      BY <3>1, <3>2
  <2> QED
    BY <1>1, <1>4, <2>1, <2>4, <2>6, <2>7, <2>8, <2>9 DEF Takes, Hands
<1> QED
  BY <1>0, <1>2, <1>3, <1>4 DEF Pop

(* The same for the new persistent ones.                                   *)
LEMMA PopNewTakes ==
  ASSUME Scene, SeenAll, NEW t, NEW f, Checker(t, f), PopNew(t)
  PROVE  (Calm /\ SameOrder) \/ \E m : Takes(t, f, m)
<1> USE SceneFacts
<1>0. t \in Threads /\ f = FrontOf(t) /\ f \in Fronts /\ ring[f] \in Rings
      /\ Fronts' = Fronts /\ Threads' = Threads
      /\ \A u \in Threads \ {t} : pc'[u] = pc[u]
      /\ t \in {f} \union InsideOf(f)
  BY CheckerStays DEF Checker
<1>1. /\ pc[t] = "popnew"
      /\ UNCHANGED <<frontVars, arguments, old, ring, seen, entry, solution, sync>>
  BY DEF PopNew
<1>2. CASE (~ Linked(ring[f]) \/ new[PlaceOf(ring[f], 0)] = {})
             /\ Goto(t, Return(t)) /\ UNCHANGED <<new, ns>>
  <2>1. pc'[t] \in {"leave", "gather", "empty"} /\ (t \in Helpers => pc'[t] = "leave")
    BY <1>0, <1>2 DEF Goto, Return
  <2>2. ASSUME NEW g \in Fronts, pc'[g] \in {"gather", "empty"}
        PROVE  pc[g] \in {"gather", "empty"} \/ new[at[g]] = {}
    <3>1. CASE g # t
      BY <1>0, <2>2, <3>1
    <3>2. CASE g = t
      <4>1. g = f /\ pc[f] \in AtWork
        BY <1>0, <1>1, <3>2 DEF AtWork
      <4>2. Running(f)
        BY <1>0, <4>1 DEF RingStays, Running
      <4> QED
        BY <1>0, <1>2, <4>1, <4>2, RunningFacts
    <3> QED
      BY <3>1, <3>2
  <2>3. Calm
    BY <1>0, <1>1, <1>2, <2>1, <2>2 DEF Calm, frontVars, arguments, sync, Running, FrontOf, Hands
  <2> QED
    BY <1>1, <2>3 DEF SameOrder, Leads, frontVars
<1>3. ASSUME Linked(ring[f]), NEW m \in new[PlaceOf(ring[f], 0)], ns' = [ns EXCEPT ![t] = m],
             new' = [new EXCEPT ![PlaceOf(ring[f], 0)] = @ \ {m}], Goto(t, "keep")
      PROVE  Takes(t, f, m)
  <2>1. PICK q : q = PlaceOf(ring[f], 0)
    OBVIOUS
  <2>2. q \in first .. last
    <3>1. WithinLists(ring[f]) /\ q \in Int
      BY <1>0, <1>3, <2>1, PlaceIsInt DEF RingRight
    <3> QED
      BY <2>1, <3>1, Sizes DEF WithinLists
  <2>3. m \in new[q] /\ new' = [new EXCEPT ![q] = new[q] \ {m}]
    BY <1>3, <2>1
  <2>4. \A p \in first .. last : new'[p] \subseteq new[p] /\ new[p] \ {m} \subseteq new'[p]
    <3>1. ASSUME NEW p \in first .. last PROVE new'[p] = IF p = q THEN new[q] \ {m} ELSE new[p]
      BY <2>3
    <3> QED
      BY <3>1
  <2>5. m \in seen
    BY <2>2, <2>3 DEF SeenAll
  <2>6. pc'[t] = "keep"
    BY <1>0, <1>3 DEF Goto
  <2>7. \A g \in Fronts : SameSlots(ring[g], ring'[g]) /\ ring'[g] = ring[g]
    BY <1>1 DEF SameSlots
  <2> QED
    BY <1>1, <1>3, <2>1, <2>2, <2>3, <2>4, <2>5, <2>6, <2>7 DEF Takes, Hands
<1> QED
  BY <1>0, <1>2, <1>3 DEF PopNew

(* A marking that is taken is not lost.                                    *)
LEMMA TakesData ==
  ASSUME Scene, SeenAll, NothingLost, SolutionsRight, \A u \in Threads : HandRight(u),
         NEW t, NEW f, Checker(t, f), NEW m, Takes(t, f, m)
  PROVE  SeenAll' /\ NothingLost' /\ \A u \in Threads' : HandRight(u)'
<1> USE SceneFacts
<1>0. /\ t \in Threads /\ f = FrontOf(t) /\ f \in Fronts /\ ring[f] \in Rings
      /\ Fronts' = Fronts /\ Threads' = Threads
      /\ \A u \in Threads \ {t} : pc'[u] = pc[u]
  BY CheckerStays DEF Checker
<1>1. /\ UNCHANGED <<frontVars, arguments, old, seen, entry, solution, sync>>
      /\ ns'[t] = m /\ pc'[t] \in Hands /\ pc[t] \notin Hands
      /\ \A u \in Threads \ {t} : ns'[u] = ns[u]
  BY <1>0 DEF Takes, Hands
<1>2. UNCHANGED <<first, last, exit, goal, frontptr>>
  BY <1>1 DEF frontVars, arguments, sync
<1>3. \A u \in Threads : FrontOf(u)' = FrontOf(u)
  BY <1>0, <1>2 DEF FrontOf
<1>4. SeenAll'
  <2>1. IF pc'[0] = "setup" THEN seen' = {} ELSE InitialMarking \in seen'
    <3>1. pc'[0] = "setup" => pc[0] = "setup"
      BY <1>0, <1>1 DEF Hands
    <3>2. pc[0] = "setup" => seen = {} /\ m \in seen
      BY DEF SeenAll, Takes
    <3> QED
      BY <1>1, <3>1, <3>2 DEF SeenAll
  <2>2. \A q \in first' .. last' : new'[q] \union old'[q] \subseteq seen'
    BY <1>1, <1>2 DEF SeenAll, Takes
  <2>3. ASSUME NEW g \in Fronts'
        PROVE  ring'[g].samevalue \subseteq seen' /\ \A i \in Slots : ring'[g].store[i] \subseteq seen'
    <3>1. ring'[g].samevalue = ring[g].samevalue
          /\ \A i \in Slots : ring'[g].store[i] \subseteq ring[g].store[i]
      BY <1>0 DEF Takes
    <3> QED
      BY <1>0, <1>1, <3>1 DEF SeenAll
  <2>4. \A u \in Threads' : pc'[u] \in Hands => ns'[u] \in seen'
    <3>1. m \in seen
      BY DEF Takes
    <3> QED
      BY <1>0, <1>1, <3>1 DEF SeenAll
  <2> QED
    BY <2>1, <2>2, <2>3, <2>4 DEF SeenAll
<1>5. ASSUME NEW u \in Threads PROVE HandRight(u)'
  <2>1. \A g \in Fronts : Linked(ring[g])' = Linked(ring[g])
    BY DEF Takes, SameSlots, Linked
  <2>2. CASE u = t
    <3>1. pc'[t] \in {"swap", "keep"} /\ Linked(ring[f])
      BY DEF Takes
    <3> QED
      BY <1>0, <1>3, <2>1, <2>2, <3>1 DEF HandRight
  <2>3. CASE u # t
    <3>1. pc'[u] = pc[u] /\ ns'[u] = ns[u] /\ entry'[u] = entry[u] /\ FrontOf(u) \in Fronts
      BY <1>0, <1>1, <2>3
    <3> QED
      BY <1>1, <1>2, <1>3, <2>1, <3>1 DEF HandRight
  <2> QED
    BY <2>2, <2>3
<1>6. ASSUME NEW k, Expanded(k) PROVE Expanded(k)'
  BY <1>1, <1>2, <1>6 DEF Expanded, Search!Successors
<1>7. ASSUME NEW k, Pending(k) PROVE Pending(k)'
  <2>1. CASE k = m
    <3>1. Held(t, k)'
      BY <1>1, <2>1 DEF Held
    <3> QED
      BY <1>0, <3>1 DEF Pending
  <2>2. CASE k # m
    <3>1. ASSUME NEW q \in first .. last, k \in new[q] PROVE Pending(k)'
      <4>1. k \in new'[q]
        BY <2>2, <3>1 DEF Takes
      <4> QED
        BY <1>2, <4>1 DEF Pending
    <3>2. ASSUME NEW g \in Fronts, Ahead(g, k) PROVE Pending(k)'
      <4>1. PICK o \in 0 .. front_offset : k \in ring[g].store[Slot(ring[g], o)]
        BY <3>2 DEF Ahead
      <4>2. Slot(ring[g], o) \in Slots
        <5>1. o \in Offsets /\ ring[g].active \in Slots
          BY Sizes DEF Offsets, Rings
        <5> QED
          BY <5>1, SlotsDiffer
      <4>3. SameSlots(ring[g], ring'[g]) /\ k \in ring'[g].store[Slot(ring[g], o)]
        BY <2>2, <4>1, <4>2 DEF Takes
      <4>4. Slot(ring'[g], o) = Slot(ring[g], o)
        BY <4>3, SlotsStay
      <4>5. Ahead(g, k)'
        BY <4>3, <4>4 DEF Ahead, Slot
      <4> QED
        BY <1>0, <4>5 DEF Pending
    <3>3. ASSUME NEW u \in Threads, Held(u, k) PROVE Pending(k)'
      <4>1. Held(u, k)'
        BY <1>0, <1>1, <3>3 DEF Held
      <4> QED
        BY <1>0, <4>1 DEF Pending
    <3> QED
      BY <1>7, <3>1, <3>2, <3>3 DEF Pending
  <2> QED
    BY <2>1, <2>2
<1>8. NothingLost'
  <2>1. CASE ~ exit
    <3>1. \A k \in seen' : Expanded(k)' \/ Pending(k)'
      BY <1>1, <1>6, <1>7, <2>1 DEF NothingLost
    <3> QED
      BY <1>2, <2>1, <3>1 DEF NothingLost
  <2>2. CASE exit /\ solution = {}
    <3>1. \A q \in first .. last : new[q] = {}
      BY <2>2 DEF NothingLost
    <3> QED
      BY <2>2, <3>1 DEF Takes
  <2>3. CASE exit /\ solution # {}
    BY <1>1, <1>2, <2>3 DEF NothingLost
  <2> QED
    BY <2>1, <2>2, <2>3
<1> QED
  BY <1>0, <1>4, <1>5, <1>8

(* A marking that is put back.                                             *)
LEMMA StoreData ==
  ASSUME Scene, SeenAll, NothingLost, SolutionsRight, \A u \in Threads : HandRight(u),
         NEW t, NEW f, Checker(t, f), Store(t)
  PROVE  SeenAll' /\ NothingLost' /\ \A u \in Threads' : HandRight(u)'
<1> USE SceneFacts
<1>0. /\ t \in Threads /\ f = FrontOf(t) /\ f \in Fronts /\ ring[f] \in Rings
      /\ Fronts' = Fronts /\ Threads' = Threads
      /\ \A u \in Threads \ {t} : pc'[u] = pc[u]
  BY CheckerStays DEF Checker
<1>1. PICK m, L : m = ns[t] /\ L = getFirelist(m)
  OBVIOUS
<1>2. /\ pc[t] \in {"swap", "keep"}
      /\ UNCHANGED <<frontVars, arguments, new, seen, ns, solution, sync>>
      /\ pc'[t] = IF m \in goal THEN "found" ELSE IF Len(L) = 0 THEN "pop" ELSE "fire"
      /\ entry' = [entry EXCEPT ![t] = IF m \in goal THEN 0 ELSE Len(L)]
  BY <1>0, <1>1 DEF Store, Goto
<1>3. UNCHANGED <<first, last, exit, goal, frontptr>>
  BY <1>2 DEF frontVars, arguments, sync
<1>4. /\ pc[t] \in Hands /\ m \in Markings /\ m \in seen /\ L \in Seq(Transition)
      /\ PlaceOf(ring[f], 0) \in first .. last /\ Linked(ring[f])
  <2>1. pc[t] \in Hands /\ pc[t] \in InHands
    BY <1>2 DEF Hands, InHands
  <2>2. PlaceOf(ring[f], 0) + 0 \in first .. last /\ PlaceOf(ring[f], 0) \in Int /\ m \in Markings
        /\ Linked(ring[f])
    BY <1>1, <2>1, HandFacts
  <2>3. PlaceOf(ring[f], 0) \in first .. last
    BY <2>2
  <2>4. L \in Seq({x \in Transition : Enabled(m, x)})
    BY <1>1, <2>2, SweepFirelistAssumption
  <2>5. L \in Seq(Transition)
    BY <2>4
  <2> QED
    BY <1>0, <1>1, <2>1, <2>2, <2>3, <2>5 DEF SeenAll
<1>5. Len(L) \in Nat /\ DOMAIN L = 1 .. Len(L)
  BY <1>4
<1>6. /\ \A g \in Fronts :
           /\ SameSlots(ring[g], ring'[g]) /\ ring'[g].store = ring[g].store
           /\ ring'[g].samevalue \subseteq ring[g].samevalue \union {m}
      /\ \A q \in first .. last : old'[q] \subseteq old[q] \union {m}
  <2>1. CASE ring' = [ring EXCEPT ![f].samevalue = @ \union {ns[t]}] /\ old' = old
    <3> DEFINE s == [ring[f] EXCEPT !.samevalue = @ \union {m}]
    <3>1. SameSlots(ring[f], s) /\ s.store = ring[f].store
          /\ s.samevalue = ring[f].samevalue \union {m}
      BY <1>0 DEF Rings, SameSlots
    <3>2. ring' = [ring EXCEPT ![f] = s]
      BY <1>1, <2>1
    <3> HIDE DEF s
    <3>3. ASSUME NEW g \in Fronts
          PROVE  /\ SameSlots(ring[g], ring'[g]) /\ ring'[g].store = ring[g].store
                 /\ ring'[g].samevalue \subseteq ring[g].samevalue \union {m}
      <4>1. CASE g = f
        BY <1>0, <3>1, <3>2, <4>1
      <4>2. CASE g # f
        BY <3>2, <4>2 DEF SameSlots
      <4> QED
        BY <4>1, <4>2
    <3> QED
      BY <2>1, <3>3
  <2>2. CASE old' = [old EXCEPT ![PlaceOf(ring[f], 0)] = @ \union {ns[t]}] /\ ring' = ring
    <3>1. PICK p : p = PlaceOf(ring[f], 0) /\ old' = [old EXCEPT ![p] = old[p] \union {m}]
      BY <1>1, <2>2
    <3>2. \A q \in first .. last : old'[q] \subseteq old[q] \union {m}
      BY <3>1
    <3> QED
      BY <2>2, <3>2 DEF SameSlots
  <2> QED
    BY <1>0, <2>1, <2>2 DEF Store
<1>7. \A u \in Threads : FrontOf(u)' = FrontOf(u)
  BY <1>0, <1>3 DEF FrontOf
<1>8. SeenAll'
  <2>1. IF pc'[0] = "setup" THEN seen' = {} ELSE InitialMarking \in seen'
    <3>1. pc'[0] = "setup" => pc[0] = "setup"
      BY <1>0, <1>2
    <3>2. pc[0] = "setup" => seen = {}
      BY DEF SeenAll
    <3> QED
      BY <1>2, <1>4, <3>1, <3>2 DEF SeenAll
  <2>2. ASSUME NEW q \in first' .. last' PROVE new'[q] \union old'[q] \subseteq seen'
    <3>1. q \in first .. last /\ seen' = seen /\ new' = new
      BY <1>2, <1>3
    <3>2. new[q] \subseteq seen /\ old[q] \subseteq seen
      BY <3>1 DEF SeenAll
    <3>3. old'[q] \subseteq old[q] \union {m} /\ m \in seen
      BY <1>4, <1>6, <3>1
    <3> QED
      BY <3>1, <3>2, <3>3
  <2>3. ASSUME NEW g \in Fronts'
        PROVE  ring'[g].samevalue \subseteq seen' /\ \A i \in Slots : ring'[g].store[i] \subseteq seen'
    <3>1. g \in Fronts /\ seen' = seen
      BY <1>0, <1>2
    <3>2. ring[g].samevalue \subseteq seen /\ \A i \in Slots : ring[g].store[i] \subseteq seen
      BY <3>1 DEF SeenAll
    <3>3. ring'[g].samevalue \subseteq ring[g].samevalue \union {m} /\ m \in seen
          /\ ring'[g].store = ring[g].store
      BY <1>4, <1>6, <3>1
    <3> QED
      BY <3>1, <3>2, <3>3
  <2>4. \A u \in Threads' : pc'[u] \in Hands => ns'[u] \in seen'
    BY <1>0, <1>1, <1>2, <1>4 DEF SeenAll
  <2> QED
    BY <2>1, <2>2, <2>3, <2>4 DEF SeenAll
<1>9. ASSUME NEW u \in Threads PROVE HandRight(u)'
  <2>1. \A g \in Fronts : Linked(ring[g])' = Linked(ring[g])
    BY <1>6 DEF SameSlots, Linked
  <2>2. CASE u = t
    <3>1. pc'[t] = "fire" => m \notin goal /\ entry'[t] = Len(L)
      BY <1>0, <1>2
    <3>2. \A i \in DOMAIN L : ~ (i > Len(L))
      BY <1>5
    <3>3. pc'[t] = "found" => m \in goal
      BY <1>2
    <3> QED
      BY <1>0, <1>1, <1>2, <1>3, <1>4, <1>7, <2>1, <2>2, <3>1, <3>2, <3>3 DEF HandRight
  <2>3. CASE u # t
    <3>1. pc'[u] = pc[u] /\ ns'[u] = ns[u] /\ entry'[u] = entry[u] /\ FrontOf(u) \in Fronts
      BY <1>0, <1>2, <2>3
    <3> QED
      BY <1>2, <1>3, <1>7, <2>1, <3>1 DEF HandRight
  <2> QED
    BY <2>2, <2>3
<1>10. ASSUME NEW k, Expanded(k) PROVE Expanded(k)'
  BY <1>2, <1>3, <1>10 DEF Expanded, Search!Successors
<1>11. ASSUME NEW k, Pending(k) PROVE Expanded(k)' \/ Pending(k)'
  <2>1. ASSUME NEW q \in first .. last, k \in new[q] PROVE Pending(k)'
    BY <1>2, <1>3, <2>1 DEF Pending
  <2>2. ASSUME NEW g \in Fronts, Ahead(g, k) PROVE Pending(k)'
    <3>0. SameSlots(ring[g], ring'[g]) /\ ring'[g].store = ring[g].store
      BY <1>6
    <3>1. Ahead(g, k)'
      BY <2>2, <3>0 DEF Ahead, Slot, SameSlots
    <3> QED
      BY <1>0, <3>1 DEF Pending
  <2>3. ASSUME NEW u \in Threads, Held(u, k) PROVE Expanded(k)' \/ Pending(k)'
    <3>1. CASE u # t \/ pc'[t] \in Hands
      <4>1. Held(u, k)'
        BY <1>0, <1>2, <2>3, <3>1 DEF Held
      <4> QED
        BY <1>0, <4>1 DEF Pending
    <3>2. CASE u = t /\ pc'[t] \notin Hands
      <4>1. k = m /\ m \notin goal /\ Len(L) = 0
        BY <1>1, <1>2, <2>3, <3>2 DEF Held, Hands
      <4>2. Search!Successors(k) = {}
        BY <1>1, <1>5, <4>1 DEF Search!Successors
      <4>3. Expanded(k)
        BY <4>1, <4>2 DEF Expanded
      <4> QED
        BY <1>10, <4>3
    <3> QED
      BY <3>1, <3>2
  <2> QED
    BY <1>11, <2>1, <2>2, <2>3 DEF Pending
<1>12. NothingLost'
  <2>1. CASE ~ exit
    <3>1. \A k \in seen' : Expanded(k)' \/ Pending(k)'
      BY <1>2, <1>10, <1>11, <2>1 DEF NothingLost
    <3> QED
      BY <1>3, <2>1, <3>1 DEF NothingLost
  <2>2. CASE exit /\ solution = {}
    BY <1>0, <1>4, <2>2 DEF NothingLost
  <2>3. CASE exit /\ solution # {}
    BY <1>2, <1>3, <2>3 DEF NothingLost
  <2> QED
    BY <2>1, <2>2, <2>3
<1> QED
  BY <1>0, <1>8, <1>9, <1>12

(* A solution that is found.                                               *)
LEMMA FoundData ==
  ASSUME Scene, SeenAll, \A u \in Threads : HandRight(u),
         NEW t, NEW f, Checker(t, f), SolutionFound(t)
  PROVE  SeenAll' /\ NothingLost' /\ \A u \in Threads' : HandRight(u)'
<1> USE SceneFacts
<1>0. /\ t \in Threads /\ Fronts' = Fronts /\ Threads' = Threads
      /\ \A u \in Threads \ {t} : pc'[u] = pc[u]
      /\ UNCHANGED <<first, last, frontptr>>
  BY CheckerStays DEF Checker
<1>1. /\ exit' /\ t \in solution' /\ UNCHANGED <<new, old, ring, seen, goal, ns, entry>>
      /\ pc'[t] \in {"leave", "gather", "empty"}
  BY <1>0 DEF SolutionFound, Found, Goto, Return, stores, local, arguments
<1>2. SeenAll'
  <2>1. pc'[0] = "setup" <=> pc[0] = "setup"
    BY <1>0, <1>1 DEF SolutionFound
  <2>2. \A u \in Threads : pc'[u] \in Hands => pc[u] \in Hands
    BY <1>0, <1>1 DEF Hands
  <2> QED
    BY <1>0, <1>1, <2>1, <2>2 DEF SeenAll
<1>3. ASSUME NEW u \in Threads PROVE HandRight(u)'
  <2>1. CASE u = t
    BY <1>1, <2>1 DEF HandRight, Hands
  <2>2. CASE u # t
    BY <1>0, <1>1, <2>2 DEF HandRight, FrontOf, Linked
  <2> QED
    BY <2>1, <2>2
<1>4. NothingLost'
  BY <1>1 DEF NothingLost
<1> QED
  BY <1>0, <1>2, <1>3, <1>4

(* m is put where front f finds it at offset o, or a later front.          *)
Puts(f, o, m) ==
  /\ seen' = seen \union {m}
  /\ \A g \in Fronts :
       /\ SameSlots(ring[g], ring'[g]) /\ ring'[g].samevalue = ring[g].samevalue
       /\ g # f => ring'[g] = ring[g]
  /\ \/ /\ o >= 0 /\ new' = new
        /\ ring'[f].new_persistent_empty = ring[f].new_persistent_empty
        /\ ring'[f].store =
             [ring[f].store EXCEPT ![Slot(ring[f], o)] = @ \union {m}]
     \/ /\ o < 0 /\ ring'[f].store = ring[f].store
        /\ ~ ring'[f].new_persistent_empty
        /\ new' = [new EXCEPT ![PlaceOf(ring[f], 0) + o] = @ \union {m}]

(* A checker that asks for the successor m, the one with entry i, at       *)
(* offset o.                                                               *)
Asks(t, f, m, o, i) ==
  /\ pc[t] = "fire" /\ i = entry[t] /\ i \in 1 .. Len(getFirelist(ns[t]))
  /\ m = Fire(ns[t], getFirelist(ns[t])[i])
  /\ o \in Offsets /\ PlaceOf(ring[f], 0) \in Int /\ PlaceOf(ring[f], 0) + o \in first .. last
  /\ UNCHANGED <<frontVars, arguments, old, ns, solution, sync>>
  /\ \A u \in Threads \ {t} : entry'[u] = entry[u]
  /\ \/ pc'[t] = "fire" /\ entry'[t] = i
     \/ pc'[t] = "fire" /\ entry'[t] = i - 1 /\ m \in seen'
     \/ pc'[t] = "pop" /\ i = 1 /\ m \in seen'
  /\ UNCHANGED <<ring, new, seen>> \/ Puts(f, o, m)

(* So does every question for a successor.                                 *)
LEMMA AskAsks ==
  ASSUME Scene, SeenAll, NEW t, NEW f, Checker(t, f), Ask(t)
  PROVE  \E m, o, i : Asks(t, f, m, o, i)
<1> USE SceneFacts
<1>0. /\ t \in Threads /\ f = FrontOf(t) /\ f \in Fronts /\ ring[f] \in Rings
      /\ pc[t] = "fire" /\ pc[t] \in InHands
      /\ UNCHANGED <<frontVars, arguments, old, ns, solution, sync>>
  BY CheckerStays DEF Checker, Ask, InHands
<1>1. PICK i, fired, m, o, q, P, k, where :
        /\ i = entry[t] /\ fired = getFirelist(ns[t])[i] /\ m = Fire(ns[t], fired)
        /\ o = ProgressMeasure[fired] /\ q = PlaceOf(ring[f], o)
        /\ P = Probes(o) /\ k = probe[t] /\ where = P[k]
  OBVIOUS
<1>2. /\ i \in 1 .. Len(getFirelist(ns[t])) /\ i \in Int
      /\ o \in Offsets /\ o \in Int /\ q = PlaceOf(ring[f], 0) + o /\ q \in first .. last
      /\ PlaceOf(ring[f], 0) \in Int /\ Slot(ring[f], o) \in Slots
      /\ m = Fire(ns[t], getFirelist(ns[t])[i])
  <2>1. i \in 1 .. Len(getFirelist(ns[t])) /\ i \in Int
    BY <1>0, <1>1 DEF DataFits, InHand
  <2>2. o \in Offsets
    BY <1>0, <1>1, <2>1, Successors
  <2>3. ring[f].active \in Slots
    BY <1>0 DEF Rings
  <2> QED
    BY <1>0, <1>1, <2>1, <2>2, <2>3, HandFacts, SlotsDiffer DEF Offsets
<1>3. PICK found \in BOOLEAN, ends \in BOOLEAN :
        /\ found => m \in IF where = "old" THEN old[q]
                     ELSE IF where = "new" THEN new[q] ELSE Holds(ring[f], where, o)
        /\ ends <=> found \/ k = Len(P)
        /\ IF found \/ ~ ends
             THEN UNCHANGED <<ring, new, seen>>
             ELSE /\ ring' = [ring EXCEPT ![f] = Insert(@, where, o, m)]
                  /\ new' = IF where = "new" THEN [new EXCEPT ![q] = @ \union {m}] ELSE new
                  /\ seen' = seen \union {m}
        /\ entry' = [entry EXCEPT ![t] = IF ends THEN @ - 1 ELSE @]
        /\ IF ends /\ i = 1 THEN Goto(t, "pop") ELSE UNCHANGED pc
  <2> DEFINE found == m \in IF P[k] = "old" THEN old[q]
                            ELSE IF P[k] = "new" THEN new[q] ELSE Holds(ring[f], P[k], o)
             ends == found \/ k = Len(P)
  <2>1. /\ IF found \/ ~ ends
             THEN UNCHANGED <<ring, new, seen>>
             ELSE /\ ring' = [ring EXCEPT ![f] = Insert(@, P[k], o, m)]
                  /\ new' = IF P[k] = "new" THEN [new EXCEPT ![q] = @ \union {m}] ELSE new
                  /\ seen' = seen \union {m}
        /\ entry' = [entry EXCEPT ![t] = IF ends THEN @ - 1 ELSE @]
        /\ IF ends /\ i = 1 THEN Goto(t, "pop") ELSE UNCHANGED pc
    BY <1>0, <1>1 DEF Ask
  <2>2. PICK b \in BOOLEAN, e \in BOOLEAN : (b <=> found) /\ (e <=> ends)
    OBVIOUS
  <2> HIDE DEF found, ends
  <2>3. b => found
    BY <2>2
  <2>4. e <=> b \/ k = Len(P)
    BY <2>2 DEF ends
  <2>5. /\ IF b \/ ~ e
             THEN UNCHANGED <<ring, new, seen>>
             ELSE /\ ring' = [ring EXCEPT ![f] = Insert(@, P[k], o, m)]
                  /\ new' = IF P[k] = "new" THEN [new EXCEPT ![q] = @ \union {m}] ELSE new
                  /\ seen' = seen \union {m}
        /\ entry' = [entry EXCEPT ![t] = IF e THEN @ - 1 ELSE @]
        /\ IF e /\ i = 1 THEN Goto(t, "pop") ELSE UNCHANGED pc
    BY <2>1, <2>2
  <2>6. b => m \in IF P[k] = "old" THEN old[q]
                            ELSE IF P[k] = "new" THEN new[q] ELSE Holds(ring[f], P[k], o)
    BY <2>3 DEF found
  <2> QED
    BY <1>1, <2>4, <2>5, <2>6
<1>4. ASSUME found PROVE m \in seen'
  <2>1. seen' = seen
    BY <1>3, <1>4
  <2>2. old[q] \subseteq seen /\ new[q] \subseteq seen
        /\ ring[f].samevalue \subseteq seen /\ ring[f].store[Slot(ring[f], o)] \subseteq seen
    BY <1>0, <1>2 DEF SeenAll
  <2>3. Holds(ring[f], where, o) \subseteq seen
    BY <2>2 DEF Holds
  <2> QED
    BY <1>3, <1>4, <2>1, <2>2, <2>3
<1>5. ends => m \in seen'
  <2>1. ASSUME ends, ~ found PROVE m \in seen'
    BY <1>3, <2>1
  <2> QED
    BY <1>4, <2>1
<1>6. /\ \A u \in Threads \ {t} : entry'[u] = entry[u]
      /\ entry'[t] = IF ends THEN i - 1 ELSE i
      /\ pc'[t] = IF ends /\ i = 1 THEN "pop" ELSE "fire"
  <2>1. \A u \in Threads \ {t} : entry'[u] = entry[u]
    BY <1>0, <1>3
  <2>2. entry'[t] = IF ends THEN i - 1 ELSE i
    BY <1>0, <1>1, <1>3
  <2>3. pc'[t] = IF ends /\ i = 1 THEN "pop" ELSE "fire"
    BY <1>0, <1>3 DEF Goto
  <2> QED
    BY <2>1, <2>2, <2>3
<1>7. CASE found \/ ~ ends
  <2>1. UNCHANGED <<ring, new, seen>>
    BY <1>3, <1>7
  <2>2. \/ pc'[t] = "fire" /\ entry'[t] = i
        \/ pc'[t] = "fire" /\ entry'[t] = i - 1 /\ m \in seen'
        \/ pc'[t] = "pop" /\ i = 1 /\ m \in seen'
    <3>1. CASE ~ ends
      BY <1>6, <3>1
    <3>2. CASE ends /\ i = 1
      BY <1>5, <1>6, <3>2
    <3>3. CASE ends /\ i # 1
      BY <1>5, <1>6, <3>3
    <3> QED
      BY <3>1, <3>2, <3>3
  <2>3. Asks(t, f, m, o, i)
    BY <1>0, <1>1, <1>2, <1>6, <2>1, <2>2 DEF Asks
  <2> QED
    BY <2>3
<1>8. CASE ~ found /\ ends
  <2>1. where = P[Len(P)]
    BY <1>1, <1>3, <1>8
  <2>a. \/ o < 0 /\ P = <<"old", "store", "new">>
        \/ o > 0 /\ P = <<"old", "new", "store">>
        \/ o = 0 /\ P = <<"old", "new", "samevalue", "store">>
    <3>1. CASE o < 0
      <4>1. ~ (o > 0)
        BY <1>2, <3>1
      <4>2. P = Probes(o)
        BY <1>1
      <4>3. P = <<"old", "store", "new">>
        BY <3>1, <4>1, <4>2, Zenon DEF Probes
      <4> QED
        BY <3>1, <4>3
    <3>2. CASE o > 0
      <4>1. ~ (o < 0)
        BY <1>2, <3>2
      <4>2. P = Probes(o)
        BY <1>1
      <4>3. P = <<"old", "new", "store">>
        BY <3>2, <4>1, <4>2, Zenon DEF Probes
      <4> QED
        BY <3>2, <4>3
    <3>3. CASE o = 0
      <4>1. ~ (o < 0) /\ ~ (o > 0)
        BY <1>2, <3>3
      <4>2. P = Probes(o)
        BY <1>1
      <4>3. P = <<"old", "new", "samevalue", "store">>
        BY <4>1, <4>2, Zenon DEF Probes
      <4> QED
        BY <3>3, <4>3
    <3> QED
      BY <1>2, <3>1, <3>2, <3>3
  <2>2. o < 0 => where = "new"
    <3> SUFFICES ASSUME o < 0 PROVE where = "new"
      OBVIOUS
    <3>1. P = <<"old", "store", "new">>
      BY <1>2, <2>a
    <3> QED
      BY <2>1, <3>1
  <2>3. o >= 0 => where = "store"
    <3> SUFFICES ASSUME o >= 0 PROVE where = "store"
      OBVIOUS
    <3>1. CASE P = <<"old", "new", "store">>
      BY <2>1, <3>1
    <3>2. CASE P = <<"old", "new", "samevalue", "store">>
      BY <2>1, <3>2
    <3> QED
      BY <1>2, <2>a, <3>1, <3>2
  <2>4. PICK s : s = Insert(ring[f], where, o, m)
    OBVIOUS
  <2>5. ring' = [ring EXCEPT ![f] = s] /\ seen' = seen \union {m}
        /\ new' = IF where = "new" THEN [new EXCEPT ![q] = @ \union {m}] ELSE new
    BY <1>3, <1>8, <2>4
  <2>6. SameSlots(ring[f], s) /\ s.samevalue = ring[f].samevalue
    BY <1>0, <2>4 DEF Insert, SameSlots, Rings
  <2>7. \A g \in Fronts :
           /\ SameSlots(ring[g], ring'[g]) /\ ring'[g].samevalue = ring[g].samevalue
           /\ g # f => ring'[g] = ring[g]
    <3> SUFFICES ASSUME NEW g \in Fronts
                 PROVE  /\ SameSlots(ring[g], ring'[g]) /\ ring'[g].samevalue = ring[g].samevalue
                        /\ g # f => ring'[g] = ring[g]
      OBVIOUS
    <3>1. CASE g = f
      BY <1>0, <2>5, <2>6, <3>1
    <3>2. CASE g # f
      BY <2>5, <3>2 DEF SameSlots
    <3> QED
      BY <3>1, <3>2
  <2>8. ring'[f] = s
    BY <1>0, <2>5
  <2>9. CASE o >= 0
    <3>1. s = [ring[f] EXCEPT !.store[Slot(ring[f], o)] = @ \union {m}]
      BY <2>3, <2>4, <2>9 DEF Insert
    <3>2. s.new_persistent_empty = ring[f].new_persistent_empty
      BY <1>0, <3>1 DEF Rings
    <3>3. s.store = [ring[f].store EXCEPT ![Slot(ring[f], o)] = @ \union {m}]
      BY <1>0, <3>1 DEF Rings
    <3>4. new' = new
      BY <2>3, <2>5, <2>9
    <3>5. Puts(f, o, m)
      BY <2>5, <2>7, <2>8, <2>9, <3>2, <3>3, <3>4 DEF Puts
    <3> QED
      BY <1>0, <1>1, <1>2, <1>5, <1>6, <1>8, <3>5 DEF Asks
  <2>10. CASE o < 0
    <3>1. s = [ring[f] EXCEPT !.new_persistent_empty = FALSE]
      BY <2>2, <2>4, <2>10 DEF Insert
    <3>2. ~ s.new_persistent_empty /\ s.store = ring[f].store
      BY <1>0, <3>1 DEF Rings
    <3>3. new' = [new EXCEPT ![PlaceOf(ring[f], 0) + o] = @ \union {m}]
      BY <1>2, <2>2, <2>5, <2>10
    <3>5. Puts(f, o, m)
      BY <2>5, <2>7, <2>8, <2>10, <3>2, <3>3 DEF Puts
    <3> QED
      BY <1>0, <1>1, <1>2, <1>5, <1>6, <1>8, <3>5 DEF Asks
  <2> QED
    BY <1>2, <2>9, <2>10
<1> QED
  BY <1>7, <1>8

(* Nothing that is held somewhere is lost by it.                           *)
LEMMA PutsKeep ==
  ASSUME Scene, NEW f \in Fronts, NEW o \in Offsets, NEW m,
         PlaceOf(ring[f], 0) + o \in first .. last,
         UNCHANGED <<ring, new, seen>> \/ Puts(f, o, m)
  PROVE  /\ \A q \in first .. last : new[q] \subseteq new'[q]
         /\ \A g \in Fronts :
              /\ SameSlots(ring[g], ring'[g]) /\ ring'[g].samevalue = ring[g].samevalue
              /\ \A i \in Slots : /\ ring[g].store[i] \subseteq ring'[g].store[i]
                                  /\ ring'[g].store[i] \subseteq ring[g].store[i] \union seen'
         /\ \A q \in first .. last : new'[q] \subseteq new[q] \union seen'
         /\ seen \subseteq seen'
<1> USE SceneFacts
<1>1. CASE UNCHANGED <<ring, new, seen>>
  BY <1>1 DEF SameSlots
<1>2. CASE Puts(f, o, m)
  <2>1. seen' = seen \union {m}
    BY <1>2 DEF Puts
  <2>2. ASSUME NEW q \in first .. last
        PROVE  new[q] \subseteq new'[q] /\ new'[q] \subseteq new[q] \union {m}
    <3>1. CASE new' = new
      BY <3>1
    <3>2. CASE new' = [new EXCEPT ![PlaceOf(ring[f], 0) + o] = @ \union {m}]
      <4>1. PICK p : p = PlaceOf(ring[f], 0) + o /\ p \in first .. last
        OBVIOUS
      <4>2. new' = [new EXCEPT ![p] = new[p] \union {m}]
        BY <3>2, <4>1
      <4>3. new'[q] = IF q = p THEN new[p] \union {m} ELSE new[q]
        BY <4>2
      <4> QED
        BY <4>3
    <3> QED
      BY <1>2, <3>1, <3>2 DEF Puts
  <2>3. ASSUME NEW g \in Fronts
        PROVE /\ SameSlots(ring[g], ring'[g]) /\ ring'[g].samevalue = ring[g].samevalue
              /\ \A i \in Slots : /\ ring[g].store[i] \subseteq ring'[g].store[i]
                                  /\ ring'[g].store[i] \subseteq ring[g].store[i] \union {m}
    <3>1. SameSlots(ring[g], ring'[g]) /\ ring'[g].samevalue = ring[g].samevalue
      BY <1>2 DEF Puts
    <3>2. ASSUME NEW i \in Slots
          PROVE  /\ ring[g].store[i] \subseteq ring'[g].store[i]
                 /\ ring'[g].store[i] \subseteq ring[g].store[i] \union {m}
      <4>1. CASE ring'[g].store = ring[g].store
        BY <4>1
      <4>2. CASE g = f /\ ring'[f].store = [ring[f].store EXCEPT ![Slot(ring[f], o)] = @ \union {m}]
        <5>1. PICK x : x = Slot(ring[f], o)
          OBVIOUS
        <5>2. ring'[f].store = [ring[f].store EXCEPT ![x] = ring[f].store[x] \union {m}]
          BY <4>2, <5>1
        <5>3. ring[f].store \in [Slots -> SUBSET Markings]
          BY DEF Rings
        <5>4. ring'[f].store[i] = IF i = x THEN ring[f].store[x] \union {m} ELSE ring[f].store[i]
          BY <5>2, <5>3
        <5> QED
          BY <4>2, <5>4
      <4> QED
        BY <1>2, <4>1, <4>2 DEF Puts
    <3> QED
      BY <3>1, <3>2
  <2> QED
    BY <2>1, <2>2, <2>3
<1> QED
  BY <1>1, <1>2

(* Firing is the same for the contract.                                    *)
LEMMA SameFire ==
  ASSUME NEW m, NEW t
  PROVE  Search!Fire(m, t) = Fire(m, t)
BY DEF Search!Fire, Fire, Search!Delta, Delta

(* A successor that is asked for and put.                                  *)
LEMMA AskData ==
  ASSUME Scene, SeenAll, NothingLost, \A u \in Threads : HandRight(u),
         NEW t, NEW f, Checker(t, f), NEW m, NEW o, NEW i, Asks(t, f, m, o, i)
  PROVE  SeenAll' /\ NothingLost' /\ \A u \in Threads' : HandRight(u)'
<1> USE SceneFacts
<1>0. /\ t \in Threads /\ f = FrontOf(t) /\ f \in Fronts /\ ring[f] \in Rings
      /\ Fronts' = Fronts /\ Threads' = Threads
      /\ \A u \in Threads \ {t} : pc'[u] = pc[u]
  BY CheckerStays DEF Checker
<1>1. /\ pc[t] = "fire" /\ i = entry[t] /\ i \in 1 .. Len(getFirelist(ns[t]))
      /\ m = Fire(ns[t], getFirelist(ns[t])[i])
      /\ o \in Offsets /\ PlaceOf(ring[f], 0) \in Int /\ PlaceOf(ring[f], 0) + o \in first .. last
      /\ UNCHANGED <<frontVars, arguments, old, ns, solution, sync>>
      /\ \A u \in Threads \ {t} : entry'[u] = entry[u]
      /\ \/ pc'[t] = "fire" /\ entry'[t] = i
         \/ pc'[t] = "fire" /\ entry'[t] = i - 1 /\ m \in seen'
         \/ pc'[t] = "pop" /\ i = 1 /\ m \in seen'
      /\ UNCHANGED <<ring, new, seen>> \/ Puts(f, o, m)
  BY DEF Asks
<1>2. UNCHANGED <<first, last, exit, goal, frontptr>>
  BY <1>1 DEF frontVars, arguments, sync
<1>3. \A u \in Threads : FrontOf(u)' = FrontOf(u)
  BY <1>0, <1>2 DEF FrontOf
<1>4. /\ \A q \in first .. last : new[q] \subseteq new'[q]
      /\ \A g \in Fronts :
           /\ SameSlots(ring[g], ring'[g]) /\ ring'[g].samevalue = ring[g].samevalue
           /\ \A j \in Slots : /\ ring[g].store[j] \subseteq ring'[g].store[j]
                               /\ ring'[g].store[j] \subseteq ring[g].store[j] \union seen'
      /\ \A q \in first .. last : new'[q] \subseteq new[q] \union seen'
      /\ seen \subseteq seen'
  BY <1>0, <1>1, PutsKeep
<1>5. /\ ns[t] \in Markings /\ ns[t] \in seen /\ pc[t] \in Hands
      /\ DOMAIN getFirelist(ns[t]) = 1 .. Len(getFirelist(ns[t]))
      /\ Len(getFirelist(ns[t])) \in Nat
      /\ ns[t] \notin goal
      /\ \A j \in DOMAIN getFirelist(ns[t]) :
           j > i => Fire(ns[t], getFirelist(ns[t])[j]) \in seen
      /\ Linked(ring[f])
  <2>1. ns[t] \in Markings /\ pc[t] \in Hands
    BY <1>0, <1>1 DEF Hands
  <2>2. getFirelist(ns[t]) \in Seq({x \in Transition : Enabled(ns[t], x)})
    BY <2>1, SweepFirelistAssumption
  <2> QED
    BY <1>0, <1>1, <2>1, <2>2 DEF HandRight, SeenAll
<1>6. SeenAll'
  <2>1. IF pc'[0] = "setup" THEN seen' = {} ELSE InitialMarking \in seen'
    <3>1. pc'[0] = "setup" => pc[0] = "setup"
      BY <1>0, <1>1
    <3>2. pc[0] # "setup"
      BY <1>5 DEF SeenAll
    <3> QED
      BY <1>4, <3>1, <3>2 DEF SeenAll
  <2>2. ASSUME NEW q \in first' .. last' PROVE new'[q] \union old'[q] \subseteq seen'
    <3>1. q \in first .. last /\ old' = old
      BY <1>1, <1>2
    <3>2. new[q] \subseteq seen /\ old[q] \subseteq seen
      BY <3>1 DEF SeenAll
    <3>3. new'[q] \subseteq new[q] \union seen' /\ seen \subseteq seen'
      BY <1>4, <3>1
    <3> QED
      BY <3>1, <3>2, <3>3
  <2>3. ASSUME NEW g \in Fronts'
        PROVE  ring'[g].samevalue \subseteq seen' /\ \A j \in Slots : ring'[g].store[j] \subseteq seen'
    <3>1. g \in Fronts
      BY <1>0
    <3>2. ring[g].samevalue \subseteq seen /\ \A j \in Slots : ring[g].store[j] \subseteq seen
      BY <3>1 DEF SeenAll
    <3>3. ring'[g].samevalue = ring[g].samevalue /\ seen \subseteq seen'
      BY <1>4, <3>1
    <3>4. \A j \in Slots : ring'[g].store[j] \subseteq ring[g].store[j] \union seen'
      BY <1>4, <3>1
    <3> QED
      BY <3>2, <3>3, <3>4
  <2>4. \A u \in Threads' : pc'[u] \in Hands => ns'[u] \in seen'
    BY <1>0, <1>1, <1>4, <1>5 DEF SeenAll
  <2> QED
    BY <2>1, <2>2, <2>3, <2>4 DEF SeenAll
<1>7. ASSUME NEW u \in Threads PROVE HandRight(u)'
  <2>1. \A g \in Fronts : Linked(ring[g])' = Linked(ring[g])
    BY <1>4 DEF SameSlots, Linked
  <2>2. CASE u = t
    <3>1. Linked(ring[FrontOf(t)])'
      BY <1>0, <1>3, <1>5, <2>1
    <3>2. pc'[t] # "found"
      BY <1>1
    <3>3. ASSUME pc'[t] = "fire", NEW j \in DOMAIN getFirelist(ns[t]), j > entry'[t]
          PROVE  Fire(ns[t], getFirelist(ns[t])[j]) \in seen'
      <4>1. j \in Int /\ i \in Int
        BY <1>1, <1>5
      <4>2. CASE entry'[t] = i
        BY <1>4, <1>5, <3>3, <4>2
      <4>3. CASE entry'[t] = i - 1 /\ m \in seen'
        <5>1. j = i \/ j > i
          BY <3>3, <4>1, <4>3
        <5> QED
          BY <1>1, <1>4, <1>5, <4>3, <5>1
      <4> QED
        BY <1>1, <3>3, <4>2, <4>3
    <3>4. ns'[t] = ns[t] /\ goal' = goal
      BY <1>1, <1>2
    <3> QED
      BY <1>5, <2>2, <3>1, <3>2, <3>3, <3>4 DEF HandRight
  <2>3. CASE u # t
    <3>1. pc'[u] = pc[u] /\ ns'[u] = ns[u] /\ entry'[u] = entry[u] /\ FrontOf(u) \in Fronts
          /\ goal' = goal
      BY <1>0, <1>1, <1>2, <2>3
    <3>2. Linked(ring[FrontOf(u)])' = Linked(ring[FrontOf(u)])
      BY <1>3, <2>1, <3>1
    <3> QED
      BY <1>4, <3>1, <3>2 DEF HandRight
  <2> QED
    BY <2>2, <2>3
<1>8. ASSUME NEW k, Expanded(k) PROVE Expanded(k)'
  BY <1>2, <1>4, <1>8 DEF Expanded, Search!Successors
<1>9. ASSUME NEW k, Pending(k) PROVE Expanded(k)' \/ Pending(k)'
  <2>1. ASSUME NEW q \in first .. last, k \in new[q] PROVE Pending(k)'
    <3>1. k \in new'[q]
      BY <1>4, <2>1
    <3> QED
      BY <1>2, <3>1 DEF Pending
  <2>2. ASSUME NEW g \in Fronts, Ahead(g, k) PROVE Pending(k)'
    <3>1. PICK x \in 0 .. front_offset : k \in ring[g].store[Slot(ring[g], x)]
      BY <2>2 DEF Ahead
    <3>2. Slot(ring[g], x) \in Slots
      <4>1. x \in Offsets /\ ring[g].active \in Slots
        BY Sizes DEF Offsets, Rings
      <4> QED
        BY <4>1, SlotsDiffer
    <3>3. SameSlots(ring[g], ring'[g]) /\ k \in ring'[g].store[Slot(ring[g], x)]
      BY <1>4, <3>1, <3>2
    <3>4. Slot(ring'[g], x) = Slot(ring[g], x)
      BY <3>3, SlotsStay
    <3>5. Ahead(g, k)'
      BY <3>3, <3>4 DEF Ahead, Slot
    <3> QED
      BY <1>0, <3>5 DEF Pending
  <2>3. ASSUME NEW u \in Threads, Held(u, k) PROVE Expanded(k)' \/ Pending(k)'
    <3>1. CASE u # t \/ pc'[t] \in Hands
      <4>1. Held(u, k)'
        BY <1>0, <1>1, <2>3, <3>1 DEF Held, Hands
      <4> QED
        BY <1>0, <4>1 DEF Pending
    <3>2. CASE u = t /\ pc'[t] \notin Hands
      <4>1. k = ns[t] /\ k \notin goal' /\ i = 1 /\ m \in seen'
        BY <1>1, <1>2, <1>5, <2>3, <3>2 DEF Held, Hands
      <4>2. ASSUME NEW j \in DOMAIN getFirelist(k)
            PROVE  Fire(k, getFirelist(k)[j]) \in seen'
        <5>1. j = 1 \/ j > 1
          BY <1>5, <4>1
        <5> QED
          BY <1>1, <1>4, <1>5, <4>1, <5>1
      <4>3. Search!Successors(k) \subseteq seen'
        BY <4>2, SameFire DEF Search!Successors
      <4>4. Expanded(k)'
        BY <4>1, <4>3 DEF Expanded, Search!Successors
      <4> QED
        BY <4>4
    <3> QED
      BY <3>1, <3>2
  <2> QED
    BY <1>9, <2>1, <2>2, <2>3 DEF Pending
<1>10. ASSUME NEW k \in seen', k \notin seen PROVE Pending(k)'
  <2>1. Puts(f, o, m) /\ k = m
    BY <1>1, <1>10 DEF Puts
  <2>2. CASE o >= 0
    <3>1. o \in 0 .. front_offset /\ ring[f].active \in Slots
      BY <1>0, <1>1, <2>2, Sizes DEF Offsets, Rings
    <3>2. SameSlots(ring[f], ring'[f]) /\ Slot(ring'[f], o) = Slot(ring[f], o)
          /\ Slot(ring[f], o) \in Slots
      BY <1>0, <1>1, <1>4, <3>1, SlotsStay, SlotsDiffer
    <3>3. ring'[f].store = [ring[f].store EXCEPT ![Slot(ring[f], o)] = @ \union {m}]
      BY <1>1, <2>1, <2>2, Sizes DEF Puts, Offsets
    <3>4. m \in ring'[f].store[Slot(ring[f], o)]
      <4>1. ring[f].store \in [Slots -> SUBSET Markings]
        BY <1>0 DEF Rings
      <4>2. PICK x : x = Slot(ring[f], o)
        OBVIOUS
      <4> QED
        BY <3>2, <3>3, <4>1, <4>2
    <3>5. Ahead(f, m)'
      BY <3>1, <3>2, <3>4 DEF Ahead, Slot
    <3> QED
      BY <1>0, <2>1, <3>5 DEF Pending
  <2>3. CASE o < 0
    <3>0. ~ (o >= 0)
      BY <1>1, <2>3, Sizes DEF Offsets
    <3>1. new' = [new EXCEPT ![PlaceOf(ring[f], 0) + o] = @ \union {m}]
      BY <2>1, <3>0 DEF Puts
    <3>2. PICK p : p = PlaceOf(ring[f], 0) + o /\ p \in first .. last
      BY <1>1
    <3>3. m \in new'[p]
      BY <3>1, <3>2
    <3> QED
      BY <1>2, <2>1, <3>2, <3>3 DEF Pending
  <2> QED
    BY <1>1, <2>2, <2>3, Sizes DEF Offsets
<1>11. NothingLost'
  <2>1. CASE ~ exit
    <3>1. ASSUME NEW k \in seen' PROVE Expanded(k)' \/ Pending(k)'
      <4>1. CASE k \in seen
        BY <1>8, <1>9, <2>1, <4>1 DEF NothingLost
      <4> QED
        BY <1>10, <4>1
    <3> QED
      BY <1>2, <2>1, <3>1 DEF NothingLost
  <2>2. CASE exit /\ solution = {}
    BY <1>0, <1>5, <2>2 DEF NothingLost
  <2>3. CASE exit /\ solution # {}
    BY <1>1, <1>2, <2>3 DEF NothingLost
  <2> QED
    BY <2>1, <2>2, <2>3
<1> QED
  BY <1>0, <1>6, <1>7, <1>11

(* What a checker does that holds a marking or has just taken one.         *)
Works(t, f) ==
  /\ UNCHANGED <<frontVars, nr_of_threads, frontptr>> /\ ~ exit
  /\ phase[f] \in {"test", "work"}
  /\ ~ Idle(f) \/ new[at[f]] # {}
  /\ pc'[t] \notin {"gather", "empty"}
  /\ \A u \in Threads \ {t} : pc'[u] = pc[u]
  /\ \A g \in Fronts \ {f} : ring'[g] = ring[g]
  /\ ring'[f].new_persistent_empty => ring[f].new_persistent_empty
  /\ \A q \in first .. last : new'[q] # {} =>
       \/ new[q] # {}
       \/ ~ ring'[f].new_persistent_empty /\ \E o \in Offsets : o < 0 /\ q = at[f] + o

(* So the fronts stay in order while a thread works ...                    *)
LEMMA WorksSweep ==
  ASSUME Scene, Sweeping, NEW t \in Threads, NEW f \in Fronts, f = FrontOf(t), Works(t, f)
  PROVE  Sweeping'
<1>0. /\ UNCHANGED <<nr_of_fronts, phase, at, back_progress, frontrunner, first, last, exit>>
      /\ Fronts' = Fronts /\ Threads' = Threads
      /\ \A u \in Threads : FrontOf(u)' = FrontOf(u)
      /\ \A u \in Threads \ {t} : pc'[u] = pc[u]
      /\ \A g \in Fronts \ {f} : ring'[g] = ring[g]
  BY DEF Works, frontVars, Fronts, Threads, FrontOf
<1>a. /\ \A e \in Fronts : at[e] \in Int /\ back_progress[e] \in Int
      /\ first \in Int /\ last \in Int /\ at[f] \in Int
  BY SceneFacts
<1>1. /\ Running(f) /\ phase[f] \notin {"wait", "advance", "clear"} /\ ~ exit
      /\ \A g \in Fronts : Running(g)' <=> Running(g)
      /\ \A g \in Fronts : Leads(g)' <=> Leads(g)
      /\ \A l, g \in Fronts : Rank(l, g)' = Rank(l, g)
  BY <1>0 DEF Works, Running, Leads, Rank
<1>2. PICK l \in Fronts : Leads(l) /\ \A k \in Fronts : Leads(k) => k = l
  BY <1>1, WhoLeads
<1>3. \A q \in first .. last : new'[q] # {} =>
        \/ new[q] # {}
        \/ /\ ~ ring'[f].new_persistent_empty /\ at[f] - back_offset <= q /\ q < at[f]
  <2> SUFFICES ASSUME NEW q \in first .. last, new'[q] # {}, new[q] = {}
               PROVE  ~ ring'[f].new_persistent_empty /\ at[f] - back_offset <= q /\ q < at[f]
    OBVIOUS
  <2>1. PICK o \in Offsets : o < 0 /\ q = at[f] + o /\ ~ ring'[f].new_persistent_empty
    BY DEF Works
  <2>2. PICK a : a = at[f] /\ a \in Int
    BY <1>a
  <2>3. q \in Int /\ o \in Int /\ - back_offset <= o /\ o < 0 /\ q = a + o
    BY <2>1, <2>2, Sizes DEF Offsets
  <2>4. a - back_offset <= q /\ q < a
    BY <2>2, <2>3, Sizes
  <2> QED
    BY <2>1, <2>2, <2>4
<1>4. Reaches'
  BY <1>0, <1>1 DEF Sweeping, Reaches, Start
<1>5. NewWithin'
  <2> SUFFICES ASSUME NEW q \in first .. last, new'[q] # {}
               PROVE  /\ q + front_offset < last
                      /\ q >= Start \/ \E g \in Fronts : Running(g) /\ q >= Start - back_progress[g]
    BY <1>0, <1>1 DEF NewWithin, Start
  <2>1. CASE new[q] # {}
    BY <2>1 DEF Sweeping, NewWithin
  <2>2. CASE at[f] - back_offset <= q /\ q < at[f]
    <3>1. at[f] + front_offset <= last
      BY <1>1, RunningFacts
    <3>2. at[f] + back_progress[f] + 0 >= Start + back_offset
      BY <1>1 DEF Sweeping, Reaches
    <3>5. PICK a, b : a = at[f] /\ b = back_progress[f] /\ a \in Int /\ b \in Int
      BY <1>a
    <3>6. a + b + 0 >= first + back_offset + back_offset /\ a - back_offset <= q /\ q < a
          /\ a + front_offset <= last /\ q \in Int /\ first \in Int /\ last \in Int
          /\ back_offset \in Int /\ front_offset \in Int
      BY <1>a, <2>2, <3>1, <3>2, <3>5, Sizes DEF Start
    <3>7. q >= (first + back_offset) - b /\ q + front_offset < last
      BY <3>5, <3>6
    <3>3. q >= Start - back_progress[f]
      BY <3>5, <3>7 DEF Start
    <3>4. q + front_offset < last
      BY <3>7
    <3> QED
      BY <1>1, <3>3, <3>4
  <2> QED
    BY <1>3, <2>1, <2>2
<1>6. ASSUME NEW e \in Fronts, e # f, Running(e)
      PROVE  \/ Rank(l, f) < Rank(l, e) /\ at[f] - at[e] >= store_size
             \/ Rank(l, e) < Rank(l, f) /\ at[e] - at[f] >= store_size
  BY <1>1, <1>2, <1>6, WindowsDiffer
<1>7. ASSUME NEW e \in Fronts PROVE Passed(e)'
  <2> SUFFICES ASSUME pc'[e] \in {"gather", "empty"} \/ phase[e] \in {"wait", "advance", "clear"},
                      new'[at[e]] # {}
               PROVE  FALSE
    BY <1>0 DEF Passed
  <2>1. pc[e] \in {"gather", "empty"} \/ phase[e] \in {"wait", "advance", "clear"}
    BY <1>0, SceneFacts DEF Works
  <2>2. new[at[e]] = {}
    BY <2>1 DEF Sweeping, Passed
  <2>3. Running(e)
    <3>1. pc[e] \in {"gather", "empty"} => phase[e] = "work"
      BY SceneFacts DEF RingStays, AtWork
    <3> QED
      BY <2>1, <3>1 DEF Running
  <2>4. at[e] \in first .. last
    BY <2>3, RunningFacts
  <2>5. at[f] - back_offset <= at[e] /\ at[e] < at[f]
    BY <1>3, <2>2, <2>4
  <2>6. e # f
    BY <1>a, <2>5
  <2>7. PICK a, b : a = at[f] /\ b = at[e] /\ a \in Int /\ b \in Int
    BY <1>a
  <2>8. a - b >= store_size \/ b - a >= store_size
    BY <1>6, <2>3, <2>6, <2>7
  <2>9. a - back_offset <= b /\ b < a
    BY <2>5, <2>7
  <2> QED
    BY <2>7, <2>8, <2>9, Sizes
<1>8. ASSUME NEW e \in Fronts PROVE AtEnd(e)'
  <2>1. CASE phase[e] = "clear"
    <3>1. e # f
      BY <1>1, <2>1
    <3>2. ring'[e] = ring[e]
      BY <1>0, <3>1
    <3> QED
      BY <1>0, <2>1, <3>2 DEF Sweeping, AtEnd, Slot
  <2> QED
    BY <1>0, <2>1 DEF AtEnd
<1>9. ASSUME NEW g \in Fronts, g # f, Idle(g) PROVE Idle(g)'
  <2>1. ring'[g] = ring[g]
    BY <1>0, <1>9
  <2>2. \A o \in 0 .. front_offset : ring'[g].store[Slot(ring'[g], o)] = {}
    BY <1>9, <2>1 DEF Idle
  <2>3. ASSUME NEW u \in Threads, FrontOf(u)' = g PROVE pc'[u] \notin Hands
    BY <1>0, <1>9, <2>3 DEF Idle
  <2> QED
    BY <1>0, <2>2, <2>3 DEF Idle, Slot
<1>10. ASSUME NEW e \in Fronts, Running(e), ring'[e].new_persistent_empty
       PROVE  /\ \A q \in first .. last : q < at[e] => new'[q] = {}
              /\ \A k, g \in Fronts : Leads(k) /\ Rank(k, e) < Rank(k, g) => Idle(g)'
  <2>1. /\ ring[e].new_persistent_empty
        /\ \A q \in first .. last : q < at[e] => new[q] = {}
        /\ \A k, g \in Fronts : Leads(k) /\ Rank(k, e) < Rank(k, g) => Idle(g)
    <3>1. ring[e].new_persistent_empty
      BY <1>0, <1>10 DEF Works
    <3> QED
      BY <1>10, <3>1 DEF Sweeping, NothingBehind
  <2>2. ASSUME e # f PROVE ~ (Rank(l, e) < Rank(l, f))
    <3> SUFFICES ASSUME Rank(l, e) < Rank(l, f) PROVE FALSE
      OBVIOUS
    <3>1. Idle(f)
      BY <1>2, <2>1
    <3>2. at[e] - at[f] >= store_size
      BY <1>1, <1>10, SceneFacts, <1>2 DEF InOrder, AllApart
    <3>5. PICK a, b : a = at[f] /\ b = at[e] /\ a \in Int /\ b \in Int
      BY <1>a
    <3>6. b - a >= store_size
      BY <3>2, <3>5
    <3>7. a < b
      BY <3>5, <3>6, Sizes
    <3>3. at[f] \in first .. last /\ at[f] < at[e]
      BY <1>1, <3>5, <3>7, RunningFacts
    <3>4. new[at[f]] = {}
      BY <2>1, <3>3
    <3> QED
      BY <3>1, <3>4 DEF Works
  <2>3. ASSUME NEW q \in first .. last, q < at[e], new'[q] # {} PROVE FALSE
    <3>1. ~ ring'[f].new_persistent_empty /\ at[f] - back_offset <= q /\ q < at[f]
      BY <1>3, <2>1, <2>3
    <3>2. e # f
      BY <1>10, <3>1
    <3>3. at[f] - at[e] >= store_size
      BY <1>6, <1>10, <2>2, <3>2
    <3>4. PICK a, b : a = at[f] /\ b = at[e] /\ a \in Int /\ b \in Int
      BY <1>a
    <3>5. a - b >= store_size /\ a - back_offset <= q /\ q < b /\ q \in Int
      BY <1>a, <2>3, <3>1, <3>3, <3>4
    <3> QED
      BY <3>4, <3>5, Sizes
  <2>4. ASSUME NEW k \in Fronts, NEW g \in Fronts, Leads(k), Rank(k, e) < Rank(k, g)
        PROVE  Idle(g)'
    <3>1. k = l
      BY <1>2, <2>4
    <3>2. g # f
      <4>1. e # f => ~ (Rank(l, e) < Rank(l, f))
        BY <2>2
      <4>2. Rank(l, g) \in Int
        BY SceneFacts, Ranks
      <4> QED
        BY <2>4, <3>1, <4>1, <4>2
    <3> QED
      BY <1>9, <2>1, <2>4, <3>2
  <2> QED
    BY <2>3, <2>4
<1>11. ASSUME NEW e \in Fronts PROVE NothingBehind(e)'
  <2> SUFFICES ASSUME Running(e), ring'[e].new_persistent_empty
               PROVE  /\ \A q \in first' .. last' : q < at'[e] => new'[q] = {}
                      /\ \A k, g \in Fronts' :
                           Leads(k)' /\ Rank(k, e)' < Rank(k, g)' => Idle(g)'
    BY <1>1 DEF NothingBehind
  <2>1. \A q \in first .. last : q < at[e] => new'[q] = {}
    BY <1>10
  <2>2. \A k, g \in Fronts : Leads(k) /\ Rank(k, e) < Rank(k, g) => Idle(g)'
    BY <1>10
  <2>3. \A k, g \in Fronts' : Leads(k)' /\ Rank(k, e)' < Rank(k, g)' => Idle(g)'
    BY <1>0, <1>1, <2>2
  <2> QED
    BY <1>0, <2>1, <2>3
<1> QED
  BY <1>0, <1>4, <1>5, <1>7, <1>8, <1>11 DEF Sweeping

(* A front whose stores somebody looks at runs.                            *)
LEMMA CheckerRuns ==
  ASSUME Scene, ~ exit, NEW t, NEW f, Checker(t, f), Linked(ring[f])
  PROVE  phase[f] \in {"test", "work"} /\ Running(f)
<1> USE SceneFacts
<1>1. f \in Fronts /\ t \in {f} \union InsideOf(f) /\ t \in Threads /\ f = FrontOf(t)
  BY CheckerStays DEF Checker
<1>2. CASE t \in InsideOf(f)
  <2>1. phase[f] \notin {"wait", "advance", "post", "clear", "pass", "loop", "init", "begin"}
    BY <1>1, <1>2 DEF RingStays
  <2>2. phase[f] \notin {"end", "done"}
    BY <1>1 DEF InOrder, OneLeader
  <2>3. phase[f] \in {"test", "work"}
    BY <1>1, <2>1, <2>2 DEF Phases
  <2> QED
    BY <2>3 DEF Running
<1>3. CASE t = f
  <2>1. pc[t] \in {"pop", "popnew", "swap", "keep", "fire", "found"}
    BY DEF Checker, CheckStates, Pop, PopNew, Store, SolutionFound, Ask
  <2>2. phase[f] = "work"
    BY <1>1, <1>3, <2>1 DEF RingStays, AtWork
  <2> QED
    BY <2>2 DEF Running
<1> QED
  BY <1>1, <1>2, <1>3

(* ... whatever step of checkStates it takes.                              *)
LEMMA CheckerSweeps ==
  ASSUME Scene, SeenAll, ~ exit', Sweeping, \A u \in Threads : HandRight(u),
         NEW t, NEW f, Checker(t, f)
  PROVE  Sweeping'
<1> USE SceneFacts
<1>0. /\ t \in Threads /\ f = FrontOf(t) /\ f \in Fronts
      /\ Fronts' = Fronts /\ Threads' = Threads
      /\ \A u \in Threads \ {t} : pc'[u] = pc[u]
      /\ ~ exit
      /\ UNCHANGED frontptr
  BY CheckerStays DEF Checker
<1>1. ASSUME pc[t] \in Hands PROVE ~ Idle(f)
  BY <1>0, <1>1 DEF Idle
<1>2. ASSUME pc[t] \in Hands PROVE Linked(ring[f])
  BY <1>0, <1>2 DEF HandRight
<1>3. ASSUME Linked(ring[f]) PROVE PlaceOf(ring[f], 0) = at[f] /\ phase[f] \in {"test", "work"}
  BY <1>0, <1>3, CheckerRuns, RunningFacts
<1>4. ASSUME NEW m, Takes(t, f, m) PROVE Sweeping'
  <2>1. Linked(ring[f])
    BY <1>4 DEF Takes
  <2>2. ~ Idle(f) \/ new[at[f]] # {}
    <3>1. CASE m \in ring[f].store[Slot(ring[f], 0)]
      <4>1. 0 \in 0 .. front_offset
        BY Sizes
      <4> QED
        BY <3>1, <4>1 DEF Idle
    <3>2. CASE m \in new[PlaceOf(ring[f], 0)]
      BY <1>3, <2>1, <3>2
    <3> QED
      BY <1>4, <3>1, <3>2 DEF Takes
  <2>3. Works(t, f)
    BY <1>0, <1>3, <1>4, <2>1, <2>2 DEF Works, Takes, arguments, sync
  <2> QED
    BY <1>0, <2>3, WorksSweep
<1>5. ASSUME NEW m, NEW o, NEW i, Asks(t, f, m, o, i) PROVE Sweeping'
  <2>1. pc[t] \in Hands /\ pc'[t] \notin {"gather", "empty"}
        /\ UNCHANGED <<frontVars, nr_of_threads>>
    BY <1>5 DEF Asks, Hands, arguments
  <2>2. ~ Idle(f) /\ phase[f] \in {"test", "work"} /\ PlaceOf(ring[f], 0) = at[f]
    BY <1>1, <1>2, <1>3, <2>1
  <2>3. CASE UNCHANGED <<ring, new, seen>>
    BY <1>0, <2>1, <2>2, <2>3, WorksSweep DEF Works
  <2>4. CASE Puts(f, o, m)
    <3>1. \A g \in Fronts \ {f} : ring'[g] = ring[g]
      BY <2>4 DEF Puts
    <3>2. CASE new' = new /\ ring'[f].new_persistent_empty = ring[f].new_persistent_empty
      BY <1>0, <2>1, <2>2, <3>1, <3>2, WorksSweep DEF Works
    <3>3. CASE o < 0 /\ ~ ring'[f].new_persistent_empty
                 /\ new' = [new EXCEPT ![PlaceOf(ring[f], 0) + o] = @ \union {m}]
      <4>1. o \in Offsets
        BY <1>5 DEF Asks
      <4>2. PICK p : p = at[f] + o
        OBVIOUS
      <4>3. new' = [new EXCEPT ![p] = new[p] \union {m}]
        BY <2>2, <3>3, <4>2
      <4>4. ASSUME NEW q \in first .. last, new'[q] # {}
            PROVE  new[q] # {} \/ q = p
        BY <4>3, <4>4
      <4>5. \A q \in first .. last : new'[q] # {} =>
              \/ new[q] # {}
              \/ ~ ring'[f].new_persistent_empty /\ \E x \in Offsets : x < 0 /\ q = at[f] + x
        BY <3>3, <4>1, <4>2, <4>4
      <4>6. Works(t, f)
        BY <1>0, <2>1, <2>2, <3>1, <3>3, <4>5 DEF Works
      <4> QED
        BY <1>0, <4>6, WorksSweep
    <3> QED
      BY <2>4, <3>2, <3>3 DEF Puts
  <2> QED
    BY <1>5, <2>3, <2>4 DEF Asks
<1>6. CASE Calm /\ SameOrder
  BY <1>0, <1>6, CalmSweeps
<1>7. CASE Pop(t) \/ PopNew(t)
  BY <1>4, <1>6, <1>7, PopTakes, PopNewTakes
<1>8. CASE Ask(t)
  BY <1>5, <1>8, AskAsks
<1>9. CASE Store(t)
  <2>1. /\ pc[t] \in {"swap", "keep"} /\ pc'[t] \in {"found", "pop", "fire"}
        /\ UNCHANGED <<frontVars, nr_of_threads, new>>
    BY <1>0, <1>9 DEF Store, arguments, Goto
  <2>2. ~ Idle(f) /\ phase[f] \in {"test", "work"}
    BY <1>1, <1>2, <1>3, <2>1 DEF Hands
  <2>3. /\ \A g \in Fronts \ {f} : ring'[g] = ring[g]
        /\ ring'[f].new_persistent_empty = ring[f].new_persistent_empty
    <3>1. CASE ring' = ring
      BY <3>1
    <3>2. CASE ring' = [ring EXCEPT ![f].samevalue = @ \union {ns[t]}]
      <4> DEFINE s == [ring[f] EXCEPT !.samevalue = @ \union {ns[t]}]
      <4>1. ring' = [ring EXCEPT ![f] = s]
        BY <3>2
      <4>2. s.new_persistent_empty = ring[f].new_persistent_empty
        BY <1>0 DEF Rings
      <4> HIDE DEF s
      <4> QED
        BY <1>0, <4>1, <4>2
    <3> QED
      BY <1>0, <1>9, <3>1, <3>2 DEF Store
  <2>4. Works(t, f)
    BY <1>0, <2>1, <2>2, <2>3 DEF Works
  <2> QED
    BY <1>0, <2>4, WorksSweep
<1>10. ~ SolutionFound(t)
  BY <1>0 DEF SolutionFound, Found
<1> QED
  BY <1>7, <1>8, <1>9, <1>10 DEF Checker, CheckStates

(* A step of front f that moves its ring or the ends of the lists.         *)
Moves(f) ==
  /\ UNCHANGED <<nr_of_fronts, nr_of_threads, goal, seen, ns, entry, frontptr, solution>>
  /\ \A u \in Threads \ {f} : pc'[u] = pc[u]
  /\ pc[f] \notin Hands \union {"setup"} /\ pc'[f] \notin Hands \union {"setup"}
  /\ \A g \in Fronts \ {f} : ring'[g] = ring[g]
  /\ first' \in Int /\ last' \in Int /\ first' <= first /\ last <= last'
  /\ \A q \in first' .. last' :
       /\ new'[q] = IF q \in first .. last THEN new[q] ELSE {}
       /\ old'[q] = IF q \in first .. last THEN old[q] ELSE {}
  /\ Linked(ring[f]) => Linked(ring'[f])
  /\ ring'[f].samevalue \subseteq seen /\ \A i \in Slots : ring'[f].store[i] \subseteq seen
  /\ exit => exit'

(* Who works at what stays the same, and so do the lists.                  *)
LEMMA MovesFacts ==
  ASSUME Scene, NEW f \in Fronts, Moves(f)
  PROVE  /\ Fronts' = Fronts /\ Threads' = Threads /\ Helpers' = Helpers
         /\ \A u \in Threads : FrontOf(u)' = FrontOf(u)
         /\ \A u \in Threads : pc'[u] \in Hands <=> pc[u] \in Hands
         /\ \A u \in Threads : pc[u] \in Hands => pc'[u] = pc[u] /\ u # f
         /\ \A q \in first .. last : q \in first' .. last' /\ new'[q] = new[q]
         /\ \A q \in first' .. last' : new'[q] # {} => q \in first .. last /\ new'[q] = new[q]
<1>1. /\ Fronts' = Fronts /\ Threads' = Threads /\ Helpers' = Helpers
      /\ \A u \in Threads : FrontOf(u)' = FrontOf(u)
  BY DEF Moves, Fronts, Threads, Helpers, FrontOf
<1>2. \A u \in Threads : pc'[u] \in Hands <=> pc[u] \in Hands
  BY DEF Moves
<1>3. \A u \in Threads : pc[u] \in Hands => pc'[u] = pc[u] /\ u # f
  BY DEF Moves
<1>4. \A q \in first .. last : q \in first' .. last'
  BY SceneFacts DEF Moves
<1>5. \A q \in first .. last : q \in first' .. last' /\ new'[q] = new[q]
  BY <1>4 DEF Moves
<1>6. \A q \in first' .. last' : new'[q] # {} => q \in first .. last /\ new'[q] = new[q]
  BY DEF Moves
<1> QED
  BY <1>1, <1>2, <1>3, <1>5, <1>6

(* Nothing is lost when a ring moves, unless something was ahead of it and *)
(* is so no more; and the search is over only when all is done.            *)
LEMMA MovesData ==
  ASSUME Scene, SeenAll, NothingLost, \A u \in Threads : HandRight(u),
         NEW f \in Fronts, Moves(f),
         ~ exit' => \A k : Ahead(f, k) => Ahead(f, k)',
         ~ exit /\ exit' => /\ \A m \in seen : Expanded(m)
                            /\ \A u \in Threads : pc[u] \notin Hands
                            /\ \A q \in first .. last : new[q] = {}
  PROVE  SeenAll' /\ NothingLost' /\ \A u \in Threads' : HandRight(u)'
<1>0. /\ Fronts' = Fronts /\ Threads' = Threads
      /\ \A u \in Threads : FrontOf(u)' = FrontOf(u)
      /\ \A u \in Threads : pc'[u] \in Hands <=> pc[u] \in Hands
      /\ \A u \in Threads : pc[u] \in Hands => pc'[u] = pc[u] /\ u # f
      /\ \A q \in first .. last : q \in first' .. last' /\ new'[q] = new[q]
      /\ \A q \in first' .. last' : new'[q] # {} => q \in first .. last /\ new'[q] = new[q]
  BY MovesFacts
<1>1. UNCHANGED <<goal, seen, ns, entry, solution>>
  BY DEF Moves
<1>2. SeenAll'
  <2>1. IF pc'[0] = "setup" THEN seen' = {} ELSE InitialMarking \in seen'
    <3>1. pc'[0] = "setup" <=> pc[0] = "setup"
      BY SceneFacts DEF Moves
    <3> QED
      BY <1>1, <3>1 DEF SeenAll
  <2>2. ASSUME NEW q \in first' .. last' PROVE new'[q] \union old'[q] \subseteq seen'
    <3>1. CASE q \in first .. last
      <4>1. new'[q] = new[q] /\ old'[q] = old[q]
        BY <2>2, <3>1 DEF Moves
      <4>2. new[q] \union old[q] \subseteq seen
        BY <3>1 DEF SeenAll
      <4> QED
        BY <1>1, <4>1, <4>2
    <3>2. CASE q \notin first .. last
      <4>1. new'[q] = {} /\ old'[q] = {}
        BY <2>2, <3>2 DEF Moves
      <4> QED
        BY <4>1
    <3> QED
      BY <3>1, <3>2
  <2>3. ASSUME NEW g \in Fronts
        PROVE  ring'[g].samevalue \subseteq seen' /\ \A i \in Slots : ring'[g].store[i] \subseteq seen'
    <3>1. CASE g = f
      BY <1>1, <3>1 DEF Moves
    <3>2. CASE g # f
      <4>1. ring'[g] = ring[g]
        BY <3>2 DEF Moves
      <4> QED
        BY <1>1, <4>1 DEF SeenAll
    <3> QED
      BY <3>1, <3>2
  <2>4. \A u \in Threads' : pc'[u] \in Hands => ns'[u] \in seen'
    BY <1>0, <1>1 DEF SeenAll
  <2> QED
    BY <1>0, <2>1, <2>2, <2>3, <2>4 DEF SeenAll
<1>3. ASSUME NEW u \in Threads PROVE HandRight(u)'
  <2>1. CASE pc'[u] \in Hands
    <3>1. pc[u] \in Hands /\ pc'[u] = pc[u] /\ FrontOf(u) \in Fronts
      BY <1>0, <2>1, SceneFacts
    <3>2. Linked(ring[FrontOf(u)])
      BY <3>1 DEF HandRight
    <3>3. Linked(ring'[FrontOf(u)])
      <4>1. CASE FrontOf(u) = f
        BY <3>2, <4>1 DEF Moves
      <4>2. CASE FrontOf(u) # f
        <5>1. ring'[FrontOf(u)] = ring[FrontOf(u)]
          BY <3>1, <4>2 DEF Moves
        <5> QED
          BY <3>2, <5>1
      <4> QED
        BY <4>1, <4>2
    <3>4. Linked(ring[FrontOf(u)])'
      BY <1>0, <3>3 DEF Linked
    <3> QED
      BY <1>1, <3>1, <3>4 DEF HandRight
  <2>2. CASE pc'[u] \notin Hands
    BY <2>2 DEF HandRight, Hands
  <2> QED
    BY <2>1, <2>2
<1>4. ASSUME NEW k, Expanded(k) PROVE Expanded(k)'
  BY <1>1, <1>4 DEF Expanded, Search!Successors
<1>5. NothingLost'
  <2>1. CASE ~ exit'
    <3>1. ASSUME NEW k, Pending(k) PROVE Pending(k)'
      <4>1. ASSUME NEW q \in first .. last, k \in new[q] PROVE Pending(k)'
        <5>1. q \in first' .. last' /\ k \in new'[q]
          BY <1>0, <4>1
        <5> QED
          BY <5>1 DEF Pending
      <4>2. ASSUME NEW g \in Fronts, Ahead(g, k) PROVE Pending(k)'
        <5>1. Ahead(g, k)'
          <6>1. CASE g = f
            BY <2>1, <4>2, <6>1
          <6>2. CASE g # f
            <7>1. ring'[g] = ring[g]
              BY <6>2 DEF Moves
            <7> QED
              BY <4>2, <7>1 DEF Ahead, Slot
          <6> QED
            BY <6>1, <6>2
        <5> QED
          BY <1>0, <5>1 DEF Pending
      <4>3. ASSUME NEW u \in Threads, Held(u, k) PROVE Pending(k)'
        <5>1. Held(u, k)'
          BY <1>0, <1>1, <4>3 DEF Held
        <5> QED
          BY <1>0, <5>1 DEF Pending
      <4> QED
        BY <3>1, <4>1, <4>2, <4>3 DEF Pending
    <3>2. ~ exit
      BY <2>1 DEF Moves
    <3>3. \A k \in seen' : Expanded(k)' \/ Pending(k)'
      BY <1>1, <1>4, <3>1, <3>2 DEF NothingLost
    <3> QED
      BY <2>1, <3>3 DEF NothingLost
  <2>2. CASE exit' /\ solution = {}
    <3>1. /\ \A m \in seen : Expanded(m)
          /\ \A u \in Threads : pc[u] \notin Hands
          /\ \A q \in first .. last : new[q] = {}
      <4>1. CASE exit
        BY <2>2, <4>1 DEF NothingLost
      <4>2. CASE ~ exit
        BY <2>2, <4>2
      <4> QED
        BY <4>1, <4>2
    <3>2. \A m \in seen' : Expanded(m)'
      BY <1>1, <1>4, <3>1
    <3>3. \A u \in Threads' : pc'[u] \notin Hands
      BY <1>0, <3>1
    <3>4. \A q \in first' .. last' : new'[q] = {}
      BY <1>0, <3>1
    <3> QED
      BY <2>2, <3>2, <3>3, <3>4 DEF NothingLost
  <2>3. CASE exit' /\ solution # {}
    BY <1>1, <2>3 DEF NothingLost
  <2> QED
    BY <2>1, <2>2, <2>3
<1> QED
  BY <1>0, <1>2, <1>3, <1>5

(* Front 0 puts the initial marking into its ring.                         *)
LEMMA SetupContract ==
  ASSUME Scene, SeenAll, NothingLost, \A u \in Threads : HandRight(u), Setup
  PROVE  /\ SeenAll' /\ NothingLost' /\ \A u \in Threads' : HandRight(u)'
         /\ Sweeping => Sweeping'
<1> USE SceneFacts
<1>1. /\ pc[0] = "setup" /\ pc'[0] = "wake" /\ seen = {} /\ seen' = {InitialMarking}
      /\ UNCHANGED <<frontVars, nr_of_threads, goal, new, old, ns, entry, frontptr, solution>>
      /\ \A u \in Threads \ {0} : pc'[u] = pc[u]
  BY DEF Setup, Goto, arguments, local, SeenAll
<1>2. /\ UNCHANGED <<first, last, exit, phase, at, back_progress, frontrunner, nr_of_fronts>>
      /\ Fronts' = Fronts /\ Threads' = Threads
  BY <1>1 DEF frontVars, Fronts, Threads
<1>3. /\ ~ exit
      /\ \A f \in Fronts : phase[f] \in {"loop", "init"} /\ pc[f] \in Early \union {"outside"}
      /\ \A h \in Helpers : pc[h] = "start"
  BY <1>1 DEF StartsFirst, Early
<1>4. \A t \in Threads : pc[t] \notin Hands /\ pc'[t] \notin Hands
  BY <1>1, <1>3 DEF Hands, Early
<1>5. PICK k, s : k = Link(ring[0], first) /\ s = Insert(k, "store", 0, InitialMarking)
  OBVIOUS
<1>6. ring' = [ring EXCEPT ![0] = s]
  BY <1>5 DEF Setup
<1>7. /\ k.active \in Slots /\ k.samevalue = {} /\ \A i \in Slots : k.store[i] = {}
      /\ k.store \in [Slots -> SUBSET Markings]
  <2>1. k.samevalue = ring[0].samevalue /\ k.store = ring[0].store /\ k.active = back_offset
        /\ ring[0] \in Rings
    BY <1>5 DEF Link, Rings, back_offset
  <2>2. ring[0].samevalue = {} /\ \A i \in Slots : ring[0].store[i] = {}
    BY <1>1 DEF SeenAll
  <2>3. back_offset \in Slots
    BY Sizes DEF Slots
  <2> QED
    BY <2>1, <2>2, <2>3 DEF Rings
<1>8. /\ s.samevalue = {} /\ s.store = [k.store EXCEPT ![Slot(k, 0)] = @ \union {InitialMarking}]
      /\ s.active = k.active
  <2>1. s = [k EXCEPT !.store[Slot(k, 0)] = @ \union {InitialMarking}]
    BY <1>5 DEF Insert
  <2>2. k = [ring[0] EXCEPT !.place = [i \in Slots |-> first + i], !.linked = TRUE,
                      !.active = back_offset, !.new_persistent_empty = TRUE]
    BY <1>5 DEF Link, back_offset
  <2>3. ring[0] \in Rings
    OBVIOUS
  <2>4. \E a, b, c, d, e, g : k = [store |-> a, samevalue |-> b, place |-> c, linked |-> d,
                                  active |-> e, new_persistent_empty |-> g]
    BY <2>2, <2>3 DEF Rings
  <2> QED
    BY <1>7, <2>1, <2>4
<1>9. /\ \A i \in Slots : s.store[i] \subseteq {InitialMarking}
      /\ InitialMarking \in s.store[Slot(s, 0)]
  <2>1. Slot(k, 0) = k.active /\ Slot(s, 0) = Slot(k, 0)
    BY <1>7, <1>8, SlotsDiffer DEF Slot
  <2> QED
    BY <1>7, <1>8, <2>1
<1>10. SeenAll'
  <2>1. IF pc'[0] = "setup" THEN seen' = {} ELSE InitialMarking \in seen'
    BY <1>1
  <2>2. \A q \in first' .. last' : new'[q] \union old'[q] \subseteq seen'
    BY <1>1, <1>2 DEF SeenAll
  <2>3. ASSUME NEW g \in Fronts
        PROVE  ring'[g].samevalue \subseteq seen' /\ \A i \in Slots : ring'[g].store[i] \subseteq seen'
    <3>1. CASE g = 0
      BY <1>1, <1>6, <1>8, <1>9, <3>1
    <3>2. CASE g # 0
      <4>1. ring'[g] = ring[g]
        BY <1>6, <3>2
      <4> QED
        BY <1>1, <4>1 DEF SeenAll
    <3> QED
      BY <3>1, <3>2
  <2> QED
    BY <1>2, <1>4, <2>1, <2>2, <2>3 DEF SeenAll
<1>11. NothingLost'
  <2>1. Ahead(0, InitialMarking)'
    <3>1. 0 \in 0 .. front_offset
      BY Sizes
    <3>2. ring'[0] = s
      BY <1>6
    <3> QED
      BY <1>9, <3>1, <3>2 DEF Ahead, Slot
  <2>2. Pending(InitialMarking)'
    BY <1>2, <2>1 DEF Pending
  <2> QED
    BY <1>1, <1>2, <1>3, <2>2 DEF NothingLost
<1>12. \A u \in Threads' : HandRight(u)'
  BY <1>2, <1>4 DEF HandRight, Hands
<1>13. ASSUME Sweeping PROVE Sweeping'
  <2>1. \A f \in Fronts : ~ Running(f) /\ ~ Running(f)' /\ phase'[f] = phase[f]
                           /\ phase[f] \notin {"wait", "advance", "clear"}
                           /\ pc[f] \notin {"gather", "empty"} /\ pc'[f] \notin {"gather", "empty"}
    <3>1. ASSUME NEW f \in Fronts PROVE pc'[f] \notin {"gather", "empty"} /\ pc[f] \notin {"gather", "empty"}
      <4>1. pc[f] \notin {"gather", "empty"}
        BY <1>3 DEF Early
      <4> QED
        BY <1>1, <4>1
    <3> QED
      BY <1>2, <1>3, <3>1 DEF Running
  <2>2. Reaches'
    BY <1>2, <2>1 DEF Reaches
  <2>3. NewWithin'
    BY <1>1, <1>2, <1>13, <2>1 DEF Sweeping, NewWithin, Start
  <2>4. \A f \in Fronts : Passed(f)' /\ AtEnd(f)' /\ NothingBehind(f)'
    BY <2>1 DEF Passed, AtEnd, NothingBehind
  <2> QED
    BY <1>2, <2>2, <2>3, <2>4 DEF Sweeping
<1> QED
  BY <1>10, <1>11, <1>12, <1>13

(* Nothing changes for a front when another one moves.                     *)
LEMMA MovesIdle ==
  ASSUME Scene, NEW f \in Fronts, Moves(f), NEW g \in Fronts, Idle(g),
         g = f => \A o \in 0 .. front_offset : ring'[f].store[Slot(ring'[f], o)] = {}
  PROVE  Idle(g)'
<1>1. \A o \in 0 .. front_offset : ring'[g].store[Slot(ring'[g], o)] = {}
  <2>1. CASE g = f
    BY <2>1
  <2>2. CASE g # f
    <3>1. ring'[g] = ring[g]
      BY <2>2 DEF Moves
    <3> QED
      BY <3>1 DEF Idle
  <2> QED
    BY <2>1, <2>2
<1>2. \A t \in Threads' : FrontOf(t)' = g => pc'[t] \notin Hands
  BY MovesFacts DEF Idle
<1> QED
  BY <1>1, <1>2 DEF Idle, Slot

(* The other fronts notice nothing.                                        *)
LEMMA OthersSweep ==
  ASSUME Scene, ~ exit, Sweeping, NEW f \in Fronts, Moves(f), NEW e \in Fronts, e # f,
         \A g \in Fronts \ {f} : phase'[g] = phase[g] /\ at'[g] = at[g],
         \A l \in Fronts : Leads(l)' => Leads(l),
         last' = last \/ phase[e] # "clear",
         Idle(f) => \A o \in 0 .. front_offset : ring'[f].store[Slot(ring'[f], o)] = {}
  PROVE  Passed(e)' /\ AtEnd(e)' /\ NothingBehind(e)'
<1>1. /\ phase'[e] = phase[e] /\ at'[e] = at[e] /\ ring'[e] = ring[e] /\ pc'[e] = pc[e]
      /\ Running(e)' <=> Running(e)
      /\ Passed(e) /\ AtEnd(e) /\ NothingBehind(e)
  BY SceneFacts DEF Moves, Running, Sweeping
<1>2. /\ Fronts' = Fronts /\ nr_of_fronts' = nr_of_fronts
      /\ \A q \in first .. last : q \in first' .. last' /\ new'[q] = new[q]
      /\ \A q \in first' .. last' : new'[q] # {} => q \in first .. last /\ new'[q] = new[q]
  BY MovesFacts DEF Moves
<1>3. Passed(e)'
  <2> SUFFICES ASSUME pc[e] \in {"gather", "empty"} \/ phase[e] \in {"wait", "advance", "clear"}
               PROVE  new'[at[e]] = {}
    BY <1>1 DEF Passed
  <2>1. new[at[e]] = {}
    BY <1>1 DEF Passed
  <2>2. Running(e)
    <3>1. pc[e] \in {"gather", "empty"} => phase[e] = "work"
      BY SceneFacts DEF RingStays, AtWork
    <3> QED
      BY <3>1 DEF Running
  <2>3. at[e] \in first .. last
    BY <2>2, RunningFacts
  <2> QED
    BY <1>2, <2>1, <2>3
<1>4. AtEnd(e)'
  BY <1>1 DEF AtEnd, Slot
<1>5. NothingBehind(e)'
  <2> SUFFICES ASSUME Running(e), ring[e].new_persistent_empty
               PROVE  /\ \A q \in first' .. last' : q < at[e] => new'[q] = {}
                      /\ \A l, g \in Fronts :
                           Leads(l)' /\ Rank(l, e)' < Rank(l, g)' => Idle(g)'
    BY <1>1, <1>2 DEF NothingBehind
  <2>1. /\ \A q \in first .. last : q < at[e] => new[q] = {}
        /\ \A l, g \in Fronts : Leads(l) /\ Rank(l, e) < Rank(l, g) => Idle(g)
    BY <1>1 DEF NothingBehind
  <2>2. ASSUME NEW l \in Fronts, NEW g \in Fronts, Leads(l)', Rank(l, e)' < Rank(l, g)'
        PROVE  Idle(g)'
    <3>1. Rank(l, e)' = Rank(l, e) /\ Rank(l, g)' = Rank(l, g)
      BY <1>2 DEF Rank
    <3>2. Idle(g)
      BY <2>1, <2>2, <3>1
    <3> QED
      BY <3>2, MovesIdle
  <2>3. ASSUME NEW q \in first' .. last', q < at[e], new'[q] # {} PROVE FALSE
    BY <1>2, <2>1, <2>3
  <2> QED
    BY <2>2, <2>3
<1> QED
  BY <1>3, <1>4, <1>5

(* A front that follows has nothing as long as the one before it begins.   *)
LEMMA FollowersIdle ==
  ASSUME Scene, ~ exit, \A t \in Threads : HandRight(t),
         NEW l \in Fronts, Leads(l), NEW f \in Fronts, phase[f] = "begin",
         NEW g \in Fronts, Rank(l, f) < Rank(l, g)
  PROVE  Idle(g)
<1> USE SceneFacts
<1>1. ~ InLine(f)
  BY DEF InLine, Running
<1>2. ~ Running(g)
  BY <1>1 DEF InOrder, AllApart
<1>3. g # l /\ ~ Leads(g)
  <2>1. Rank(l, l) = 0 /\ Rank(l, f) \in 0 .. nr_of_fronts - 1
    BY Ranks
  <2>2. g # l
    BY <2>1
  <2> QED
    BY <2>2 DEF InOrder, OneLeader
<1>4. phase[g] \in {"loop", "init", "begin"} /\ g \notin frontrunner
  <2>1. phase[g] \notin {"pass", "end", "done"} /\ g \notin frontrunner
    BY <1>3 DEF Leads, InOrder, OneLeader
  <2> QED
    BY <1>2, <2>1 DEF Running, Phases
<1>5. Blank(ring[g])
  BY <1>4 DEF Prepared
<1>6. \A o \in 0 .. front_offset : ring[g].store[Slot(ring[g], o)] = {}
  <2>1. ring[g].active \in Slots
    BY DEF Rings
  <2>2. \A o \in 0 .. front_offset : o \in Offsets
    BY Sizes DEF Offsets
  <2> QED
    BY <1>5, <2>1, <2>2, SlotsDiffer DEF Blank
<1>7. \A t \in Threads : FrontOf(t) = g => pc[t] \notin Hands
  BY <1>2, HandsRun
<1> QED
  BY <1>6, <1>7 DEF Idle

(* The start of a front's round.                                           *)
LEMMA InitContract ==
  ASSUME Scene, SeenAll, NothingLost, Sweeping, \A t \in Threads : HandRight(t), ~ exit,
         NEW f \in Fronts, InitFront(f)
  PROVE  /\ SeenAll' /\ NothingLost' /\ \A t \in Threads' : HandRight(t)'
         /\ Sweeping'
<1>1. /\ pc[f] = "outside" /\ pc' = pc /\ phase[f] = "begin"
      /\ phase' = [phase EXCEPT ![f] = "test"]
      /\ at' = [at EXCEPT ![f] = first + back_offset]
      /\ back_progress' = [back_progress EXCEPT ![f] = back_offset]
      /\ UNCHANGED <<nr_of_fronts, nr_of_threads, first, last, frontrunner, exit, goal, new, old, ns,
                     entry, seen, solution, frontptr>>
      /\ ring' = [ring EXCEPT ![f] = Link(ring[f], first)]
  BY DEF InitFront, Begin, Go, local, arguments, sync
<1>2. PICK r, s : r = ring[f] /\ s = Link(r, first)
  OBVIOUS
<1>3. /\ r \in Rings /\ s.store = r.store /\ s.samevalue = r.samevalue /\ Linked(s)
      /\ ring'[f] = s /\ \A g \in Fronts \ {f} : ring'[g] = ring[g]
      /\ Blank(r) \/ s.active = r.active
      /\ s.active \in Slots
  <2>1. r \in Rings /\ (Linked(r) => InPlace(r)) /\ (~ Linked(r) => Blank(r))
        /\ (Blank(r) \/ (r.active = back_offset /\ r.place = [i \in Slots |-> first + i]))
        /\ first \in Int
    BY <1>1, <1>2, SceneFacts DEF RingRight, Prepared
  <2>2. Linked(s) /\ s.active = back_offset
    BY <1>2, <2>1, RingLinks
  <2>3. s.store = r.store /\ s.samevalue = r.samevalue
    BY <1>2, <2>1 DEF Link, Rings
  <2>4. back_offset \in Slots
    BY Sizes DEF Slots
  <2> QED
    BY <1>1, <1>2, <2>1, <2>2, <2>3, <2>4, SceneFacts
<1>4. ASSUME NEW o \in 0 .. front_offset
      PROVE  s.store[Slot(s, o)] = r.store[Slot(r, o)]
  <2>1. o \in Offsets
    BY Sizes DEF Offsets
  <2>2. CASE Blank(r)
    <3>1. Slot(s, o) \in Slots /\ Slot(r, o) \in Slots
      BY <1>3, <2>1, SlotsDiffer DEF Rings
    <3> QED
      BY <1>3, <2>2, <3>1 DEF Blank
  <2>3. CASE s.active = r.active
    BY <1>3, <2>3 DEF Slot
  <2> QED
    BY <1>3, <2>2, <2>3
<1>5. Moves(f)
  <2>1. s.samevalue \subseteq seen /\ \A i \in Slots : s.store[i] \subseteq seen
    BY <1>2, <1>3 DEF SeenAll
  <2>2. first' \in Int /\ last' \in Int /\ first' <= first /\ last <= last'
    BY <1>1, SceneFacts
  <2> QED
    BY <1>1, <1>3, <2>1, <2>2 DEF Moves, Hands
<1>6. \A k : Ahead(f, k) => Ahead(f, k)'
  BY <1>2, <1>3, <1>4 DEF Ahead, Slot
<1>7. SeenAll' /\ NothingLost' /\ \A t \in Threads' : HandRight(t)'
  BY <1>1, <1>5, <1>6, MovesData
<1>8. Idle(f) => \A o \in 0 .. front_offset : ring'[f].store[Slot(ring'[f], o)] = {}
  BY <1>2, <1>3, <1>4 DEF Idle
<1>9. Fronts' = Fronts
  BY <1>1 DEF Fronts
<1>10. /\ \A g \in Fronts \ {f} : phase'[g] = phase[g] /\ at'[g] = at[g]
                                  /\ back_progress'[g] = back_progress[g]
       /\ phase'[f] = "test" /\ at'[f] = first + back_offset /\ back_progress'[f] = back_offset
  BY <1>1, SceneFacts
<1>11. \A l \in Fronts : Leads(l)' => Leads(l)
  BY <1>1, <1>10 DEF Leads
<1>12. \A e \in Fronts \ {f} : Passed(e)' /\ AtEnd(e)' /\ NothingBehind(e)'
  BY <1>1, <1>5, <1>8, <1>10, <1>11, OthersSweep
<1>13. Reaches'
  <2> SUFFICES ASSUME NEW g \in Fronts, Running(g)', phase'[g] # "clear"
               PROVE  at'[g] + back_progress'[g] + (IF phase'[g] \in {"wait", "advance"} THEN 1 ELSE 0)
                        >= Start + back_offset
    BY <1>1, <1>9 DEF Reaches, Start
  <2>1. CASE g = f
    BY <1>10, <2>1, SceneFacts, Sizes DEF Start
  <2>2. CASE g # f
    <3>1. Running(g) /\ phase[g] # "clear"
      BY <1>10, <2>2 DEF Running
    <3> QED
      BY <1>10, <2>2, <3>1 DEF Sweeping, Reaches
  <2> QED
    BY <2>1, <2>2
<1>14. ~ Running(f)
  BY <1>1 DEF Running
<1>15. NewWithin'
  <2>1. ASSUME NEW g \in Fronts, Running(g)
        PROVE  Running(g)' /\ back_progress'[g] = back_progress[g]
    BY <1>10, <1>14, <2>1 DEF Running
  <2> QED
    BY <1>1, <1>9, <2>1 DEF Sweeping, NewWithin, Start
<1>16. \A q \in first .. last : new[q] # {} => q >= Start
  <2> SUFFICES ASSUME NEW q \in first .. last, new[q] # {} PROVE q >= Start
    OBVIOUS
  <2>1. CASE q >= Start
    BY <2>1
  <2>2. ASSUME NEW g \in Fronts, Running(g), q >= Start - back_progress[g] PROVE q >= Start
    <3>1. ExtendsAlone
      BY Alone DEF Scene, FrontsInvariant, ExtendsAlone, InLine
    <3>2. ~ (back_progress[g] > 0)
      BY <1>1, <1>14, <2>2, <3>1 DEF ExtendsAlone
    <3>3. back_progress[g] = 0 /\ Start \in Int
      BY <3>2, SceneFacts, Sizes DEF Start
    <3> QED
      BY <2>2, <3>3
  <2> QED
    BY <2>1, <2>2 DEF Sweeping, NewWithin
<1>17. Passed(f)' /\ AtEnd(f)'
  BY <1>1, <1>10 DEF Passed, AtEnd
<1>18. NothingBehind(f)'
  <2>1. \A q \in first' .. last' : q < at'[f] => new'[q] = {}
    <3> SUFFICES ASSUME NEW q \in first .. last, q < first + back_offset, new[q] # {} PROVE FALSE
      BY <1>1, <1>10
    <3>1. q >= first + back_offset
      BY <1>16 DEF Start
    <3> QED
      BY <3>1, SceneFacts, Sizes
  <2>2. ASSUME NEW l \in Fronts, NEW g \in Fronts, Leads(l)', Rank(l, f)' < Rank(l, g)'
        PROVE  Idle(g)'
    <3>1. Rank(l, f) < Rank(l, g)
      BY <1>1, <2>2 DEF Rank
    <3>2. Leads(l)
      BY <1>11, <2>2
    <3>3. Idle(g)
      BY <1>1, <3>1, <3>2, FollowersIdle
    <3> QED
      BY <1>5, <1>8, <3>3, MovesIdle
  <2> QED
    BY <1>9, <2>1, <2>2 DEF NothingBehind
<1> QED
  BY <1>7, <1>9, <1>12, <1>13, <1>15, <1>17, <1>18 DEF Sweeping

(* The lists are lengthened at their ends.                                 *)
LEMMA ListsLengthen ==
  ASSUME Scene, Lists
  PROVE  \A q \in first' .. last' :
           /\ new'[q] = IF q \in first .. last THEN new[q] ELSE {}
           /\ old'[q] = IF q \in first .. last THEN old[q] ELSE {}
<1>1. DOMAIN new = first .. last /\ DOMAIN old = first .. last
  BY SceneFacts
<1>2. /\ new' = [q \in first' .. last' |-> IF q \in first .. last THEN new[q] ELSE {}]
      /\ old' = [q \in first' .. last' |-> IF q \in first .. last THEN old[q] ELSE {}]
  BY <1>1 DEF Lists, Lengthen
<1> QED
  BY <1>2

(* As long as a front may extend the list it is as far from where it began *)
(* as its counter says.                                                    *)
LEMMA Progressed ==
  ASSUME Scene, ~ exit, Sweeping, NEW f \in Fronts, Running(f), back_progress[f] > 0
  PROVE  at[f] + back_progress[f] + (IF phase[f] \in {"wait", "advance"} THEN 1 ELSE 0)
           = Start + back_offset
<1>1. /\ at[f] \in Int /\ back_progress[f] \in Int /\ Start \in Int /\ back_offset \in Int
  BY SceneFacts, Sizes DEF Start
<1>2. /\ phase[f] # "clear"
      /\ at[f] + back_progress[f] + (IF phase[f] \in {"wait", "advance"} THEN 1 ELSE 0)
           <= Start + back_offset
  BY SceneFacts DEF InOrder, WithinList, InLine
<1>3. at[f] + back_progress[f] + (IF phase[f] \in {"wait", "advance"} THEN 1 ELSE 0)
           >= Start + back_offset
  BY <1>2 DEF Sweeping, Reaches
<1> QED
  BY <1>1, <1>2, <1>3

(* The end of a round.                                                     *)
LEMMA DoneContract ==
  ASSUME Scene, SeenAll, NothingLost, \A t \in Threads : HandRight(t),
         NEW f \in Fronts, RoundDone(f)
  PROVE  /\ SeenAll' /\ NothingLost' /\ \A t \in Threads' : HandRight(t)'
         /\ ~ exit /\ Sweeping => Sweeping'
<1>1. /\ pc[f] = "empty" /\ phase[f] = "work" /\ Lists
      /\ pc' = [pc EXCEPT ![f] = "outside"]
      /\ phase' = [phase EXCEPT ![f] = IF exit THEN "clear" ELSE "wait"]
      /\ UNCHANGED <<nr_of_fronts, nr_of_threads, last, at, frontrunner, exit, goal, ring, ns,
                     entry, seen, solution, frontptr>>
  BY DEF RoundDone, EndWork, Go, Goto, local, arguments, sync
<1>2. PICK lowest \in BOOLEAN :
        /\ lowest <=> LowestNew(ring[f], new)
        /\ first' = IF ~ exit /\ lowest THEN first - back_progress[f] ELSE first
        /\ back_progress' = IF exit THEN back_progress
             ELSE [back_progress EXCEPT ![f] = IF lowest \/ back_progress[f] = 0 THEN 0
                                               ELSE back_progress[f] - 1]
  <2>1. LowestNew(ring[f], new) \in BOOLEAN
    BY DEF LowestNew
  <2>2. PICK lowest \in BOOLEAN : lowest = LowestNew(ring[f], new)
    BY <2>1
  <2>3. EndWork(f, lowest)
    BY <2>2 DEF RoundDone
  <2> QED
    BY <2>2, <2>3 DEF EndWork, Back
<1>3. /\ first \in Int /\ last \in Int /\ back_progress[f] \in Nat /\ at[f] \in Int
      /\ f \in Threads
  BY SceneFacts
<1>4. Running(f) /\ Fronts' = Fronts
  BY <1>1 DEF Running, Fronts
<1>5. Moves(f)
  <2>1. first' \in Int /\ last' \in Int /\ first' <= first /\ last <= last'
    BY <1>1, <1>2, <1>3
  <2>2. ring[f].samevalue \subseteq seen /\ \A i \in Slots : ring[f].store[i] \subseteq seen
    BY DEF SeenAll
  <2>3. pc'[f] = "outside" /\ \A u \in Threads \ {f} : pc'[u] = pc[u]
    BY <1>1, SceneFacts
  <2> QED
    BY <1>1, <2>1, <2>2, <2>3, ListsLengthen DEF Moves, Hands
<1>6. SeenAll' /\ NothingLost' /\ \A t \in Threads' : HandRight(t)'
  <2>1. \A k : Ahead(f, k) => Ahead(f, k)'
    BY <1>1 DEF Ahead, Slot
  <2> QED
    BY <1>1, <1>5, <2>1, MovesData
<1>7. ASSUME ~ exit, Sweeping PROVE Sweeping'
  <2>1. /\ \A g \in Fronts \ {f} : phase'[g] = phase[g] /\ at'[g] = at[g]
                                   /\ back_progress'[g] = back_progress[g]
        /\ phase'[f] = "wait" /\ at'[f] = at[f] /\ pc'[f] = "outside"
        /\ back_progress'[f] = IF lowest \/ back_progress[f] = 0 THEN 0 ELSE back_progress[f] - 1
        /\ first' = IF lowest THEN first - back_progress[f] ELSE first
        /\ first' \in Int /\ first' <= first
    BY <1>1, <1>2, <1>3, <1>7, SceneFacts
  <2>2. \A l \in Fronts : Leads(l)' => Leads(l)
    BY <1>1, <2>1 DEF Leads
  <2>3. Idle(f) => \A o \in 0 .. front_offset : ring'[f].store[Slot(ring'[f], o)] = {}
    BY <1>1 DEF Idle
  <2>4. \A e \in Fronts \ {f} : Passed(e)' /\ AtEnd(e)' /\ NothingBehind(e)'
    BY <1>1, <1>5, <1>7, <2>1, <2>2, <2>3, OthersSweep
  <2>5. /\ \A q \in first .. last : q \in first' .. last' /\ new'[q] = new[q]
        /\ \A q \in first' .. last' : new'[q] # {} => q \in first .. last /\ new'[q] = new[q]
    BY <1>5, MovesFacts
  <2>6. at[f] + back_progress[f] >= Start + back_offset
    <3>1. at[f] + back_progress[f] + 0 >= Start + back_offset
      BY <1>1, <1>4, <1>7 DEF Sweeping, Reaches
    <3> QED
      BY <1>3, <3>1
  <2>7. Reaches'
    <3> SUFFICES ASSUME NEW g \in Fronts, Running(g)', phase'[g] # "clear"
                 PROVE  at'[g] + back_progress'[g] + (IF phase'[g] \in {"wait", "advance"} THEN 1 ELSE 0)
                          >= (first' + back_offset) + back_offset
      BY <1>4 DEF Reaches, Start
    <3>1. CASE g = f
      <4>1. at[f] + back_progress[f] >= (first + back_offset) + back_offset
        BY <2>6 DEF Start
      <4>2. PICK a, b, c : a = at[f] /\ b = back_progress[f] /\ c = back_progress'[f]
        OBVIOUS
      <4>3. a + c + 1 >= (first' + back_offset) + back_offset
        BY <1>3, <2>1, <4>1, <4>2, Sizes
      <4> QED
        BY <2>1, <3>1, <4>2, <4>3
    <3>2. CASE g # f
      <4>1. Running(g) /\ phase[g] # "clear"
        BY <2>1, <3>2 DEF Running
      <4>2. at[g] + back_progress[g] + (IF phase[g] \in {"wait", "advance"} THEN 1 ELSE 0)
              >= (first + back_offset) + back_offset
        BY <1>7, <4>1 DEF Sweeping, Reaches, Start
      <4>3. PICK a, b, c : a = at[g] /\ b = back_progress[g]
                           /\ c = (IF phase[g] \in {"wait", "advance"} THEN 1 ELSE 0)
        OBVIOUS
      <4>4. a \in Int /\ b \in Int /\ c \in Int
        BY <4>3, SceneFacts
      <4>5. a + b + c >= (first' + back_offset) + back_offset
        BY <1>3, <2>1, <4>2, <4>3, <4>4, Sizes
      <4> QED
        BY <2>1, <3>2, <4>3, <4>5
    <3> QED
      BY <3>1, <3>2
  <2>8. ~ lowest => new[at[f] - back_offset] = {}
    <3>1. ring[f].active \in Slots /\ - back_offset \in Offsets
      BY SceneFacts, Sizes DEF Rings, Offsets
    <3>2. PlaceOf(ring[f], front_offset + 1) = PlaceOf(ring[f], - back_offset)
      BY <3>1, SlotsDiffer DEF PlaceOf
    <3>3. PlaceOf(ring[f], - back_offset) = at[f] + (- back_offset)
      BY <1>4, <3>1, RunningFacts
    <3>4. at[f] + (- back_offset) = at[f] - back_offset
      BY <1>3, Sizes
    <3> QED
      BY <1>2, <3>2, <3>3, <3>4 DEF LowestNew
  <2>9. ASSUME NEW q \in first .. last, new[q] # {}
        PROVE  q >= first' + back_offset
               \/ \E g \in Fronts : Running(g)' /\ q >= (first' + back_offset) - back_progress'[g]
    <3>1. CASE q >= first + back_offset
      BY <1>3, <2>1, <3>1, Sizes
    <3>2. ASSUME NEW g \in Fronts \ {f}, Running(g), q >= (first + back_offset) - back_progress[g],
                 ~ (q >= first + back_offset)
          PROVE  Running(g)' /\ q >= (first' + back_offset) - back_progress'[g]
      <4>1. back_progress[g] > 0
        <5>1. back_progress[g] \in Nat
          BY SceneFacts
        <5> QED
          BY <1>3, <3>2, <5>1, Sizes
      <4>2. back_progress[f] = 0
        BY <1>4, <1>7, <3>2, <4>1, Alone, SceneFacts DEF InLine
      <4>3. first' = first
        BY <1>3, <2>1, <4>2
      <4> QED
        BY <2>1, <3>2, <4>3 DEF Running
    <3>3. ASSUME q >= (first + back_offset) - back_progress[f], ~ (q >= first + back_offset)
          PROVE  q >= first' + back_offset
                 \/ (Running(f)' /\ q >= (first' + back_offset) - back_progress'[f])
      <4>1. CASE lowest
        <5>1. first' = first - back_progress[f]
          BY <2>1, <4>1
        <5> QED
          BY <1>3, <3>3, <5>1, Sizes
      <4>2. CASE ~ lowest
        <5>1. back_progress[f] > 0
          BY <1>3, <3>3, Sizes
        <5>2. at[f] + back_progress[f] + 0 = (first + back_offset) + back_offset
          BY <1>1, <1>4, <1>7, <5>1, Progressed DEF Start
        <5>3. q # at[f] - back_offset
          BY <2>8, <2>9, <4>2
        <5>4. PICK a, b : a = at[f] /\ b = back_progress[f] /\ a \in Int /\ b \in Int
          BY <1>3
        <5>5. a + b + 0 = (first + back_offset) + back_offset /\ q # a - back_offset
              /\ q >= (first + back_offset) - b
          BY <3>3, <5>2, <5>3, <5>4
        <5>6. q >= (first + back_offset) - (b - 1)
          BY <1>3, <5>4, <5>5, Sizes
        <5>7. first' = first /\ back_progress'[f] = b - 1
          BY <1>3, <2>1, <4>2, <5>1, <5>4
        <5>8. Running(f)'
          BY <2>1 DEF Running
        <5> QED
          BY <5>6, <5>7, <5>8
      <4> QED
        BY <4>1, <4>2
    <3>4. q >= first + back_offset
            \/ \E g \in Fronts : Running(g) /\ q >= (first + back_offset) - back_progress[g]
      BY <1>7, <2>9 DEF Sweeping, NewWithin, Start
    <3> QED
      BY <3>1, <3>2, <3>3, <3>4
  <2>10. NewWithin'
    <3>1. ASSUME NEW q \in first' .. last', new'[q] # {}
          PROVE  /\ q + front_offset < last'
                 /\ q >= first' + back_offset
                    \/ \E g \in Fronts : Running(g)' /\ q >= (first' + back_offset) - back_progress'[g]
      <4>1. q \in first .. last /\ new[q] # {}
        BY <2>5, <3>1
      <4>2. q + front_offset < last /\ last' = last
        BY <1>1, <1>7, <4>1 DEF Sweeping, NewWithin
      <4> QED
        BY <2>9, <4>1, <4>2
    <3> QED
      BY <1>4, <3>1 DEF NewWithin, Start
  <2>11. Passed(f)'
    <3>1. new[at[f]] = {} /\ at[f] \in first .. last
      BY <1>1, <1>4, <1>7, RunningFacts DEF Sweeping, Passed
    <3> QED
      BY <2>1, <2>5, <3>1 DEF Passed
  <2>12. AtEnd(f)'
    BY <2>1 DEF AtEnd
  <2>13. NothingBehind(f)'
    <3> SUFFICES ASSUME ring[f].new_persistent_empty
                 PROVE  /\ \A q \in first' .. last' : q < at[f] => new'[q] = {}
                        /\ \A l, g \in Fronts :
                             Leads(l)' /\ Rank(l, f)' < Rank(l, g)' => Idle(g)'
      BY <1>1, <1>4, <2>1 DEF NothingBehind
    <3>1. /\ \A q \in first .. last : q < at[f] => new[q] = {}
          /\ \A l, g \in Fronts : Leads(l) /\ Rank(l, f) < Rank(l, g) => Idle(g)
      BY <1>4, <1>7 DEF Sweeping, NothingBehind
    <3>2. ASSUME NEW q \in first' .. last', q < at[f], new'[q] # {} PROVE FALSE
      BY <2>5, <3>1, <3>2
    <3>3. ASSUME NEW l \in Fronts, NEW g \in Fronts, Leads(l)', Rank(l, f)' < Rank(l, g)'
          PROVE  Idle(g)'
      <4>1. Rank(l, f) < Rank(l, g)
        BY <1>1, <3>3 DEF Rank
      <4>2. Idle(g)
        BY <2>2, <3>1, <3>3, <4>1
      <4> QED
        BY <1>5, <2>3, <4>2, MovesIdle
    <3> QED
      BY <3>2, <3>3
  <2> QED
    BY <1>4, <2>4, <2>7, <2>10, <2>11, <2>12, <2>13 DEF Sweeping
<1> QED
  BY <1>6, <1>7

(* What a ring has ahead after it has moved on.                            *)
LEMMA AdvancedContents ==
  ASSUME NEW r \in Rings, InPlace(r), transient_offset \in 0 .. back_offset,
         r.store[r.active] = {}
  PROVE  LET s == Advanced(r, transient_offset)
         IN  /\ s.samevalue = {} /\ s.linked = r.linked
             /\ s.new_persistent_empty = r.new_persistent_empty
             /\ \A o \in 0 .. front_offset - 1 : s.store[Slot(s, o)] = r.store[Slot(r, o + 1)]
             /\ s.store[Slot(s, front_offset)] = {}
             /\ \A i \in Slots : s.store[i] \subseteq r.store[i] \union r.samevalue
<1> DEFINE to == transient_offset
           back == Slot(r, - to)
           s == Advanced(r, to)
<1>1. /\ to \in Nat /\ to <= back_offset /\ back_offset \in Nat /\ front_offset \in Nat
      /\ r.active \in Slots /\ r.store \in [Slots -> SUBSET Markings]
      /\ - to \in Offsets /\ 0 \in Offsets /\ - back_offset \in Offsets /\ front_offset \in Offsets
      /\ \A o \in Offsets : o \in Int /\ Slot(r, o) \in Slots
      /\ \A o, q \in Offsets : Slot(r, o) = Slot(r, q) => o = q
      /\ Slot(r, 0) = r.active
      /\ Slot(r, front_offset + 1) = Slot(r, - back_offset)
  <2>1. to \in Nat /\ to <= back_offset /\ back_offset \in Nat /\ front_offset \in Nat
    BY Sizes
  <2>2. - to \in Offsets /\ 0 \in Offsets /\ - back_offset \in Offsets /\ front_offset \in Offsets
    BY <2>1 DEF Offsets
  <2>3. r.store \in [Slots -> SUBSET Markings]
    BY DEF Rings
  <2> QED
    BY <2>1, <2>2, <2>3, PlaceIsInt, SlotsDiffer
<1>2. /\ s.active = Slot(r, 1) /\ s.samevalue = {} /\ s.linked = r.linked
      /\ s.new_persistent_empty = r.new_persistent_empty
      /\ s.store = IF to = 0 THEN r.store
                   ELSE [r.store EXCEPT ![back] = r.store[r.active], ![r.active] = r.samevalue]
  BY DEF Advanced, Rings
<1> HIDE DEF s, to
<1>3. \A o \in Offsets : Slot(s, o) = Slot(r, o + 1)
  BY <1>1, <1>2, SlotMoves
<1>4. /\ s.store = r.store \/ to # 0
      /\ \A i \in Slots : i # back /\ i # r.active => s.store[i] = r.store[i]
      /\ to # 0 => s.store[back] = {}
      /\ to # 0 => s.store[r.active] = r.samevalue
      /\ back \in Slots /\ r.active \in Slots
  <2>1. back \in Slots
    BY <1>1
  <2>2. to # 0 => back # r.active
    <3>1. - to = 0 => to = 0
      BY <1>1
    <3> QED
      BY <1>1, <3>1
  <2> HIDE DEF back
  <2> QED
    BY <1>1, <1>2, <2>1, <2>2
<1>5. ASSUME NEW o \in 0 .. front_offset - 1
      PROVE  s.store[Slot(s, o)] = r.store[Slot(r, o + 1)]
  <2>1. o \in Offsets /\ o + 1 \in Offsets /\ o + 1 # 0 /\ o + 1 # - to
    BY <1>1 DEF Offsets
  <2>2. Slot(s, o) = Slot(r, o + 1) /\ Slot(r, o + 1) \in Slots
    BY <1>1, <1>3, <2>1
  <2>3. Slot(r, o + 1) # back /\ Slot(r, o + 1) # r.active
    BY <1>1, <2>1
  <2> QED
    BY <1>4, <2>2, <2>3
<1>6. s.store[Slot(s, front_offset)] = {}
  <2>1. Slot(s, front_offset) = Slot(r, - back_offset)
    BY <1>1, <1>3
  <2>2. CASE to = back_offset
    <3>1. Slot(s, front_offset) = back
      BY <2>1, <2>2
    <3>2. CASE to = 0
      <4>1. back = Slot(r, 0)
        <5>1. PICK y \in Int : y = - to
          BY <1>1
        <5>2. y <= 0 /\ y >= 0
          BY <1>1, <3>2, <5>1
        <5>3. y = 0
          BY <5>2
        <5> QED
          BY <5>1, <5>3
      <4> QED
        BY <1>1, <1>4, <3>1, <3>2, <4>1
    <3> QED
      BY <1>4, <3>1, <3>2
  <2>3. CASE to # back_offset
    <3>1. - back_offset # - to /\ - back_offset # 0 /\ - back_offset < - to
      BY <1>1, <2>3
    <3>2. Slot(r, - back_offset) # back /\ Slot(r, - back_offset) # r.active
      BY <1>1, <3>1
    <3>3. r.store[Slot(r, - back_offset)] = {}
      BY <1>1, <3>1 DEF InPlace, to
    <3>4. Slot(r, - back_offset) \in Slots
      BY <1>1
    <3> QED
      BY <1>4, <2>1, <3>2, <3>3, <3>4
  <2> QED
    BY <2>2, <2>3
<1>7. \A i \in Slots : s.store[i] \subseteq r.store[i] \union r.samevalue
  <2> HIDE DEF back
  <2> QED
    BY <1>4
<1> QED
  BY <1>2, <1>5, <1>6, <1>7 DEF s, to

(* Beyond the foremost offset the ring comes back to the rearmost ones.    *)
LEMMA SlotRound ==
  ASSUME NEW r \in Rings, NEW d \in Nat, d + 1 <= back_offset
  PROVE  Slot(r, front_offset + d + 2) = Slot(r, - back_offset + 1 + d)
         /\ - back_offset + 1 + d \in Offsets
<1>1. /\ r.active \in 0 .. store_size - 1 /\ store_size \in Nat
      /\ front_offset \in Nat /\ back_offset \in Nat
      /\ back_offset + front_offset + 1 = store_size
  BY Sizes DEF Slots, Rings
<1>2. PICK o, p : /\ o = front_offset + d + 2 /\ p = - back_offset + 1 + d
  OBVIOUS
<1>3. /\ o \in Int /\ p \in Int /\ o = p + store_size /\ o <= store_size /\ p <= 0
      /\ - store_size <= p /\ - store_size <= o /\ p <= store_size
      /\ - back_offset <= p /\ p <= front_offset
  BY <1>1, <1>2
<1>4. r.active \in Slots
  BY DEF Rings
<1>5. Slot(r, o) = IF r.active + o < 0 THEN r.active + o + store_size
                   ELSE IF r.active + o < store_size THEN r.active + o
                   ELSE r.active + o - store_size
  BY <1>3, <1>4, SlotAt
<1>6. Slot(r, p) = IF r.active + p < 0 THEN r.active + p + store_size
                   ELSE IF r.active + p < store_size THEN r.active + p
                   ELSE r.active + p - store_size
  BY <1>3, <1>4, SlotAt
<1>7. Slot(r, o) = Slot(r, p)
  BY <1>1, <1>3, <1>5, <1>6
<1> QED
  BY <1>2, <1>3, <1>7 DEF Offsets

(* The oldest new markings are as many stores back as checkNewPersistent   *)
(* says, or fewer.                                                         *)
LEMMA AgeEnough ==
  ASSUME NEW r, NEW list, NEW bp \in Nat, NEW d \in Nat, d < bp,
         list[PlaceOf(r, front_offset + d + 2)] # {}
  PROVE  Age(r, list, bp) >= bp - d /\ Age(r, list, bp) \in Nat
<1> DEFINE Aged == {i \in 0 .. bp - 1 :
              \E j \in 0 .. i : list[PlaceOf(r, front_offset + j + 2)] # {}}
<1>1. IsFiniteSet(0 .. bp - 1) /\ Aged \subseteq 0 .. bp - 1
  <2>1. IsFiniteSet(0 .. bp - 1)
    BY FS_Interval
  <2>2. Aged \subseteq 0 .. bp - 1
    OBVIOUS
  <2> QED
    BY <2>1, <2>2
<1>2. ASSUME NEW i \in d .. bp - 1 PROVE i \in Aged
  <2>1. i \in 0 .. bp - 1 /\ d \in 0 .. i
    OBVIOUS
  <2> QED
    BY <2>1
<1>3. Age(r, list, bp) = Cardinality(Aged)
  BY DEF Age, AgeFrom
<1>4. d .. bp - 1 \subseteq Aged
  BY <1>2
<1> HIDE DEF Aged
<1>5. IsFiniteSet(Aged)
  BY <1>1, FS_Subset
<1>6. Cardinality(d .. bp - 1) <= Cardinality(Aged)
  BY <1>4, <1>5, FS_Subset
<1>7. Cardinality(d .. bp - 1) = bp - d
  <2>1. Cardinality(d .. bp - 1) = IF d > bp - 1 THEN 0 ELSE (bp - 1) - d + 1
    BY FS_Interval
  <2> QED
    BY <2>1
<1>8. Cardinality(Aged) \in Nat
  BY <1>5, FS_CardinalityType
<1> QED
  BY <1>3, <1>6, <1>7, <1>8

(* The way to the next store.                                              *)
LEMMA PostContract ==
  ASSUME Scene, SeenAll, NothingLost, \A t \in Threads : HandRight(t),
         NEW f \in Fronts, AdvanceProgress(f), phase'[f] # "clear"
  PROVE  /\ SeenAll' /\ NothingLost' /\ \A t \in Threads' : HandRight(t)'
         /\ ~ exit /\ Sweeping => Sweeping'
<1>1. /\ pc[f] = "outside" /\ pc' = pc /\ phase[f] = "advance" /\ Lists
      /\ phase' = [phase EXCEPT ![f] = "post"]
      /\ at' = [at EXCEPT ![f] = @ + 1]
      /\ last' = IF at[f] + front_offset < last THEN last ELSE last + 1
      /\ ring' = [ring EXCEPT ![f] = Advanced(@, transient_offset)]
      /\ UNCHANGED <<nr_of_fronts, nr_of_threads, first, back_progress, frontrunner, exit, goal, ns,
                     entry, seen, solution, frontptr>>
  <2>1. f \in DOMAIN phase
    BY SceneFacts
  <2> QED
    BY <2>1 DEF AdvanceProgress, Advance, Go, local, arguments, sync
<1>2. /\ first \in Int /\ last \in Int /\ back_progress[f] \in Nat /\ at[f] \in Int
      /\ f \in Threads /\ transient_offset \in 0 .. back_offset
  BY SceneFacts
<1>3. Running(f) /\ Fronts' = Fronts
  BY <1>1 DEF Running, Fronts
<1>4. PICK r, s : r = ring[f] /\ s = Advanced(r, transient_offset)
  OBVIOUS
<1>5. r \in Rings /\ InPlace(r) /\ r.store[r.active] = {}
  BY <1>1, <1>3, <1>4, SceneFacts DEF RingRight, Searched
<1>6. /\ s.samevalue = {} /\ s.linked = r.linked
      /\ s.new_persistent_empty = r.new_persistent_empty
      /\ \A o \in 0 .. front_offset - 1 : s.store[Slot(s, o)] = r.store[Slot(r, o + 1)]
      /\ s.store[Slot(s, front_offset)] = {}
      /\ \A i \in Slots : s.store[i] \subseteq r.store[i] \union r.samevalue
  BY <1>2, <1>4, <1>5, AdvancedContents
<1>7. ring'[f] = s /\ \A g \in Fronts \ {f} : ring'[g] = ring[g]
  BY <1>1, <1>4, SceneFacts
<1>8. Slot(r, 0) = r.active
  BY <1>5, SlotsDiffer DEF Rings
<1>9. Moves(f)
  <2>1. first' \in Int /\ last' \in Int /\ first' <= first /\ last <= last'
    BY <1>1, <1>2
  <2>2. s.samevalue \subseteq seen /\ \A i \in Slots : s.store[i] \subseteq seen
    BY <1>4, <1>6 DEF SeenAll
  <2> QED
    BY <1>1, <1>4, <1>6, <1>7, <2>1, <2>2, ListsLengthen DEF Moves, Hands, Linked
<1>10. ASSUME NEW k, Ahead(f, k) PROVE Ahead(f, k)'
  <2>1. PICK o \in 0 .. front_offset : k \in r.store[Slot(r, o)]
    BY <1>4, <1>10 DEF Ahead
  <2>2. o # 0
    BY <1>5, <1>8, <2>1
  <2>3. o - 1 \in 0 .. front_offset - 1 /\ o - 1 \in 0 .. front_offset /\ (o - 1) + 1 = o
    BY <2>2, Sizes
  <2>4. k \in s.store[Slot(s, o - 1)]
    BY <1>6, <2>1, <2>3
  <2>5. \E p \in 0 .. front_offset : k \in s.store[Slot(s, p)]
    BY <2>3, <2>4
  <2> QED
    BY <1>7, <2>5 DEF Ahead, Slot
<1>11. SeenAll' /\ NothingLost' /\ \A t \in Threads' : HandRight(t)'
  BY <1>1, <1>9, <1>10, MovesData
<1>12. Idle(f) => \A o \in 0 .. front_offset : ring'[f].store[Slot(ring'[f], o)] = {}
  <2> SUFFICES ASSUME Idle(f), NEW o \in 0 .. front_offset PROVE s.store[Slot(s, o)] = {}
    BY <1>7
  <2>1. CASE o = front_offset
    BY <1>6, <2>1
  <2>2. CASE o # front_offset
    <3>1. o \in 0 .. front_offset - 1 /\ o + 1 \in 0 .. front_offset
      BY <2>2, Sizes
    <3>2. r.store[Slot(r, o + 1)] = {}
      BY <1>4, <3>1 DEF Idle
    <3> QED
      BY <1>6, <3>1, <3>2
  <2> QED
    BY <2>1, <2>2
<1>13. ASSUME ~ exit, Sweeping PROVE Sweeping'
  <2>1. /\ \A g \in Fronts \ {f} : phase'[g] = phase[g] /\ at'[g] = at[g]
        /\ phase'[f] = "post" /\ at'[f] = at[f] + 1
    BY <1>1, SceneFacts
  <2>2. \A l \in Fronts : Leads(l)' => Leads(l)
    BY <1>1, <2>1 DEF Leads
  <2>3. ASSUME NEW e \in Fronts, e # f PROVE last' = last \/ phase[e] # "clear"
    <3> SUFFICES ASSUME last' # last, phase[e] = "clear" PROVE FALSE
      OBVIOUS
    <3>1. Running(e) /\ Leads(e)
      BY <1>13, SceneFacts DEF Running, Leads, InOrder, OneLeader
    <3>2. Rank(e, e) < Rank(e, f)
      <4>1. Rank(e, e) = 0 /\ Rank(e, f) # 0 /\ Rank(e, f) \in 0 .. nr_of_fronts - 1
        BY <2>3, Ranks, SceneFacts
      <4>2. nr_of_fronts \in Nat
        BY SceneFacts
      <4> QED
        BY <4>1, <4>2
    <3>3. at[e] - at[f] >= store_size
      BY <1>3, <1>13, <3>1, <3>2, SceneFacts DEF InOrder, AllApart
    <3>4. at[e] + front_offset <= last
      BY <3>1, RunningFacts
    <3>5. ~ (at[f] + front_offset < last)
      BY <1>1
    <3>6. PICK a, b : a = at[e] /\ b = at[f] /\ a \in Int /\ b \in Int
      BY SceneFacts
    <3>7. a - b >= store_size /\ a + front_offset <= last /\ ~ (b + front_offset < last)
      BY <3>3, <3>4, <3>5, <3>6
    <3> QED
      BY <1>2, <3>6, <3>7, Sizes
  <2>4. \A e \in Fronts \ {f} : Passed(e)' /\ AtEnd(e)' /\ NothingBehind(e)'
    BY <1>9, <1>12, <1>13, <2>1, <2>2, <2>3, OthersSweep
  <2>5. /\ \A q \in first .. last : q \in first' .. last' /\ new'[q] = new[q]
        /\ \A q \in first' .. last' : new'[q] # {} => q \in first .. last /\ new'[q] = new[q]
    BY <1>9, MovesFacts
  <2>6. Reaches'
    <3> SUFFICES ASSUME NEW g \in Fronts, Running(g)', phase'[g] # "clear"
                 PROVE  at'[g] + back_progress[g] + (IF phase'[g] \in {"wait", "advance"} THEN 1 ELSE 0)
                          >= Start + back_offset
      BY <1>1, <1>3 DEF Reaches, Start
    <3>1. CASE g = f
      <4>1. at[f] + back_progress[f] + 1 >= Start + back_offset
        BY <1>1, <1>3, <1>13 DEF Sweeping, Reaches
      <4>2. PICK a, b : a = at[f] /\ b = back_progress[f]
        OBVIOUS
      <4>3. (a + 1) + b + 0 >= Start + back_offset
        BY <1>2, <4>1, <4>2, Sizes DEF Start
      <4> QED
        BY <2>1, <3>1, <4>2, <4>3
    <3>2. CASE g # f
      <4>1. Running(g) /\ phase[g] # "clear"
        BY <2>1, <3>2 DEF Running
      <4> QED
        BY <1>13, <2>1, <3>2, <4>1 DEF Sweeping, Reaches
    <3> QED
      BY <3>1, <3>2
  <2>7. NewWithin'
    <3>1. \A g \in Fronts : Running(g) => Running(g)'
      BY <2>1 DEF Running
    <3>2. ASSUME NEW q \in first' .. last', new'[q] # {}
          PROVE  /\ q + front_offset < last'
                 /\ q >= Start \/ \E g \in Fronts : Running(g)' /\ q >= Start - back_progress[g]
      <4>1. q \in first .. last /\ new[q] # {}
        BY <2>5, <3>2
      <4>2. /\ q + front_offset < last
            /\ q >= Start \/ \E g \in Fronts : Running(g) /\ q >= Start - back_progress[g]
        BY <1>13, <4>1 DEF Sweeping, NewWithin
      <4>3. q + front_offset < last'
        BY <1>1, <1>2, <4>1, <4>2, Sizes
      <4> QED
        BY <3>1, <4>2, <4>3
    <3> QED
      BY <1>1, <1>3, <3>2 DEF NewWithin, Start
  <2>8. Passed(f)' /\ AtEnd(f)'
    BY <1>1, <2>1 DEF Passed, AtEnd
  <2>9. NothingBehind(f)'
    <3> SUFFICES ASSUME r.new_persistent_empty
                 PROVE  /\ \A q \in first' .. last' : q < at[f] + 1 => new'[q] = {}
                        /\ \A l, g \in Fronts :
                             Leads(l)' /\ Rank(l, f)' < Rank(l, g)' => Idle(g)'
      BY <1>3, <1>6, <1>7, <2>1 DEF NothingBehind
    <3>1. /\ \A q \in first .. last : q < at[f] => new[q] = {}
          /\ \A l, g \in Fronts : Leads(l) /\ Rank(l, f) < Rank(l, g) => Idle(g)
          /\ new[at[f]] = {}
      BY <1>1, <1>3, <1>4, <1>13 DEF Sweeping, NothingBehind, Passed
    <3>2. ASSUME NEW q \in first' .. last', q < at[f] + 1, new'[q] # {} PROVE FALSE
      <4>1. q \in first .. last /\ new[q] # {}
        BY <2>5, <3>2
      <4>2. q < at[f] \/ q = at[f]
        BY <1>2, <3>2, <4>1
      <4> QED
        BY <3>1, <4>1, <4>2
    <3>3. ASSUME NEW l \in Fronts, NEW g \in Fronts, Leads(l)', Rank(l, f)' < Rank(l, g)'
          PROVE  Idle(g)'
      <4>1. Rank(l, f) < Rank(l, g)
        BY <1>1, <3>3 DEF Rank
      <4>2. Idle(g)
        BY <2>2, <3>1, <3>3, <4>1
      <4> QED
        BY <1>9, <1>12, <4>2, MovesIdle
    <3> QED
      BY <3>2, <3>3
  <2> QED
    BY <1>3, <2>4, <2>6, <2>7, <2>8, <2>9 DEF Sweeping
<1> QED
  BY <1>11, <1>13

(* The end of the list.                                                    *)
LEMMA EndContract ==
  ASSUME Scene, SeenAll, NothingLost, \A t \in Threads : HandRight(t),
         NEW f \in Fronts, AdvanceProgress(f), phase'[f] = "clear"
  PROVE  /\ SeenAll' /\ NothingLost' /\ \A t \in Threads' : HandRight(t)'
         /\ ~ exit /\ Sweeping => Sweeping'
<1>1. /\ pc[f] = "outside" /\ pc' = pc /\ phase[f] = "advance" /\ Lists
      /\ phase' = [phase EXCEPT ![f] = "clear"]
      /\ ~ AnyAhead(ring[f]) /\ ~ (at[f] + front_offset < last)
      /\ first' = first - Age(ring[f], new, back_progress[f])
      /\ back_progress' = [back_progress EXCEPT ![f] = 0]
      /\ UNCHANGED <<nr_of_fronts, nr_of_threads, last, at, frontrunner, exit, goal, ring, ns,
                     entry, seen, solution, frontptr>>
  <2>1. f \in DOMAIN phase
    BY SceneFacts
  <2> QED
    BY <2>1 DEF AdvanceProgress, Advance, Go, local, arguments, sync
<1>2. /\ first \in Int /\ last \in Int /\ back_progress[f] \in Nat /\ at[f] \in Int
      /\ f \in Threads /\ ring[f] \in Rings
  BY SceneFacts
<1>3. Running(f) /\ Fronts' = Fronts
  BY <1>1 DEF Running, Fronts
<1>a. PICK age : age = Age(ring[f], new, back_progress[f]) /\ age \in 0 .. back_progress[f]
  BY <1>2, AgeInRange
<1>4. first' = first - age /\ first' \in Int /\ first' <= first
  BY <1>1, <1>2, <1>a
<1>5. Moves(f)
  <2>2. ring[f].samevalue \subseteq seen /\ \A i \in Slots : ring[f].store[i] \subseteq seen
    BY DEF SeenAll
  <2> QED
    BY <1>1, <1>2, <1>4, <2>2, ListsLengthen DEF Moves, Hands
<1>6. SeenAll' /\ NothingLost' /\ \A t \in Threads' : HandRight(t)'
  <2>1. \A k : Ahead(f, k) => Ahead(f, k)'
    BY <1>1 DEF Ahead, Slot
  <2> QED
    BY <1>1, <1>5, <2>1, MovesData
<1>7. ASSUME ~ exit, Sweeping PROVE Sweeping'
  <2>1. /\ \A g \in Fronts \ {f} : phase'[g] = phase[g] /\ back_progress'[g] = back_progress[g]
        /\ phase'[f] = "clear" /\ at' = at /\ back_progress'[f] = 0
    BY <1>1, SceneFacts
  <2>2. \A l \in Fronts : Leads(l)' => Leads(l)
    BY <1>1, <2>1 DEF Leads
  <2>3. Idle(f) => \A o \in 0 .. front_offset : ring'[f].store[Slot(ring'[f], o)] = {}
    BY <1>1 DEF Idle
  <2>4. \A e \in Fronts \ {f} : Passed(e)' /\ AtEnd(e)' /\ NothingBehind(e)'
    BY <1>1, <1>5, <1>7, <2>1, <2>2, <2>3, OthersSweep
  <2>5. /\ \A q \in first .. last : q \in first' .. last' /\ new'[q] = new[q]
        /\ \A q \in first' .. last' : new'[q] # {} => q \in first .. last /\ new'[q] = new[q]
    BY <1>5, MovesFacts
  <2>6. Reaches'
    <3> SUFFICES ASSUME NEW g \in Fronts, Running(g)', phase'[g] # "clear"
                 PROVE  at[g] + back_progress'[g] + (IF phase'[g] \in {"wait", "advance"} THEN 1 ELSE 0)
                          >= (first' + back_offset) + back_offset
      BY <1>3, <2>1 DEF Reaches, Start
    <3>1. g # f
      BY <2>1
    <3>2. Running(g) /\ phase[g] # "clear"
      BY <2>1, <3>1 DEF Running
    <3>3. at[g] + back_progress[g] + (IF phase[g] \in {"wait", "advance"} THEN 1 ELSE 0)
            >= (first + back_offset) + back_offset
      BY <1>7, <3>2 DEF Sweeping, Reaches, Start
    <3>4. PICK a, b, c : a = at[g] /\ b = back_progress[g]
                         /\ c = (IF phase[g] \in {"wait", "advance"} THEN 1 ELSE 0)
      OBVIOUS
    <3>5. a \in Int /\ b \in Int /\ c \in Int
      BY <3>4, SceneFacts
    <3>6. a + b + c >= (first' + back_offset) + back_offset
      BY <1>2, <1>4, <3>3, <3>4, <3>5, Sizes
    <3> QED
      BY <2>1, <3>1, <3>4, <3>6
  <2>7. ASSUME NEW q \in first .. last, new[q] # {}
        PROVE  q >= first' + back_offset
               \/ \E g \in Fronts : Running(g)' /\ q >= (first' + back_offset) - back_progress'[g]
    <3>1. CASE q >= first + back_offset
      BY <1>2, <1>4, <3>1, Sizes
    <3>2. ASSUME NEW g \in Fronts \ {f}, Running(g), q >= (first + back_offset) - back_progress[g],
                 ~ (q >= first + back_offset)
          PROVE  Running(g)' /\ q >= (first' + back_offset) - back_progress'[g]
      <4>1. back_progress[g] > 0
        <5>1. back_progress[g] \in Nat
          BY SceneFacts
        <5> QED
          BY <1>2, <3>2, <5>1, Sizes
      <4>2. back_progress[f] = 0
        BY <1>3, <1>7, <3>2, <4>1, Alone, SceneFacts DEF InLine
      <4>3. first' = first
        BY <1>2, <1>4, <1>a, <4>2
      <4> QED
        BY <2>1, <3>2, <4>3 DEF Running
    <3>3. ASSUME q >= (first + back_offset) - back_progress[f], ~ (q >= first + back_offset)
          PROVE  q >= first' + back_offset
      <4>1. PICK a, b : a = at[f] /\ b = back_progress[f] /\ a \in Int /\ b \in Nat
        BY <1>2
      <4>2. b > 0
        BY <1>2, <3>3, <4>1, Sizes
      <4>3. a + b + 1 = (first + back_offset) + back_offset
        BY <1>1, <1>3, <1>7, <4>1, <4>2, Progressed DEF Start
      <4>4. first + back_offset <= a
        BY <1>3, <4>1, RunningFacts
      <4>5. PICK d : d = q - ((first + back_offset) - b)
        OBVIOUS
      <4>6. d \in Nat /\ d < b /\ d + 1 <= back_offset /\ q = a + (- back_offset + 1 + d)
        BY <1>2, <3>3, <4>1, <4>2, <4>3, <4>4, <4>5, Sizes
      <4>7. PlaceOf(ring[f], front_offset + d + 2) = q
        <5>1. /\ Slot(ring[f], front_offset + d + 2) = Slot(ring[f], - back_offset + 1 + d)
              /\ - back_offset + 1 + d \in Offsets
          BY <1>2, <4>6, SlotRound
        <5>2. PlaceOf(ring[f], - back_offset + 1 + d) = at[f] + (- back_offset + 1 + d)
          BY <1>3, <5>1, RunningFacts
        <5> QED
          BY <4>1, <4>6, <5>1, <5>2 DEF PlaceOf
      <4>8. age >= b - d
        BY <1>a, <2>7, <4>1, <4>6, <4>7, AgeEnough
      <4>9. age \in Int
        BY <1>2, <1>a
      <4> QED
        BY <1>2, <1>4, <4>1, <4>5, <4>6, <4>8, <4>9, Sizes
    <3>4. q >= first + back_offset
            \/ \E g \in Fronts : Running(g) /\ q >= (first + back_offset) - back_progress[g]
      BY <1>7, <2>7 DEF Sweeping, NewWithin, Start
    <3> QED
      BY <3>1, <3>2, <3>3, <3>4
  <2>8. NewWithin'
    <3>1. ASSUME NEW q \in first' .. last', new'[q] # {}
          PROVE  /\ q + front_offset < last'
                 /\ q >= first' + back_offset
                    \/ \E g \in Fronts : Running(g)' /\ q >= (first' + back_offset) - back_progress'[g]
      <4>1. q \in first .. last /\ new[q] # {}
        BY <2>5, <3>1
      <4>2. q + front_offset < last /\ last' = last
        BY <1>1, <1>7, <4>1 DEF Sweeping, NewWithin
      <4> QED
        BY <2>7, <4>1, <4>2
    <3> QED
      BY <1>3, <3>1 DEF NewWithin, Start
  <2>9. Passed(f)'
    <3>1. new[at[f]] = {} /\ at[f] \in first .. last
      BY <1>1, <1>3, <1>7, RunningFacts DEF Sweeping, Passed
    <3> QED
      BY <2>1, <2>5, <3>1 DEF Passed
  <2>10. AtEnd(f)'
    <3>1. ring[f].store[ring[f].active] = {} /\ Slot(ring[f], 0) = ring[f].active
      BY <1>1, <1>2, SceneFacts, SlotsDiffer DEF Searched, Rings
    <3>2. \A o \in 0 .. front_offset : o = 0 \/ o \in 1 .. front_offset
      BY Sizes
    <3>3. \A o \in 0 .. front_offset : ring[f].store[Slot(ring[f], o)] = {}
      BY <1>1, <3>1, <3>2 DEF AnyAhead
    <3>4. at[f] + front_offset >= last
      BY <1>1, <1>2, Sizes
    <3> QED
      BY <1>1, <2>1, <3>3, <3>4 DEF AtEnd, Slot
  <2>11. NothingBehind(f)'
    <3> SUFFICES ASSUME ring[f].new_persistent_empty
                 PROVE  /\ \A q \in first' .. last' : q < at[f] => new'[q] = {}
                        /\ \A l, g \in Fronts :
                             Leads(l)' /\ Rank(l, f)' < Rank(l, g)' => Idle(g)'
      BY <1>1, <1>3, <2>1 DEF NothingBehind
    <3>1. /\ \A q \in first .. last : q < at[f] => new[q] = {}
          /\ \A l, g \in Fronts : Leads(l) /\ Rank(l, f) < Rank(l, g) => Idle(g)
      BY <1>3, <1>7 DEF Sweeping, NothingBehind
    <3>2. ASSUME NEW q \in first' .. last', q < at[f], new'[q] # {} PROVE FALSE
      BY <2>5, <3>1, <3>2
    <3>3. ASSUME NEW l \in Fronts, NEW g \in Fronts, Leads(l)', Rank(l, f)' < Rank(l, g)'
          PROVE  Idle(g)'
      <4>1. Rank(l, f) < Rank(l, g)
        BY <1>1, <3>3 DEF Rank
      <4>2. Idle(g)
        BY <2>2, <3>1, <3>3, <4>1
      <4> QED
        BY <1>5, <2>3, <4>2, MovesIdle
    <3> QED
      BY <3>2, <3>3
  <2> QED
    BY <1>3, <2>4, <2>6, <2>8, <2>9, <2>10, <2>11 DEF Sweeping
<1> QED
  BY <1>6, <1>7

(* When the front that leads is at the end, and has made no marking        *)
(* persistent, every marking has been dealt with.                          *)
LEMMA NothingLeft ==
  ASSUME Scene, NothingLost, Sweeping, \A t \in Threads : HandRight(t), ~ exit,
         NEW f \in Fronts, phase[f] = "clear", ring[f].new_persistent_empty
  PROVE  /\ \A m \in seen : Expanded(m)
         /\ \A u \in Threads : pc[u] \notin Hands
         /\ \A q \in first .. last : new[q] = {}
<1>1. Running(f) /\ Leads(f) /\ AtEnd(f) /\ NothingBehind(f)
  BY SceneFacts DEF Running, Leads, InOrder, OneLeader, Sweeping
<1>2. ASSUME NEW g \in Fronts, g # f PROVE Idle(g)
  <2>1. Rank(f, f) = 0 /\ Rank(f, g) \in 0 .. nr_of_fronts - 1 /\ Rank(f, g) # 0
    BY <1>2, Ranks, SceneFacts
  <2>2. Rank(f, f) < Rank(f, g)
    BY <2>1, SceneFacts
  <2> QED
    BY <1>1, <2>2 DEF NothingBehind
<1>3. \A u \in Threads : pc[u] \notin Hands
  <2> SUFFICES ASSUME NEW u \in Threads, pc[u] \in Hands PROVE FALSE
    OBVIOUS
  <2>1. FrontOf(u) \in Fronts /\ phase[FrontOf(u)] \in {"test", "work"}
    BY HandsRun
  <2>2. FrontOf(u) # f
    BY <2>1
  <2> QED
    BY <1>2, <2>1, <2>2 DEF Idle
<1>4. \A q \in first .. last : new[q] = {}
  <2> SUFFICES ASSUME NEW q \in first .. last, new[q] # {} PROVE FALSE
    OBVIOUS
  <2>1. q + front_offset < last
    BY DEF Sweeping, NewWithin
  <2>2. PICK a \in Int : a = at[f]
    BY SceneFacts
  <2>3. a + front_offset >= last
    BY <1>1, <2>2 DEF AtEnd
  <2>4. q < a
    BY <2>1, <2>3, SceneFacts, Sizes
  <2> QED
    BY <1>1, <2>2, <2>4 DEF NothingBehind
<1>5. ASSUME NEW g \in Fronts, NEW k PROVE ~ Ahead(g, k)
  <2>1. \A o \in 0 .. front_offset : ring[g].store[Slot(ring[g], o)] = {}
    BY <1>1, <1>2 DEF AtEnd, Idle
  <2> QED
    BY <2>1 DEF Ahead
<1>6. \A k : ~ Pending(k)
  BY <1>3, <1>4, <1>5 DEF Pending, Held
<1> QED
  BY <1>3, <1>4, <1>6 DEF NothingLost

(* The end of a front's round: the search is over, or goes on with what    *)
(* the front has left behind.                                              *)
LEMMA DeinitContract ==
  ASSUME Scene, SeenAll, NothingLost, \A t \in Threads : HandRight(t), exit \/ Sweeping,
         NEW f \in Fronts, DeinitFront(f)
  PROVE  /\ SeenAll' /\ NothingLost' /\ \A t \in Threads' : HandRight(t)'
         /\ ~ exit' => Sweeping'
<1> DEFINE s == Emptied(ring[f])
<1>1. /\ pc[f] = "outside" /\ phase[f] = "clear" /\ pc' = pc
      /\ phase' = [phase EXCEPT ![f] = IF nr_of_fronts > 1 THEN "pass" ELSE "loop"]
      /\ exit' = (exit \/ ring[f].new_persistent_empty)
      /\ frontrunner' = IF nr_of_fronts = 1 THEN frontrunner ELSE frontrunner \ {f}
      /\ UNCHANGED <<nr_of_fronts, nr_of_threads, at, back_progress, first, last, goal, new, old, ns,
                     entry, seen, solution, frontptr>>
      /\ ring' = [ring EXCEPT ![f] = s]
  BY DEF DeinitFront, Clear, Go, OverWhenCleared, local, arguments, sync
<1>2. s \in Rings /\ SameSlots(ring[f], s) /\ Blank(s)
  BY RingEmpties, SceneFacts
<1> HIDE DEF s
<1>3. /\ ring'[f] = s /\ \A g \in Fronts \ {f} : ring'[g] = ring[g]
      /\ Linked(s) = Linked(ring[f])
      /\ Fronts' = Fronts
  BY <1>1, <1>2, SceneFacts, SlotsStay DEF Fronts
<1>4. Moves(f)
  <2>1. s.samevalue \subseteq seen /\ \A i \in Slots : s.store[i] \subseteq seen
    BY <1>2 DEF Blank
  <2>2. first' \in Int /\ last' \in Int /\ first' <= first /\ last <= last'
    BY <1>1, SceneFacts
  <2> QED
    BY <1>1, <1>3, <2>1, <2>2 DEF Moves, Hands
<1>5. ~ exit => Running(f) /\ Leads(f) /\ back_progress[f] = 0
  <2>1. Running(f)
    BY <1>1 DEF Running
  <2> QED
    BY <1>1, <2>1, SceneFacts DEF InOrder, OneLeader, WithinList, InLine, Leads
<1>6. ~ exit => \A o \in 0 .. front_offset : ring[f].store[Slot(ring[f], o)] = {}
  BY <1>1 DEF Sweeping, AtEnd
<1>7. SeenAll' /\ NothingLost' /\ \A t \in Threads' : HandRight(t)'
  <2>1. ~ exit' => \A k : Ahead(f, k) => Ahead(f, k)'
    BY <1>1, <1>6 DEF Ahead
  <2>2. ~ exit /\ exit' => /\ \A m \in seen : Expanded(m)
                           /\ \A u \in Threads : pc[u] \notin Hands
                           /\ \A q \in first .. last : new[q] = {}
    BY <1>1, NothingLeft
  <2> QED
    BY <1>4, <2>1, <2>2, MovesData
<1>8. ASSUME ~ exit' PROVE Sweeping'
  <2>1. /\ \A g \in Fronts \ {f} : phase'[g] = phase[g] /\ at'[g] = at[g]
        /\ phase'[f] \in {"pass", "loop"} /\ ~ exit /\ Sweeping
    BY <1>1, <1>8, SceneFacts
  <2>2. ASSUME NEW l \in Fronts, Leads(l)' PROVE Leads(l)
    <3>1. CASE l = f
      BY <1>5, <2>1, <3>1
    <3>2. CASE l # f
      BY <1>1, <2>1, <2>2, <3>2 DEF Leads
    <3> QED
      BY <3>1, <3>2
  <2>3. \A o \in 0 .. front_offset : ring'[f].store[Slot(ring'[f], o)] = {}
    <3>1. \A o \in 0 .. front_offset : Slot(s, o) \in Slots
      <4>1. s.active \in Slots /\ \A o \in 0 .. front_offset : o \in Offsets
        BY <1>2, Sizes DEF Rings, Offsets
      <4> QED
        BY <4>1, <1>2, SlotsDiffer
    <3> QED
      BY <1>2, <1>3, <3>1 DEF Blank
  <2>4. \A e \in Fronts \ {f} : Passed(e)' /\ AtEnd(e)' /\ NothingBehind(e)'
    BY <1>1, <1>4, <2>1, <2>2, <2>3, OthersSweep
  <2>5. ~ Running(f)' /\ Passed(f)' /\ AtEnd(f)' /\ NothingBehind(f)'
    BY <1>1, <2>1 DEF Running, Passed, AtEnd, NothingBehind
  <2>6. \A g \in Fronts : Running(g)' => g # f /\ Running(g)
    BY <2>1, <2>5 DEF Running
  <2>7. Reaches'
    <3>1. \A g \in Fronts : Running(g)' /\ phase'[g] # "clear" =>
            at[g] + back_progress[g] + (IF phase'[g] \in {"wait", "advance"} THEN 1 ELSE 0)
              >= Start + back_offset
      BY <2>1, <2>6 DEF Sweeping, Reaches
    <3> QED
      BY <1>1, <1>3, <3>1 DEF Reaches, Start
  <2>8. NewWithin'
    <3>1. ASSUME NEW q \in first .. last, new[q] # {}
          PROVE  /\ q + front_offset < last
                 /\ q >= Start \/ \E g \in Fronts : Running(g)' /\ q >= Start - back_progress[g]
      <4>1. /\ q + front_offset < last
            /\ q >= Start \/ \E g \in Fronts : Running(g) /\ q >= Start - back_progress[g]
        BY <2>1, <3>1 DEF Sweeping, NewWithin
      <4>2. ASSUME NEW g \in Fronts, Running(g), q >= Start - back_progress[g], ~ (q >= Start)
            PROVE  Running(g)'
        <5>1. g # f
          <6>1. back_progress[f] = 0 /\ Start \in Int
            BY <1>5, <2>1, SceneFacts, Sizes DEF Start
          <6> QED
            BY <4>2, <6>1
        <5> QED
          BY <2>1, <4>2, <5>1 DEF Running
      <4> QED
        BY <4>1, <4>2
    <3> QED
      BY <1>1, <1>3, <3>1 DEF NewWithin, Start
  <2> QED
    BY <1>3, <2>4, <2>5, <2>7, <2>8 DEF Sweeping
<1> QED
  BY <1>7, <1>8

(* Every step of checkStates does its part ...                             *)
LEMMA CheckerData ==
  ASSUME Scene, SeenAll, NothingLost, SolutionsRight, \A u \in Threads : HandRight(u),
         NEW t, NEW f, Checker(t, f)
  PROVE  SeenAll' /\ NothingLost' /\ \A u \in Threads' : HandRight(u)'
<1>1. CASE Pop(t) \/ PopNew(t)
  <2>1. Calm \/ \E m : Takes(t, f, m)
    BY <1>1, PopTakes, PopNewTakes
  <2>2. CASE Calm
    BY <2>2, CalmData
  <2>3. ASSUME NEW m, Takes(t, f, m)
        PROVE  SeenAll' /\ NothingLost' /\ \A u \in Threads' : HandRight(u)'
    BY <2>3, TakesData
  <2> QED
    BY <2>1, <2>2, <2>3
<1>2. CASE Store(t)
  BY <1>2, StoreData
<1>3. CASE SolutionFound(t)
  BY <1>3, FoundData
<1>4. CASE Ask(t)
  <2>1. PICK m, o, i : Asks(t, f, m, o, i)
    BY <1>4, AskAsks
  <2> QED
    BY <2>1, AskData
<1> QED
  BY <1>1, <1>2, <1>3, <1>4 DEF Checker, CheckStates

(* ... and leaves the fronts in order.                                     *)
LEMMA CheckerContract ==
  ASSUME Scene, ContractInvariant, NEW t, Checker(t, FrontOf(t))
  PROVE  /\ SeenAll' /\ NothingLost' /\ \A u \in Threads' : HandRight(u)'
         /\ exit' \/ Sweeping'
<1>1. SeenAll' /\ NothingLost' /\ \A u \in Threads' : HandRight(u)'
  BY CheckerData DEF ContractInvariant
<1>2. exit => exit'
  BY DEF Checker, CheckStates, Pop, PopNew, Store, SolutionFound, Found, Ask, frontVars
<1>4. ASSUME ~ exit' PROVE Sweeping'
  BY <1>2, <1>4, CheckerSweeps DEF ContractInvariant
<1> QED
  BY <1>1, <1>4

(* ... and so does everything that is calm.                                *)
LEMMA CalmContract ==
  ASSUME Scene, ContractInvariant, Calm, exit \/ SameOrder
  PROVE  /\ SeenAll' /\ NothingLost' /\ \A u \in Threads' : HandRight(u)'
         /\ exit' \/ Sweeping'
<1>1. SeenAll' /\ NothingLost' /\ \A u \in Threads' : HandRight(u)'
  BY CalmData DEF ContractInvariant
<1>2. exit' = exit
  BY DEF Calm
<1>3. ASSUME ~ exit PROVE Sweeping'
  BY <1>3, CalmSweeps DEF ContractInvariant
<1> QED
  BY <1>1, <1>2, <1>3

(* Every step of a front ...                                               *)
LEMMA FrontContract ==
  ASSUME Scene, ContractInvariant, NEW f \in Fronts, FrontThread(f)
  PROVE  /\ SeenAll' /\ NothingLost' /\ \A u \in Threads' : HandRight(u)'
         /\ exit' \/ Sweeping'
<1>1. SeenAll /\ NothingLost /\ (exit \/ Sweeping) /\ \A u \in Threads : HandRight(u)
  BY DEF ContractInvariant
<1>2. CASE QuietStep(f)
  BY <1>2, QuietCalm, CalmContract
<1>3. CASE f = 0 /\ Setup
  <2>1. exit' = exit
    BY <1>3 DEF Setup, frontVars
  <2> QED
    BY <1>1, <1>3, <2>1, SetupContract
<1>4. CASE InitFront(f) /\ ~ exit
  BY <1>1, <1>4, InitContract
<1>5. CASE RoundDone(f)
  <2>1. exit' = exit
    BY <1>5 DEF RoundDone, EndWork
  <2> QED
    BY <1>1, <1>5, <2>1, DoneContract
<1>6. CASE AdvanceProgress(f)
  <2>1. exit' = exit
    BY <1>6 DEF AdvanceProgress, Advance
  <2> QED
    BY <1>1, <1>6, <2>1, PostContract, EndContract
<1>7. CASE DeinitFront(f)
  BY <1>1, <1>7, DeinitContract
<1>8. CASE CheckStates(f)
  <2>1. Checker(f, FrontOf(f))
    BY <1>8, SceneFacts DEF Checker
  <2> QED
    BY <2>1, CheckerContract
<1> QED
  BY <1>2, <1>3, <1>4, <1>5, <1>6, <1>7, <1>8 DEF FrontThread, QuietStep

(* ... and of a helper keeps the invariant behind the contract.            *)
LEMMA HelperContract ==
  ASSUME Scene, ContractInvariant, NEW h \in Helpers, HelperThread(h)
  PROVE  /\ SeenAll' /\ NothingLost' /\ \A u \in Threads' : HandRight(u)'
         /\ exit' \/ Sweeping'
<1>1. CASE HelperQuiet(h)
  BY <1>1, HelperCalm, CalmContract
<1>2. CASE CheckStates(h)
  <2>1. Checker(h, FrontOf(h))
    BY <1>2, SceneFacts DEF Checker
  <2> QED
    BY <2>1, CheckerContract
<1> QED
  BY <1>1, <1>2 DEF HelperThread, HelperQuiet

(* So does every step of the program ...                                   *)
LEMMA ContractStep ==
  ASSUME Scene, ContractInvariant, [Next]_vars
  PROVE  ContractInvariant'
<1>1. SolutionsRight'
  BY SolutionsStep DEF ContractInvariant
<1>2. SeenAll' /\ NothingLost' /\ (\A u \in Threads' : HandRight(u)') /\ (exit' \/ Sweeping')
  <2>1. CASE UNCHANGED vars \/ Join \/ Over
    BY <2>1, OverCalm, CalmContract
  <2>2. ASSUME NEW t \in Threads, Step(t)
        PROVE  /\ SeenAll' /\ NothingLost' /\ \A u \in Threads' : HandRight(u)'
               /\ exit' \/ Sweeping'
    <3>1. CASE t \in Fronts
      BY <2>2, <3>1, FrontContract DEF Step
    <3>2. CASE t \notin Fronts
      <4>1. t \in Helpers /\ HelperThread(t)
        BY <2>2, <3>2, SceneFacts DEF Step
      <4> QED
        BY <4>1, HelperContract
    <3> QED
      BY <3>1, <3>2
  <2> QED
    BY <2>1, <2>2 DEF Next
<1> QED
  BY <1>1, <1>2 DEF ContractInvariant

(* ... and the rest of the scene stays, too.                               *)
LEMMA SceneStep ==
  ASSUME Scene, [Next]_vars
  PROVE  Scene'
BY NextMoves, NextInvariant, HelpersStep, ProgressStep DEF Scene, FrontsInvariant

(* Nothing has been seen at the start.                                     *)
LEMMA ContractStarts ==
  ASSUME Init
  PROVE  Scene /\ ContractInvariant
<1>1. Scene
  BY InitInvariant, HelpersInit, ProgressInit DEF Init, Scene
<1>2. /\ ~ exit /\ seen = {} /\ solution = {} /\ answer = "searching"
      /\ pc[0] = "setup" /\ \A t \in Threads : pc[t] \in {"setup", "start"}
      /\ \A q \in first .. last : new[q] = {} /\ old[q] = {}
      /\ \A f \in Fronts : ring[f] = NewRing /\ phase[f] = "loop" /\ pc[f] \in {"setup", "start"}
  BY <1>1, SceneFacts DEF Init, FrontsInit
<1>3. \A f \in Fronts : ring[f].samevalue = {} /\ \A i \in Slots : ring[f].store[i] = {}
  BY <1>2, NewRingBlank DEF Blank
<1>4. \A t \in Threads : pc[t] \notin Hands
  BY <1>2 DEF Hands
<1>5. SeenAll
  BY <1>2, <1>3, <1>4 DEF SeenAll
<1>6. SolutionsRight /\ NothingLost
  BY <1>2 DEF SolutionsRight, NothingLost
<1>7. \A t \in Threads : HandRight(t)
  BY <1>2 DEF HandRight, Hands
<1>8. \A f \in Fronts : ~ Running(f)
  BY <1>2 DEF Running
<1>9. Sweeping
  <2>1. Reaches /\ NewWithin
    BY <1>2, <1>8 DEF Reaches, NewWithin
  <2>2. \A f \in Fronts : Passed(f) /\ AtEnd(f) /\ NothingBehind(f)
    BY <1>2, <1>8 DEF Passed, AtEnd, NothingBehind
  <2> QED
    BY <2>1, <2>2 DEF Sweeping
<1> QED
  BY <1>1, <1>5, <1>6, <1>7, <1>9 DEF ContractInvariant

(* Once all threads have returned none is at work.                         *)
LEMMA EndedQuiet ==
  ASSUME Scene, Ended
  PROVE  exit /\ \A t \in Threads : pc[t] \notin {"setup", "fire"}
<1>1. exit
  <2>1. 0 \in Fronts /\ phase[0] = "done"
    BY SceneFacts DEF Ended
  <2> QED
    BY <2>1, SceneFacts DEF InOrder, OneLeader
<1>2. ASSUME NEW t \in Threads PROVE pc[t] \notin {"setup", "fire"}
  <2>1. CASE t \in Fronts
    BY <2>1, SceneFacts DEF Ended, RingStays, Early, AtWork
  <2>2. CASE t \notin Fronts
    BY <2>2, SceneFacts DEF Ended
  <2> QED
    BY <2>1, <2>2
<1> QED
  BY <1>1, <1>2

(* Markings are seen when the search is set up, and by searchAndInsert.    *)
LEMMA SeenGrows ==
  ASSUME Scene, NEW t \in Threads, Step(t)
  PROVE  seen' = seen \/ Setup \/ (Ask(t) /\ Checker(t, FrontOf(t)))
<1>1. CASE t \in Fronts
  <2>1. FrontThread(t)
    BY <1>1 DEF Step
  <2>2. CASE QuietStep(t)
    BY <2>2 DEF QuietStep, Woken, Reset, Move, Round, Rouse, Draw, SignalAll, Gather,
                Terminate, Wake, InitFront, stores
  <2>3. CASE InitFront(t) \/ RoundDone(t) \/ AdvanceProgress(t) \/ DeinitFront(t)
    BY <2>3 DEF InitFront, RoundDone, AdvanceProgress, DeinitFront
  <2>4. CASE CheckStates(t)
    <3>1. Checker(t, FrontOf(t))
      BY <2>4, SceneFacts DEF Checker
    <3> QED
      BY <2>4, <3>1 DEF CheckStates, Pop, PopNew, Store, SolutionFound, stores
  <2> QED
    BY <2>1, <2>2, <2>3, <2>4 DEF FrontThread, QuietStep
<1>2. CASE t \notin Fronts
  <2>1. HelperThread(t)
    BY <1>2 DEF Step
  <2>2. CASE HelperQuiet(t)
    BY <2>2 DEF HelperQuiet, Look, Come, Help, Leave, Doze, Nap, Awake, stores
  <2>3. CASE CheckStates(t)
    <3>1. Checker(t, FrontOf(t))
      BY <2>3, SceneFacts DEF Checker
    <3> QED
      BY <2>3, <3>1 DEF CheckStates, Pop, PopNew, Store, SolutionFound, stores
  <2> QED
    BY <2>1, <2>2, <2>3 DEF HelperThread, HelperQuiet
<1> QED
  BY <1>1, <1>2

(* The last of a set of threads is one of them.                            *)
LEMMA LastThread ==
  ASSUME NEW n \in Int, NEW S, S \subseteq 0 .. n - 1, S # {}
  PROVE  Max(S) \in S
<1> DEFINE T == {n - x : x \in S}
<1>1. T \subseteq Nat /\ T # {}
  <2>1. PICK x \in S : TRUE
    OBVIOUS
  <2>2. n - x \in T
    BY <2>1
  <2>3. \A y \in S : n - y \in Nat
    OBVIOUS
  <2> QED
    BY <2>2, <2>3
<1> HIDE DEF T
<1>2. PICK x \in T : \A y \in T : ~ (<<y, x>> \in OpToRel(<, Nat))
  BY <1>1, NatLessThanWellFounded, WFMin
<1>3. ASSUME NEW y \in T, y < x PROVE FALSE
  <2>1. <<y, x>> \in OpToRel(<, Nat)
    BY <1>1, <1>3 DEF OpToRel
  <2> QED
    BY <1>2, <2>1
<1>4. PICK m \in S : x = n - m
  BY DEF T
<1>5. ASSUME NEW k \in S PROVE m >= k
  <2>1. n - k \in T
    BY DEF T
  <2>2. ~ (n - k < n - m)
    BY <1>3, <1>4, <2>1
  <2>3. k \in Int /\ m \in Int
    OBVIOUS
  <2> QED
    BY <2>2, <2>3
<1> QED
  BY <1>5 DEF Max

(* What is seen is the initial marking or one step further.                *)
LEMMA StepDiscovers ==
  ASSUME Scene, ContractInvariant, NEW t \in Threads, Step(t), seen' # seen
  PROVE  Search!Discover
<1>1. SeenAll /\ goal' = goal /\ answer' = answer /\ witness' = witness
  BY StepKeeps DEF ContractInvariant
<1>2. answer # "searching" => Ended
  BY DEF ContractInvariant, SolutionsRight
<1>3. CASE Setup
  <2>1. pc[0] = "setup" /\ seen = {} /\ seen' = {InitialMarking} /\ 0 \in Threads
    BY <1>1, <1>3, SceneFacts DEF Setup, SeenAll
  <2>2. answer = "searching"
    BY <1>2, <2>1, EndedQuiet
  <2> QED
    BY <1>1, <2>1, <2>2 DEF Search!Discover
<1>4. CASE Ask(t) /\ Checker(t, FrontOf(t))
  <2>1. PICK m, o, i : Asks(t, FrontOf(t), m, o, i)
    BY <1>1, <1>4, AskAsks
  <2>2. /\ pc[t] = "fire" /\ i \in 1 .. Len(getFirelist(ns[t])) /\ seen' = seen \union {m}
        /\ m = Fire(ns[t], getFirelist(ns[t])[i])
    BY <2>1 DEF Asks, Puts
  <2>3. ns[t] \in seen /\ ns[t] \in Markings
    BY <1>1, <2>2, SceneFacts DEF SeenAll, Hands
  <2>4. m \in Search!Successors(ns[t])
    <3>1. i \in DOMAIN getFirelist(ns[t])
      BY <2>2, <2>3, SweepFirelistAssumption
    <3>2. m = Search!Fire(ns[t], getFirelist(ns[t])[i])
      BY <2>2, SameFire
    <3> QED
      BY <3>1, <3>2 DEF Search!Successors
  <2>5. answer = "searching"
    BY <1>2, <2>2, EndedQuiet
  <2>6. m \in UNION {Search!Successors(s) : s \in seen}
    BY <2>3, <2>4
  <2> QED
    BY <1>1, <2>2, <2>5, <2>6 DEF Search!Discover
<1> QED
  BY <1>3, <1>4, SeenGrows

(* The answer is right.                                                    *)
LEMMA JoinAnswers ==
  ASSUME Scene, ContractInvariant, Join
  PROVE  Search!AnswerYes \/ Search!AnswerNo
<1>1. /\ Ended /\ answer = "searching" /\ goal' = goal /\ seen' = seen
      /\ answer' = IF solution = {} THEN "no" ELSE "yes"
      /\ witness' = IF solution = {} THEN witness ELSE ns[Max(solution)]
  BY DEF Join, arguments, stores
<1>2. SolutionsRight /\ NothingLost /\ SeenAll
  BY DEF ContractInvariant
<1>3. exit /\ pc[0] # "setup"
  BY <1>1, EndedQuiet, SceneFacts
<1>4. CASE solution = {}
  <2>1. \A m \in seen : Expanded(m)
    BY <1>2, <1>3, <1>4 DEF NothingLost
  <2>2. Search!Closed /\ seen \intersect goal = {}
    BY <2>1 DEF Expanded, Search!Closed
  <2>3. InitialMarking \in seen
    BY <1>2, <1>3 DEF SeenAll
  <2> QED
    BY <1>1, <1>4, <2>2, <2>3 DEF Search!AnswerNo
<1>5. CASE solution # {}
  <2>1. solution \subseteq 0 .. nr_of_threads - 1 /\ nr_of_threads \in Int
    BY <1>2, SceneFacts DEF SolutionsRight, Threads, HelperTypes
  <2>2. Max(solution) \in solution
    BY <1>5, <2>1, LastThread
  <2>3. witness' \in goal /\ witness' \in seen
    BY <1>1, <1>2, <1>5, <2>2 DEF SolutionsRight
  <2> QED
    BY <1>1, <1>5, <2>3 DEF Search!AnswerYes
<1> QED
  BY <1>4, <1>5

(* Every step of the program is one of the contract or none.               *)
LEMMA RefinementStep ==
  ASSUME Scene, ContractInvariant, [Next]_vars
  PROVE  [Search!Next]_(Search!searchVars)
<1>1. CASE UNCHANGED vars \/ Over
  BY <1>1 DEF Over, vars, arguments, stores, caller, Search!searchVars
<1>2. CASE Join
  BY <1>2, JoinAnswers DEF Search!Next
<1>3. ASSUME NEW t \in Threads, Step(t)
      PROVE  [Search!Next]_(Search!searchVars)
  <2>1. goal' = goal /\ answer' = answer /\ witness' = witness
    BY <1>3, StepKeeps
  <2>2. CASE seen' = seen
    BY <2>1, <2>2 DEF Search!searchVars
  <2>3. CASE seen' # seen
    BY <1>3, <2>3, StepDiscovers DEF Search!Next
  <2> QED
    BY <2>2, <2>3
<1> QED
  BY <1>1, <1>2, <1>3 DEF Next


(* The start.                                                              *)
LEMMA SearchStarts == Init => Search!Init
BY MeasureAssumption DEF Init, Search!Init

(* The search line keeps the contract of a search, as far as safety goes.  *)
THEOREM ContractKept == Spec => KeepsContract
<1> DEFINE Inv == Scene /\ ContractInvariant
<1>1. Inv /\ [Next]_vars => Inv'
  BY SceneStep, ContractStep
<1>2. Init => Inv
  BY ContractStarts
<1>3. Inv /\ [Next]_vars => [Search!Next]_(Search!searchVars)
  BY RefinementStep
<1> QED
  BY <1>1, <1>2, <1>3, SearchStarts, PTL DEF Spec, KeepsContract
=============================================================================
