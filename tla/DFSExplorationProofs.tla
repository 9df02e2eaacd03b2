------------------------ MODULE DFSExplorationProofs ------------------------
(***************************************************************************)
(* Proofs about the sequential search, for every net, every firelist       *)
(* policy that proposes enabled transitions only and every property.       *)
(***************************************************************************)
EXTENDS DFSExploration, SearchPathProofs

(***************************************************************************)
(* What the invariant says where the search acts.                          *)
(***************************************************************************)

(* The firelist policy proposes enabled transitions.                       *)
LEMMA FirelistFits ==
  ASSUME NEW m \in Markings
  PROVE  /\ getFirelist(m) \in Seq(EnabledAt(m))
         /\ getFirelist(m) \in Seq(Transition)
         /\ Len(getFirelist(m)) \in Nat
<1>1. getFirelist(m) \in Seq(EnabledAt(m))
  BY FirelistAssumption DEF EnabledAt
<1>2. EnabledAt(m) \subseteq Transition
  BY DEF EnabledAt
<1> QED
  BY <1>1, <1>2

(* The transition under the cursor is enabled.                             *)
LEMMA AtFire ==
  ASSUME SearchInvariant, pc = "search", currentEntry > 0
  PROVE  /\ Candidate \in EnabledAt(ns) /\ Candidate \in Transition
         /\ currentEntry \in 1 .. Len(currentFirelist)
         /\ NextMarking \in Markings
         /\ Backfire(NextMarking, Candidate) = ns
<1>1. /\ ns \in Markings /\ currentEntry \in 0 .. Len(currentFirelist)
      /\ currentFirelist = getFirelist(ns)
  BY DEF SearchInvariant, StackIsPath, TypeOK
<1>2. currentFirelist \in Seq(EnabledAt(ns)) /\ Len(currentFirelist) \in Nat
  BY <1>1, FirelistFits
<1>3. currentEntry \in 1 .. Len(currentFirelist)
  BY <1>1, <1>2
<1> QED
  BY <1>1, <1>2, <1>3, ListedIsEnabled, FireStays, BackfireUndoesFire
     DEF Candidate, NextMarking

(* The entry that fire pushes, and where the stack leads with it.          *)
EntryOf == [fl |-> currentFirelist, current |-> currentEntry - 1]

LEMMA AtPush ==
  ASSUME SearchInvariant, pc = "search", currentEntry > 0,
         NEW r, r = Append(stack, EntryOf)
  PROVE  /\ stack \in Seq(StackEntry) /\ EntryOf \in StackEntry
         /\ EntryOf.fl = currentFirelist /\ EntryOf.current = currentEntry - 1
         /\ r \in Seq(StackEntry) /\ Len(r) = Len(stack) + 1 /\ Len(stack) \in Nat
         /\ r[Len(r)] = EntryOf /\ \A k \in 1 .. Len(stack) : r[k] = stack[k]
         /\ \A k \in 0 .. Len(stack) : Replay(r)[k] = Replay(stack)[k]
         /\ Replay(r)[Len(r)] = NextMarking /\ EndOf(r) = NextMarking
<1>1. stack \in Seq(StackEntry) /\ EndOf(stack) = ns
  BY DEF SearchInvariant, StackIsPath, TypeOK
<1>2. /\ currentFirelist \in Seq(Transition) /\ currentEntry - 1 \in Nat
      /\ (currentEntry - 1) + 1 = currentEntry
  <2>1. currentFirelist \in Seq(Transition) /\ currentEntry \in 0 .. Len(currentFirelist)
    BY DEF SearchInvariant, StackIsPath, TypeOK
  <2> QED
    BY <2>1
<1>3. EntryOf \in StackEntry
  BY <1>2 DEF EntryOf, StackEntry
<1>4. Fired(EntryOf) = Candidate
  BY <1>2 DEF Fired, EntryOf, Candidate
<1>5. /\ r \in Seq(StackEntry) /\ Len(r) = Len(stack) + 1 /\ Len(stack) \in Nat
      /\ r[Len(stack) + 1] = EntryOf /\ \A k \in 1 .. Len(stack) : r[k] = stack[k]
      /\ \A k \in 0 .. Len(stack) : Replay(r)[k] = Replay(stack)[k]
      /\ EndOf(r) = Fire(EndOf(stack), Fired(EntryOf))
  BY <1>1, <1>3, PushReplay
<1>6. EndOf(r) = NextMarking
  BY <1>1, <1>4, <1>5 DEF NextMarking
<1> QED
  BY <1>1, <1>3, <1>5, <1>6 DEF EntryOf, EndOf

(* Stepping back arrives at the marking before the current one.            *)
LEMMA AtStepBack ==
  ASSUME SearchInvariant, pc = "search", stack # <<>>
  PROVE  /\ Pop \in Seq(StackEntry) /\ Top \in StackEntry /\ stack = Append(Pop, Top)
         /\ Len(stack) = Len(Pop) + 1 /\ Len(Pop) \in Nat
         /\ stack[Len(stack)] = Top /\ \A k \in 1 .. Len(Pop) : stack[k] = Pop[k]
         /\ \A k \in 0 .. Len(Pop) : Replay(Pop)[k] = Replay(stack)[k]
         /\ EndOf(Pop) = Backfire(ns, Fired(Top))
         /\ EndOf(Pop) \in store /\ EndOf(Pop) \in Markings
         /\ Top.fl = getFirelist(EndOf(Pop)) /\ Top.current \in 0 .. Len(Top.fl)
<1>1. stack \in Seq(StackEntry) /\ EndOf(stack) = ns /\ store \subseteq Markings
  BY DEF SearchInvariant, StackIsPath, TypeOK
<1>2. Pop \in Seq(StackEntry) /\ Top \in StackEntry /\ stack = Append(Pop, Top)
  BY <1>1 DEF Pop, Top
<1>3. /\ Len(Pop) \in Nat /\ Len(stack) = Len(Pop) + 1 /\ stack[Len(Pop) + 1] = Top
      /\ \A k \in 1 .. Len(Pop) : stack[k] = Pop[k]
      /\ \A k \in 0 .. Len(Pop) : Replay(stack)[k] = Replay(Pop)[k]
      /\ EndOf(stack) = Fire(EndOf(Pop), Fired(Top))
  BY <1>2, PushReplay
<1>4. EndOf(Pop) = Replay(stack)[Len(stack) - 1] /\ Len(stack) - 1 \in 0 .. Len(stack)
  BY <1>3 DEF EndOf
<1>5. EndOf(Pop) \in store /\ EndOf(Pop) \in Markings
  BY <1>1, <1>4 DEF SearchInvariant, StackIsPath, OnPath
<1>6. Len(stack) \in 1 .. Len(stack)
  BY <1>3
<1>7. Top.fl = getFirelist(EndOf(Pop)) /\ Top.current < Len(Top.fl)
  BY <1>3, <1>4, <1>6 DEF SearchInvariant
<1>8. Top.current \in Nat /\ Top.fl \in Seq(EnabledAt(EndOf(Pop))) /\ Len(Top.fl) \in Nat
  BY <1>2, <1>5, <1>7, FirelistFits DEF StackEntry
<1>9. Fired(Top) \in Transition
  BY <1>7, <1>8, ListedIsEnabled DEF Fired
<1>10. EndOf(Pop) = Backfire(ns, Fired(Top))
  BY <1>1, <1>3, <1>5, <1>9, BackfireUndoesFire
<1> QED
  BY <1>2, <1>3, <1>5, <1>7, <1>8, <1>10

(***************************************************************************)
(* Every action preserves the invariant.                                   *)
(***************************************************************************)

LEMMA StartStep ==
  ASSUME SearchInvariant, StartSatisfied \/ StartSearch
  PROVE  SearchInvariant'
<1>t. /\ TypeOK /\ InitialMarking \in Markings
      /\ getFirelist(InitialMarking) \in Seq(Transition)
      /\ Len(getFirelist(InitialMarking)) \in Nat
  BY FirelistFits, MarkingsAssumption DEF SearchInvariant, StackIsPath
<1>1. /\ ns = InitialMarking /\ stack = <<>> /\ store = {} /\ ~ value
      /\ ns' = ns /\ stack' = stack /\ property' = property
  BY DEF StartSatisfied, StartSearch, SearchInvariant
<1>2. Len(stack) = 0 /\ Len(stack') = 0
  BY <1>1
<1>3. /\ Replay(stack)[0] = InitialMarking /\ Replay(stack')[0] = InitialMarking
      /\ EndOf(stack') = InitialMarking
  BY <1>1, <1>2, ReplaySteps DEF EndOf
<1>4. OnPath' = {InitialMarking}
  BY <1>2, <1>3 DEF OnPath
<1>5. CASE StartSatisfied
  <2>1. /\ value' = TRUE /\ pc' = "returned" /\ store' = store
        /\ Satisfies(property, ns')
        /\ UNCHANGED <<currentFirelist, currentEntry>>
    BY <1>1, <1>5 DEF StartSatisfied
  <2>2. TypeOK'
    BY <1>t, <1>1, <2>1 DEF TypeOK
  <2>3. StackIsPath'
    BY <1>1, <1>2, <1>3, <2>1, <2>2 DEF StackIsPath
  <2>4. ClosedBehind'
    BY <2>1 DEF ClosedBehind
  <2> QED
    BY <1>1, <1>2, <2>1, <2>3, <2>4 DEF SearchInvariant
<1>6. CASE StartSearch
  <2>1. /\ value' = value /\ pc' = "search" /\ store' = {InitialMarking}
        /\ ~ Satisfies(property, InitialMarking)
        /\ currentFirelist' = getFirelist(ns)
        /\ currentEntry' = Len(getFirelist(ns))
    BY <1>1, <1>6 DEF StartSearch, GrabFirelist
  <2>2. TypeOK'
    BY <1>t, <1>1, <2>1 DEF TypeOK
  <2>3. StackIsPath'
    BY <1>1, <1>2, <1>3, <1>4, <2>1, <2>2 DEF StackIsPath
  <2>4. ClosedBehind'
    BY <1>t, <1>1, <1>2, <1>4, <2>1 DEF ClosedBehind
  <2> QED
    BY <1>1, <1>2, <2>1, <2>3, <2>4 DEF SearchInvariant
<1> QED
  BY <1>5, <1>6

LEMMA KnownStep ==
  ASSUME SearchInvariant, FireKnown
  PROVE  SearchInvariant'
<1>1. /\ pc = "search" /\ currentEntry > 0 /\ NextMarking \in store
      /\ currentEntry' = currentEntry - 1
      /\ UNCHANGED <<property, pc, currentFirelist, stack, store, value>>
  BY DEF FireKnown
<1>2. /\ ns' = ns /\ currentEntry \in 1 .. Len(currentFirelist)
      /\ currentEntry - 1 \in 0 .. Len(currentFirelist)
  <2>1. currentEntry \in 1 .. Len(currentFirelist) /\ ns' = ns
    BY <1>1, AtFire DEF FireKnown
  <2>2. Len(currentFirelist) \in Nat
    BY DEF SearchInvariant, StackIsPath, TypeOK
  <2> QED
    BY <2>1, <2>2
<1>3. OnPath' = OnPath
  BY <1>1 DEF OnPath
<1>4. StackIsPath'
  BY <1>1, <1>2, <1>3 DEF SearchInvariant, StackIsPath, TypeOK
<1>5. \A i \in currentEntry' + 1 .. Len(currentFirelist) :
        Fire(ns, currentFirelist[i]) \in store
  <2>1. Fire(ns, currentFirelist[currentEntry]) \in store
    BY <1>1 DEF NextMarking, Candidate
  <2>2. \A i \in currentEntry + 1 .. Len(currentFirelist) :
          Fire(ns, currentFirelist[i]) \in store
    BY <1>1 DEF SearchInvariant, ClosedBehind
  <2> QED
    BY <1>1, <1>2, <2>1, <2>2
<1>6. ClosedBehind'
  BY <1>1, <1>2, <1>3, <1>5 DEF SearchInvariant, ClosedBehind
<1> QED
  BY <1>1, <1>2, <1>4, <1>6 DEF SearchInvariant

LEMMA NewStep ==
  ASSUME SearchInvariant, FireNew
  PROVE  SearchInvariant'
<1>1. /\ pc = "search" /\ currentEntry > 0 /\ NextMarking \notin store
      /\ ns' = NextMarking /\ store' = store \union {NextMarking}
      /\ value' = Satisfies(property, NextMarking)
      /\ stack' = Append(stack, EntryOf) /\ property' = property
  BY DEF FireNew, EntryOf
<1>2. /\ currentFirelist = getFirelist(ns) /\ EndOf(stack) = ns /\ ~ value
      /\ currentEntry \in 1 .. Len(currentFirelist) /\ NextMarking \in Markings
      /\ Len(currentFirelist) \in Nat
      /\ currentFirelist \in Seq(Transition) /\ store \subseteq Markings
      /\ property \in Property /\ value \in BOOLEAN
  BY <1>1, AtFire DEF SearchInvariant, StackIsPath, TypeOK
<1>3. /\ stack' \in Seq(StackEntry) /\ Len(stack') = Len(stack) + 1 /\ Len(stack) \in Nat
      /\ stack'[Len(stack')] = EntryOf /\ \A k \in 1 .. Len(stack) : stack'[k] = stack[k]
      /\ \A k \in 0 .. Len(stack) : Replay(stack')[k] = Replay(stack)[k]
      /\ Replay(stack')[Len(stack')] = NextMarking /\ EndOf(stack') = NextMarking
      /\ EntryOf.fl = currentFirelist /\ EntryOf.current = currentEntry - 1
  BY <1>1, AtPush
<1>4. OnPath' = OnPath \union {NextMarking} /\ OnPath \subseteq store
  <2>1. 0 .. Len(stack') = (0 .. Len(stack)) \union {Len(stack')}
    BY <1>3
  <2>2. OnPath' = {Replay(stack')[k] : k \in 0 .. Len(stack')}
    BY DEF OnPath
  <2>3. OnPath \subseteq store
    BY <1>1 DEF SearchInvariant, StackIsPath
  <2> QED
    BY <1>3, <2>1, <2>2, <2>3 DEF OnPath
<1>5. \A i, j \in 0 .. Len(stack') : Replay(stack')[i] = Replay(stack')[j] => i = j
  <2>1. \A i \in 0 .. Len(stack) : Replay(stack')[i] # Replay(stack')[Len(stack')]
    <3>1. \A i \in 0 .. Len(stack) : Replay(stack)[i] \in store
      BY <1>4 DEF OnPath
    <3> QED
      BY <1>1, <1>3, <3>1
  <2>2. \A i, j \in 0 .. Len(stack) : Replay(stack)[i] = Replay(stack)[j] => i = j
    BY DEF SearchInvariant, StackIsPath
  <2>3. \A i \in 0 .. Len(stack') : i \in 0 .. Len(stack) \/ i = Len(stack')
    BY <1>3
  <2> QED
    BY <1>3, <2>1, <2>2, <2>3
<1>6. \/ pc' = "returned" /\ value' /\ UNCHANGED currentFirelist
         /\ currentEntry' = currentEntry - 1
      \/ pc' = "search" /\ ~ value' /\ currentFirelist' = getFirelist(NextMarking)
         /\ currentEntry' = Len(getFirelist(NextMarking))
  BY <1>1 DEF FireNew, GrabFirelist
<1>7. TypeOK'
  <2>1. value' \in BOOLEAN
    BY <1>1, <1>2, SatisfiesAssumption
  <2>2. currentFirelist' \in Seq(Transition) /\ currentEntry' \in 0 .. Len(currentFirelist')
    BY <1>2, <1>6, FirelistFits
  <2> QED
    BY <1>1, <1>2, <1>3, <1>6, <2>1, <2>2 DEF TypeOK
<1>8. StackIsPath'
  BY <1>1, <1>3, <1>4, <1>5, <1>7 DEF StackIsPath
<1>9. \A k \in 1 .. Len(stack') : \/ k \in 1 .. Len(stack)
                                  \/ k = Len(stack') /\ stack'[k] = EntryOf
                                     /\ Replay(stack')[k-1] = ns
  BY <1>2, <1>3 DEF EndOf
<1>10. ClosedBehind'
  <2> SUFFICES ASSUME pc' = "search" \/ (pc' = "returned" /\ ~ value')
               PROVE  /\ \A m \in store' \ OnPath' : \A i \in 1 .. Len(getFirelist(m)) :
                           Fire(m, getFirelist(m)[i]) \in store'
                      /\ \A k \in 1 .. Len(stack') :
                           \A i \in stack'[k].current + 1 .. Len(stack'[k].fl) :
                             Fire(Replay(stack')[k-1], stack'[k].fl[i]) \in store'
                      /\ \A i \in currentEntry' + 1 .. Len(currentFirelist') :
                           Fire(ns', currentFirelist'[i]) \in store'
    BY DEF ClosedBehind
  <2>1. \A m \in store' \ OnPath' : \A i \in 1 .. Len(getFirelist(m)) :
          Fire(m, getFirelist(m)[i]) \in store'
    BY <1>1, <1>4 DEF SearchInvariant, ClosedBehind
  <2>2. ASSUME NEW k \in 1 .. Len(stack'),
               NEW i \in stack'[k].current + 1 .. Len(stack'[k].fl)
        PROVE  Fire(Replay(stack')[k-1], stack'[k].fl[i]) \in store'
    <3>1. CASE k \in 1 .. Len(stack)
      <4>1. stack'[k] = stack[k] /\ Replay(stack')[k-1] = Replay(stack)[k-1]
        BY <1>3, <3>1
      <4> QED
        BY <1>1, <2>2, <3>1, <4>1 DEF SearchInvariant, ClosedBehind
    <3>2. CASE stack'[k] = EntryOf /\ Replay(stack')[k-1] = ns
      <4>1. i \in currentEntry .. Len(currentFirelist)
        BY <1>2, <1>3, <2>2, <3>2
      <4>2. CASE i = currentEntry
        BY <1>1, <1>3, <3>2, <4>2 DEF NextMarking, Candidate
      <4>3. CASE i \in currentEntry + 1 .. Len(currentFirelist)
        BY <1>1, <1>3, <3>2, <4>3 DEF SearchInvariant, ClosedBehind
      <4> QED
        BY <1>2, <4>1, <4>2, <4>3
    <3> QED
      BY <1>9, <3>1, <3>2
  <2>3. \A i \in currentEntry' + 1 .. Len(currentFirelist') :
          Fire(ns', currentFirelist'[i]) \in store'
    <3>1. currentEntry' = Len(currentFirelist') /\ Len(currentFirelist') \in Nat
      BY <1>2, <1>6, FirelistFits
    <3> QED
      BY <3>1
  <2> QED
    BY <2>1, <2>2, <2>3
<1>11. \A k \in 1 .. Len(stack') :
         /\ stack'[k].fl = getFirelist(Replay(stack')[k-1])
         /\ stack'[k].current < Len(stack'[k].fl)
  <2> SUFFICES ASSUME NEW k \in 1 .. Len(stack')
               PROVE  /\ stack'[k].fl = getFirelist(Replay(stack')[k-1])
                      /\ stack'[k].current < Len(stack'[k].fl)
    OBVIOUS
  <2>1. CASE k \in 1 .. Len(stack)
    <3>1. stack'[k] = stack[k] /\ Replay(stack')[k-1] = Replay(stack)[k-1]
      BY <1>3, <2>1
    <3> QED
      BY <2>1, <3>1 DEF SearchInvariant
  <2>2. CASE stack'[k] = EntryOf /\ Replay(stack')[k-1] = ns
    BY <1>2, <1>3, <2>2
  <2> QED
    BY <1>9, <2>1, <2>2
<1>12. ~ value' => \A m \in store' : ~ Satisfies(property', m)
  BY <1>1, <1>2 DEF SearchInvariant
<1> QED
  BY <1>1, <1>6, <1>8, <1>10, <1>11, <1>12 DEF SearchInvariant

LEMMA BackStep ==
  ASSUME SearchInvariant, Backtrack
  PROVE  SearchInvariant'
<1>1. /\ pc = "search" /\ currentEntry = 0 /\ stack # <<>>
      /\ ns' = Backfire(ns, Fired(Top)) /\ value' = Satisfies(property, ns')
      /\ currentFirelist' = Top.fl /\ currentEntry' = Top.current /\ stack' = Pop
      /\ UNCHANGED <<property, pc, store>>
  BY DEF Backtrack
<1>2. /\ Pop \in Seq(StackEntry) /\ Top \in StackEntry
      /\ Len(stack) = Len(Pop) + 1 /\ Len(Pop) \in Nat
      /\ stack[Len(stack)] = Top /\ \A k \in 1 .. Len(Pop) : stack[k] = Pop[k]
      /\ \A k \in 0 .. Len(Pop) : Replay(Pop)[k] = Replay(stack)[k]
      /\ EndOf(Pop) = ns' /\ ns' \in store /\ ns' \in Markings
      /\ Top.fl = getFirelist(ns') /\ Top.current \in 0 .. Len(Top.fl)
  BY <1>1, AtStepBack
<1>3. ~ value /\ ~ value' /\ value' \in BOOLEAN
  <2>1. ~ value /\ property \in Property /\ \A m \in store : ~ Satisfies(property, m)
    BY <1>1 DEF SearchInvariant, StackIsPath, TypeOK
  <2>2. ~ Satisfies(property, ns')
    BY <1>2, <2>1
  <2>3. Satisfies(property, ns') \in BOOLEAN
    BY <1>2, <2>1, SatisfiesAssumption
  <2> QED
    BY <1>1, <2>1, <2>2, <2>3
<1>4. OnPath = OnPath' \union {ns} /\ OnPath \subseteq store
  <2>1. Replay(stack)[Len(stack)] = ns
    BY DEF SearchInvariant, StackIsPath, EndOf
  <2>2. 0 .. Len(stack) = (0 .. Len(Pop)) \union {Len(stack)}
    BY <1>2
  <2>3. OnPath' = {Replay(Pop)[k] : k \in 0 .. Len(Pop)}
    BY <1>1 DEF OnPath
  <2>4. OnPath \subseteq store
    BY <1>1 DEF SearchInvariant, StackIsPath
  <2>5. OnPath' = {Replay(stack)[k] : k \in 0 .. Len(Pop)}
    BY <1>2, <2>3
  <2>6. OnPath = {Replay(stack)[k] : k \in 0 .. Len(stack)}
    BY DEF OnPath
  <2>7. OnPath = OnPath' \union {ns}
    BY <2>1, <2>2, <2>5, <2>6
  <2> QED
    BY <2>4, <2>7
<1>5. TypeOK'
  <2>1. Top.fl \in Seq(Transition)
    BY <1>2 DEF StackEntry
  <2> QED
    BY <1>1, <1>2, <1>3, <2>1 DEF SearchInvariant, StackIsPath, TypeOK
<1>6. \A i, j \in 0 .. Len(Pop) : Replay(Pop)[i] = Replay(Pop)[j] => i = j
  <2>1. \A i \in 0 .. Len(Pop) : i \in 0 .. Len(stack)
    BY <1>2
  <2> QED
    BY <1>2, <2>1 DEF SearchInvariant, StackIsPath
<1>7. StackIsPath'
  BY <1>1, <1>2, <1>3, <1>4, <1>5, <1>6 DEF StackIsPath
<1>8. /\ currentFirelist = getFirelist(ns) /\ Len(currentFirelist) \in Nat
      /\ \A i \in 1 .. Len(currentFirelist) : Fire(ns, currentFirelist[i]) \in store
  BY <1>1 DEF SearchInvariant, StackIsPath, TypeOK, ClosedBehind
<1>9. \A m \in store' \ OnPath' : \A i \in 1 .. Len(getFirelist(m)) :
        Fire(m, getFirelist(m)[i]) \in store'
  <2>1. \A m \in store \ OnPath : \A i \in 1 .. Len(getFirelist(m)) :
          Fire(m, getFirelist(m)[i]) \in store
    BY <1>1 DEF SearchInvariant, ClosedBehind
  <2> QED
    BY <1>1, <1>4, <1>8, <2>1
<1>10. \A k \in 1 .. Len(stack) : \A i \in stack[k].current + 1 .. Len(stack[k].fl) :
         Fire(Replay(stack)[k-1], stack[k].fl[i]) \in store
  BY <1>1 DEF SearchInvariant, ClosedBehind
<1>11. ASSUME NEW k \in 1 .. Len(Pop)
       PROVE  /\ k \in 1 .. Len(stack) /\ stack[k] = Pop[k]
              /\ Replay(Pop)[k-1] = Replay(stack)[k-1]
  BY <1>2
<1>12. \A i \in Top.current + 1 .. Len(Top.fl) : Fire(ns', Top.fl[i]) \in store
  <2>1. Len(stack) \in 1 .. Len(stack) /\ Replay(stack)[Len(stack) - 1] = ns'
    BY <1>2 DEF EndOf
  <2> QED
    BY <1>2, <1>10, <2>1
<1>13. ClosedBehind'
  BY <1>1, <1>9, <1>10, <1>11, <1>12 DEF ClosedBehind
<1>14. \A k \in 1 .. Len(Pop) :
         /\ Pop[k].fl = getFirelist(Replay(Pop)[k-1])
         /\ Pop[k].current < Len(Pop[k].fl)
  BY <1>11 DEF SearchInvariant
<1> QED
  BY <1>1, <1>2, <1>3, <1>7, <1>13, <1>14 DEF SearchInvariant

LEMMA EndStep ==
  ASSUME SearchInvariant, Exhausted \/ UNCHANGED vars
  PROVE  SearchInvariant'
<1>1. /\ UNCHANGED <<property, ns, currentFirelist, currentEntry, stack, store, value>>
      /\ pc' = pc \/ (pc = "search" /\ pc' = "returned")
  BY DEF Exhausted, vars
<1>2. OnPath' = OnPath
  BY <1>1 DEF OnPath
<1>3. StackIsPath'
  BY <1>1, <1>2 DEF SearchInvariant, StackIsPath, TypeOK
<1>4. ClosedBehind'
  BY <1>1, <1>2 DEF SearchInvariant, ClosedBehind
<1> QED
  BY <1>1, <1>3, <1>4 DEF SearchInvariant

(***************************************************************************)
(* The theorems.                                                           *)
(***************************************************************************)

LEMMA InvariantInit == Init => SearchInvariant
<1> SUFFICES ASSUME Init PROVE SearchInvariant
  OBVIOUS
<1>1. TypeOK /\ Len(stack) = 0
  <2>1. /\ stack = <<>> /\ Len(stack) = 0 /\ stack \in Seq(StackEntry)
        /\ currentFirelist \in Seq(Transition)
    BY DEF Init
  <2>2. currentEntry = 0 /\ Len(currentFirelist) = 0
    BY DEF Init
  <2>3. currentEntry \in 0 .. Len(currentFirelist)
    BY <2>2
  <2> QED
    BY <2>1, <2>3, MarkingsAssumption DEF Init, TypeOK
<1>2. EndOf(stack) = InitialMarking
  BY <1>1, ReplaySteps DEF EndOf
<1>3. StackIsPath
  BY <1>1, <1>2 DEF Init, StackIsPath
<1>4. ClosedBehind
  BY DEF Init, ClosedBehind
<1> QED
  BY <1>1, <1>3, <1>4 DEF Init, SearchInvariant

(* The inductive invariant holds in every reachable state: the stack is a  *)
(* path with the firelists of its markings, what is behind it is complete, *)
(* and nothing stored satisfies the property before the search says so.    *)
THEOREM SearchInvariantHolds == Spec => []SearchInvariant
<1>1. SearchInvariant /\ [Next]_vars => SearchInvariant'
  BY StartStep, KnownStep, NewStep, BackStep, EndStep DEF Next, Returned
<1> QED
  BY <1>1, InvariantInit, PTL DEF Spec

(* The stack is a path without repetition from the initial marking to the  *)
(* current one, and its end satisfies the property when the answer is yes. *)
THEOREM PathCorrect == Spec => []StackIsPath
<1>1. SearchInvariant => StackIsPath
  BY DEF SearchInvariant
<1> QED
  BY <1>1, SearchInvariantHolds, PTL

(* Depth first: every marking that has left the stack is completed.        *)
THEOREM BehindCorrect == Spec => []ClosedBehind
<1>1. SearchInvariant => ClosedBehind
  BY DEF SearchInvariant
<1> QED
  BY <1>1, SearchInvariantHolds, PTL

(***************************************************************************)
(* The sequential search implements the contract of depth_first.           *)
(***************************************************************************)

LEMMA ContractInit == Init => Search!Init
BY DEF Init, Search!Init

LEMMA SuccessorsHere ==
  ASSUME NEW m \in Markings
  PROVE  Search!Successors(m) =
           {Fire(m, getFirelist(m)[i]) : i \in 1 .. Len(getFirelist(m))}
<1>1. DOMAIN getFirelist(m) = 1 .. Len(getFirelist(m))
  BY FirelistFits
<1> QED
  BY <1>1 DEF Search!Successors, Search!Fire, Fire, Search!Delta, Delta

LEMMA ContractStep ==
  ASSUME SearchInvariant, SearchInvariant', [Next]_vars
  PROVE  [Search!Next]_(Search!searchVars)
<1>t. TypeOK /\ TypeOK' /\ InitialMarking \in Markings
  BY MarkingsAssumption DEF SearchInvariant, StackIsPath
<1>1. CASE UNCHANGED vars
  BY <1>1 DEF vars, Search!searchVars
<1>2. CASE StartSatisfied
  <2>1. ns = InitialMarking /\ store = {}
    BY <1>2 DEF StartSatisfied, SearchInvariant
  <2>2. Search!AnswerYes
    BY <1>t, <1>2, <2>1 DEF StartSatisfied, Search!AnswerYes
  <2> QED
    BY <2>2 DEF Search!Next
<1>3. CASE StartSearch
  <2>1. ns = InitialMarking /\ store = {} /\ ~ value
    BY <1>3 DEF StartSearch, SearchInvariant
  <2>2. Search!Discover
    BY <1>t, <1>3, <2>1 DEF StartSearch, Search!Discover
  <2> QED
    BY <2>2 DEF Search!Next
<1>4. CASE FireKnown
  BY <1>4 DEF FireKnown, Search!searchVars
<1>5. CASE FireNew
  <2>1. /\ pc = "search" /\ currentEntry > 0 /\ NextMarking \notin store
        /\ store' = store \union {NextMarking} /\ ns' = NextMarking
        /\ value' = Satisfies(property, NextMarking) /\ property' = property
        /\ \/ value' /\ pc' = "returned"
           \/ ~ value' /\ pc' = "search"
    BY <1>5 DEF FireNew
  <2>2. ns \in store
    <3>1. Len(stack) \in Nat /\ Replay(stack)[Len(stack)] = ns
      BY <1>t DEF SearchInvariant, StackIsPath, EndOf, TypeOK
    <3> QED
      BY <2>1, <3>1 DEF SearchInvariant, StackIsPath, OnPath
  <2>3. NextMarking \in Search!Successors(ns)
    <3>1. ns \in Markings /\ currentFirelist = getFirelist(ns)
          /\ currentEntry \in 1 .. Len(currentFirelist)
      BY <1>t, <2>1, AtFire DEF TypeOK, SearchInvariant
    <3> QED
      BY <3>1, SuccessorsHere DEF NextMarking, Candidate
  <2>4. NextMarking \in {InitialMarking} \union UNION {Search!Successors(s) : s \in store}
    BY <2>2, <2>3
  <2>5. NextMarking \in Markings
    BY <2>1, AtFire
  <2>6. CASE value'
    <3>1. Search!AnswerYes
      <4>1. NextMarking \in {m \in Markings : Satisfies(property, m)}
        BY <2>1, <2>5, <2>6
      <4> QED
        BY <2>1, <2>4, <2>6, <4>1 DEF Search!AnswerYes
    <3> QED
      BY <3>1 DEF Search!Next
  <2>7. CASE ~ value'
    <3>1. Search!Discover
      BY <2>1, <2>4, <2>7 DEF Search!Discover
    <3> QED
      BY <3>1 DEF Search!Next
  <2> QED
    BY <2>6, <2>7
<1>6. CASE Backtrack
  BY <1>6 DEF Backtrack, Search!searchVars
<1>7. CASE Exhausted
  <2>1. /\ pc = "search" /\ currentEntry = 0 /\ stack = <<>> /\ pc' = "returned"
        /\ UNCHANGED <<property, ns, store, value>> /\ ~ value
    BY <1>7 DEF Exhausted, SearchInvariant
  <2>2. OnPath = {ns} /\ ns = InitialMarking
    <3>1. Len(stack) = 0
      BY <2>1
    <3>2. Replay(stack)[0] = InitialMarking
      BY <3>1, ReplaySteps
    <3> QED
      BY <3>1, <3>2 DEF OnPath, SearchInvariant, StackIsPath, EndOf
  <2>3. InitialMarking \in store
    BY <2>1, <2>2 DEF SearchInvariant, StackIsPath
  <2>4. \A m \in store : \A i \in 1 .. Len(getFirelist(m)) :
          Fire(m, getFirelist(m)[i]) \in store
    BY <2>1, <2>2 DEF SearchInvariant, ClosedBehind
  <2>5. Search!Closed
    <3>1. store \subseteq Markings
      BY <1>t DEF TypeOK
    <3> QED
      BY <2>4, <3>1, SuccessorsHere DEF Search!Closed
  <2>6. \A m \in store : ~ Satisfies(property, m)
    BY <2>1 DEF SearchInvariant
  <2>7. Search!AnswerNo
    BY <2>1, <2>3, <2>5, <2>6 DEF Search!AnswerNo
  <2> QED
    BY <2>7 DEF Search!Next
<1> QED
  BY <1>1, <1>2, <1>3, <1>4, <1>5, <1>6, <1>7 DEF Next, Returned

(* The safety half of DFSKeepsContract: a "yes" comes with a satisfying       *)
(* marking that was reached, a "no" after every marking the firelists lead *)
(* to has been stored and none of them satisfies the property.             *)
THEOREM ContractKept == Spec => Search!Init /\ [][Search!Next]_(Search!searchVars)
<1>1. SearchInvariant /\ SearchInvariant' /\ [Next]_vars => [Search!Next]_(Search!searchVars)
  BY ContractStep
<1> QED
  BY <1>1, ContractInit, SearchInvariantHolds, PTL DEF Spec

=============================================================================
