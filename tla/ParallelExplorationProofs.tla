---------------------- MODULE ParallelExplorationProofs ----------------------
(***************************************************************************)
(* Proofs about the parallel search, for every net, every firelist policy  *)
(* that proposes enabled transitions only, every property and every number *)
(* of threads.                                                             *)
(***************************************************************************)
EXTENDS ParallelSearchProperties, SearchPathProofs

(***************************************************************************)
(* Stacks and their copies.                                                *)
(***************************************************************************)

(* What the copy constructor keeps of an entry.                            *)
LEMMA CopyEntryKeeps ==
  ASSUME NEW e \in StackEntry, NEW S, e.fl \in Seq(S), e.current < Len(e.fl)
  PROVE  /\ CopyEntry(e) \in StackEntry
         /\ CopyEntry(e).fl \in Seq(S)
         /\ CopyEntry(e).current < Len(CopyEntry(e).fl)
         /\ Fired(CopyEntry(e)) = Fired(e)
<1>1. PICK fl \in Seq(Transition), i \in Nat : e = [fl |-> fl, current |-> i]
  BY DEF StackEntry
<1>2. e.fl = fl /\ e.current = i
  BY <1>1
<1> DEFINE g == SubSeq(fl, 1, i + 1)
<1>3. CopyEntry(e) = [fl |-> g, current |-> i]
  BY <1>1, <1>2 DEF CopyEntry
<1>4. /\ g \in Seq(Transition) /\ g \in Seq(S)
      /\ Len(g) = i + 1 /\ g[i+1] = fl[i+1]
  BY <1>2
<1> HIDE DEF g
<1> QED
  BY <1>2, <1>3, <1>4 DEF StackEntry, Fired

(* The truncated copy of a stack serves the reader as well as the donor's  *)
(* stack serves the donor.                                                 *)
LEMMA CopyLeads ==
  ASSUME NEW s \in Seq(StackEntry), NEW m, LeadsTo(s, m)
  PROVE  CopyStack(s) \in Seq(StackEntry) /\ LeadsTo(CopyStack(s), m)
<1> DEFINE n == Len(s)
<1> DEFINE c == CopyStack(s)
<1>1. PICK p \in [0 .. n -> Markings] :
        /\ p[0] = InitialMarking
        /\ p[n] = m
        /\ \A k \in 1 .. n :
             /\ s[k].fl \in Seq(EnabledAt(p[k-1]))
             /\ s[k].current < Len(s[k].fl)
             /\ p[k] = Fire(p[k-1], Fired(s[k]))
  BY DEF LeadsTo
<1>2. ASSUME NEW k \in 1 .. n
      PROVE  /\ CopyEntry(s[k]) \in StackEntry
             /\ CopyEntry(s[k]).fl \in Seq(EnabledAt(p[k-1]))
             /\ CopyEntry(s[k]).current < Len(CopyEntry(s[k]).fl)
             /\ Fired(CopyEntry(s[k])) = Fired(s[k])
  <2>1. s[k] \in StackEntry
    OBVIOUS
  <2> QED
    BY <1>1, <2>1, CopyEntryKeeps
<1>3. c \in Seq(StackEntry) /\ Len(c) = n /\ \A k \in 1 .. n : c[k] = CopyEntry(s[k])
  BY <1>2 DEF CopyStack
<1> HIDE DEF c
<1>4. \A k \in 1 .. Len(c) :
        /\ c[k].fl \in Seq(EnabledAt(p[k-1]))
        /\ c[k].current < Len(c[k].fl)
        /\ p[k] = Fire(p[k-1], Fired(c[k]))
  BY <1>1, <1>2, <1>3
<1>5. LeadsTo(c, m)
  BY <1>1, <1>3, <1>4 DEF LeadsTo
<1> QED
  BY <1>3, <1>5 DEF c

(***************************************************************************)
(* What the invariant says of a thread at the points where it acts.        *)
(***************************************************************************)

(* The firelist policy proposes enabled transitions.                       *)
LEMMA FirelistFits ==
  ASSUME NEW m \in Markings
  PROVE  /\ getFirelist(m) \in Seq(EnabledAt(m))
         /\ getFirelist(m) \in Seq(Transition)
         /\ Len(getFirelist(m)) \in Nat
<1>1. getFirelist(m) \in Seq(EnabledAt(m))
  BY FirelistAssumption DEF EnabledAt
<1>2. EnabledAt(m) \subseteq Transition
  BY DEF EnabledAt
<1> QED
  BY <1>1, <1>2

(* About to fire: the candidate is enabled and leads to a marking.         *)
LEMMA AtFire ==
  ASSUME TypeOK, NEW t \in Thread, WorkFits(t), pc[t] = "fire"
  PROVE  /\ Candidate(t) \in EnabledAt(ns[t])
         /\ Candidate(t) \in Transition
         /\ Fire(ns[t], Candidate(t)) \in Markings
         /\ Backfire(Fire(ns[t], Candidate(t)), Candidate(t)) = ns[t]
<1>1. ns[t] \in Markings /\ currentEntry[t] \in Nat
  BY DEF TypeOK
<1>2. currentFirelist[t] \in Seq(EnabledAt(ns[t]))
      /\ currentEntry[t] + 1 \in 1 .. Len(currentFirelist[t])
  BY <1>1 DEF WorkFits, ListFits
<1> QED
  BY <1>1, <1>2, ListedIsEnabled, FireStays, BackfireUndoesFire DEF Candidate

(* Found a new marking: pushing the transition makes the stack lead to it. *)
LEMMA AtCheck ==
  ASSUME TypeOK, NEW t \in Thread, WorkFits(t), pc[t] = "check",
         NEW e, e = [fl |-> currentFirelist[t], current |-> currentEntry[t]]
  PROVE  /\ e \in StackEntry
         /\ LeadsTo(Append(stack[t], e), ns[t])
<1>1. ns[t] \in Markings /\ currentEntry[t] \in Nat /\ stack[t] \in Seq(StackEntry)
      /\ currentFirelist[t] \in Seq(Transition)
  BY DEF TypeOK
<1>2. PICK m \in Markings :
        /\ LeadsTo(stack[t], m)
        /\ ListFits(t, m, currentEntry[t] + 1)
        /\ ns[t] = Fire(m, Candidate(t))
  BY DEF WorkFits
<1>3. e \in StackEntry
  BY <1>1 DEF StackEntry
<1>4. e.fl \in Seq(EnabledAt(m)) /\ e.current < Len(e.fl)
  BY <1>1, <1>2 DEF ListFits
<1>5. Fired(e) = Candidate(t)
  BY DEF Fired, Candidate
<1> QED
  BY <1>1, <1>2, <1>3, <1>4, <1>5, PushLeads

(* Going back one marking, by the top entry of the stack.                  *)
LEMMA AtStepBack ==
  ASSUME TypeOK, NEW t \in Thread, LeadsTo(stack[t], ns[t]), stack[t] # <<>>,
         NEW b, b = Backfire(ns[t], Fired(Top(t)))
  PROVE  /\ b \in Markings
         /\ Pop(t) \in Seq(StackEntry)
         /\ LeadsTo(Pop(t), b)
         /\ Top(t) \in StackEntry
         /\ Top(t).fl \in Seq(EnabledAt(b)) /\ Top(t).fl \in Seq(Transition)
         /\ Top(t).current \in Nat /\ Top(t).current < Len(Top(t).fl)
<1>1. stack[t] \in Seq(StackEntry)
  BY DEF TypeOK
<1>2. Pop(t) \in Seq(StackEntry) /\ Top(t) \in StackEntry
  BY <1>1 DEF Pop, Top
<1>3. Top(t).fl \in Seq(Transition) /\ Top(t).current \in Nat
  BY <1>2 DEF StackEntry
<1> QED
  BY <1>1, <1>2, <1>3, PopLeads DEF Pop, Top

(* After a handover the entry on top of the stack is the one under work.   *)
LEMMA AtRecheck ==
  ASSUME TypeOK, NEW t \in Thread, WorkFits(t), pc[t] = "recheck",
         NEW b, b = Backfire(ns[t], Candidate(t))
  PROVE  /\ b \in Markings
         /\ Pop(t) \in Seq(StackEntry)
         /\ LeadsTo(Pop(t), b)
         /\ ListFits(t, b, currentEntry[t])
<1>1. LeadsTo(stack[t], ns[t]) /\ stack[t] # <<>>
      /\ Top(t) = [fl |-> currentFirelist[t], current |-> currentEntry[t]]
  BY DEF WorkFits
<1>2. Fired(Top(t)) = Candidate(t)
      /\ Top(t).fl = currentFirelist[t] /\ Top(t).current = currentEntry[t]
  BY <1>1 DEF Fired, Candidate
<1>3. currentEntry[t] \in Nat
  BY DEF TypeOK
<1> QED
  BY <1>1, <1>2, <1>3, AtStepBack DEF ListFits

(* An array of all threads without repetition contains every thread.       *)
LEMMA FullArray ==
  ASSUME NEW a \in [Thread -> Thread], \A i, j \in Thread : a[i] = a[j] => i = j,
         NEW t \in Thread
  PROVE  \E i \in Thread : a[i] = t
<1> DEFINE N == number_of_threads
<1> DEFINE others == Thread \ {t}
<1>1. N \in Nat \ {0}
  BY ThreadsAssumption
<1>2. IsFiniteSet(Thread) /\ Cardinality(Thread) = N
  BY <1>1, FS_Interval DEF Thread
<1>3. IsFiniteSet(others) /\ Cardinality(others) = N - 1
  BY <1>2, FS_RemoveElement
<1>4. SUFFICES ASSUME \A i \in Thread : a[i] # t PROVE FALSE
  OBVIOUS
<1>5. a \in [Thread -> others]
  BY <1>4
<1>6. N - 1 < N
  BY <1>1
<1>7. \E x, y \in Thread : x # y /\ a[x] = a[y]
  <2> HIDE DEF others, N
  <2> QED
    BY <1>2, <1>3, <1>5, <1>6, FS_PigeonHole
<1> QED
  BY <1>7

(* Once the array is full every thread is entered.                         *)
LEMMA FullMeansAll ==
  ASSUME TypeOK, SuspensionLedger, num_suspended = number_of_threads,
         NEW t \in Thread
  PROVE  t \in Listed
<1>1. suspended_threads \in [Thread -> Thread]
  BY DEF TypeOK
<1>2. \A i, j \in Thread : suspended_threads[i] = suspended_threads[j] => i = j
  BY DEF SuspensionLedger, EnteredOnce, Thread
<1>3. PICK i \in Thread : suspended_threads[i] = t
  BY <1>1, <1>2, FullArray
<1> QED
  BY <1>3 DEF Listed, Thread

(***************************************************************************)
(* Every step preserves the types.                                         *)
(***************************************************************************)

LEMMA TypeStep ==
  ASSUME SearchInvariant, [Next]_vars
  PROVE  TypeOK'
<1> USE DEF SearchInvariant, Goto, local, shared, caller, LastSuspended,
            OthersSuspended
<1> DEFINE N == number_of_threads
<1>n. N \in Nat \ {0} /\ Thread = 0 .. N - 1
  BY ThreadsAssumption DEF Thread
<1>1. ASSUME NEW t \in Thread, StartSatisfied(t) PROVE TypeOK'
  BY <1>1 DEF StartSatisfied, TypeOK, Stages, Win
<1>2. ASSUME NEW t \in Thread, StartSearch(t) PROVE TypeOK'
  <2>1. ns[t] \in Markings
    BY DEF TypeOK
  <2> QED
    BY <1>2, <2>1, FirelistFits DEF StartSearch, GrabFirelist, TypeOK, Stages
<1>3. ASSUME NEW t \in Thread, Abort(t) PROVE TypeOK'
  BY <1>3 DEF Abort, TypeOK, Stages
<1>4. ASSUME NEW t \in Thread, NextEntry(t) PROVE TypeOK'
  <2>1. currentEntry[t] - 1 \in Nat
    BY <1>4 DEF NextEntry, TypeOK
  <2> QED
    BY <1>4, <2>1 DEF NextEntry, TypeOK, Stages
<1>5. ASSUME NEW t \in Thread, Backtrack(t) PROVE TypeOK'
  <2>1. LeadsTo(stack[t], ns[t]) /\ stack[t] # <<>>
    BY <1>5 DEF Backtrack, WorkFits
  <2>2. PICK b \in Markings : b = Backfire(ns[t], Fired(Top(t)))
    BY <2>1, AtStepBack
  <2> QED
    BY <1>5, <2>1, <2>2, AtStepBack DEF Backtrack, TypeOK, Stages
<1>6. ASSUME NEW t \in Thread, RunDry(t) PROVE TypeOK'
  BY <1>6 DEF RunDry, TypeOK, Stages
<1>7. ASSUME NEW t \in Thread, FireKnown(t) PROVE TypeOK'
  <2>1. Fire(ns[t], Candidate(t)) \in Markings
        /\ Backfire(Fire(ns[t], Candidate(t)), Candidate(t)) = ns[t]
    BY <1>7, AtFire DEF FireKnown
  <2> QED
    BY <1>7, <2>1 DEF FireKnown, NextMarking, TypeOK, Stages
<1>8. ASSUME NEW t \in Thread, FireNew(t) PROVE TypeOK'
  <2>1. Fire(ns[t], Candidate(t)) \in Markings
        /\ Backfire(Fire(ns[t], Candidate(t)), Candidate(t)) = ns[t]
    BY <1>8, AtFire DEF FireNew
  <2> QED
    BY <1>8, <2>1 DEF FireNew, NextMarking, TypeOK, Stages
<1>9. ASSUME NEW t \in Thread, CheckSatisfied(t) PROVE TypeOK'
  BY <1>9 DEF CheckSatisfied, TypeOK, Stages, Win
<1>10. ASSUME NEW t \in Thread, CheckSpare(t) PROVE TypeOK'
  <2> DEFINE e == [fl |-> currentFirelist[t], current |-> currentEntry[t]]
  <2>1. e \in StackEntry
    BY <1>10, AtCheck DEF CheckSpare
  <2>2. Append(stack[t], e) \in Seq(StackEntry)
    BY <2>1 DEF TypeOK
  <2> QED
    BY <1>10, <2>2 DEF CheckSpare, PushCurrent, TypeOK, Stages
<1>11. ASSUME NEW t \in Thread, CheckDescend(t) PROVE TypeOK'
  <2> DEFINE e == [fl |-> currentFirelist[t], current |-> currentEntry[t]]
  <2>1. e \in StackEntry
    BY <1>11, AtCheck DEF CheckDescend
  <2>2. Append(stack[t], e) \in Seq(StackEntry)
    BY <2>1 DEF TypeOK
  <2> QED
    BY <1>11, <2>2, FirelistFits DEF CheckDescend, PushCurrent, TypeOK, Stages, GrabFirelist
<1>12. ASSUME NEW t \in Thread, NoReader(t) PROVE TypeOK'
  <2>1. ns[t] \in Markings
    BY DEF TypeOK
  <2> QED
    BY <1>12, <2>1, FirelistFits DEF NoReader, GrabFirelist, TypeOK, Stages
<1>13. ASSUME NEW t \in Thread, TakeReader(t) PROVE TypeOK'
  <2>1. num_suspended - 1 \in Thread
    BY <1>13, <1>n DEF TakeReader, TypeOK
  <2>2. suspended_threads[num_suspended - 1] \in Thread /\ num_suspended - 1 \in 0 .. N
    BY <1>13, <1>n, <2>1 DEF TakeReader, TypeOK
  <2> QED
    BY <1>13, <2>2 DEF TakeReader, TypeOK, Stages
<1>14. ASSUME NEW t \in Thread, CopyToReader(t) PROVE TypeOK'
  <2>1. LeadsTo(stack[t], ns[t]) /\ stack[t] \in Seq(StackEntry) /\ reader[t] \in Thread
    BY <1>14 DEF CopyToReader, WorkFits, TypeOK
  <2>2. CopyStack(stack[t]) \in Seq(StackEntry)
    BY <2>1, CopyLeads
  <2> QED
    BY <1>14, <2>1, <2>2 DEF CopyToReader, TypeOK, Stages
<1>15. ASSUME NEW t \in Thread, PostReader(t) PROVE TypeOK'
  <2>1. reader[t] \in Thread /\ restartSemaphore[reader[t]] + 1 \in Nat
    BY DEF TypeOK
  <2> QED
    BY <1>15, <2>1 DEF PostReader, TypeOK, Stages
<1>16. ASSUME NEW t \in Thread, GiveUp(t) PROVE TypeOK'
  BY <1>16 DEF GiveUp, TypeOK, Stages
<1>17. ASSUME NEW t \in Thread, KeepRest(t) PROVE TypeOK'
  <2>1. Pop(t) \in Seq(StackEntry) /\ Backfire(ns[t], Candidate(t)) \in Markings
    BY <1>17, AtRecheck DEF KeepRest
  <2> QED
    BY <1>17, <2>1 DEF KeepRest, TypeOK, Stages
<1>18. ASSUME NEW t \in Thread, Suspend(t) PROVE TypeOK'
  <2>1. num_suspended # N
    BY <1>18, FullMeansAll DEF Suspend, LedgerOutlives
  <2>2. num_suspended + 1 \in 0 .. N /\ num_suspended \in Thread
    BY <1>n, <2>1 DEF TypeOK
  <2> QED
    BY <1>18, <2>2 DEF Suspend, TypeOK, Stages
<1>19. ASSUME NEW t \in Thread, DeclareComplete(t) PROVE TypeOK'
  BY <1>19 DEF DeclareComplete, TypeOK, Stages
<1>20. ASSUME NEW t \in Thread, PostNext(t) PROVE TypeOK'
  <2>1. posted[t] \in 0 .. N
    BY DEF TypeOK
  <2>2. posted[t] \in Thread /\ posted[t] + 1 \in 0 .. N
    BY <1>20, <1>n, <2>1 DEF PostNext
  <2>3. restartSemaphore[posted[t]] + 1 \in Nat
    BY <2>2 DEF TypeOK
  <2> QED
    BY <1>20, <2>2, <2>3 DEF PostNext, TypeOK, Stages
<1>21. ASSUME NEW t \in Thread, PostEnd(t) PROVE TypeOK'
  BY <1>21 DEF PostEnd, TypeOK, Stages
<1>22. ASSUME NEW t \in Thread, SwapStack(t) PROVE TypeOK'
  BY <1>22 DEF SwapStack, TypeOK, Stages
<1>23. ASSUME NEW t \in Thread, WakeFinished(t) PROVE TypeOK'
  <2>1. restartSemaphore[t] - 1 \in Nat
    BY <1>23 DEF WakeFinished, TypeOK
  <2> QED
    BY <1>23, <2>1 DEF WakeFinished, TypeOK, Stages
<1>24. ASSUME NEW t \in Thread, WakeRestart(t) PROVE TypeOK'
  <2>1. ns[t] \in Markings
    BY DEF TypeOK
  <2> QED
    BY <1>24, <2>1, FirelistFits DEF WakeRestart, GrabFirelist, TypeOK, Stages
<1>25. CASE Join
  <2>1. joined \in 0 .. N
    BY DEF TypeOK
  <2>2. joined \in Thread /\ joined + 1 \in 0 .. N
    BY <1>25, <1>n, <2>1 DEF Join
  <2> QED
    BY <1>25, <2>2 DEF Join, TypeOK
<1>26. CASE UNCHANGED vars
  BY <1>26 DEF vars, TypeOK
<1> QED
  BY <1>1, <1>2, <1>3, <1>4, <1>5, <1>6, <1>7, <1>8, <1>9, <1>10, <1>11,
     <1>12, <1>13, <1>14, <1>15, <1>16, <1>17, <1>18, <1>19, <1>20, <1>21,
     <1>22, <1>23, <1>24, <1>25, <1>26 DEF Next, threadedExploration,
     Returned

(***************************************************************************)
(* Every step preserves the ledger.                                        *)
(***************************************************************************)

(* A thread moves between stages in which it neither waits nor donates.    *)
LEMMA LedgerUntouched ==
  ASSUME TypeOK, SuspensionLedger,
         UNCHANGED <<num_suspended, suspended_threads, reader, restartSemaphore,
                     finished>>,
         \A u \in Thread :
           \/ pc'[u] = pc[u]
           \/ {pc[u], pc'[u]} \intersect
                {"wait", "declare", "handover", "release"} = {}
  PROVE  SuspensionLedger'
<1>1. Listed' = Listed
  BY DEF Listed
<1>2. EnteredOnce' /\ PromisedOnce'
  BY DEF SuspensionLedger, EnteredOnce, PromisedOnce
<1>3. ASSUME NEW u \in Thread PROVE Promised(u)' <=> Promised(u)
  BY DEF Promised
<1>4. ASSUME NEW u \in Thread, ~ finished PROVE Accounted(u)'
  <2>1. Accounted(u)
    BY <1>4 DEF SuspensionLedger
  <2>2. CASE pc'[u] = pc[u]
    BY <1>1, <1>3, <2>1, <2>2 DEF Accounted
  <2>3. CASE pc'[u] # pc[u]
    BY <1>1, <1>3, <2>1, <2>3 DEF Accounted
  <2> QED
    BY <2>2, <2>3
<1> QED
  BY <1>2, <1>4 DEF SuspensionLedger

(* Once the search is finished only the two uniqueness claims remain.      *)
LEMMA LedgerClosed ==
  ASSUME SuspensionLedger, finished',
         UNCHANGED <<num_suspended, suspended_threads, reader>>,
         \A u \in Thread :
           pc'[u] \in {"handover", "release"} => pc[u] \in {"handover", "release"}
  PROVE  SuspensionLedger'
<1>1. EnteredOnce' /\ PromisedOnce'
  BY DEF SuspensionLedger, EnteredOnce, PromisedOnce
<1> QED
  BY <1>1 DEF SuspensionLedger

LEMMA LedgerStep ==
  ASSUME SearchInvariant, [Next]_vars
  PROVE  SuspensionLedger'
<1> USE DEF SearchInvariant, Goto, local, shared, caller, LastSuspended,
            OthersSuspended
<1>t. pc \in [Thread -> Stages]
  BY DEF TypeOK
<1>1. ASSUME NEW t \in Thread, StartSatisfied(t) PROVE SuspensionLedger'
  BY <1>1, <1>t, LedgerClosed DEF StartSatisfied, Win
<1>2. ASSUME NEW t \in Thread, StartSearch(t) PROVE SuspensionLedger'
  BY <1>2, <1>t, LedgerUntouched DEF StartSearch
<1>3. ASSUME NEW t \in Thread, Abort(t) PROVE SuspensionLedger'
  BY <1>3, <1>t, LedgerClosed DEF Abort
<1>4. ASSUME NEW t \in Thread, NextEntry(t) PROVE SuspensionLedger'
  BY <1>4, <1>t, LedgerUntouched DEF NextEntry
<1>5. ASSUME NEW t \in Thread, Backtrack(t) PROVE SuspensionLedger'
  BY <1>5, <1>t, LedgerUntouched DEF Backtrack
<1>6. ASSUME NEW t \in Thread, RunDry(t) PROVE SuspensionLedger'
  BY <1>6, <1>t, LedgerUntouched DEF RunDry
<1>7. ASSUME NEW t \in Thread, FireKnown(t) PROVE SuspensionLedger'
  BY <1>7, <1>t, LedgerUntouched DEF FireKnown
<1>8. ASSUME NEW t \in Thread, FireNew(t) PROVE SuspensionLedger'
  BY <1>8, <1>t, LedgerUntouched DEF FireNew
<1>9. ASSUME NEW t \in Thread, CheckSatisfied(t) PROVE SuspensionLedger'
  BY <1>9, <1>t, LedgerClosed DEF CheckSatisfied, Win
<1>10. ASSUME NEW t \in Thread, CheckSpare(t) PROVE SuspensionLedger'
  BY <1>10, <1>t, LedgerUntouched DEF CheckSpare
<1>11. ASSUME NEW t \in Thread, CheckDescend(t) PROVE SuspensionLedger'
  BY <1>11, <1>t, LedgerUntouched DEF CheckDescend
<1>12. ASSUME NEW t \in Thread, NoReader(t) PROVE SuspensionLedger'
  BY <1>12, <1>t, LedgerUntouched DEF NoReader
<1>13. ASSUME NEW t \in Thread, TakeReader(t) PROVE SuspensionLedger'
  <2> DEFINE r == suspended_threads[num_suspended - 1]
  <2>1. /\ num_suspended \in 0 .. number_of_threads /\ num_suspended > 0
        /\ num_suspended' = num_suspended - 1 /\ number_of_threads \in Nat \ {0}
        /\ suspended_threads' = suspended_threads
        /\ suspended_threads \in [Thread -> Thread]
    BY <1>13, ThreadsAssumption DEF TakeReader, TypeOK
  <2>2. t \notin Listed
    BY <1>13 DEF TakeReader, LedgerOutlives
  <2>3. num_suspended # number_of_threads
    BY <2>2, FullMeansAll
  <2>4. num_suspended - 1 \in Thread /\ r \in Thread
    BY <2>1 DEF Thread
  <2>5. r \in Listed
    BY <2>1 DEF Listed
  <2>6. Listed = Listed' \union {r} /\ r \notin Listed'
    <3>1. Listed' = {suspended_threads[i] : i \in 0 .. num_suspended - 2}
      BY <2>1 DEF Listed
    <3>2. ASSUME r \in Listed' PROVE FALSE
      <4>1. PICK i \in 0 .. num_suspended - 2 : r = suspended_threads[i]
        BY <3>1, <3>2
      <4>2. i \in 0 .. num_suspended - 1 /\ num_suspended - 1 \in 0 .. num_suspended - 1
            /\ i # num_suspended - 1
        BY <2>1
      <4> QED
        BY <4>1, <4>2 DEF SuspensionLedger, EnteredOnce
    <3>3. 0 .. num_suspended - 1 = (0 .. num_suspended - 2) \union {num_suspended - 1}
      BY <2>1
    <3> QED
      BY <3>1, <3>2, <3>3 DEF Listed
  <2>7. pc[r] \in {"wait", "done"} /\ ~ found[r]
    BY <2>3, <2>4, <2>5 DEF LedgerOutlives
  <2>8. /\ pc[t] = "trylock" /\ pc' = [pc EXCEPT ![t] = "handover"]
        /\ reader' = [reader EXCEPT ![t] = r]
        /\ UNCHANGED <<found, finished, restartSemaphore>>
    BY <1>13 DEF TakeReader
  <2>9. pc \in [Thread -> Stages] /\ reader \in [Thread -> Thread]
    BY DEF TypeOK
  <2> HIDE DEF r
  <2>10. ASSUME NEW u \in Thread PROVE Promised(u)' <=> Promised(u) \/ u = r
    BY <2>8, <2>9 DEF Promised
  <2>11. ~ Promised(r)
    BY <2>5 DEF Promised, LedgerOutlives
  <2>12. EnteredOnce'
    BY <2>1 DEF SuspensionLedger, EnteredOnce
  <2>13. PromisedOnce'
    BY <2>8, <2>9, <2>11 DEF SuspensionLedger, PromisedOnce, Promised
  <2>14. ASSUME NEW u \in Thread, ~ finished PROVE Accounted(u)'
    <3>1. Accounted(u) /\ Accounted(r)
      BY <2>4, <2>14 DEF SuspensionLedger
    <3>2. pc[r] = "wait"
      BY <2>4, <2>7, <2>14 DEF LedgerOutlives
    <3>3. restartSemaphore[r] \in Nat /\ restartSemaphore[u] \in Nat
      BY <2>4 DEF TypeOK
    <3> QED
      BY <2>2, <2>4, <2>5, <2>6, <2>8, <2>9, <2>10, <2>11, <3>1, <3>2, <3>3 DEF Accounted
  <2> QED
    BY <2>8, <2>12, <2>13, <2>14 DEF SuspensionLedger
<1>14. ASSUME NEW t \in Thread, CopyToReader(t) PROVE SuspensionLedger'
  <2>1. Listed' = Listed
    BY <1>14 DEF CopyToReader, Listed
  <2>2. /\ pc[t] = "handover" /\ pc' = [pc EXCEPT ![t] = "release"]
        /\ UNCHANGED <<found, finished, reader, num_suspended, suspended_threads,
                      restartSemaphore>>
    BY <1>14 DEF CopyToReader
  <2>3. pc \in [Thread -> Stages] /\ reader \in [Thread -> Thread]
    BY DEF TypeOK
  <2>4. ASSUME NEW u \in Thread PROVE Promised(u)' <=> Promised(u)
    BY <2>2, <2>3 DEF Promised
  <2>5. EnteredOnce'
    BY <1>14 DEF CopyToReader, SuspensionLedger, EnteredOnce
  <2>6. PromisedOnce'
    BY <2>2, <2>3 DEF SuspensionLedger, PromisedOnce
  <2>7. ASSUME NEW u \in Thread, ~ finished PROVE Accounted(u)'
    <3>1. Accounted(u)
      BY <2>7 DEF SuspensionLedger
    <3>2. pc'[u] = pc[u] \/ (pc[u] = "handover" /\ pc'[u] = "release")
      BY <2>2, <2>3
    <3> QED
      BY <2>1, <2>2, <2>4, <3>1, <3>2 DEF Accounted
  <2> QED
    BY <2>2, <2>5, <2>6, <2>7 DEF SuspensionLedger
<1>15. ASSUME NEW t \in Thread, PostReader(t) PROVE SuspensionLedger'
  <2>1. Listed' = Listed
    BY <1>15 DEF PostReader, Listed
  <2>2. /\ pc[t] = "release" /\ pc' = [pc EXCEPT ![t] = "recheck"]
        /\ UNCHANGED <<found, finished, reader, num_suspended, suspended_threads>>
    BY <1>15 DEF PostReader
  <2>3. pc \in [Thread -> Stages] /\ reader \in [Thread -> Thread]
    BY DEF TypeOK
  <2> DEFINE r == reader[t]
  <2>4. /\ r \in Thread /\ restartSemaphore \in [Thread -> Nat]
        /\ restartSemaphore' = [restartSemaphore EXCEPT ![r] = @ + 1]
    BY <1>15, <2>3 DEF PostReader, TypeOK
  <2>5. Promised(r)
    BY <2>2 DEF Promised
  <2>6. ASSUME NEW u \in Thread PROVE Promised(u)' <=> Promised(u) /\ u # r
    BY <2>2, <2>3 DEF Promised, SuspensionLedger, PromisedOnce
  <2>7. EnteredOnce'
    BY <1>15 DEF PostReader, SuspensionLedger, EnteredOnce
  <2>8. PromisedOnce'
    BY <2>2, <2>3 DEF SuspensionLedger, PromisedOnce
  <2>9. ASSUME NEW u \in Thread, ~ finished PROVE Accounted(u)'
    <3>1. Accounted(u) /\ Accounted(r)
      BY <2>4, <2>9 DEF SuspensionLedger
    <3>2. pc[r] = "wait" /\ r \notin Listed /\ r # t
      BY <2>2, <2>4, <2>9 DEF LedgerOutlives
    <3> HIDE DEF r
    <3>3. CASE u = r
      <4>1. restartSemaphore[r] = 0 /\ restartSemaphore'[r] = 1
        BY <2>4, <2>5, <3>1 DEF Accounted
      <4>2. pc'[r] = "wait"
        BY <2>2, <2>3, <2>4, <3>2
      <4> QED
        BY <2>1, <2>4, <2>6, <3>2, <3>3, <4>1, <4>2 DEF Accounted
    <3>4. CASE u # r
      <4>1. restartSemaphore'[u] = restartSemaphore[u]
        BY <2>4, <3>4
      <4>2. pc'[u] = pc[u] \/ (pc[u] = "release" /\ pc'[u] = "recheck")
        BY <2>2, <2>3
      <4> QED
        BY <2>1, <2>6, <3>1, <3>4, <4>1, <4>2 DEF Accounted
    <3> QED
      BY <3>3, <3>4
  <2> QED
    BY <2>2, <2>7, <2>8, <2>9 DEF SuspensionLedger
<1>16. ASSUME NEW t \in Thread, GiveUp(t) PROVE SuspensionLedger'
  BY <1>16, <1>t, LedgerClosed DEF GiveUp
<1>17. ASSUME NEW t \in Thread, KeepRest(t) PROVE SuspensionLedger'
  BY <1>17, <1>t, LedgerUntouched DEF KeepRest
<1>18. ASSUME NEW t \in Thread, Suspend(t) PROVE SuspensionLedger'
  <2>1. /\ num_suspended \in 0 .. number_of_threads /\ number_of_threads \in Nat \ {0}
        /\ num_suspended' = num_suspended + 1
        /\ suspended_threads' = [suspended_threads EXCEPT ![num_suspended] = t]
        /\ suspended_threads \in [Thread -> Thread]
    BY <1>18, ThreadsAssumption DEF Suspend, TypeOK
  <2>2. t \notin Listed
    BY <1>18 DEF Suspend, LedgerOutlives
  <2>3. num_suspended # number_of_threads
    BY <2>2, FullMeansAll
  <2>4. num_suspended \in Thread
    BY <2>1, <2>3 DEF Thread
  <2>5. /\ \A i \in 0 .. num_suspended - 1 :
             i \in Thread /\ suspended_threads'[i] = suspended_threads[i]
        /\ suspended_threads'[num_suspended] = t
    BY <2>1, <2>3, <2>4 DEF Thread
  <2>6. Listed' = Listed \union {t}
    <3>1. 0 .. num_suspended' - 1 = (0 .. num_suspended - 1) \union {num_suspended}
      BY <2>1
    <3> QED
      BY <2>5, <3>1 DEF Listed
  <2>7. /\ pc[t] = "suspend"
        /\ pc' = [pc EXCEPT ![t] = IF num_suspended + 1 = number_of_threads
                                     THEN "declare" ELSE "wait"]
        /\ UNCHANGED <<found, finished, reader, restartSemaphore>>
    BY <1>18 DEF Suspend
  <2>8. pc \in [Thread -> Stages] /\ reader \in [Thread -> Thread]
    BY DEF TypeOK
  <2>9. ASSUME NEW u \in Thread PROVE Promised(u)' <=> Promised(u)
    BY <2>7, <2>8 DEF Promised
  <2>10. ~ Promised(t)
    BY <2>7 DEF Promised, LedgerOutlives
  <2>11. EnteredOnce'
    <3> SUFFICES ASSUME NEW i \in 0 .. num_suspended, NEW j \in 0 .. num_suspended,
                        suspended_threads'[i] = suspended_threads'[j]
                 PROVE  i = j
      BY <2>1 DEF EnteredOnce
    <3>1. CASE i \in 0 .. num_suspended - 1 /\ j \in 0 .. num_suspended - 1
      BY <2>5, <3>1 DEF SuspensionLedger, EnteredOnce
    <3>2. CASE i = num_suspended /\ j \in 0 .. num_suspended - 1
      BY <2>2, <2>5, <3>2 DEF Listed
    <3>3. CASE j = num_suspended /\ i \in 0 .. num_suspended - 1
      BY <2>2, <2>5, <3>3 DEF Listed
    <3> QED
      BY <2>1, <3>1, <3>2, <3>3
  <2>12. PromisedOnce'
    BY <2>7, <2>8 DEF SuspensionLedger, PromisedOnce
  <2>13. ASSUME NEW u \in Thread, ~ finished PROVE Accounted(u)'
    <3>1. Accounted(u) /\ Accounted(t)
      BY <2>13 DEF SuspensionLedger
    <3>2. restartSemaphore[t] \in Nat /\ restartSemaphore[u] \in Nat
      BY DEF TypeOK
    <3>3. CASE u = t
      BY <2>2, <2>6, <2>7, <2>8, <2>9, <2>10, <3>1, <3>2, <3>3 DEF Accounted
    <3>4. CASE u # t
      BY <2>6, <2>7, <2>8, <2>9, <3>1, <3>4 DEF Accounted
    <3> QED
      BY <3>3, <3>4
  <2> QED
    BY <2>7, <2>11, <2>12, <2>13 DEF SuspensionLedger
<1>19. ASSUME NEW t \in Thread, DeclareComplete(t) PROVE SuspensionLedger'
  BY <1>19, <1>t, LedgerClosed DEF DeclareComplete
<1>20. ASSUME NEW t \in Thread, PostNext(t) PROVE SuspensionLedger'
  BY <1>20, <1>t, LedgerClosed DEF PostNext, LedgerOutlives
<1>21. ASSUME NEW t \in Thread, PostEnd(t) PROVE SuspensionLedger'
  BY <1>21, <1>t, LedgerClosed DEF PostEnd, LedgerOutlives
<1>22. ASSUME NEW t \in Thread, SwapStack(t) PROVE SuspensionLedger'
  BY <1>22, <1>t, LedgerClosed DEF SwapStack, LedgerOutlives
<1>23. ASSUME NEW t \in Thread, WakeFinished(t) PROVE SuspensionLedger'
  BY <1>23, <1>t, LedgerClosed DEF WakeFinished
<1>24. ASSUME NEW t \in Thread, WakeRestart(t) PROVE SuspensionLedger'
  <2>1. Listed' = Listed
    BY <1>24 DEF WakeRestart, Listed
  <2>2. /\ pc[t] = "wait" /\ pc' = [pc EXCEPT ![t] = "loop"] /\ ~ finished
        /\ restartSemaphore[t] > 0
        /\ restartSemaphore' = [restartSemaphore EXCEPT ![t] = @ - 1]
        /\ UNCHANGED <<finished, reader, num_suspended>>
    BY <1>24 DEF WakeRestart
  <2>3. restartSemaphore \in [Thread -> Nat]
    BY DEF TypeOK
  <2>4. ASSUME NEW u \in Thread PROVE Promised(u)' <=> Promised(u)
    BY <1>t, <2>2 DEF Promised
  <2>5. EnteredOnce'
    BY <1>24 DEF WakeRestart, SuspensionLedger, EnteredOnce
  <2>6. PromisedOnce'
    BY <1>t, <2>2 DEF SuspensionLedger, PromisedOnce
  <2>7. ASSUME NEW u \in Thread PROVE Accounted(u)'
    <3>1. Accounted(u) /\ Accounted(t)
      BY <2>2 DEF SuspensionLedger
    <3>2. CASE u = t
      <4>1. restartSemaphore[t] = 1 /\ restartSemaphore'[t] = 0
        BY <2>2, <2>3, <3>1 DEF Accounted
      <4> QED
        BY <1>t, <2>1, <2>2, <2>4, <3>1, <3>2, <4>1 DEF Accounted
    <3>3. CASE u # t
      <4>1. restartSemaphore'[u] = restartSemaphore[u] /\ pc'[u] = pc[u]
        BY <1>t, <2>2, <2>3, <3>3
      <4> QED
        BY <2>1, <2>4, <3>1, <4>1 DEF Accounted
    <3> QED
      BY <3>2, <3>3
  <2> QED
    BY <2>5, <2>6, <2>7 DEF SuspensionLedger
<1>25. CASE Join
  BY <1>25, LedgerUntouched DEF Join
<1>26. CASE UNCHANGED vars
  BY <1>26, LedgerUntouched DEF vars
<1> QED
  BY <1>1, <1>2, <1>3, <1>4, <1>5, <1>6, <1>7, <1>8, <1>9, <1>10, <1>11,
     <1>12, <1>13, <1>14, <1>15, <1>16, <1>17, <1>18, <1>19, <1>20,
     <1>21, <1>22, <1>23, <1>24, <1>25, <1>26 DEF Next,
     threadedExploration, Returned

(***************************************************************************)
(* Every step preserves the part of the ledger that outlives the search.   *)
(***************************************************************************)

(* A thread moves between stages the ledger does not speak of.             *)
LEMMA OutlivesUntouched ==
  ASSUME TypeOK, LedgerOutlives,
         UNCHANGED <<num_suspended, suspended_threads, reader, found, finished>>,
         \A u \in Thread :
           \/ pc'[u] = pc[u]
           \/ {pc[u], pc'[u]} \intersect {"wait", "declare", "handover",
                                         "release", "post", "swap", "done"} = {}
  PROVE  LedgerOutlives'
<1>1. Listed' = Listed
  BY DEF Listed
<1>2. reader \in [Thread -> Thread]
  BY DEF TypeOK
<1>3. ASSUME NEW u \in Thread,
             pc[u] \in {"wait", "declare", "handover", "release", "post", "swap", "done"}
             \/ pc'[u] \in {"wait", "declare", "handover", "release", "post", "swap", "done"}
      PROVE  pc'[u] = pc[u]
  BY <1>3
<1>4. \A u \in Listed' :
        pc'[u] \in {"wait", "declare", "post", "done"} /\ ~ found'[u]
  <2> SUFFICES ASSUME NEW u \in Listed'
               PROVE  pc'[u] \in {"wait", "declare", "post", "done"} /\ ~ found'[u]
    OBVIOUS
  <2>1. u \in Thread
    <3>1. /\ num_suspended \in 0 .. number_of_threads
          /\ suspended_threads \in [Thread -> Thread]
      BY DEF TypeOK
    <3>2. PICK i \in 0 .. num_suspended - 1 : u = suspended_threads[i]
      BY <1>1 DEF Listed
    <3> QED
      BY <3>1, <3>2, ThreadsAssumption DEF Thread
  <2> QED
    BY <1>1, <1>3, <2>1 DEF LedgerOutlives
<1>5. ASSUME NEW d \in Thread, pc'[d] \in {"handover", "release"}
      PROVE  /\ pc'[reader'[d]] \in {"wait", "done"} /\ ~ found'[reader'[d]]
             /\ reader'[d] \notin Listed'
  BY <1>1, <1>2, <1>3, <1>5 DEF LedgerOutlives
<1>6. ASSUME NEW u \in Thread
      PROVE  /\ found'[u] => pc'[u] \in {"post", "swap", "done"}
             /\ pc'[u] \in {"post", "swap", "done"} => finished'
             /\ pc'[u] = "declare" \/ (pc'[u] = "post" /\ ~ found'[u]) =>
                  num_suspended' = number_of_threads
             /\ pc'[u] = "declare" =>
                  ~ finished' /\ suspended_threads'[num_suspended' - 1] = u
  BY <1>3 DEF LedgerOutlives
<1> QED
  BY <1>4, <1>5, <1>6 DEF LedgerOutlives

LEMMA OutlivesStep ==
  ASSUME SearchInvariant, [Next]_vars
  PROVE  LedgerOutlives'
<1> USE DEF SearchInvariant, Goto, local, shared, caller, LastSuspended,
            OthersSuspended
<1>t. pc \in [Thread -> Stages] /\ reader \in [Thread -> Thread]
      /\ found \in [Thread -> BOOLEAN]
  BY DEF TypeOK
<1>1. ASSUME NEW t \in Thread, StartSatisfied(t) PROVE LedgerOutlives'
  <2>1. Listed' = Listed
    BY <1>1 DEF StartSatisfied, Win, Listed
  <2>2. /\ pc[t] \in {"start", "check"} /\ pc' = [pc EXCEPT ![t] = "post"]
        /\ found' = [found EXCEPT ![t] = TRUE] /\ finished' = TRUE
        /\ UNCHANGED <<reader, num_suspended, suspended_threads>>
    BY <1>1 DEF StartSatisfied, Win
  <2>3. t \notin Listed /\ \A d \in Thread : pc[d] \in {"handover", "release"} => reader[d] # t
    BY <2>2 DEF LedgerOutlives
  <2>4. \A u \in Thread : pc[u] # "declare" /\ (pc[u] = "post" => found[u])
    BY <2>3, FullMeansAll DEF LedgerOutlives
  <2> QED
    BY <1>t, <2>1, <2>2, <2>3, <2>4 DEF LedgerOutlives
<1>2. ASSUME NEW t \in Thread, StartSearch(t) PROVE LedgerOutlives'
  BY <1>2, <1>t, OutlivesUntouched DEF StartSearch
<1>3. ASSUME NEW t \in Thread, Abort(t) PROVE LedgerOutlives'
  <2>1. Listed' = Listed
    BY <1>3 DEF Abort, Listed
  <2> QED
    BY <1>3, <1>t, <2>1 DEF Abort, LedgerOutlives
<1>4. ASSUME NEW t \in Thread, NextEntry(t) PROVE LedgerOutlives'
  BY <1>4, <1>t, OutlivesUntouched DEF NextEntry
<1>5. ASSUME NEW t \in Thread, Backtrack(t) PROVE LedgerOutlives'
  BY <1>5, <1>t, OutlivesUntouched DEF Backtrack
<1>6. ASSUME NEW t \in Thread, RunDry(t) PROVE LedgerOutlives'
  BY <1>6, <1>t, OutlivesUntouched DEF RunDry
<1>7. ASSUME NEW t \in Thread, FireKnown(t) PROVE LedgerOutlives'
  BY <1>7, <1>t, OutlivesUntouched DEF FireKnown
<1>8. ASSUME NEW t \in Thread, FireNew(t) PROVE LedgerOutlives'
  BY <1>8, <1>t, OutlivesUntouched DEF FireNew
<1>9. ASSUME NEW t \in Thread, CheckSatisfied(t) PROVE LedgerOutlives'
  <2>1. Listed' = Listed
    BY <1>9 DEF CheckSatisfied, Win, Listed
  <2>2. /\ pc[t] \in {"start", "check"} /\ pc' = [pc EXCEPT ![t] = "post"]
        /\ found' = [found EXCEPT ![t] = TRUE] /\ finished' = TRUE
        /\ UNCHANGED <<reader, num_suspended, suspended_threads>>
    BY <1>9 DEF CheckSatisfied, Win
  <2>3. t \notin Listed /\ \A d \in Thread : pc[d] \in {"handover", "release"} => reader[d] # t
    BY <2>2 DEF LedgerOutlives
  <2>4. \A u \in Thread : pc[u] # "declare" /\ (pc[u] = "post" => found[u])
    BY <2>3, FullMeansAll DEF LedgerOutlives
  <2> QED
    BY <1>t, <2>1, <2>2, <2>3, <2>4 DEF LedgerOutlives
<1>10. ASSUME NEW t \in Thread, CheckSpare(t) PROVE LedgerOutlives'
  BY <1>10, <1>t, OutlivesUntouched DEF CheckSpare
<1>11. ASSUME NEW t \in Thread, CheckDescend(t) PROVE LedgerOutlives'
  BY <1>11, <1>t, OutlivesUntouched DEF CheckDescend
<1>12. ASSUME NEW t \in Thread, NoReader(t) PROVE LedgerOutlives'
  BY <1>12, <1>t, OutlivesUntouched DEF NoReader
<1>13. ASSUME NEW t \in Thread, TakeReader(t) PROVE LedgerOutlives'
  <2> DEFINE r == suspended_threads[num_suspended - 1]
  <2>1. /\ num_suspended \in 0 .. number_of_threads /\ num_suspended > 0
        /\ num_suspended' = num_suspended - 1 /\ number_of_threads \in Nat \ {0}
        /\ suspended_threads' = suspended_threads
        /\ suspended_threads \in [Thread -> Thread]
    BY <1>13, ThreadsAssumption DEF TakeReader, TypeOK
  <2>2. t \notin Listed
    BY <1>13 DEF TakeReader, LedgerOutlives
  <2>3. num_suspended # number_of_threads
    BY <2>2, FullMeansAll
  <2>4. num_suspended - 1 \in Thread /\ r \in Thread
    BY <2>1 DEF Thread
  <2>5. r \in Listed
    BY <2>1 DEF Listed
  <2>6. Listed = Listed' \union {r} /\ r \notin Listed'
    <3>1. Listed' = {suspended_threads[i] : i \in 0 .. num_suspended - 2}
      BY <2>1 DEF Listed
    <3>2. ASSUME r \in Listed' PROVE FALSE
      <4>1. PICK i \in 0 .. num_suspended - 2 : r = suspended_threads[i]
        BY <3>1, <3>2
      <4>2. i \in 0 .. num_suspended - 1 /\ num_suspended - 1 \in 0 .. num_suspended - 1
            /\ i # num_suspended - 1
        BY <2>1
      <4> QED
        BY <4>1, <4>2 DEF SuspensionLedger, EnteredOnce
    <3>3. 0 .. num_suspended - 1 = (0 .. num_suspended - 2) \union {num_suspended - 1}
      BY <2>1
    <3> QED
      BY <3>1, <3>2, <3>3 DEF Listed
  <2>7. pc[r] \in {"wait", "done"} /\ ~ found[r]
    BY <2>3, <2>4, <2>5 DEF LedgerOutlives
  <2>8. /\ pc[t] = "trylock" /\ pc' = [pc EXCEPT ![t] = "handover"]
        /\ reader' = [reader EXCEPT ![t] = r]
        /\ UNCHANGED <<found, finished, restartSemaphore>>
    BY <1>13 DEF TakeReader
  <2>9. pc \in [Thread -> Stages] /\ reader \in [Thread -> Thread]
    BY DEF TypeOK
  <2> HIDE DEF r
  <2> QED
    BY <2>1, <2>2, <2>3, <2>4, <2>6, <2>7, <2>8, <2>9 DEF LedgerOutlives
<1>14. ASSUME NEW t \in Thread, CopyToReader(t) PROVE LedgerOutlives'
  <2>1. Listed' = Listed
    BY <1>14 DEF CopyToReader, Listed
  <2>2. /\ pc[t] = "handover" /\ pc' = [pc EXCEPT ![t] = "release"]
        /\ UNCHANGED <<found, finished, reader, num_suspended, suspended_threads,
                      restartSemaphore>>
    BY <1>14 DEF CopyToReader
  <2>3. pc \in [Thread -> Stages] /\ reader \in [Thread -> Thread]
    BY DEF TypeOK
  <2> QED
    BY <2>1, <2>2, <2>3 DEF LedgerOutlives
<1>15. ASSUME NEW t \in Thread, PostReader(t) PROVE LedgerOutlives'
  <2>1. Listed' = Listed
    BY <1>15 DEF PostReader, Listed
  <2>2. /\ pc[t] = "release" /\ pc' = [pc EXCEPT ![t] = "recheck"]
        /\ UNCHANGED <<found, finished, reader, num_suspended, suspended_threads>>
    BY <1>15 DEF PostReader
  <2>3. pc \in [Thread -> Stages] /\ reader \in [Thread -> Thread]
    BY DEF TypeOK
  <2> QED
    BY <2>1, <2>2, <2>3 DEF LedgerOutlives
<1>16. ASSUME NEW t \in Thread, GiveUp(t) PROVE LedgerOutlives'
  <2>1. Listed' = Listed
    BY <1>16 DEF GiveUp, Listed
  <2> QED
    BY <1>16, <1>t, <2>1 DEF GiveUp, LedgerOutlives
<1>17. ASSUME NEW t \in Thread, KeepRest(t) PROVE LedgerOutlives'
  BY <1>17, <1>t, OutlivesUntouched DEF KeepRest
<1>18. ASSUME NEW t \in Thread, Suspend(t) PROVE LedgerOutlives'
  <2>1. /\ num_suspended \in 0 .. number_of_threads /\ number_of_threads \in Nat \ {0}
        /\ num_suspended' = num_suspended + 1
        /\ suspended_threads' = [suspended_threads EXCEPT ![num_suspended] = t]
        /\ suspended_threads \in [Thread -> Thread]
    BY <1>18, ThreadsAssumption DEF Suspend, TypeOK
  <2>2. t \notin Listed
    BY <1>18 DEF Suspend, LedgerOutlives
  <2>3. num_suspended # number_of_threads
    BY <2>2, FullMeansAll
  <2>4. num_suspended \in Thread
    BY <2>1, <2>3 DEF Thread
  <2>5. /\ \A i \in 0 .. num_suspended - 1 :
             i \in Thread /\ suspended_threads'[i] = suspended_threads[i]
        /\ suspended_threads'[num_suspended] = t
    BY <2>1, <2>3, <2>4 DEF Thread
  <2>6. Listed' = Listed \union {t}
    <3>1. 0 .. num_suspended' - 1 = (0 .. num_suspended - 1) \union {num_suspended}
      BY <2>1
    <3> QED
      BY <2>5, <3>1 DEF Listed
  <2>7. /\ pc[t] = "suspend"
        /\ pc' = [pc EXCEPT ![t] = IF num_suspended + 1 = number_of_threads
                                     THEN "declare" ELSE "wait"]
        /\ UNCHANGED <<found, finished, reader, restartSemaphore>>
    BY <1>18 DEF Suspend
  <2>8. pc \in [Thread -> Stages] /\ reader \in [Thread -> Thread]
    BY DEF TypeOK
  <2>9. ASSUME num_suspended + 1 = number_of_threads, NEW u \in Thread
        PROVE  ~ found[u]
    <3>1. suspended_threads' \in [Thread -> Thread]
      BY TypeStep DEF TypeOK
    <3>2. \A i, j \in Thread :
            suspended_threads'[i] = suspended_threads'[j] => i = j
      BY <2>1, <2>9, LedgerStep DEF SuspensionLedger, EnteredOnce, Thread
    <3>3. PICK i \in Thread : suspended_threads'[i] = u
      BY <3>1, <3>2, FullArray
    <3>4. u \in Listed'
      BY <2>1, <2>9, <3>3 DEF Listed, Thread
    <3> QED
      BY <2>6, <2>7, <3>4 DEF LedgerOutlives
  <2>10. num_suspended + 1 = number_of_threads => ~ finished
    BY <2>3, <2>9 DEF LedgerOutlives
  <2>11. suspended_threads'[num_suspended' - 1] = t
    BY <2>1, <2>5
  <2>12. ASSUME NEW u \in Thread PROVE pc[u] # "declare"
    BY <2>3 DEF LedgerOutlives
  <2> QED
    BY <2>1, <2>2, <2>3, <2>6, <2>7, <2>8, <2>10, <2>11, <2>12 DEF LedgerOutlives
<1>19. ASSUME NEW t \in Thread, DeclareComplete(t) PROVE LedgerOutlives'
  <2>1. Listed' = Listed
    BY <1>19 DEF DeclareComplete, Listed
  <2>2. /\ pc[t] = "declare" /\ pc' = [pc EXCEPT ![t] = "post"] /\ finished' = TRUE
        /\ UNCHANGED <<found, reader, num_suspended, suspended_threads>>
    BY <1>19 DEF DeclareComplete
  <2>3. ~ found[t] /\ num_suspended = number_of_threads
    BY <2>2 DEF LedgerOutlives
  <2>4. \A u \in Thread : pc[u] = "declare" => u = t
    BY <2>2 DEF LedgerOutlives
  <2>5. \A d \in Thread : pc[d] \in {"handover", "release"} => reader[d] # t
    BY <2>2 DEF LedgerOutlives
  <2> QED
    BY <1>t, <2>1, <2>2, <2>3, <2>4, <2>5 DEF LedgerOutlives
<1>20. ASSUME NEW t \in Thread, PostNext(t) PROVE LedgerOutlives'
  BY <1>20, OutlivesUntouched DEF PostNext
<1>21. ASSUME NEW t \in Thread, PostEnd(t) PROVE LedgerOutlives'
  <2>1. Listed' = Listed
    BY <1>21 DEF PostEnd, Listed
  <2>2. /\ pc[t] = "post"
        /\ pc' = [pc EXCEPT ![t] = IF found[t] THEN "swap" ELSE "done"]
        /\ UNCHANGED <<found, finished, reader, num_suspended, suspended_threads>>
    BY <1>21 DEF PostEnd
  <2>3. finished /\ \A d \in Thread : pc[d] \in {"handover", "release"} => reader[d] # t
    BY <2>2 DEF LedgerOutlives
  <2> QED
    BY <1>t, <2>1, <2>2, <2>3 DEF LedgerOutlives
<1>22. ASSUME NEW t \in Thread, SwapStack(t) PROVE LedgerOutlives'
  <2>1. Listed' = Listed
    BY <1>22 DEF SwapStack, Listed
  <2>2. /\ pc[t] = "swap" /\ pc' = [pc EXCEPT ![t] = "done"]
        /\ UNCHANGED <<found, finished, reader, num_suspended, suspended_threads>>
    BY <1>22 DEF SwapStack
  <2>3. finished
    BY <2>2 DEF LedgerOutlives
  <2> QED
    BY <1>t, <2>1, <2>2, <2>3 DEF LedgerOutlives
<1>23. ASSUME NEW t \in Thread, WakeFinished(t) PROVE LedgerOutlives'
  <2>1. Listed' = Listed
    BY <1>23 DEF WakeFinished, Listed
  <2> QED
    BY <1>23, <1>t, <2>1 DEF WakeFinished, LedgerOutlives
<1>24. ASSUME NEW t \in Thread, WakeRestart(t) PROVE LedgerOutlives'
  <2>1. Listed' = Listed
    BY <1>24 DEF WakeRestart, Listed
  <2>2. Accounted(t) /\ restartSemaphore[t] \in Nat /\ restartSemaphore[t] > 0
    BY <1>24 DEF WakeRestart, SuspensionLedger, TypeOK
  <2>3. t \notin Listed /\ ~ Promised(t)
    BY <2>2 DEF Accounted
  <2>4. /\ pc[t] = "wait" /\ pc' = [pc EXCEPT ![t] = "loop"]
        /\ UNCHANGED <<found, finished, reader, num_suspended, suspended_threads>>
    BY <1>24 DEF WakeRestart
  <2>5. pc \in [Thread -> Stages] /\ reader \in [Thread -> Thread]
    BY DEF TypeOK
  <2> QED
    BY <2>1, <2>3, <2>4, <2>5 DEF LedgerOutlives, Promised
<1>25. CASE Join
  BY <1>25, OutlivesUntouched DEF Join
<1>26. CASE UNCHANGED vars
  BY <1>26, OutlivesUntouched DEF vars
<1> QED
  BY <1>1, <1>2, <1>3, <1>4, <1>5, <1>6, <1>7, <1>8, <1>9, <1>10, <1>11,
     <1>12, <1>13, <1>14, <1>15, <1>16, <1>17, <1>18, <1>19, <1>20,
     <1>21, <1>22, <1>23, <1>24, <1>25, <1>26 DEF Next,
     threadedExploration, Returned

(***************************************************************************)
(* Every step preserves the fit of stack, marking and firelist.            *)
(***************************************************************************)

(* A thread nobody touches.                                                *)
LEMMA WorkUntouched ==
  ASSUME NEW u \in Thread, WorkFits(u), pc'[u] = pc[u], ns'[u] = ns[u],
         stack'[u] = stack[u], currentFirelist'[u] = currentFirelist[u],
         currentEntry'[u] = currentEntry[u]
  PROVE  WorkFits(u)'
<1>1. Candidate(u)' = Candidate(u) /\ Top(u)' = Top(u)
  BY DEF Candidate, Top
<1> QED
  BY <1>1 DEF WorkFits, ListFits

(* A thread that is past its search.                                       *)
LEMMA WorkOver ==
  ASSUME NEW u \in Thread, pc'[u] \in {"declare", "post", "swap", "done"}
  PROVE  WorkFits(u)'
BY DEF WorkFits

(* A thread that takes up a marking its stack leads to.                    *)
LEMMA WorkGrabbed ==
  ASSUME NEW u \in Thread, pc'[u] = "loop", ns'[u] \in Markings,
         LeadsTo(stack'[u], ns'[u]),
         currentFirelist'[u] = getFirelist(ns'[u]),
         currentEntry'[u] = Len(getFirelist(ns'[u]))
  PROVE  WorkFits(u)'
<1>1. getFirelist(ns'[u]) \in Seq(EnabledAt(ns'[u]))
      /\ Len(getFirelist(ns'[u])) \in Nat
  BY FirelistFits
<1>2. ListFits(u, ns[u], currentEntry[u])'
  BY <1>1 DEF ListFits
<1> QED
  BY <1>2 DEF WorkFits

LEMMA WorkStep ==
  ASSUME SearchInvariant, [Next]_vars
  PROVE  \A u \in Thread : WorkFits(u)'
<1> USE DEF SearchInvariant, Goto, local, shared, caller, LastSuspended,
            OthersSuspended
<1>t. /\ pc \in [Thread -> Stages] /\ ns \in [Thread -> Markings]
      /\ currentFirelist \in [Thread -> Seq(Transition)]
      /\ currentEntry \in [Thread -> Nat]
      /\ stack \in [Thread -> Seq(StackEntry)]
  BY DEF TypeOK
<1>1. ASSUME NEW t \in Thread, StartSatisfied(t), NEW u \in Thread PROVE WorkFits(u)'
  <2>1. CASE u # t
    BY <1>1, <1>t, <2>1, WorkUntouched DEF StartSatisfied, Win
  <2>2. CASE u = t
    BY <1>1, <1>t, <2>2, WorkOver DEF StartSatisfied, Win
  <2> QED
    BY <2>1, <2>2
<1>2. ASSUME NEW t \in Thread, StartSearch(t), NEW u \in Thread PROVE WorkFits(u)'
  <2>1. CASE u # t
    BY <1>2, <1>t, <2>1, WorkUntouched DEF StartSearch, GrabFirelist
  <2>2. CASE u = t
    <3> SUFFICES WorkFits(t)'
      BY <2>2
    <3>1. LeadsTo(stack[t], ns[t])
      BY <1>2, EmptyStackLeads DEF StartSearch, WorkFits
    <3> QED
      BY <1>2, <1>t, <3>1, WorkGrabbed DEF StartSearch, GrabFirelist
  <2> QED
    BY <2>1, <2>2
<1>3. ASSUME NEW t \in Thread, Abort(t), NEW u \in Thread PROVE WorkFits(u)'
  <2>1. CASE u # t
    BY <1>3, <1>t, <2>1, WorkUntouched DEF Abort
  <2>2. CASE u = t
    BY <1>3, <1>t, <2>2, WorkOver DEF Abort
  <2> QED
    BY <2>1, <2>2
<1>4. ASSUME NEW t \in Thread, NextEntry(t), NEW u \in Thread PROVE WorkFits(u)'
  <2>1. CASE u # t
    BY <1>4, <1>t, <2>1, WorkUntouched DEF NextEntry
  <2>2. CASE u = t
    <3> SUFFICES WorkFits(t)'
      BY <2>2
    <3>1. LeadsTo(stack[t], ns[t]) /\ ListFits(t, ns[t], currentEntry[t])
      BY <1>4 DEF NextEntry, WorkFits
    <3>2. currentEntry'[t] + 1 = currentEntry[t] /\ pc'[t] = "fire"
      BY <1>4, <1>t DEF NextEntry
    <3>3. ListFits(t, ns[t], currentEntry[t] + 1)'
      BY <1>4, <3>1, <3>2 DEF NextEntry, ListFits
    <3> QED
      BY <1>4, <3>1, <3>2, <3>3 DEF NextEntry, WorkFits
  <2> QED
    BY <2>1, <2>2
<1>5. ASSUME NEW t \in Thread, Backtrack(t), NEW u \in Thread PROVE WorkFits(u)'
  <2>1. CASE u # t
    BY <1>5, <1>t, <2>1, WorkUntouched DEF Backtrack
  <2>2. CASE u = t
    <3> SUFFICES WorkFits(t)'
      BY <2>2
    <3>1. LeadsTo(stack[t], ns[t]) /\ stack[t] # <<>>
      BY <1>5 DEF Backtrack, WorkFits
    <3>2. /\ ns'[t] = Backfire(ns[t], Fired(Top(t))) /\ stack'[t] = Pop(t)
          /\ currentFirelist'[t] = Top(t).fl /\ currentEntry'[t] = Top(t).current
          /\ pc'[t] = "loop"
      BY <1>5, <1>t DEF Backtrack
    <3>3. /\ LeadsTo(Pop(t), ns'[t])
          /\ Top(t).fl \in Seq(EnabledAt(ns'[t]))
          /\ Top(t).current \in Nat /\ Top(t).current < Len(Top(t).fl)
      BY <3>1, <3>2, AtStepBack
    <3>4. ListFits(t, ns[t], currentEntry[t])'
      BY <3>2, <3>3 DEF ListFits
    <3> QED
      BY <3>2, <3>3, <3>4 DEF WorkFits
  <2> QED
    BY <2>1, <2>2
<1>6. ASSUME NEW t \in Thread, RunDry(t), NEW u \in Thread PROVE WorkFits(u)'
  <2>1. CASE u # t
    BY <1>6, <1>t, <2>1, WorkUntouched DEF RunDry
  <2>2. CASE u = t
    <3> SUFFICES WorkFits(t)'
      BY <2>2
    <3> QED
      BY <1>6, <1>t DEF RunDry, WorkFits
  <2> QED
    BY <2>1, <2>2
<1>7. ASSUME NEW t \in Thread, FireKnown(t), NEW u \in Thread PROVE WorkFits(u)'
  <2>1. CASE u # t
    BY <1>7, <1>t, <2>1, WorkUntouched DEF FireKnown
  <2>2. CASE u = t
    <3> SUFFICES WorkFits(t)'
      BY <2>2
    <3>1. ns'[t] = ns[t] /\ pc'[t] = "loop"
      BY <1>7, <1>t, AtFire DEF FireKnown, NextMarking
    <3>2. LeadsTo(stack[t], ns[t]) /\ ListFits(t, ns[t], currentEntry[t] + 1)
      BY <1>7 DEF FireKnown, WorkFits
    <3>3. ListFits(t, ns[t], currentEntry[t])'
      BY <1>7, <1>t, <3>1, <3>2 DEF FireKnown, ListFits
    <3> QED
      BY <1>7, <3>1, <3>2, <3>3 DEF FireKnown, WorkFits
  <2> QED
    BY <2>1, <2>2
<1>8. ASSUME NEW t \in Thread, FireNew(t), NEW u \in Thread PROVE WorkFits(u)'
  <2>1. CASE u # t
    BY <1>8, <1>t, <2>1, WorkUntouched DEF FireNew
  <2>2. CASE u = t
    <3> SUFFICES WorkFits(t)'
      BY <2>2
    <3>1. ns'[t] = Fire(ns[t], Candidate(t)) /\ pc'[t] = "check"
      BY <1>8, <1>t DEF FireNew, NextMarking
    <3>2. LeadsTo(stack[t], ns[t]) /\ ListFits(t, ns[t], currentEntry[t] + 1)
      BY <1>8 DEF FireNew, WorkFits
    <3>3. \E m \in Markings :
            /\ LeadsTo(stack'[t], m)
            /\ currentFirelist'[t] \in Seq(EnabledAt(m))
            /\ currentEntry'[t] + 1 <= Len(currentFirelist'[t])
            /\ ns'[t] = Fire(m, currentFirelist'[t][currentEntry'[t] + 1])
      BY <1>8, <1>t, <3>1, <3>2 DEF FireNew, ListFits, Candidate
    <3> QED
      BY <3>1, <3>3 DEF WorkFits, ListFits, Candidate
  <2> QED
    BY <2>1, <2>2
<1>9. ASSUME NEW t \in Thread, CheckSatisfied(t), NEW u \in Thread PROVE WorkFits(u)'
  <2>1. CASE u # t
    BY <1>9, <1>t, <2>1, WorkUntouched DEF CheckSatisfied, Win
  <2>2. CASE u = t
    BY <1>9, <1>t, <2>2, WorkOver DEF CheckSatisfied, Win
  <2> QED
    BY <2>1, <2>2
<1>10. ASSUME NEW t \in Thread, CheckSpare(t), NEW u \in Thread PROVE WorkFits(u)'
  <2>1. CASE u # t
    BY <1>10, <1>t, <2>1, WorkUntouched DEF CheckSpare, PushCurrent
  <2>2. CASE u = t
    <3> SUFFICES WorkFits(t)'
      BY <2>2
    <3> DEFINE e == [fl |-> currentFirelist[t], current |-> currentEntry[t]]
    <3>1. e \in StackEntry /\ LeadsTo(Append(stack[t], e), ns[t])
      BY <1>10, AtCheck DEF CheckSpare
    <3>2. stack'[t] = Append(stack[t], e) /\ pc'[t] = "trylock"
      BY <1>10, <1>t DEF CheckSpare, PushCurrent
    <3>3. stack'[t] # <<>> /\ Top(t)' = e
      <4>1. stack[t] \in Seq(StackEntry)
        BY <1>t
      <4> HIDE DEF e
      <4>2. Append(stack[t], e) # <<>>
            /\ Append(stack[t], e)[Len(Append(stack[t], e))] = e
        BY <3>1, <4>1
      <4> QED
        BY <3>2, <4>2 DEF Top
    <3> QED
      BY <1>10, <3>1, <3>2, <3>3 DEF CheckSpare, WorkFits
  <2> QED
    BY <2>1, <2>2
<1>11. ASSUME NEW t \in Thread, CheckDescend(t), NEW u \in Thread PROVE WorkFits(u)'
  <2>1. CASE u # t
    BY <1>11, <1>t, <2>1, WorkUntouched DEF CheckDescend, GrabFirelist, PushCurrent
  <2>2. CASE u = t
    <3> SUFFICES WorkFits(t)'
      BY <2>2
    <3> DEFINE e == [fl |-> currentFirelist[t], current |-> currentEntry[t]]
    <3>1. e \in StackEntry /\ LeadsTo(Append(stack[t], e), ns[t])
      BY <1>11, AtCheck DEF CheckDescend
    <3>2. stack'[t] = Append(stack[t], e) /\ pc'[t] = "loop"
      BY <1>11, <1>t DEF CheckDescend, PushCurrent
    <3> QED
      BY <1>11, <1>t, <3>1, <3>2, WorkGrabbed DEF CheckDescend, GrabFirelist
  <2> QED
    BY <2>1, <2>2
<1>12. ASSUME NEW t \in Thread, NoReader(t), NEW u \in Thread PROVE WorkFits(u)'
  <2>1. CASE u # t
    BY <1>12, <1>t, <2>1, WorkUntouched DEF NoReader, GrabFirelist
  <2>2. CASE u = t
    <3> SUFFICES WorkFits(t)'
      BY <2>2
    <3>1. LeadsTo(stack[t], ns[t])
      BY <1>12 DEF NoReader, WorkFits
    <3> QED
      BY <1>12, <1>t, <3>1, WorkGrabbed DEF NoReader, GrabFirelist
  <2> QED
    BY <2>1, <2>2
<1>13. ASSUME NEW t \in Thread, TakeReader(t), NEW u \in Thread PROVE WorkFits(u)'
  <2>1. CASE u # t
    BY <1>13, <1>t, <2>1, WorkUntouched DEF TakeReader
  <2>2. CASE u = t
    <3> SUFFICES WorkFits(t)'
      BY <2>2
    <3>1. pc'[t] = "handover" /\ Top(t)' = Top(t)
      BY <1>13, <1>t DEF TakeReader, Top
    <3> QED
      BY <1>13, <3>1 DEF TakeReader, WorkFits
  <2> QED
    BY <2>1, <2>2
<1>14. ASSUME NEW t \in Thread, CopyToReader(t), NEW u \in Thread PROVE WorkFits(u)'
  <2> DEFINE r == reader[t]
  <2>1. r \in Thread /\ pc[r] \in {"wait", "done"} /\ r # t
    BY <1>14 DEF CopyToReader, LedgerOutlives, TypeOK
  <2>2. /\ pc' = [pc EXCEPT ![t] = "release"]
        /\ stack' = [stack EXCEPT ![r] = CopyStack(stack[t])]
        /\ ns' = [ns EXCEPT ![r] = ns[t]]
        /\ UNCHANGED <<currentFirelist, currentEntry>>
    BY <1>14 DEF CopyToReader
  <2>3. LeadsTo(stack[t], ns[t])
    BY <1>14 DEF CopyToReader, WorkFits
  <2> HIDE DEF r
  <2>4. CASE u = r
    <3>1. pc'[u] = pc[u] /\ stack'[u] = CopyStack(stack[t]) /\ ns'[u] = ns[t]
      BY <1>t, <2>1, <2>2, <2>4
    <3>2. LeadsTo(stack'[u], ns'[u])
      BY <1>t, <2>3, <3>1, CopyLeads
    <3> QED
      BY <2>1, <2>4, <3>1, <3>2 DEF WorkFits
  <2>5. CASE u = t
    <3>1. pc'[u] = "release" /\ stack'[u] = stack[u] /\ ns'[u] = ns[u]
      BY <1>t, <2>1, <2>2, <2>5
    <3>2. Top(u)' = Top(u)
      BY <3>1 DEF Top
    <3> QED
      BY <1>14, <2>2, <2>5, <3>1, <3>2 DEF CopyToReader, WorkFits
  <2>6. CASE u # r /\ u # t
    BY <1>t, <2>2, <2>6, WorkUntouched
  <2> QED
    BY <2>4, <2>5, <2>6
<1>15. ASSUME NEW t \in Thread, PostReader(t), NEW u \in Thread PROVE WorkFits(u)'
  <2>1. CASE u # t
    BY <1>15, <1>t, <2>1, WorkUntouched DEF PostReader
  <2>2. CASE u = t
    <3> SUFFICES WorkFits(t)'
      BY <2>2
    <3>1. pc'[t] = "recheck" /\ Top(t)' = Top(t)
      BY <1>15, <1>t DEF PostReader, Top
    <3> QED
      BY <1>15, <3>1 DEF PostReader, WorkFits
  <2> QED
    BY <2>1, <2>2
<1>16. ASSUME NEW t \in Thread, GiveUp(t), NEW u \in Thread PROVE WorkFits(u)'
  <2>1. CASE u # t
    BY <1>16, <1>t, <2>1, WorkUntouched DEF GiveUp
  <2>2. CASE u = t
    BY <1>16, <1>t, <2>2, WorkOver DEF GiveUp
  <2> QED
    BY <2>1, <2>2
<1>17. ASSUME NEW t \in Thread, KeepRest(t), NEW u \in Thread PROVE WorkFits(u)'
  <2>1. CASE u # t
    BY <1>17, <1>t, <2>1, WorkUntouched DEF KeepRest
  <2>2. CASE u = t
    <3> SUFFICES WorkFits(t)'
      BY <2>2
    <3>1. ns'[t] = Backfire(ns[t], Candidate(t)) /\ stack'[t] = Pop(t) /\ pc'[t] = "loop"
      BY <1>17, <1>t DEF KeepRest
    <3>2. LeadsTo(Pop(t), ns'[t]) /\ ListFits(t, ns'[t], currentEntry[t])
      BY <1>17, <3>1, AtRecheck DEF KeepRest
    <3>3. ListFits(t, ns[t], currentEntry[t])'
      BY <1>17, <3>2 DEF KeepRest, ListFits
    <3> QED
      BY <3>1, <3>2, <3>3 DEF WorkFits
  <2> QED
    BY <2>1, <2>2
<1>18. ASSUME NEW t \in Thread, Suspend(t), NEW u \in Thread PROVE WorkFits(u)'
  <2>1. CASE u # t
    BY <1>18, <1>t, <2>1, WorkUntouched DEF Suspend
  <2>2. CASE u = t
    <3> SUFFICES WorkFits(t)'
      BY <2>2
    <3> QED
      BY <1>18, <1>t DEF Suspend, WorkFits
  <2> QED
    BY <2>1, <2>2
<1>19. ASSUME NEW t \in Thread, DeclareComplete(t), NEW u \in Thread PROVE WorkFits(u)'
  <2>1. CASE u # t
    BY <1>19, <1>t, <2>1, WorkUntouched DEF DeclareComplete
  <2>2. CASE u = t
    BY <1>19, <1>t, <2>2, WorkOver DEF DeclareComplete
  <2> QED
    BY <2>1, <2>2
<1>20. ASSUME NEW t \in Thread, PostNext(t), NEW u \in Thread PROVE WorkFits(u)'
  <2>1. CASE u # t
    BY <1>20, <1>t, <2>1, WorkUntouched DEF PostNext
  <2>2. CASE u = t
    BY <1>20, <2>2, WorkOver DEF PostNext
  <2> QED
    BY <2>1, <2>2
<1>21. ASSUME NEW t \in Thread, PostEnd(t), NEW u \in Thread PROVE WorkFits(u)'
  <2>1. CASE u # t
    BY <1>21, <1>t, <2>1, WorkUntouched DEF PostEnd
  <2>2. CASE u = t
    BY <1>21, <1>t, <2>2, WorkOver DEF PostEnd
  <2> QED
    BY <2>1, <2>2
<1>22. ASSUME NEW t \in Thread, SwapStack(t), NEW u \in Thread PROVE WorkFits(u)'
  <2>1. CASE u # t
    BY <1>22, <1>t, <2>1, WorkUntouched DEF SwapStack
  <2>2. CASE u = t
    BY <1>22, <1>t, <2>2, WorkOver DEF SwapStack
  <2> QED
    BY <2>1, <2>2
<1>23. ASSUME NEW t \in Thread, WakeFinished(t), NEW u \in Thread PROVE WorkFits(u)'
  <2>1. CASE u # t
    BY <1>23, <1>t, <2>1, WorkUntouched DEF WakeFinished
  <2>2. CASE u = t
    BY <1>23, <1>t, <2>2, WorkOver DEF WakeFinished
  <2> QED
    BY <2>1, <2>2
<1>24. ASSUME NEW t \in Thread, WakeRestart(t), NEW u \in Thread PROVE WorkFits(u)'
  <2>1. CASE u # t
    BY <1>24, <1>t, <2>1, WorkUntouched DEF WakeRestart, GrabFirelist
  <2>2. CASE u = t
    <3> SUFFICES WorkFits(t)'
      BY <2>2
    <3>1. LeadsTo(stack[t], ns[t])
      BY <1>24 DEF WakeRestart, WorkFits
    <3> QED
      BY <1>24, <1>t, <3>1, WorkGrabbed DEF WakeRestart, GrabFirelist
  <2> QED
    BY <2>1, <2>2
<1>25. ASSUME Join, NEW u \in Thread PROVE WorkFits(u)'
  BY <1>25, WorkUntouched DEF Join
<1>26. ASSUME UNCHANGED vars, NEW u \in Thread PROVE WorkFits(u)'
  BY <1>26, WorkUntouched DEF vars
<1> QED
  BY <1>1, <1>2, <1>3, <1>4, <1>5, <1>6, <1>7, <1>8, <1>9, <1>10, <1>11,
     <1>12, <1>13, <1>14, <1>15, <1>16, <1>17, <1>18, <1>19, <1>20,
     <1>21, <1>22, <1>23, <1>24, <1>25, <1>26 DEF Next,
     threadedExploration, Returned

(* The copy of a stack runs along the same markings.                       *)
LEMMA CopyReplay ==
  ASSUME NEW s \in Seq(StackEntry), NEW m, LeadsTo(s, m),
         NEW c, c = CopyStack(s)
  PROVE  /\ c \in Seq(StackEntry) /\ Len(c) = Len(s)
         /\ \A k \in 1 .. Len(s) :
              /\ c[k].current = s[k].current
              /\ Len(c[k].fl) <= Len(s[k].fl)
              /\ s[k].current < Len(c[k].fl)
              /\ \A i \in 1 .. Len(c[k].fl) : c[k].fl[i] = s[k].fl[i]
         /\ \A k \in 0 .. Len(s) : Replay(c)[k] = Replay(s)[k]
<1>1. c \in Seq(StackEntry) /\ Len(c) = Len(s) /\ Len(s) \in Nat
  <2>1. c \in Seq(StackEntry)
    BY CopyLeads
  <2> QED
    BY <2>1 DEF CopyStack
<1>2. ASSUME NEW k \in 1 .. Len(s)
      PROVE  /\ c[k].current = s[k].current
             /\ Len(c[k].fl) <= Len(s[k].fl)
             /\ s[k].current < Len(c[k].fl)
             /\ \A i \in 1 .. Len(c[k].fl) : c[k].fl[i] = s[k].fl[i]
             /\ Fired(c[k]) = Fired(s[k])
  <2>1. c[k] = CopyEntry(s[k])
    BY DEF CopyStack
  <2>2. s[k] \in StackEntry /\ s[k].current < Len(s[k].fl)
    BY DEF LeadsTo
  <2>3. PICK fl \in Seq(Transition), n \in Nat : s[k] = [fl |-> fl, current |-> n]
    BY <2>2 DEF StackEntry
  <2>4. n < Len(fl) /\ c[k] = [fl |-> SubSeq(fl, 1, n + 1), current |-> n]
    BY <2>1, <2>2, <2>3 DEF CopyEntry
  <2> DEFINE g == SubSeq(fl, 1, n + 1)
  <2>5. Len(g) = n + 1 /\ \A i \in 1 .. n + 1 : g[i] = fl[i]
    BY <2>4
  <2> HIDE DEF g
  <2>6. c[k].fl = g /\ c[k].current = n /\ s[k].fl = fl /\ s[k].current = n
    BY <2>3, <2>4 DEF g
  <2>7. Len(fl) \in Nat
    OBVIOUS
  <2> QED
    BY <2>4, <2>5, <2>6, <2>7 DEF Fired
<1>3. \A k \in 0 .. Len(s) : Replay(c)[k] = Replay(s)[k]
  BY <1>1, <1>2, SameReplay
<1> QED
  BY <1>1, <1>2, <1>3

(***************************************************************************)
(* What is on a stack.                                                     *)
(***************************************************************************)

(* What the entries of a stack have left to fire in m.                     *)
LEMMA InOnStack ==
  ASSUME NEW s, NEW m, NEW a
  PROVE  a \in OnStack(s, m) <=>
           \E k \in 1 .. Len(s) :
             Replay(s)[k-1] = m /\ \E i \in 1 .. s[k].current : a = s[k].fl[i]
BY DEF OnStack

LEMMA EmptyOnStack == \A m : OnStack(<<>>, m) = {}
BY DEF OnStack

LEMMA PushOnStack ==
  ASSUME NEW s \in Seq(StackEntry), NEW e \in StackEntry, NEW m, NEW a
  PROVE  a \in OnStack(Append(s, e), m) <=>
           \/ a \in OnStack(s, m)
           \/ EndOf(s) = m /\ \E i \in 1 .. e.current : a = e.fl[i]
<1> DEFINE r == Append(s, e)
<1>1. /\ Len(s) \in Nat /\ Len(r) = Len(s) + 1 /\ r[Len(s) + 1] = e
      /\ \A k \in 1 .. Len(s) : r[k] = s[k]
      /\ \A k \in 0 .. Len(s) : Replay(r)[k] = Replay(s)[k]
  BY PushReplay
<1> HIDE DEF r
<1> DEFINE Left(k) ==
      Replay(r)[k-1] = m /\ \E i \in 1 .. r[k].current : a = r[k].fl[i]
<1>2. a \in OnStack(r, m) <=> \E k \in 1 .. Len(r) : Left(k)
  BY DEF OnStack
<1>3. a \in OnStack(s, m) <=> \E k \in 1 .. Len(s) : Left(k)
  <2>1. \A k \in 1 .. Len(s) : r[k] = s[k] /\ Replay(r)[k-1] = Replay(s)[k-1]
    BY <1>1
  <2> QED
    BY <2>1, InOnStack
<1>4. Left(Len(r)) <=> EndOf(s) = m /\ \E i \in 1 .. e.current : a = e.fl[i]
  <2>1. r[Len(r)] = e /\ Replay(r)[Len(r) - 1] = EndOf(s)
    BY <1>1 DEF EndOf
  <2> QED
    BY <2>1
<1> HIDE DEF Left
<1>5. (\E k \in 1 .. Len(r) : Left(k)) <=> (\E k \in 1 .. Len(s) : Left(k)) \/ Left(Len(r))
  <2>1. 1 .. Len(r) = 1 .. Len(s) \union {Len(r)}
    BY <1>1
  <2> QED
    BY <2>1
<1> QED
  BY <1>2, <1>3, <1>4, <1>5 DEF r

LEMMA CopyOnStack ==
  ASSUME NEW s \in Seq(StackEntry), NEW l, LeadsTo(s, l), NEW m
  PROVE  OnStack(CopyStack(s), m) = OnStack(s, m)
<1> DEFINE c == CopyStack(s)
<1>1. /\ Len(c) = Len(s) /\ Len(s) \in Nat
      /\ \A k \in 1 .. Len(s) :
           /\ c[k].current = s[k].current
           /\ s[k].current < Len(c[k].fl)
           /\ \A i \in 1 .. Len(c[k].fl) : c[k].fl[i] = s[k].fl[i]
      /\ \A k \in 0 .. Len(s) : Replay(c)[k] = Replay(s)[k]
      /\ c \in Seq(StackEntry)
  BY CopyReplay
<1> HIDE DEF c
<1>2. ASSUME NEW k \in 1 .. Len(s)
      PROVE  /\ Replay(c)[k-1] = Replay(s)[k-1]
             /\ c[k].current = s[k].current
             /\ \A i \in 1 .. s[k].current : c[k].fl[i] = s[k].fl[i]
  <2>1. k - 1 \in 0 .. Len(s)
    BY <1>1
  <2>2. s[k].current \in Nat /\ Len(c[k].fl) \in Nat
    <3>1. s[k] \in StackEntry /\ c[k] \in StackEntry
      BY <1>1
    <3> QED
      BY <3>1 DEF StackEntry
  <2> QED
    BY <1>1, <2>1, <2>2
<1>3. ASSUME NEW a
      PROVE  a \in OnStack(c, m) <=> a \in OnStack(s, m)
  <2> DEFINE InCopy(k) ==
        Replay(c)[k-1] = m /\ \E i \in 1 .. c[k].current : a = c[k].fl[i]
  <2> DEFINE InStack(k) ==
        Replay(s)[k-1] = m /\ \E i \in 1 .. s[k].current : a = s[k].fl[i]
  <2>1. \A k \in 1 .. Len(s) : InCopy(k) <=> InStack(k)
    BY <1>2
  <2>2. a \in OnStack(c, m) <=> \E k \in 1 .. Len(c) : InCopy(k)
    BY DEF OnStack
  <2>3. a \in OnStack(s, m) <=> \E k \in 1 .. Len(s) : InStack(k)
    BY DEF OnStack
  <2> HIDE DEF InCopy, InStack
  <2> QED
    BY <1>1, <2>1, <2>2, <2>3
<1> QED
  BY <1>3 DEF c

(* Stacks on record.                                                       *)
LEMMA RecordGrows ==
  ASSUME NEW s, NEW S, NEW T, S \subseteq T, OnRecord(s, S)
  PROVE  OnRecord(s, T)
BY DEF OnRecord

LEMMA RecordEmpty ==
  ASSUME NEW S, InitialMarking \in S
  PROVE  OnRecord(<<>>, S)
<1>1. Replay(<<>>)[0] = InitialMarking
  BY ReplaySteps
<1> QED
  BY <1>1 DEF OnRecord

LEMMA RecordPush ==
  ASSUME NEW s \in Seq(StackEntry), NEW e \in StackEntry, NEW S, OnRecord(s, S),
         \A i \in 1 .. Len(e.fl) : e.fl[i] \in Proposed(EndOf(s)),
         Fire(EndOf(s), Fired(e)) \in S
  PROVE  OnRecord(Append(s, e), S)
<1> DEFINE r == Append(s, e)
<1>1. /\ Len(s) \in Nat /\ Len(r) = Len(s) + 1 /\ r[Len(s) + 1] = e
      /\ \A k \in 1 .. Len(s) : r[k] = s[k]
      /\ \A k \in 0 .. Len(s) : Replay(r)[k] = Replay(s)[k]
      /\ EndOf(r) = Fire(EndOf(s), Fired(e))
  BY PushReplay
<1> HIDE DEF r
<1>2. \A k \in 0 .. Len(r) : Replay(r)[k] \in S
  BY <1>1 DEF OnRecord, EndOf
<1>3. ASSUME NEW k \in 1 .. Len(r), NEW i \in 1 .. Len(r[k].fl)
      PROVE  r[k].fl[i] \in Proposed(Replay(r)[k-1])
  <2>1. CASE k = Len(s) + 1
    <3>1. r[k] = e /\ Replay(r)[k-1] = EndOf(s)
      BY <1>1, <2>1 DEF EndOf
    <3> QED
      BY <3>1, <1>3
  <2>2. CASE k \in 1 .. Len(s)
    <3>1. r[k] = s[k] /\ Replay(r)[k-1] = Replay(s)[k-1]
      BY <1>1, <2>2
    <3> QED
      BY <3>1, <2>2, <1>3 DEF OnRecord
  <2> QED
    BY <1>1, <2>1, <2>2
<1>4. OnRecord(r, S)
  BY <1>2, <1>3 DEF OnRecord
<1> QED
  BY <1>4 DEF r

LEMMA RecordPop ==
  ASSUME NEW s \in Seq(StackEntry), NEW e \in StackEntry,
         NEW S, OnRecord(Append(s, e), S)
  PROVE  /\ OnRecord(s, S)
         /\ EndOf(s) \in S
         /\ \A i \in 1 .. Len(e.fl) : e.fl[i] \in Proposed(EndOf(s))
<1> DEFINE r == Append(s, e)
<1>1. /\ Len(s) \in Nat /\ Len(r) = Len(s) + 1 /\ r[Len(s) + 1] = e
      /\ \A k \in 1 .. Len(s) : r[k] = s[k]
      /\ \A k \in 0 .. Len(s) : Replay(r)[k] = Replay(s)[k]
  BY PushReplay
<1>2. OnRecord(r, S)
  OBVIOUS
<1> HIDE DEF r
<1>3. \A k \in 0 .. Len(s) : Replay(s)[k] \in S
  BY <1>1, <1>2 DEF OnRecord
<1>4. ASSUME NEW k \in 1 .. Len(s), NEW i \in 1 .. Len(s[k].fl)
      PROVE  s[k].fl[i] \in Proposed(Replay(s)[k-1])
  <2>1. k \in 1 .. Len(r) /\ r[k] = s[k] /\ Replay(r)[k-1] = Replay(s)[k-1]
    BY <1>1
  <2> QED
    BY <2>1, <1>2, <1>4 DEF OnRecord
<1>5. \A i \in 1 .. Len(e.fl) : e.fl[i] \in Proposed(EndOf(s))
  <2>1. Len(r) \in 1 .. Len(r) /\ r[Len(r)] = e /\ Replay(r)[Len(r) - 1] = EndOf(s)
    BY <1>1 DEF EndOf
  <2> QED
    BY <2>1, <1>2 DEF OnRecord
<1> QED
  BY <1>1, <1>3, <1>4, <1>5 DEF OnRecord, EndOf

LEMMA RecordCopy ==
  ASSUME NEW s \in Seq(StackEntry), NEW l, LeadsTo(s, l), NEW S, OnRecord(s, S)
  PROVE  OnRecord(CopyStack(s), S)
<1> DEFINE c == CopyStack(s)
<1>1. /\ Len(c) = Len(s) /\ Len(s) \in Nat
      /\ \A k \in 1 .. Len(s) :
           /\ Len(c[k].fl) <= Len(s[k].fl)
           /\ \A i \in 1 .. Len(c[k].fl) : c[k].fl[i] = s[k].fl[i]
      /\ \A k \in 0 .. Len(s) : Replay(c)[k] = Replay(s)[k]
      /\ c \in Seq(StackEntry)
  BY CopyReplay
<1> HIDE DEF c
<1>2. ASSUME NEW k \in 1 .. Len(s), NEW i \in 1 .. Len(c[k].fl)
      PROVE  c[k].fl[i] \in Proposed(Replay(c)[k-1])
  <2>1. s[k] \in StackEntry /\ c[k] \in StackEntry
    BY <1>1
  <2>2. Len(s[k].fl) \in Nat /\ Len(c[k].fl) \in Nat
    BY <2>1 DEF StackEntry
  <2>3. i \in 1 .. Len(s[k].fl) /\ c[k].fl[i] = s[k].fl[i]
        /\ Replay(c)[k-1] = Replay(s)[k-1]
    BY <1>1, <1>2, <2>2
  <2> QED
    BY <2>3 DEF OnRecord
<1>3. \A k \in 0 .. Len(c) : Replay(c)[k] \in S
  BY <1>1 DEF OnRecord
<1>4. OnRecord(c, S)
  BY <1>1, <1>2, <1>3 DEF OnRecord
<1> QED
  BY <1>4 DEF c

(***************************************************************************)
(* What a step of one thread leaves alone.                                 *)
(***************************************************************************)

(* A step of thread t leaves the others alone, except that a handover      *)
(* fills the slots of the thread it was promised to.                       *)
LEMMA OthersStay ==
  ASSUME TypeOK, NEW t \in Thread, threadedExploration(t), NEW u \in Thread, u # t
  PROVE  /\ pc'[u] = pc[u] /\ found'[u] = found[u]
         /\ currentFirelist'[u] = currentFirelist[u]
         /\ currentEntry'[u] = currentEntry[u]
         /\ pc[t] # "handover" \/ u # reader[t] =>
              ns'[u] = ns[u] /\ stack'[u] = stack[u]
<1>1. /\ pc \in [Thread -> Stages] /\ ns \in [Thread -> Markings]
      /\ currentFirelist \in [Thread -> Seq(Transition)]
      /\ currentEntry \in [Thread -> Nat]
      /\ stack \in [Thread -> Seq(StackEntry)]
      /\ found \in [Thread -> BOOLEAN]
  BY DEF TypeOK
<1> USE <1>1 DEF Goto, local, shared, caller
<1>2. CASE StartSatisfied(t) \/ StartSearch(t) \/ Abort(t) \/ NextEntry(t)
           \/ Backtrack(t) \/ RunDry(t) \/ FireKnown(t) \/ FireNew(t)
  BY <1>2 DEF StartSatisfied, Win, StartSearch, GrabFirelist, Abort, NextEntry,
     Backtrack, RunDry, FireKnown, FireNew
<1>3. CASE CheckSatisfied(t) \/ CheckSpare(t) \/ CheckDescend(t)
           \/ NoReader(t) \/ TakeReader(t) \/ CopyToReader(t) \/ PostReader(t)
  BY <1>3 DEF CheckSatisfied, Win, CheckSpare, CheckDescend, PushCurrent,
     GrabFirelist, NoReader, TakeReader, CopyToReader, PostReader
<1>4. CASE GiveUp(t) \/ KeepRest(t) \/ Suspend(t) \/ DeclareComplete(t)
           \/ PostNext(t) \/ PostEnd(t) \/ SwapStack(t)
           \/ WakeFinished(t) \/ WakeRestart(t)
  BY <1>4 DEF GiveUp, KeepRest, Suspend, DeclareComplete, PostNext, PostEnd,
     SwapStack, WakeFinished, WakeRestart, GrabFirelist
<1> QED
  BY <1>2, <1>3, <1>4 DEF threadedExploration

(* Markings are inserted before the first round and by fire only, and only *)
(* the steps of fire and of the beginning change what is found.            *)
LEMMA StoreStays ==
  ASSUME TypeOK, NEW t \in Thread, threadedExploration(t)
  PROVE  /\ property' = property
         /\ \/ store' = store
            \/ StartSearch(t) /\ store' = store \union {ns[t]}
            \/ FireNew(t) /\ store' = store \union {NextMarking(t)}
<1> USE DEF Goto, local, shared, caller
<1>2. CASE StartSatisfied(t) \/ StartSearch(t) \/ Abort(t) \/ NextEntry(t)
           \/ Backtrack(t) \/ RunDry(t) \/ FireKnown(t) \/ FireNew(t)
  BY <1>2 DEF StartSatisfied, Win, StartSearch, GrabFirelist, Abort, NextEntry,
     Backtrack, RunDry, FireKnown, FireNew
<1>3. CASE CheckSatisfied(t) \/ CheckSpare(t) \/ CheckDescend(t)
           \/ NoReader(t) \/ TakeReader(t) \/ CopyToReader(t) \/ PostReader(t)
  BY <1>3 DEF CheckSatisfied, Win, CheckSpare, CheckDescend, PushCurrent,
     GrabFirelist, NoReader, TakeReader, CopyToReader, PostReader
<1>4. CASE GiveUp(t) \/ KeepRest(t) \/ Suspend(t) \/ DeclareComplete(t)
           \/ PostNext(t) \/ PostEnd(t) \/ SwapStack(t)
           \/ WakeFinished(t) \/ WakeRestart(t)
  BY <1>4 DEF GiveUp, KeepRest, Suspend, DeclareComplete, PostNext, PostEnd,
     SwapStack, WakeFinished, WakeRestart, GrabFirelist
<1> QED
  BY <1>2, <1>3, <1>4 DEF threadedExploration

(***************************************************************************)
(* Every step keeps the record of what the threads work on.                *)
(***************************************************************************)

(* Where a thread holds work of its own: its stack leads to its marking.   *)
LEMMA EndsHere ==
  ASSUME SearchInvariant, NEW t \in Thread,
         pc[t] \in {"loop", "fire", "trylock", "handover", "release",
                    "recheck", "suspend", "wait"}
  PROVE  EndOf(stack[t]) = ns[t]
<1>1. stack[t] \in Seq(StackEntry) /\ LeadsTo(stack[t], ns[t])
  BY DEF SearchInvariant, TypeOK, WorkFits
<1> QED
  BY <1>1, LeadsToEnd

(* The entry a thread pushes.                                              *)
EntryOf(t) == [fl |-> currentFirelist[t], current |-> currentEntry[t]]

LEMMA EntryPushed ==
  ASSUME SearchInvariant, NEW t \in Thread, pc[t] = "check"
  PROVE  /\ EntryOf(t) \in StackEntry
         /\ EntryOf(t).fl = currentFirelist[t]
         /\ EntryOf(t).current = currentEntry[t]
         /\ Append(stack[t], EntryOf(t)) \in Seq(StackEntry)
         /\ Fire(EndOf(stack[t]), Fired(EntryOf(t))) = ns[t]
         /\ EndOf(Append(stack[t], EntryOf(t))) = ns[t]
<1>1. TypeOK /\ WorkFits(t) /\ stack[t] \in Seq(StackEntry)
  BY DEF SearchInvariant, TypeOK
<1>2. EntryOf(t) \in StackEntry /\ LeadsTo(Append(stack[t], EntryOf(t)), ns[t])
  BY <1>1, AtCheck DEF EntryOf
<1>3. Append(stack[t], EntryOf(t)) \in Seq(StackEntry)
  BY <1>1, <1>2
<1>4. EndOf(Append(stack[t], EntryOf(t))) = ns[t]
  BY <1>2, <1>3, LeadsToEnd
<1>5. Fire(EndOf(stack[t]), Fired(EntryOf(t))) = ns[t]
  BY <1>1, <1>2, <1>4, PushEnd
<1> QED
  BY <1>2, <1>3, <1>4, <1>5 DEF EntryOf

(* The entry a thread pops: its marking is where the rest of the stack     *)
(* ends, and that is where the thread steps back to.                       *)
LEMMA EntryPopped ==
  ASSUME SearchInvariant, NEW t \in Thread, stack[t] # <<>>,
         pc[t] \in {"loop", "recheck"}
  PROVE  /\ Pop(t) \in Seq(StackEntry) /\ Top(t) \in StackEntry
         /\ stack[t] = Append(Pop(t), Top(t))
         /\ EndOf(Pop(t)) = Backfire(ns[t], Fired(Top(t)))
<1>1. TypeOK /\ stack[t] \in Seq(StackEntry) /\ LeadsTo(stack[t], ns[t])
  BY DEF SearchInvariant, TypeOK, WorkFits
<1>2. Pop(t) \in Seq(StackEntry) /\ LeadsTo(Pop(t), Backfire(ns[t], Fired(Top(t))))
  BY <1>1, AtStepBack
<1>3. EndOf(Pop(t)) = Backfire(ns[t], Fired(Top(t)))
  BY <1>2, LeadsToEnd
<1>4. Top(t) \in StackEntry /\ stack[t] = Append(Pop(t), Top(t))
  BY <1>1 DEF Top, Pop
<1> QED
  BY <1>2, <1>3, <1>4

LEMMA RecordUntouched ==
  ASSUME NEW u \in Thread, Recorded(u), store \subseteq store',
         pc'[u] = pc[u], ns'[u] = ns[u], stack'[u] = stack[u],
         currentFirelist'[u] = currentFirelist[u]
  PROVE  Recorded(u)'
BY RecordGrows DEF Recorded

LEMMA RecordOver ==
  ASSUME NEW u \in Thread, pc'[u] \in {"start", "declare", "post", "swap", "done"}
  PROVE  Recorded(u)'
BY DEF Recorded

(* A thread that keeps what it works on.                                   *)
LEMMA RecordMoves ==
  ASSUME NEW u \in Thread, Recorded(u), store \subseteq store',
         stack'[u] = stack[u], ns'[u] \in store',
         pc[u] \in {"loop", "fire", "check", "trylock", "handover", "release",
                   "recheck", "suspend", "wait"},
         pc'[u] \in {"loop", "fire", "check"} =>
           pc[u] \in {"loop", "fire", "check"},
         currentFirelist'[u] = currentFirelist[u]
  PROVE  Recorded(u)'
BY RecordGrows DEF Recorded

(* A thread that takes up a marking its stack leads to.                    *)
LEMMA RecordGrabbed ==
  ASSUME NEW u \in Thread, ns'[u] \in Markings, ns'[u] \in store',
         OnRecord(stack'[u], store'), EndOf(stack'[u]) = ns'[u],
         currentFirelist'[u] = getFirelist(ns'[u])
  PROVE  Recorded(u)'
<1>1. getFirelist(ns'[u]) \in Seq(Transition)
  BY FirelistFits
<1>2. \A i \in 1 .. Len(getFirelist(ns'[u])) :
        getFirelist(ns'[u])[i] \in Proposed(ns'[u])
  BY <1>1 DEF Proposed
<1> QED
  BY <1>2 DEF Recorded

LEMMA RecordStep ==
  ASSUME SearchInvariant, SearchInvariant', [Next]_vars,
         \A t \in Thread : Recorded(t), NEW u \in Thread
  PROVE  Recorded(u)'
<1>t. /\ pc \in [Thread -> Stages] /\ ns \in [Thread -> Markings]
      /\ currentFirelist \in [Thread -> Seq(Transition)]
      /\ currentEntry \in [Thread -> Nat]
      /\ stack \in [Thread -> Seq(StackEntry)]
      /\ ns'[u] \in Markings /\ TypeOK
  BY DEF SearchInvariant, TypeOK
<1>g. store \subseteq store'
  BY <1>t, StoreStays DEF Next, Join, Returned, vars, shared
<1> USE DEF Goto, local, shared, caller
<1>1. CASE Join \/ UNCHANGED vars
  BY <1>1, <1>g, RecordUntouched DEF Join, vars
<1>2. ASSUME NEW t \in Thread, threadedExploration(t), t # u,
             pc[t] # "handover" \/ u # reader[t]
      PROVE  Recorded(u)'
  BY <1>2, <1>t, <1>g, OthersStay, RecordUntouched
<1>3. ASSUME NEW t \in Thread, threadedExploration(t), t # u,
             pc[t] = "handover", u = reader[t]
      PROVE  Recorded(u)'
  <2>1. CopyToReader(t)
    BY <1>3 DEF threadedExploration, StartSatisfied, StartSearch, Abort, NextEntry,
       Backtrack, RunDry, FireKnown, FireNew, CheckSatisfied, CheckSpare,
       CheckDescend, NoReader, TakeReader, PostReader, GiveUp, KeepRest,
       Suspend, DeclareComplete, PostNext, PostEnd, SwapStack, WakeFinished,
       WakeRestart
  <2>2. ns'[u] = ns[t] /\ stack'[u] = CopyStack(stack[t]) /\ store' = store
    BY <2>1, <1>3, <1>t DEF CopyToReader
  <2>3. pc[u] \in {"wait", "done"} /\ pc'[u] = pc[u]
    BY <2>1, <1>3, <1>t DEF SearchInvariant, LedgerOutlives, CopyToReader
  <2>4. LeadsTo(stack[t], ns[t])
    BY <1>3 DEF SearchInvariant, WorkFits
  <2>5. OnRecord(stack[t], store) /\ ns[t] \in store
    BY <1>3 DEF Recorded
  <2>6. OnRecord(stack'[u], store')
    BY <2>2, <2>4, <2>5, <1>t, RecordCopy
  <2> QED
    BY <2>2, <2>3, <2>5, <2>6 DEF Recorded
<1>4. CASE StartSatisfied(u) \/ Abort(u) \/ CheckSatisfied(u) \/ GiveUp(u)
           \/ DeclareComplete(u) \/ PostNext(u) \/ PostEnd(u) \/ SwapStack(u)
           \/ WakeFinished(u)
  <2>1. pc'[u] \in {"start", "declare", "post", "swap", "done"}
    BY <1>4, <1>t DEF StartSatisfied, Abort, CheckSatisfied, GiveUp, Win,
       DeclareComplete, PostNext, PostEnd, SwapStack, WakeFinished
  <2> QED
    BY <2>1, RecordOver
<1>5. CASE NextEntry(u) \/ RunDry(u) \/ TakeReader(u) \/ PostReader(u) \/ Suspend(u)
  <2>1. /\ stack'[u] = stack[u] /\ ns'[u] = ns[u]
        /\ currentFirelist'[u] = currentFirelist[u]
        /\ pc[u] \in {"loop", "fire", "check", "trylock", "handover", "release",
                      "recheck", "suspend", "wait"}
        /\ pc'[u] \in {"loop", "fire", "check"} => pc[u] \in {"loop", "fire", "check"}
    BY <1>5, <1>t DEF NextEntry, RunDry, TakeReader, PostReader, Suspend
  <2>2. ns[u] \in store
    BY <2>1 DEF Recorded
  <2>3. Recorded(u) /\ ns'[u] \in store'
    BY <2>1, <2>2, <1>g
  <2> QED
    BY <2>1, <2>3, <1>g, RecordMoves
<1>6. CASE StartSearch(u)
  <2>1. ns[u] = InitialMarking /\ stack[u] = <<>>
    BY <1>6 DEF StartSearch, SearchInvariant, WorkFits
  <2>2. /\ ns'[u] = ns[u] /\ stack'[u] = stack[u] /\ ns[u] \in store'
        /\ currentFirelist'[u] = getFirelist(ns[u])
    BY <1>6, <1>t DEF StartSearch, GrabFirelist
  <2>3. OnRecord(stack'[u], store')
    BY <2>1, <2>2, RecordEmpty
  <2>4. EndOf(stack'[u]) = ns'[u]
    <3>1. <<>> \in Seq(StackEntry)
      OBVIOUS
    <3> QED
      BY <2>1, <2>2, <3>1, EmptyStackLeads, LeadsToEnd
  <2> QED
    BY <2>2, <2>3, <2>4, <1>t, RecordGrabbed
<1>7. CASE Backtrack(u)
  <2>1. /\ stack[u] # <<>> /\ pc[u] = "loop" /\ store' = store /\ pc'[u] = "loop"
        /\ ns'[u] = Backfire(ns[u], Fired(Top(u))) /\ stack'[u] = Pop(u)
        /\ currentFirelist'[u] = Top(u).fl
    BY <1>7, <1>t DEF Backtrack
  <2>2. /\ Pop(u) \in Seq(StackEntry) /\ Top(u) \in StackEntry
        /\ stack[u] = Append(Pop(u), Top(u)) /\ EndOf(Pop(u)) = ns'[u]
    BY <2>1, EntryPopped
  <2>3. OnRecord(stack[u], store)
    BY <2>1 DEF Recorded
  <2>4. /\ OnRecord(Pop(u), store) /\ EndOf(Pop(u)) \in store
        /\ \A i \in 1 .. Len(Top(u).fl) : Top(u).fl[i] \in Proposed(EndOf(Pop(u)))
    BY <2>2, <2>3, RecordPop
  <2> QED
    BY <2>1, <2>2, <2>4 DEF Recorded
<1>8. CASE FireKnown(u)
  <2>1. ns'[u] = ns[u] /\ stack'[u] = stack[u] /\ pc[u] = "fire"
        /\ currentFirelist'[u] = currentFirelist[u]
    <3>1. WorkFits(u) /\ pc[u] = "fire"
      BY <1>8 DEF FireKnown, SearchInvariant
    <3> QED
      BY <1>8, <1>t, <3>1, AtFire DEF FireKnown, NextMarking
  <2>2. ns[u] \in store
    BY <2>1 DEF Recorded
  <2>3. Recorded(u) /\ ns'[u] \in store'
    BY <2>1, <2>2, <1>g
  <2> QED
    BY <2>1, <2>3, <1>g, RecordMoves
<1>9. CASE FireNew(u)
  <2>1. ns'[u] = NextMarking(u) /\ stack'[u] = stack[u] /\ pc[u] = "fire"
        /\ currentFirelist'[u] = currentFirelist[u] /\ NextMarking(u) \in store'
    BY <1>9, <1>t DEF FireNew
  <2>3. Recorded(u) /\ ns'[u] \in store'
    BY <2>1, <1>g
  <2> QED
    BY <2>1, <2>3, <1>g, RecordMoves
<1>10. CASE CheckSpare(u) \/ CheckDescend(u)
  <2>1. /\ pc[u] = "check" /\ ns'[u] = ns[u] /\ store' = store
        /\ stack'[u] = Append(stack[u], EntryOf(u))
        /\ \/ pc'[u] = "trylock"
           \/ currentFirelist'[u] = getFirelist(ns[u])
    BY <1>10, <1>t DEF CheckSpare, CheckDescend, PushCurrent, GrabFirelist, EntryOf
  <2>2. /\ ns[u] \in store /\ OnRecord(stack[u], store)
        /\ \A i \in 1 .. Len(EntryOf(u).fl) : EntryOf(u).fl[i] \in Proposed(EndOf(stack[u]))
    BY <2>1, EntryPushed DEF Recorded
  <2>3. OnRecord(stack'[u], store') /\ EndOf(stack'[u]) = ns'[u]
    <3>1. /\ stack[u] \in Seq(StackEntry) /\ EntryOf(u) \in StackEntry
          /\ Fire(EndOf(stack[u]), Fired(EntryOf(u))) \in store
          /\ EndOf(Append(stack[u], EntryOf(u))) = ns[u]
      BY <2>1, <2>2, <1>t, EntryPushed
    <3>2. OnRecord(Append(stack[u], EntryOf(u)), store)
      BY <2>2, <3>1, RecordPush
    <3> QED
      BY <2>1, <3>1, <3>2
  <2>4. CASE pc'[u] = "trylock"
    BY <2>1, <2>2, <2>3, <2>4 DEF Recorded
  <2>5. CASE currentFirelist'[u] = getFirelist(ns[u])
    BY <2>1, <2>2, <2>3, <2>5, <1>t, RecordGrabbed
  <2> QED
    BY <2>1, <2>4, <2>5
<1>11. CASE NoReader(u) \/ WakeRestart(u)
  <2>1. /\ pc[u] \in {"trylock", "wait"} /\ ns'[u] = ns[u] /\ store' = store
        /\ stack'[u] = stack[u] /\ currentFirelist'[u] = getFirelist(ns[u])
    BY <1>11, <1>t DEF NoReader, WakeRestart, GrabFirelist
  <2>2. ns[u] \in store /\ OnRecord(stack[u], store) /\ EndOf(stack[u]) = ns[u]
    BY <2>1, EndsHere DEF Recorded
  <2> QED
    BY <2>1, <2>2, <1>t, RecordGrabbed
<1>12. CASE CopyToReader(u)
  <2>1. reader[u] # u
    BY <1>12 DEF CopyToReader, SearchInvariant, LedgerOutlives
  <2>2. /\ stack'[u] = stack[u] /\ ns'[u] = ns[u] /\ pc[u] = "handover"
        /\ pc'[u] = "release" /\ currentFirelist'[u] = currentFirelist[u]
    BY <1>12, <1>t, <2>1 DEF CopyToReader
  <2>3. ns[u] \in store
    BY <2>2 DEF Recorded
  <2> QED
    BY <2>2, <2>3, <1>g, RecordMoves
<1>13. CASE KeepRest(u)
  <2>1. /\ pc[u] = "recheck" /\ store' = store /\ pc'[u] = "loop"
        /\ ns'[u] = Backfire(ns[u], Candidate(u)) /\ stack'[u] = Pop(u)
        /\ currentFirelist'[u] = currentFirelist[u]
    BY <1>13, <1>t DEF KeepRest
  <2>2. stack[u] # <<>> /\ Top(u) = EntryOf(u)
    BY <2>1 DEF SearchInvariant, WorkFits, EntryOf
  <2>3. Fired(Top(u)) = Candidate(u) /\ Top(u).fl = currentFirelist[u]
    BY <2>2 DEF EntryOf, Fired, Candidate
  <2>4. /\ Pop(u) \in Seq(StackEntry) /\ Top(u) \in StackEntry
        /\ stack[u] = Append(Pop(u), Top(u)) /\ EndOf(Pop(u)) = ns'[u]
    BY <2>1, <2>2, <2>3, EntryPopped
  <2>5. OnRecord(stack[u], store)
    BY <2>1 DEF Recorded
  <2>6. /\ OnRecord(Pop(u), store) /\ EndOf(Pop(u)) \in store
        /\ \A i \in 1 .. Len(Top(u).fl) : Top(u).fl[i] \in Proposed(EndOf(Pop(u)))
    BY <2>4, <2>5, RecordPop
  <2> QED
    BY <2>1, <2>3, <2>4, <2>6 DEF Recorded
<1>14. ASSUME threadedExploration(u) PROVE Recorded(u)'
  BY <1>4, <1>5, <1>6, <1>7, <1>8, <1>9, <1>10, <1>11, <1>12, <1>13, <1>14
     DEF threadedExploration
<1> QED
  BY <1>1, <1>2, <1>3, <1>14 DEF Next, Returned

(***************************************************************************)
(* No work is lost.                                                        *)
(***************************************************************************)

(* A thread that has work on its stack, and what it holds besides.         *)
Busy(t) ==
  \/ pc[t] \in {"loop", "fire", "check", "trylock", "handover", "release", "recheck"}
  \/ Loaded(t)

InHand(t, m, a) ==
  \/ pc[t] = "loop" /\ ns[t] = m
     /\ \E i \in 1 .. currentEntry[t] : a = currentFirelist[t][i]
  \/ pc[t] = "fire" /\ ns[t] = m
     /\ \E i \in 1 .. currentEntry[t] + 1 : a = currentFirelist[t][i]
  \/ pc[t] = "check" /\ EndOf(stack[t]) = m
     /\ \E i \in 1 .. currentEntry[t] : a = currentFirelist[t][i]
  \/ (pc[t] \in {"check", "trylock", "handover"} \/ Loaded(t))
     /\ ns[t] = m /\ a \in Proposed(m)

(* What a thread owes is on its stack or in its hands; before a step ...   *)
LEMMA OwesNow ==
  ASSUME NEW t, NEW m, NEW a
  PROVE  a \in Owes(t, m) <=> (Busy(t) /\ a \in OnStack(stack[t], m)) \/ InHand(t, m, a)
<1>1. Loaded(t) => pc[t] = "wait"
  BY DEF Loaded
<1> QED
  BY <1>1 DEF Owes, Busy, InHand, Below

(* ... and after it.                                                       *)
LEMMA OwesThen ==
  ASSUME NEW t, NEW m, NEW a
  PROVE  a \in Owes(t, m)' <=>
           (Busy(t)' /\ a \in OnStack(stack'[t], m)) \/ InHand(t, m, a)'
<1>1. Loaded(t)' => pc'[t] = "wait"
  BY DEF Loaded
<1> QED
  BY <1>1 DEF Owes, Busy, InHand, Below

(* What has been promised to a thread stays promised, and what it has been *)
(* handed stays its own until it wakes.                                    *)
LEMMA ReaderStays ==
  ASSUME SearchInvariant, NEW t \in Thread, threadedExploration(t),
         NEW u \in Thread, u # t
  PROVE  reader'[u] = reader[u]
<1>t. reader \in [Thread -> Thread]
  BY DEF SearchInvariant, TypeOK
<1> USE DEF Goto, local, shared, caller
<1>1. CASE TakeReader(t)
  BY <1>t, <1>1 DEF TakeReader
<1>2. CASE StartSatisfied(t) \/ StartSearch(t) \/ Abort(t) \/ NextEntry(t)
           \/ Backtrack(t) \/ RunDry(t) \/ FireKnown(t) \/ FireNew(t)
           \/ CheckSatisfied(t) \/ CheckSpare(t) \/ CheckDescend(t)
  BY <1>2 DEF StartSatisfied, Win, StartSearch, Abort, NextEntry,
     Backtrack, RunDry, FireKnown, FireNew, CheckSatisfied, CheckSpare, CheckDescend
<1>3. CASE NoReader(t) \/ CopyToReader(t) \/ PostReader(t)
           \/ GiveUp(t) \/ KeepRest(t) \/ Suspend(t) \/ DeclareComplete(t)
           \/ PostNext(t) \/ PostEnd(t) \/ SwapStack(t)
           \/ WakeFinished(t) \/ WakeRestart(t)
  BY <1>3 DEF NoReader, CopyToReader, PostReader, GiveUp, KeepRest, Suspend,
     DeclareComplete, PostNext, PostEnd, SwapStack, WakeFinished, WakeRestart
<1> QED
  BY <1>1, <1>2, <1>3 DEF threadedExploration

LEMMA LoadedStays ==
  ASSUME SearchInvariant, NEW t \in Thread, threadedExploration(t),
         NEW u \in Thread, u # t, Loaded(u)
  PROVE  Loaded(u)'
<1>t. /\ pc \in [Thread -> Stages] /\ reader \in [Thread -> Thread] /\ TypeOK
      /\ restartSemaphore \in [Thread -> Nat]
  BY DEF SearchInvariant, TypeOK
<1>1. pc[u] = "wait" /\ pc'[u] = "wait"
  BY <1>t, OthersStay DEF Loaded
<1> USE DEF Goto, local, shared, caller
<1>2. restartSemaphore'[u] >= restartSemaphore[u] /\ restartSemaphore'[u] \in Nat
  <2>1. CASE StartSatisfied(t) \/ StartSearch(t) \/ Abort(t) \/ NextEntry(t)
             \/ Backtrack(t) \/ RunDry(t) \/ FireKnown(t) \/ FireNew(t)
             \/ CheckSatisfied(t) \/ CheckSpare(t) \/ CheckDescend(t)
    BY <1>t, <2>1 DEF StartSatisfied, Win, StartSearch, GrabFirelist, Abort, NextEntry,
       Backtrack, RunDry, FireKnown, FireNew, CheckSatisfied, CheckSpare, CheckDescend
  <2>2. CASE NoReader(t) \/ TakeReader(t) \/ CopyToReader(t) \/ PostReader(t)
             \/ GiveUp(t) \/ KeepRest(t) \/ Suspend(t) \/ DeclareComplete(t)
    BY <1>t, <2>2 DEF NoReader, TakeReader, CopyToReader, PostReader, GiveUp,
       KeepRest, Suspend, DeclareComplete
  <2>3. CASE PostNext(t) \/ PostEnd(t) \/ SwapStack(t)
             \/ WakeFinished(t) \/ WakeRestart(t)
    BY <1>t, <2>3 DEF PostNext, PostEnd, SwapStack, WakeFinished, WakeRestart
  <2> QED
    BY <2>1, <2>2, <2>3 DEF threadedExploration
<1>3. CASE restartSemaphore[u] > 0
  BY <1>t, <1>1, <1>2, <1>3 DEF Loaded
<1>4. CASE \E d \in Thread : pc[d] = "release" /\ reader[d] = u
  <2>1. PICK d \in Thread : pc[d] = "release" /\ reader[d] = u
    BY <1>4
  <2>2. CASE d = t
    <3>1. PostReader(t)
      BY <2>1, <2>2 DEF threadedExploration, StartSatisfied, StartSearch, Abort, NextEntry,
         Backtrack, RunDry, FireKnown, FireNew, CheckSatisfied, CheckSpare,
         CheckDescend, NoReader, TakeReader, CopyToReader, GiveUp, KeepRest,
         Suspend, DeclareComplete, PostNext, PostEnd, SwapStack, WakeFinished,
         WakeRestart
    <3>2. restartSemaphore'[u] = restartSemaphore[u] + 1
      BY <1>t, <2>1, <2>2, <3>1 DEF PostReader
    <3> QED
      BY <1>t, <1>1, <3>2 DEF Loaded
  <2>3. CASE d # t
    <3>1. pc'[d] = "release" /\ reader'[d] = u
      <4>1. pc'[d] = pc[d]
        BY <1>t, <2>3, OthersStay
      <4>2. reader'[d] = reader[d]
        BY <2>3, ReaderStays
      <4> QED
        BY <2>1, <4>1, <4>2
    <3> QED
      BY <1>1, <3>1 DEF Loaded
  <2> QED
    BY <2>2, <2>3
<1> QED
  BY <1>1, <1>3, <1>4 DEF Loaded

(* Whoever is not concerned by a step owes afterwards what it owed before. *)
LEMMA OwesStays ==
  ASSUME SearchInvariant, NEW t \in Thread, threadedExploration(t),
         NEW u \in Thread, u # t, pc[t] # "handover" \/ u # reader[t],
         NEW m, NEW a, a \in Owes(u, m)
  PROVE  a \in Owes(u, m)'
<1>1. /\ pc'[u] = pc[u] /\ ns'[u] = ns[u] /\ stack'[u] = stack[u]
      /\ currentFirelist'[u] = currentFirelist[u]
      /\ currentEntry'[u] = currentEntry[u]
  BY OthersStay DEF SearchInvariant
<1>2. Loaded(u) => Loaded(u)'
  BY LoadedStays
<1>3. (Busy(u) /\ a \in OnStack(stack[u], m)) \/ InHand(u, m, a)
  BY OwesNow
<1>4. (Busy(u)' /\ a \in OnStack(stack'[u], m)) \/ InHand(u, m, a)'
  BY <1>1, <1>2, <1>3 DEF Busy, InHand
<1> QED
  BY <1>4, OwesThen

(* A thread that is just about to take up marking m owes all of it.        *)
LEMMA OwesFresh ==
  ASSUME NEW u, NEW m \in Markings, NEW a \in Proposed(m), ns'[u] = m, pc'[u] = "loop",
         currentFirelist'[u] = getFirelist(m), currentEntry'[u] = Len(getFirelist(m))
  PROVE  InHand(u, m, a)'
<1>1. DOMAIN getFirelist(m) = 1 .. Len(getFirelist(m))
  BY FirelistFits
<1>2. \E i \in 1 .. currentEntry'[u] : a = currentFirelist'[u][i]
  BY <1>1 DEF Proposed
<1> QED
  BY <1>2 DEF InHand

(* What the acting thread owed is fired, still owed, or handed over.       *)
Settled(m, a) == Fire(m, a) \in store' \/ \E v \in Thread : a \in Owes(v, m)'

LEMMA KeepsOwing ==
  ASSUME SearchInvariant, NEW t \in Thread,
         NextEntry(t) \/ TakeReader(t) \/ PostReader(t),
         NEW m, NEW a, a \in Owes(t, m)
  PROVE  Settled(m, a)
<1>t. /\ pc \in [Thread -> Stages] /\ currentEntry \in [Thread -> Nat]
  BY DEF SearchInvariant, TypeOK
<1>1. (Busy(t) /\ a \in OnStack(stack[t], m)) \/ InHand(t, m, a)
  BY OwesNow
<1> USE DEF Goto, local, shared, caller
<1>2. CASE NextEntry(t)
  <2>1. /\ pc[t] = "loop" /\ pc'[t] = "fire" /\ ns'[t] = ns[t] /\ stack'[t] = stack[t]
        /\ currentFirelist'[t] = currentFirelist[t]
        /\ currentEntry'[t] + 1 = currentEntry[t]
    BY <1>t, <1>2 DEF NextEntry
  <2>2. (Busy(t)' /\ a \in OnStack(stack'[t], m)) \/ InHand(t, m, a)'
    BY <1>1, <2>1 DEF Busy, InHand, Loaded
  <2> QED
    BY <2>2, OwesThen DEF Settled
<1>3. CASE TakeReader(t)
  <2>1. /\ pc[t] = "trylock" /\ pc'[t] = "handover" /\ ns'[t] = ns[t] /\ stack'[t] = stack[t]
    BY <1>t, <1>3 DEF TakeReader
  <2>2. (Busy(t)' /\ a \in OnStack(stack'[t], m)) \/ InHand(t, m, a)'
    BY <1>1, <2>1 DEF Busy, InHand, Loaded
  <2> QED
    BY <2>2, OwesThen DEF Settled
<1>4. CASE PostReader(t)
  <2>1. /\ pc[t] = "release" /\ pc'[t] = "recheck" /\ stack'[t] = stack[t]
    BY <1>t, <1>4 DEF PostReader
  <2>2. (Busy(t)' /\ a \in OnStack(stack'[t], m)) \/ InHand(t, m, a)'
    BY <1>1, <2>1 DEF Busy, InHand, Loaded
  <2> QED
    BY <2>2, OwesThen DEF Settled
<1> QED
  BY <1>2, <1>3, <1>4

LEMMA FireSettles ==
  ASSUME SearchInvariant, NEW t \in Thread, FireKnown(t) \/ FireNew(t),
         NEW m, NEW a, a \in Owes(t, m)
  PROVE  Settled(m, a)
<1>t. /\ pc \in [Thread -> Stages] /\ currentEntry \in [Thread -> Nat]
      /\ ns \in [Thread -> Markings] /\ TypeOK /\ WorkFits(t)
  BY DEF SearchInvariant, TypeOK
<1>1. (Busy(t) /\ a \in OnStack(stack[t], m)) \/ InHand(t, m, a)
  BY OwesNow
<1> USE DEF Goto, local, shared, caller
<1>2. pc[t] = "fire" /\ NextMarking(t) \in store'
  BY DEF FireKnown, FireNew
<1>3. CASE a \in OnStack(stack[t], m)
  <2>1. stack'[t] = stack[t] /\ pc'[t] \in {"loop", "check"}
    BY <1>t DEF FireKnown, FireNew
  <2> QED
    BY <1>3, <2>1, OwesThen DEF Settled, Busy
<1>4. CASE InHand(t, m, a)
  <2>1. PICK i \in 1 .. currentEntry[t] + 1 : ns[t] = m /\ a = currentFirelist[t][i]
    BY <1>2, <1>4 DEF InHand, Loaded
  <2>2. CASE i = currentEntry[t] + 1
    <3>1. Fire(m, a) = NextMarking(t)
      BY <2>1, <2>2 DEF NextMarking, Candidate
    <3> QED
      BY <1>2, <3>1 DEF Settled
  <2>3. CASE i \in 1 .. currentEntry[t]
    <3>1. currentFirelist'[t] = currentFirelist[t] /\ currentEntry'[t] = currentEntry[t]
          /\ stack'[t] = stack[t]
      BY DEF FireKnown, FireNew
    <3>2. CASE FireKnown(t)
      <4>1. ns'[t] = ns[t] /\ pc'[t] = "loop"
        BY <1>t, <1>2, <3>2, AtFire DEF FireKnown, NextMarking
      <4>2. InHand(t, m, a)'
        BY <2>1, <2>3, <3>1, <4>1 DEF InHand
      <4> QED
        BY <4>2, OwesThen DEF Settled
    <3>3. CASE FireNew(t)
      <4>1. EndOf(stack'[t]) = m /\ pc'[t] = "check"
        BY <1>t, <1>2, <2>1, <3>1, <3>3, EndsHere DEF FireNew
      <4>2. InHand(t, m, a)'
        BY <2>1, <2>3, <3>1, <4>1 DEF InHand
      <4> QED
        BY <4>2, OwesThen DEF Settled
    <3> QED
      BY <3>2, <3>3
  <2> QED
    BY <1>t, <2>2, <2>3
<1> QED
  BY <1>1, <1>3, <1>4

LEMMA PushKeeps ==
  ASSUME SearchInvariant, NEW t \in Thread, CheckSpare(t) \/ CheckDescend(t),
         NEW m \in Markings, NEW a, a \in Owes(t, m)
  PROVE  Settled(m, a)
<1>t. /\ pc \in [Thread -> Stages] /\ currentEntry \in [Thread -> Nat]
      /\ stack \in [Thread -> Seq(StackEntry)]
      /\ currentFirelist \in [Thread -> Seq(Transition)]
  BY DEF SearchInvariant, TypeOK
<1>1. (Busy(t) /\ a \in OnStack(stack[t], m)) \/ InHand(t, m, a)
  BY OwesNow
<1> USE DEF Goto, local, shared, caller
<1>2. pc[t] = "check" /\ ns'[t] = ns[t] /\ stack'[t] = Append(stack[t], EntryOf(t))
      /\ pc'[t] \in {"trylock", "loop"}
  BY <1>t DEF CheckSpare, CheckDescend, PushCurrent, EntryOf
<1>3. /\ EntryOf(t) \in StackEntry /\ EntryOf(t).fl = currentFirelist[t]
      /\ EntryOf(t).current = currentEntry[t] /\ stack[t] \in Seq(StackEntry)
  BY <1>2, <1>t, EntryPushed
<1>4. a \in OnStack(stack'[t], m) <=>
        \/ a \in OnStack(stack[t], m)
        \/ EndOf(stack[t]) = m /\ \E i \in 1 .. currentEntry[t] : a = currentFirelist[t][i]
  BY <1>2, <1>3, PushOnStack
<1>5. CASE a \in OnStack(stack'[t], m)
  BY <1>2, <1>5, OwesThen DEF Settled, Busy
<1>6. CASE a \notin OnStack(stack'[t], m)
  <2>1. ns[t] = m /\ a \in Proposed(m)
    BY <1>1, <1>2, <1>4, <1>6 DEF InHand
  <2>2. InHand(t, m, a)'
    <3>1. CASE CheckSpare(t)
      <4>1. pc'[t] = "trylock"
        BY <3>1, <1>t DEF CheckSpare
      <4> QED
        BY <4>1, <1>2, <2>1 DEF InHand
    <3>2. CASE CheckDescend(t)
      <4>1. pc'[t] = "loop" /\ currentFirelist'[t] = getFirelist(m)
            /\ currentEntry'[t] = Len(getFirelist(m))
        BY <3>2, <1>t, <2>1 DEF CheckDescend, GrabFirelist
      <4> QED
        BY <4>1, <1>2, <2>1, OwesFresh
    <3> QED
      BY <3>1, <3>2
  <2> QED
    BY <2>2, OwesThen DEF Settled
<1> QED
  BY <1>5, <1>6

LEMMA GrabKeeps ==
  ASSUME SearchInvariant, NEW t \in Thread, NoReader(t) \/ WakeRestart(t),
         NEW m \in Markings, NEW a, a \in Owes(t, m)
  PROVE  Settled(m, a)
<1>t. /\ pc \in [Thread -> Stages] /\ currentEntry \in [Thread -> Nat]
      /\ currentFirelist \in [Thread -> Seq(Transition)]
  BY DEF SearchInvariant, TypeOK
<1>1. (Busy(t) /\ a \in OnStack(stack[t], m)) \/ InHand(t, m, a)
  BY OwesNow
<1> USE DEF Goto, local, shared, caller
<1>2. /\ pc[t] \in {"trylock", "wait"} /\ ns'[t] = ns[t] /\ stack'[t] = stack[t]
      /\ pc'[t] = "loop" /\ currentFirelist'[t] = getFirelist(ns[t])
      /\ currentEntry'[t] = Len(getFirelist(ns[t]))
  BY <1>t DEF NoReader, WakeRestart, GrabFirelist
<1>3. CASE a \in OnStack(stack[t], m)
  BY <1>2, <1>3, OwesThen DEF Settled, Busy
<1>4. CASE InHand(t, m, a)
  <2>1. ns[t] = m /\ a \in Proposed(m)
    BY <1>2, <1>4 DEF InHand
  <2>2. InHand(t, m, a)'
    BY <2>1, <1>2, OwesFresh
  <2> QED
    BY <2>2, OwesThen DEF Settled
<1> QED
  BY <1>1, <1>3, <1>4

LEMMA PopKeeps ==
  ASSUME SearchInvariant, NEW t \in Thread, KeepRest(t) \/ Backtrack(t),
         NEW m \in Markings, NEW a, a \in Owes(t, m)
  PROVE  Settled(m, a)
<1>t. /\ pc \in [Thread -> Stages] /\ currentEntry \in [Thread -> Nat]
      /\ stack \in [Thread -> Seq(StackEntry)] /\ ns \in [Thread -> Markings]
      /\ currentFirelist \in [Thread -> Seq(Transition)]
  BY DEF SearchInvariant, TypeOK
<1>1. (Busy(t) /\ a \in OnStack(stack[t], m)) \/ InHand(t, m, a)
  BY OwesNow
<1> USE DEF Goto, local, shared, caller
<1>2. /\ pc[t] \in {"recheck", "loop"} /\ stack[t] # <<>> /\ pc'[t] = "loop"
      /\ stack'[t] = Pop(t)
      /\ pc[t] = "loop" => currentEntry[t] = 0
  BY <1>t DEF KeepRest, Backtrack, SearchInvariant, WorkFits
<1>3. /\ ns'[t] = Backfire(ns[t], Fired(Top(t)))
      /\ currentFirelist'[t] = Top(t).fl /\ currentEntry'[t] = Top(t).current
  <2>1. CASE Backtrack(t)
    BY <1>t, <2>1 DEF Backtrack
  <2>2. CASE KeepRest(t)
    <3>1. Top(t) = [fl |-> currentFirelist[t], current |-> currentEntry[t]]
      BY <2>2 DEF KeepRest, SearchInvariant, WorkFits
    <3>2. Fired(Top(t)) = Candidate(t) /\ Top(t).fl = currentFirelist[t]
          /\ Top(t).current = currentEntry[t]
      BY <3>1 DEF Fired, Candidate
    <3> QED
      BY <1>t, <2>2, <3>2 DEF KeepRest
  <2> QED
    BY <2>1, <2>2
<1>4. /\ Pop(t) \in Seq(StackEntry) /\ Top(t) \in StackEntry
      /\ stack[t] = Append(Pop(t), Top(t)) /\ EndOf(Pop(t)) = ns'[t]
  BY <1>2, <1>3, EntryPopped
<1>5. a \in OnStack(stack[t], m) <=>
        \/ a \in OnStack(stack'[t], m)
        \/ ns'[t] = m /\ \E i \in 1 .. currentEntry'[t] : a = currentFirelist'[t][i]
  BY <1>2, <1>3, <1>4, PushOnStack
<1>6. a \in OnStack(stack[t], m)
  BY <1>1, <1>2 DEF InHand, Loaded
<1>7. (Busy(t)' /\ a \in OnStack(stack'[t], m)) \/ InHand(t, m, a)'
  BY <1>2, <1>5, <1>6 DEF Busy, InHand
<1> QED
  BY <1>7, OwesThen DEF Settled

LEMMA NothingLeft ==
  ASSUME SearchInvariant, NEW t \in Thread, RunDry(t) \/ Suspend(t) \/ StartSearch(t),
         NEW m, NEW a
  PROVE  a \notin Owes(t, m)
<1>t. currentEntry \in [Thread -> Nat]
  BY DEF SearchInvariant, TypeOK
<1>1. CASE RunDry(t)
  <2>1. pc[t] = "loop" /\ stack[t] = <<>> /\ currentEntry[t] = 0
    BY <1>1 DEF RunDry
  <2>2. a \notin OnStack(stack[t], m)
    BY <2>1, EmptyOnStack
  <2>3. ~ InHand(t, m, a)
    BY <2>1 DEF InHand, Loaded
  <2> QED
    BY <2>2, <2>3, OwesNow
<1>2. CASE Suspend(t) \/ StartSearch(t)
  BY <1>2, OwesNow DEF Suspend, StartSearch, Busy, InHand, Loaded
<1> QED
  BY <1>1, <1>2

(* While the search runs, the thread a donor fills has nothing of its own. *)
LEMMA ReaderHasNothing ==
  ASSUME SearchInvariant, ~ finished, NEW t \in Thread, pc[t] = "handover"
  PROVE  /\ reader[t] \in Thread \ {t} /\ pc[reader[t]] = "wait"
         /\ ~ Loaded(reader[t])
<1> DEFINE r == reader[t]
<1>1. r \in Thread /\ pc[r] = "wait" /\ Promised(r) /\ restartSemaphore[r] \in Nat
  <2>1. r \in Thread /\ restartSemaphore[r] \in Nat
    BY DEF SearchInvariant, TypeOK
  <2>2. pc[r] \in {"wait", "done"} /\ (pc[r] = "done" => finished)
    BY <2>1 DEF SearchInvariant, LedgerOutlives
  <2> QED
    BY <2>1, <2>2 DEF Promised
<1>2. Accounted(r)
  BY <1>1 DEF SearchInvariant, SuspensionLedger
<1>3. restartSemaphore[r] = 0
  BY <1>1, <1>2 DEF Accounted
<1>4. \A d \in Thread : pc[d] = "release" => reader[d] # r
  BY DEF SearchInvariant, SuspensionLedger, PromisedOnce
<1> QED
  BY <1>1, <1>3, <1>4 DEF Loaded

(* The reader takes over what the donor held in its hands, and a copy of   *)
(* what is on its stack.                                                   *)
LEMMA HandoverKeeps ==
  ASSUME SearchInvariant, ~ finished, NEW t \in Thread, CopyToReader(t),
         NEW u \in Thread, NEW m, NEW a, a \in Owes(u, m)
  PROVE  Settled(m, a)
<1>t. /\ pc \in [Thread -> Stages] /\ ns \in [Thread -> Markings]
      /\ stack \in [Thread -> Seq(StackEntry)]
  BY DEF SearchInvariant, TypeOK
<1> USE DEF Goto, local, shared, caller
<1>1. pc[t] = "handover" /\ pc'[t] = "release" /\ reader' = reader
  BY <1>t DEF CopyToReader
<1>2. PICK r \in Thread \ {t} : r = reader[t] /\ pc[r] = "wait" /\ ~ Loaded(r)
  BY <1>1, ReaderHasNothing
<1>3. CASE u = r
  <2>1. ~ Busy(u) /\ ~ InHand(u, m, a)
    BY <1>2, <1>3 DEF Busy, InHand
  <2> QED
    BY <2>1, OwesNow
<1>4. CASE u = t
  <2>1. (Busy(t) /\ a \in OnStack(stack[t], m)) \/ InHand(t, m, a)
    BY <1>4, OwesNow
  <2>2. CASE a \in OnStack(stack[t], m)
    <3>1. stack'[t] = stack[t]
      BY <1>t, <1>2 DEF CopyToReader
    <3> QED
      BY <1>1, <2>2, <3>1, OwesThen DEF Settled, Busy
  <2>3. CASE InHand(t, m, a)
    <3>1. ns[t] = m /\ a \in Proposed(m)
      BY <1>1, <2>3 DEF InHand
    <3>2. ns'[r] = m /\ Loaded(r)'
      <4>1. ns'[r] = m /\ pc'[r] = "wait"
        BY <1>t, <1>2, <3>1 DEF CopyToReader
      <4> QED
        BY <4>1, <1>1, <1>2 DEF Loaded
    <3>3. InHand(r, m, a)'
      BY <3>1, <3>2 DEF InHand
    <3> QED
      BY <1>2, <3>3, OwesThen DEF Settled
  <2> QED
    BY <2>1, <2>2, <2>3
<1>5. CASE u \notin {t, r}
  <2>1. threadedExploration(t)
    BY DEF threadedExploration
  <2>2. a \in Owes(u, m)'
    BY <1>2, <1>5, <2>1, OwesStays
  <2> QED
    BY <2>2 DEF Settled
<1> QED
  BY <1>3, <1>4, <1>5

(* While the search runs, nothing that is owed gets lost.                  *)
LEMMA OwedIsSettled ==
  ASSUME SearchInvariant, [Next]_vars, ~ finished',
         NEW u \in Thread, NEW m \in Markings, NEW a, a \in Owes(u, m)
  PROVE  Settled(m, a)
<1> USE DEF Goto, local, shared, caller
<1>1. CASE Join \/ UNCHANGED vars
  <2>1. UNCHANGED <<pc, local, shared>>
    BY <1>1 DEF Join, vars
  <2>2. a \in Owes(u, m)'
    <3>1. (Busy(u) /\ a \in OnStack(stack[u], m)) \/ InHand(u, m, a)
      BY OwesNow
    <3>2. (Busy(u)' /\ a \in OnStack(stack'[u], m)) \/ InHand(u, m, a)'
      BY <2>1, <3>1 DEF Busy, InHand, Loaded
    <3> QED
      BY <3>2, OwesThen
  <2> QED
    BY <2>2 DEF Settled
<1>2. ASSUME NEW t \in Thread, threadedExploration(t)
      PROVE  Settled(m, a)
  <2>1. CASE CopyToReader(t)
    <3>1. ~ finished
      BY <2>1 DEF CopyToReader
    <3> QED
      BY <2>1, <3>1, HandoverKeeps
  <2>2. CASE u # t /\ ~ CopyToReader(t)
    <3>1. pc[t] # "handover"
      BY <1>2, <2>2 DEF threadedExploration, StartSatisfied, StartSearch, Abort,
         NextEntry, Backtrack, RunDry, FireKnown, FireNew, CheckSatisfied, CheckSpare,
         CheckDescend, NoReader, TakeReader, PostReader, GiveUp, KeepRest,
         Suspend, DeclareComplete, PostNext, PostEnd, SwapStack, WakeFinished,
         WakeRestart
    <3>2. a \in Owes(u, m)'
      BY <1>2, <2>2, <3>1, OwesStays
    <3> QED
      BY <3>2 DEF Settled
  <2>3. CASE u = t
    <3>1. a \in Owes(t, m)
      BY <2>3
    <3>2. CASE NextEntry(t) \/ TakeReader(t) \/ PostReader(t)
      BY <3>1, <3>2, KeepsOwing
    <3>3. CASE FireKnown(t) \/ FireNew(t)
      BY <3>1, <3>3, FireSettles
    <3>4. CASE CheckSpare(t) \/ CheckDescend(t)
      BY <3>1, <3>4, PushKeeps
    <3>5. CASE NoReader(t) \/ WakeRestart(t)
      BY <3>1, <3>5, GrabKeeps
    <3>6. CASE KeepRest(t) \/ Backtrack(t)
      BY <3>1, <3>6, PopKeeps
    <3>7. CASE RunDry(t) \/ Suspend(t) \/ StartSearch(t)
      BY <3>1, <3>7, NothingLeft
    <3>8. CASE StartSatisfied(t) \/ CheckSatisfied(t) \/ DeclareComplete(t)
               \/ Abort(t) \/ GiveUp(t) \/ WakeFinished(t)
      BY <3>8 DEF StartSatisfied, CheckSatisfied, DeclareComplete, Win, Abort,
         GiveUp, WakeFinished
    <3>9. CASE PostNext(t) \/ PostEnd(t) \/ SwapStack(t)
      <4>1. pc[t] \in {"post", "swap"} /\ finished' = finished
        BY <3>9 DEF PostNext, PostEnd, SwapStack
      <4>2. finished
        BY <4>1 DEF SearchInvariant, LedgerOutlives
      <4> QED
        BY <4>1, <4>2
    <3> QED
      BY <1>2, <2>1, <3>2, <3>3, <3>4, <3>5, <3>6, <3>7, <3>8, <3>9
         DEF threadedExploration
  <2> QED
    BY <2>1, <2>2, <2>3
<1> QED
  BY <1>1, <1>2 DEF Next, Returned

(* Found stays found, finished stays finished.                             *)
LEMMA FoundStays ==
  ASSUME SearchInvariant, [Next]_vars
  PROVE  /\ \A u \in Thread : found[u] => found'[u]
         /\ finished => finished'
<1>t. found \in [Thread -> BOOLEAN]
  BY DEF SearchInvariant, TypeOK
<1> USE DEF Goto, local, shared, caller
<1>1. CASE Join \/ UNCHANGED vars
  BY <1>1 DEF Join, vars
<1>2. ASSUME NEW t \in Thread, StartSatisfied(t) \/ CheckSatisfied(t) \/ DeclareComplete(t)
      PROVE  (\A u \in Thread : found[u] => found'[u]) /\ finished'
  BY <1>2, <1>t DEF StartSatisfied, CheckSatisfied, Win, DeclareComplete
<1>3. ASSUME NEW t \in Thread, threadedExploration(t),
             ~ (StartSatisfied(t) \/ CheckSatisfied(t) \/ DeclareComplete(t))
      PROVE  UNCHANGED <<found, finished>>
  <2>1. CASE StartSearch(t) \/ Abort(t) \/ NextEntry(t)
             \/ Backtrack(t) \/ RunDry(t) \/ FireKnown(t) \/ FireNew(t)
             \/ CheckSpare(t) \/ CheckDescend(t)
    BY <2>1 DEF StartSearch, Abort, NextEntry, Backtrack, RunDry, FireKnown,
       FireNew, CheckSpare, CheckDescend
  <2>2. CASE NoReader(t) \/ TakeReader(t) \/ CopyToReader(t) \/ PostReader(t)
             \/ GiveUp(t) \/ KeepRest(t) \/ Suspend(t)
             \/ PostNext(t) \/ PostEnd(t) \/ SwapStack(t)
             \/ WakeFinished(t) \/ WakeRestart(t)
    BY <2>2 DEF NoReader, TakeReader, CopyToReader, PostReader, GiveUp, KeepRest,
       Suspend, PostNext, PostEnd, SwapStack, WakeFinished, WakeRestart
  <2> QED
    BY <1>3, <2>1, <2>2 DEF threadedExploration
<1>4. ASSUME NEW t \in Thread, threadedExploration(t)
      PROVE  (\A u \in Thread : found[u] => found'[u]) /\ (finished => finished')
  BY <1>2, <1>3, <1>4
<1> QED
  BY <1>1, <1>4 DEF Next, Returned

(* A search that is over without a witness has every thread at rest.       *)
LEMMA OverMeansIdle ==
  ASSUME SearchInvariant, finished, NobodyFound, NEW t \in Thread
  PROVE  t \in Listed /\ pc[t] \in {"wait", "declare", "post", "done"}
<1>1. num_suspended = number_of_threads
  BY DEF SearchInvariant, LedgerOutlives, NobodyFound
<1>2. t \in Listed
  BY <1>1, FullMeansAll DEF SearchInvariant
<1> QED
  BY <1>2 DEF SearchInvariant, LedgerOutlives

(* When the last thread declares the search complete, everybody else waits *)
(* and nobody has been handed work.                                        *)
LEMMA IdleAtEnd ==
  ASSUME SearchInvariant
  PROVE  CompleteMeansIdle
<1> SUFFICES ASSUME NEW t \in Thread, pc[t] = "declare",
                    NEW u \in Thread
             PROVE  /\ pc[u] \in {"wait", "declare"}
                    /\ ~ Promised(u) /\ restartSemaphore[u] = 0
  BY DEF CompleteMeansIdle
<1> USE DEF SearchInvariant
<1>1. num_suspended = number_of_threads
  BY DEF LedgerOutlives
<1>2. \A v \in Thread : v \in Listed
  BY <1>1, FullMeansAll
<1>3. ~ finished /\ u \in Listed /\ restartSemaphore[u] \in Nat
  BY <1>2 DEF LedgerOutlives, TypeOK
<1>4. Accounted(u)
  BY <1>3 DEF SuspensionLedger
<1>5. ~ Promised(u) /\ restartSemaphore[u] = 0
  BY <1>3, <1>4 DEF Accounted
<1>6. pc[u] \in {"wait", "declare"}
  BY <1>3 DEF LedgerOutlives
<1> QED
  BY <1>5, <1>6

LEMMA ClosedStep ==
  ASSUME SearchInvariant, [Next]_vars, NothingLost, OverMeansClosed
  PROVE  OverMeansClosed'
<1> SUFFICES ASSUME finished', NobodyFound'
             PROVE  \A m \in store' : \A a \in Proposed(m) : Fire(m, a) \in store'
  BY DEF OverMeansClosed
<1> USE DEF Goto, local, shared, caller
<1>1. NobodyFound
  BY FoundStays DEF NobodyFound
<1>2. CASE finished
  <2>1. store' = store
    <3>1. ASSUME NEW t \in Thread, threadedExploration(t) PROVE store' = store
      <4>1. ~ StartSearch(t) /\ ~ FireNew(t)
        BY <1>1, <1>2, OverMeansIdle DEF StartSearch, FireNew
      <4> QED
        BY <3>1, <4>1, StoreStays DEF SearchInvariant
    <3> QED
      BY <3>1 DEF Next, Join, Returned, vars
  <2> QED
    BY <1>1, <1>2, <2>1 DEF OverMeansClosed
<1>3. CASE ~ finished
  <2>1. PICK t \in Thread : DeclareComplete(t)
    <3>1. ASSUME NEW t \in Thread, threadedExploration(t), ~ DeclareComplete(t)
          PROVE  FALSE
      <4>1. CASE StartSatisfied(t) \/ CheckSatisfied(t)
        <5>1. found'[t]
          BY <4>1 DEF StartSatisfied, CheckSatisfied, Win, SearchInvariant, TypeOK
        <5> QED
          BY <5>1 DEF NobodyFound
      <4>2. CASE StartSearch(t) \/ Abort(t) \/ NextEntry(t)
                 \/ Backtrack(t) \/ RunDry(t) \/ FireKnown(t) \/ FireNew(t)
                 \/ CheckSpare(t) \/ CheckDescend(t)
        BY <1>3, <4>2 DEF StartSearch, Abort, NextEntry, Backtrack, RunDry, FireKnown,
           FireNew, CheckSpare, CheckDescend
      <4>3. CASE NoReader(t) \/ TakeReader(t) \/ CopyToReader(t) \/ PostReader(t)
                 \/ GiveUp(t) \/ KeepRest(t) \/ Suspend(t)
                 \/ PostNext(t) \/ PostEnd(t) \/ SwapStack(t)
                 \/ WakeFinished(t) \/ WakeRestart(t)
        BY <1>3, <4>3 DEF NoReader, TakeReader, CopyToReader, PostReader, GiveUp,
           KeepRest, Suspend, PostNext, PostEnd, SwapStack, WakeFinished, WakeRestart
      <4> QED
        BY <3>1, <4>1, <4>2, <4>3 DEF threadedExploration
    <3> QED
      BY <3>1, <1>3 DEF Next, Join, Returned, vars
  <2>2. store' = store /\ pc[t] = "declare"
    BY <2>1 DEF DeclareComplete
  <2>3. \A u \in Thread :
          pc[u] \in {"wait", "declare"} /\ ~ Promised(u) /\ restartSemaphore[u] = 0
    BY <2>2, IdleAtEnd DEF CompleteMeansIdle
  <2>4. ASSUME NEW u \in Thread, NEW m, NEW a PROVE a \notin Owes(u, m)
    <3>1. ~ Loaded(u)
      BY <2>3 DEF Loaded, Promised
    <3> QED
      BY <2>3, <3>1, OwesNow DEF Busy, InHand
  <2> QED
    BY <1>1, <2>2, <2>4 DEF NothingLost, NobodyFound
<1> QED
  BY <1>2, <1>3

(* New markings are owed by the thread that has stored them.               *)
LEMMA NewIsOwed ==
  ASSUME SearchInvariant, NEW t \in Thread, StartSearch(t) \/ FireNew(t),
         NEW m \in store', m \notin store, NEW a \in Proposed(m)
  PROVE  Settled(m, a)
<1>t. /\ pc \in [Thread -> Stages] /\ ns \in [Thread -> Markings]
      /\ currentEntry \in [Thread -> Nat]
      /\ currentFirelist \in [Thread -> Seq(Transition)]
  BY DEF SearchInvariant, TypeOK
<1> USE DEF Goto, local, shared, caller
<1>1. CASE StartSearch(t)
  <2>1. m = ns[t] /\ m \in Markings
    BY <1>1, <1>t DEF StartSearch
  <2>2. /\ ns'[t] = m /\ pc'[t] = "loop" /\ currentFirelist'[t] = getFirelist(m)
        /\ currentEntry'[t] = Len(getFirelist(m))
    BY <1>1, <1>t, <2>1 DEF StartSearch, GrabFirelist
  <2>3. InHand(t, m, a)'
    BY <2>1, <2>2, OwesFresh
  <2> QED
    BY <2>3, OwesThen DEF Settled
<1>2. CASE FireNew(t)
  <2>1. ns'[t] = m /\ pc'[t] = "check"
    BY <1>2, <1>t DEF FireNew
  <2>2. InHand(t, m, a)'
    BY <2>1 DEF InHand
  <2> QED
    BY <2>2, OwesThen DEF Settled
<1> QED
  BY <1>1, <1>2

LEMMA LostStep ==
  ASSUME SearchInvariant, SearchInvariant', [Next]_vars, NothingLost, OverMeansClosed
  PROVE  NothingLost'
<1> SUFFICES ASSUME NobodyFound', NEW m \in store', NEW a \in Proposed(m)
             PROVE  Settled(m, a)
  BY DEF NothingLost, NobodyFound, Settled
<1>1. NobodyFound
  BY FoundStays DEF NobodyFound
<1>2. CASE finished'
  BY <1>2, ClosedStep DEF OverMeansClosed, Settled
<1>3. CASE ~ finished' /\ m \in store
  <2>1. Fire(m, a) \in store \/ \E t \in Thread : a \in Owes(t, m)
    BY <1>1, <1>3 DEF NothingLost, NobodyFound
  <2>2. store \subseteq store'
    BY StoreStays DEF Next, Join, Returned, vars, shared, SearchInvariant
  <2>3. m \in Markings
    BY <1>3 DEF SearchInvariant, TypeOK
  <2> QED
    BY <1>3, <2>1, <2>2, <2>3, OwedIsSettled DEF Settled
<1>4. CASE m \notin store
  <2>1. PICK t \in Thread : StartSearch(t) \/ FireNew(t)
    BY <1>4, StoreStays DEF Next, Join, Returned, vars, shared, SearchInvariant
  <2> QED
    BY <1>4, <2>1, NewIsOwed
<1> QED
  BY <1>2, <1>3, <1>4

(***************************************************************************)
(* What is found reaches the caller.                                       *)
(***************************************************************************)

(* The caller's variables change at a join only.                           *)
LEMMA CallerStays ==
  ASSUME NEW t \in Thread, threadedExploration(t)
  PROVE  UNCHANGED caller
<1>1. CASE StartSatisfied(t) \/ StartSearch(t) \/ Abort(t) \/ NextEntry(t)
           \/ Backtrack(t) \/ RunDry(t) \/ FireKnown(t) \/ FireNew(t)
           \/ CheckSatisfied(t) \/ CheckSpare(t) \/ CheckDescend(t) \/ NoReader(t)
  BY <1>1 DEF StartSatisfied, StartSearch, Abort, NextEntry, Backtrack, RunDry,
     FireKnown, FireNew, CheckSatisfied, CheckSpare, CheckDescend, NoReader, caller
<1>2. CASE TakeReader(t) \/ CopyToReader(t) \/ PostReader(t)
           \/ GiveUp(t) \/ KeepRest(t) \/ Suspend(t) \/ DeclareComplete(t)
           \/ PostNext(t) \/ PostEnd(t) \/ SwapStack(t)
           \/ WakeFinished(t) \/ WakeRestart(t)
  BY <1>2 DEF TakeReader, CopyToReader, PostReader, GiveUp, KeepRest, Suspend,
     DeclareComplete, PostNext, PostEnd, SwapStack, WakeFinished, WakeRestart, caller
<1> QED
  BY <1>1, <1>2 DEF threadedExploration

(* Only StartSatisfied and CheckSatisfied find something; a thread that is *)
(* done stays done, and one that has begun has begun.                      *)
LEMMA OwnProgress ==
  ASSUME SearchInvariant, NEW t \in Thread, threadedExploration(t)
  PROVE  /\ pc[t] # "done" /\ pc'[t] # "start"
         /\ \/ found'[t] = found[t]
            \/ (StartSatisfied(t) \/ CheckSatisfied(t)) /\ found'[t] = TRUE
         /\ pc[t] = "start" => StartSatisfied(t) \/ StartSearch(t)
         /\ pc[t] = "check" => CheckSatisfied(t) \/ CheckSpare(t) \/ CheckDescend(t)
         /\ pc'[t] = "release" => CopyToReader(t)
         /\ pc'[t] = "wait" => Suspend(t)
         /\ pc[t] \in {"post", "swap"} => ns'[t] = ns[t]
<1>t. pc \in [Thread -> Stages] /\ found \in [Thread -> BOOLEAN]
  BY DEF SearchInvariant, TypeOK
<1> USE <1>t DEF Goto, local, shared, caller
<1>1. CASE StartSatisfied(t) \/ StartSearch(t) \/ Abort(t) \/ NextEntry(t)
           \/ Backtrack(t) \/ RunDry(t)
  BY <1>1 DEF StartSatisfied, Win, StartSearch, Abort, NextEntry, Backtrack, RunDry
<1>2. CASE FireKnown(t) \/ FireNew(t)
           \/ CheckSatisfied(t) \/ CheckSpare(t) \/ CheckDescend(t) \/ NoReader(t)
  BY <1>2 DEF Win, FireKnown, FireNew, CheckSatisfied, CheckSpare, CheckDescend, NoReader
<1>3. CASE TakeReader(t) \/ CopyToReader(t) \/ PostReader(t)
           \/ GiveUp(t) \/ KeepRest(t) \/ Suspend(t) \/ DeclareComplete(t)
  BY <1>3 DEF TakeReader, CopyToReader, PostReader, GiveUp, KeepRest, Suspend,
     DeclareComplete
<1>4. CASE PostNext(t) \/ PostEnd(t) \/ SwapStack(t)
           \/ WakeFinished(t) \/ WakeRestart(t)
  BY <1>4 DEF PostNext, PostEnd, SwapStack, WakeFinished, WakeRestart
<1> QED
  BY <1>1, <1>2, <1>3, <1>4 DEF threadedExploration

(* A thread that has found a witness, and one that checks a marking, are   *)
(* not written to by others.                                               *)
LEMMA OwnMarking ==
  ASSUME SearchInvariant, NEW t \in Thread, threadedExploration(t),
         NEW u \in Thread, u # t, found[u] \/ pc[u] = "check"
  PROVE  ns'[u] = ns[u] /\ pc'[u] = pc[u] /\ found'[u] = found[u]
<1>1. pc[t] = "handover" => reader[t] # u
  BY DEF SearchInvariant, LedgerOutlives
<1> QED
  BY <1>1, OthersStay DEF SearchInvariant

LEMMA ReportedStep ==
  ASSUME SearchInvariant, [Next]_vars, Reported, \A t \in Thread : Recorded(t)
  PROVE  Reported'
<1>t. /\ pc \in [Thread -> Stages] /\ ns \in [Thread -> Markings] /\ TypeOK
      /\ found \in [Thread -> BOOLEAN]
  BY DEF SearchInvariant, TypeOK
<1> USE DEF Goto, local, shared, caller
<1>1. CASE Join \/ UNCHANGED vars
  BY <1>1 DEF Join, vars, Reported
<1>2. ASSUME NEW t \in Thread, threadedExploration(t)
      PROVE  Reported'
  <2>1. property' = property /\ store \subseteq store'
    BY <1>2, <1>t, StoreStays
  <2>2. ASSUME NEW m \in store', Satisfies(property, m)
        PROVE  \E u \in Thread : found'[u] \/ (pc'[u] = "check" /\ ns'[u] = m)
    <3>1. CASE m \in store
      <4>1. PICK u \in Thread : found[u] \/ (pc[u] = "check" /\ ns[u] = m)
        BY <2>2, <3>1 DEF Reported
      <4>2. CASE found[u]
        BY <4>2, FoundStays, <1>2 DEF Next
      <4>3. CASE pc[u] = "check" /\ ns[u] = m /\ u # t
        BY <1>2, <4>3, OwnMarking
      <4>4. CASE pc[u] = "check" /\ ns[u] = m /\ u = t
        <5>1. CheckSatisfied(t)
          BY <1>2, <2>2, <4>4, OwnProgress DEF CheckSpare, CheckDescend
        <5> QED
          BY <5>1, <1>t DEF CheckSatisfied, Win
      <4> QED
        BY <4>1, <4>2, <4>3, <4>4
    <3>2. CASE m \notin store
      <4>1. ~ StartSearch(t)
        BY <2>2, <3>2 DEF StartSearch
      <4>2. FireNew(t) /\ m = NextMarking(t)
        BY <1>2, <1>t, <3>2, <4>1, StoreStays
      <4> QED
        BY <4>2, <1>t DEF FireNew
    <3> QED
      BY <3>1, <3>2
  <2>3. ASSUME NEW u \in Thread, found'[u]
        PROVE  /\ Satisfies(property, ns'[u])
               /\ ns'[u] \in store' \union {InitialMarking}
    <3>1. CASE found[u]
      <4>1. ns'[u] = ns[u]
        <5>1. CASE u # t
          BY <1>2, <3>1, <5>1, OwnMarking
        <5>2. CASE u = t
          <6>1. pc[t] \in {"post", "swap"}
            BY <1>2, <3>1, <5>2, OwnProgress DEF SearchInvariant, LedgerOutlives
          <6> QED
            BY <1>2, <5>2, <6>1, OwnProgress
        <5> QED
          BY <5>1, <5>2
      <4> QED
        BY <2>1, <3>1, <4>1 DEF Reported
    <3>2. CASE ~ found[u]
      <4>1. u = t
        BY <1>2, <1>t, <2>3, <3>2, OthersStay
      <4>2. StartSatisfied(t) \/ CheckSatisfied(t)
        BY <1>2, <2>3, <3>2, <4>1, OwnProgress
      <4>3. ns' = ns /\ Satisfies(property, ns[t])
        BY <4>2 DEF StartSatisfied, CheckSatisfied
      <4>4. CASE StartSatisfied(t)
        <5>1. ns[t] = InitialMarking
          BY <4>4 DEF StartSatisfied, SearchInvariant, WorkFits
        <5> QED
          BY <4>1, <4>3, <5>1
      <4>5. CASE CheckSatisfied(t)
        <5>1. ns[t] \in store
          BY <4>5 DEF CheckSatisfied, Recorded
        <5> QED
          BY <2>1, <4>1, <4>3, <5>1
      <4> QED
        BY <4>2, <4>4, <4>5
    <3> QED
      BY <3>1, <3>2
  <2>4. ASSUME NEW u \in Thread
        PROVE  pc'[u] = "start" \/ found'[u] \/ InitialMarking \in store'
    <3>1. CASE found[u]
      BY <1>2, <3>1, FoundStays DEF Next
    <3>2. CASE InitialMarking \in store
      BY <3>2, <2>1
    <3>3. CASE pc[u] = "start" /\ u # t
      BY <1>2, <1>t, <3>3, OthersStay
    <3>4. CASE pc[u] = "start" /\ u = t
      <4>1. CASE StartSatisfied(t)
        BY <3>4, <4>1, <1>t DEF StartSatisfied, Win
      <4>2. CASE StartSearch(t)
        <5>1. ns[t] = InitialMarking
          BY <3>4 DEF SearchInvariant, WorkFits
        <5> QED
          BY <4>2, <5>1 DEF StartSearch
      <4> QED
        BY <1>2, <3>4, <4>1, <4>2, OwnProgress
    <3> QED
      BY <3>1, <3>2, <3>3, <3>4 DEF Reported
  <2> QED
    BY <2>1, <2>2, <2>3, <2>4 DEF Reported
<1> QED
  BY <1>1, <1>2 DEF Next, Returned

LEMMA CollectedStep ==
  ASSUME SearchInvariant, [Next]_vars, Reported, Collected
  PROVE  Collected'
<1>t. /\ pc \in [Thread -> Stages] /\ TypeOK /\ joined \in 0 .. number_of_threads
      /\ found \in [Thread -> BOOLEAN] /\ number_of_threads \in Nat
      /\ Thread = 0 .. number_of_threads - 1 /\ value \in BOOLEAN
  BY ThreadsAssumption DEF SearchInvariant, TypeOK, Thread
<1> USE DEF Goto, local, shared, caller
<1>1. CASE UNCHANGED vars
  BY <1>1 DEF vars, Collected
<1>2. CASE Join
  <2>1. /\ joined' = joined + 1 /\ value' = (value \/ found[joined])
        /\ pc[joined] = "done" /\ joined \in Thread
        /\ answer_ns' = IF found[joined] THEN ns[joined] ELSE answer_ns
        /\ UNCHANGED <<property, pc, found, store>>
    BY <1>2, <1>t DEF Join
  <2>2. 0 .. joined' - 1 = (0 .. joined - 1) \union {joined}
    BY <2>1, <1>t
  <2>3. \A i \in 0 .. joined' - 1 : pc'[i] = "done"
    BY <2>1, <2>2 DEF Collected
  <2>4. value' <=> \E i \in 0 .. joined' - 1 : found'[i]
    BY <2>1, <2>2 DEF Collected
  <2>5. value' => /\ Satisfies(property', answer_ns')
                  /\ answer_ns' \in store' \union {InitialMarking}
    <3>1. CASE found[joined]
      BY <2>1, <3>1 DEF Reported
    <3>2. CASE ~ found[joined]
      BY <2>1, <3>2 DEF Collected
    <3> QED
      BY <3>1, <3>2
  <2>6. ~ value' => answer_ns' = InitialMarking
    BY <1>t, <2>1 DEF Collected
  <2> QED
    BY <2>3, <2>4, <2>5, <2>6 DEF Collected
<1>3. ASSUME NEW t \in Thread, threadedExploration(t)
      PROVE  Collected'
  <2>1. UNCHANGED <<property, joined, value, answer_ns>> /\ store \subseteq store'
    BY <1>3, <1>t, StoreStays, CallerStays
  <2>2. ASSUME NEW i \in 0 .. joined - 1
        PROVE  pc'[i] = "done" /\ found'[i] = found[i]
    <3>1. i \in Thread /\ pc[i] = "done"
      BY <1>t, <2>2 DEF Collected
    <3>2. i # t
      BY <1>3, <3>1, OwnProgress
    <3> QED
      BY <1>3, <1>t, <3>1, <3>2, OthersStay
  <2> QED
    BY <2>1, <2>2 DEF Collected
<1> QED
  BY <1>1, <1>2, <1>3 DEF Next, Returned

(* Who is loaded has been handed a stack that is not empty.                *)
LEMMA LoadedStep ==
  ASSUME SearchInvariant, [Next]_vars, ~ finished',
         \A t \in Thread : ~ finished /\ Loaded(t) => stack[t] # <<>>,
         NEW u \in Thread, Loaded(u)'
  PROVE  stack'[u] # <<>>
<1>t. /\ pc \in [Thread -> Stages] /\ TypeOK
      /\ stack \in [Thread -> Seq(StackEntry)]
      /\ restartSemaphore \in [Thread -> Nat]
  BY DEF SearchInvariant, TypeOK
<1>f. ~ finished
  BY FoundStays
<1> USE DEF Goto, local, shared, caller
<1>1. CASE Join \/ UNCHANGED vars
  <2>1. Loaded(u) /\ stack'[u] = stack[u]
    BY <1>1 DEF Join, vars, Loaded
  <2> QED
    BY <1>f, <2>1
<1>2. ASSUME NEW t \in Thread, CopyToReader(t), u = reader[t]
      PROVE  stack'[u] # <<>>
  <2>1. stack[t] # <<>> /\ stack[t] \in Seq(StackEntry)
    BY <1>2, <1>t DEF CopyToReader, SearchInvariant, WorkFits
  <2>2. stack'[u] = CopyStack(stack[t])
    BY <1>2, <1>t DEF CopyToReader
  <2>3. 1 \in 1 .. Len(stack[t])
    BY <2>1
  <2>4. 1 \in DOMAIN CopyStack(stack[t])
    BY <2>3 DEF CopyStack
  <2>5. 1 \notin DOMAIN <<>>
    OBVIOUS
  <2> QED
    BY <2>2, <2>4, <2>5
<1>3. ASSUME NEW t \in Thread, threadedExploration(t),
             ~ (CopyToReader(t) /\ u = reader[t])
      PROVE  stack'[u] # <<>>
  <2>h. pc[t] = "handover" => CopyToReader(t)
    BY <1>3 DEF threadedExploration, StartSatisfied, StartSearch, Abort, NextEntry,
       Backtrack, RunDry, FireKnown, FireNew, CheckSatisfied, CheckSpare,
       CheckDescend, NoReader, TakeReader, PostReader, GiveUp, KeepRest,
       Suspend, DeclareComplete, PostNext, PostEnd, SwapStack, WakeFinished,
       WakeRestart
  <2>1. CASE u # t
    <3>1. pc'[u] = pc[u] /\ stack'[u] = stack[u] /\ pc[u] = "wait"
      BY <1>3, <1>t, <2>h, <2>1, OthersStay DEF Loaded
    <3>2. CASE restartSemaphore'[u] > 0
      <4>1. restartSemaphore[u] > 0 \/ (PostReader(t) /\ reader[t] = u)
        <5>1. ~ PostNext(t)
          BY <1>f DEF PostNext, SearchInvariant, LedgerOutlives
        <5>2. CASE StartSatisfied(t) \/ StartSearch(t) \/ Abort(t) \/ NextEntry(t)
                   \/ Backtrack(t) \/ RunDry(t) \/ FireKnown(t) \/ FireNew(t)
                   \/ CheckSatisfied(t) \/ CheckSpare(t) \/ CheckDescend(t)
          BY <3>2, <5>2 DEF StartSatisfied, Win, StartSearch, Abort, NextEntry,
             Backtrack, RunDry, FireKnown, FireNew, CheckSatisfied, CheckSpare, CheckDescend
        <5>3. CASE NoReader(t) \/ TakeReader(t) \/ CopyToReader(t) \/ PostReader(t)
                   \/ GiveUp(t) \/ KeepRest(t) \/ Suspend(t) \/ DeclareComplete(t)
          BY <1>t, <3>2, <5>3 DEF NoReader, TakeReader, CopyToReader, PostReader, GiveUp,
             KeepRest, Suspend, DeclareComplete
        <5>4. CASE PostEnd(t) \/ SwapStack(t) \/ WakeFinished(t) \/ WakeRestart(t)
          BY <1>t, <2>1, <3>2, <5>4 DEF PostEnd, SwapStack, WakeFinished, WakeRestart
        <5> QED
          BY <1>3, <5>1, <5>2, <5>3, <5>4 DEF threadedExploration
      <4>2. Loaded(u)
        BY <3>1, <4>1 DEF Loaded, PostReader
      <4> QED
        BY <1>f, <3>1, <4>2
    <3>3. CASE \E d \in Thread : pc'[d] = "release" /\ reader'[d] = u
      <4>1. PICK d \in Thread : pc'[d] = "release" /\ reader'[d] = u
        BY <3>3
      <4>2. d # t
        <5>1. CopyToReader(t) => reader' = reader
          BY DEF CopyToReader
        <5> QED
          BY <1>3, <4>1, <5>1, OwnProgress
      <4>3. pc[d] = "release" /\ reader[d] = u
        BY <1>3, <1>t, <4>1, <4>2, OthersStay, ReaderStays
      <4>4. Loaded(u)
        BY <3>1, <4>3 DEF Loaded
      <4> QED
        BY <1>f, <3>1, <4>4
    <3> QED
      BY <3>2, <3>3 DEF Loaded
  <2>2. CASE u = t
    <3>1. Suspend(t)
      BY <1>3, <2>2, OwnProgress DEF Loaded
    <3>2. /\ pc[t] = "suspend" /\ UNCHANGED <<restartSemaphore, reader>>
      BY <3>1 DEF Suspend
    <3>3. Accounted(t)
      BY <1>f DEF SearchInvariant, SuspensionLedger
    <3>4. ~ Promised(t) /\ ~ (restartSemaphore[t] > 0)
      BY <3>2, <3>3 DEF Accounted
    <3>5. \A d \in Thread : pc'[d] = "release" => pc[d] = "release"
      <4>1. ASSUME NEW d \in Thread, pc'[d] = "release" PROVE pc[d] = "release"
        <5>1. d # t
          BY <3>1, <4>1, <1>t DEF Suspend
        <5> QED
          BY <4>1, <5>1, <1>3, <1>t, OthersStay
      <4> QED
        BY <4>1
    <3> QED
      BY <2>2, <3>2, <3>4, <3>5 DEF Loaded, Promised
  <2> QED
    BY <2>1, <2>2
<1> QED
  BY <1>1, <1>2, <1>3 DEF Next, Returned

(***************************************************************************)
(* The parallel search implements the contract of depth_first.             *)
(***************************************************************************)

LEMMA ContractInit == Init => Search!Init
<1> SUFFICES ASSUME Init PROVE Search!Init
  OBVIOUS
<1>1. number_of_threads \in Nat \ {0}
  BY ThreadsAssumption
<1>2. joined < number_of_threads
  BY <1>1 DEF Init
<1> QED
  BY <1>2 DEF Init, Search!Init

(* Storing a marking is a discovery.                                       *)
LEMMA DiscoverStep ==
  ASSUME SearchInvariant, AnswerInvariant, NEW t \in Thread, threadedExploration(t)
  PROVE  [Search!Next]_(Search!searchVars)
<1>t. /\ TypeOK /\ ns[t] \in Markings /\ joined \in 0 .. number_of_threads
      /\ number_of_threads \in Nat /\ Thread = 0 .. number_of_threads - 1
  BY ThreadsAssumption DEF SearchInvariant, TypeOK, Thread
<1>1. UNCHANGED <<property, joined, value, answer_ns>>
  BY CallerStays DEF caller
<1>2. joined < number_of_threads
  <2>1. pc[t] # "done"
    BY OwnProgress
  <2>2. t \notin 0 .. joined - 1
    BY <2>1 DEF AnswerInvariant, Collected
  <2> QED
    BY <1>t, <2>2
<1>3. CASE store' = store
  BY <1>1, <1>3 DEF Search!searchVars
<1>4. CASE store' # store
  <2>1. PICK m \in {InitialMarking} \union UNION {Search!Successors(s) : s \in store} :
          store' = store \union {m}
    <3>1. CASE StartSearch(t) /\ store' = store \union {ns[t]}
      BY <3>1 DEF StartSearch, SearchInvariant, WorkFits
    <3>2. CASE FireNew(t) /\ store' = store \union {NextMarking(t)}
      <4>1. pc[t] = "fire"
        BY <3>2 DEF FireNew
      <4>2. EndOf(stack[t]) = ns[t] /\ ns[t] \in store
        BY <4>1, EndsHere DEF AnswerInvariant, Recorded
      <4>3. currentEntry[t] + 1 \in 1 .. Len(currentFirelist[t])
        BY <4>1 DEF SearchInvariant, TypeOK, WorkFits, ListFits
      <4>4. Candidate(t) \in Proposed(ns[t])
        BY <4>1, <4>2, <4>3 DEF AnswerInvariant, Recorded, Candidate
      <4>5. NextMarking(t) \in Search!Successors(ns[t])
        BY <4>4 DEF Proposed, NextMarking, Search!Successors, Search!Fire, Fire,
           Search!Delta, Delta
      <4> QED
        BY <3>2, <4>2, <4>5
    <3> QED
      BY <1>t, <1>4, <3>1, <3>2, StoreStays
  <2>2. Search!Discover
    BY <1>1, <1>2, <1>4, <2>1 DEF Search!Discover
  <2> QED
    BY <2>2 DEF Search!Next
<1> QED
  BY <1>3, <1>4

(* The last thread joined is the answer.                                   *)
LEMMA AnswerStep ==
  ASSUME SearchInvariant, AnswerInvariant, SearchInvariant', AnswerInvariant', Join
  PROVE  [Search!Next]_(Search!searchVars)
<1>t. /\ TypeOK /\ TypeOK' /\ joined \in 0 .. number_of_threads /\ value' \in BOOLEAN
      /\ number_of_threads \in Nat \ {0} /\ Thread = 0 .. number_of_threads - 1
  BY ThreadsAssumption DEF SearchInvariant, TypeOK, Thread
<1>1. /\ joined < number_of_threads /\ joined' = joined + 1
      /\ UNCHANGED <<property, pc, store, found, finished>>
  BY DEF Join, local, shared
<1>2. CASE joined' < number_of_threads
  BY <1>1, <1>2 DEF Search!searchVars
<1>3. CASE joined' = number_of_threads /\ value'
  <2>1. Satisfies(property, answer_ns') /\ answer_ns' \in store \union {InitialMarking}
    BY <1>1, <1>3 DEF AnswerInvariant, Collected
  <2>2. answer_ns' \in Markings
    BY <1>t DEF TypeOK
  <2>3. Search!AnswerYes
    BY <1>1, <1>3, <1>t, <2>1, <2>2 DEF Search!AnswerYes
  <2> QED
    BY <2>3 DEF Search!Next
<1>4. CASE joined' = number_of_threads /\ ~ value'
  <2>1. \A t \in Thread : pc'[t] = "done" /\ ~ found'[t]
    BY <1>1, <1>4, <1>t DEF AnswerInvariant, Collected
  <2>2. \A t \in Thread : pc[t] = "done" /\ ~ found[t]
    BY <1>1, <2>1
  <2>3. 0 \in Thread
    BY <1>t
  <2>4. finished /\ NobodyFound
    BY <2>2, <2>3 DEF SearchInvariant, LedgerOutlives, NobodyFound
  <2>5. InitialMarking \in store
    BY <2>2, <2>3 DEF AnswerInvariant, Reported
  <2>6. Search!Closed
    BY <2>4 DEF AnswerInvariant, OverMeansClosed, Proposed, Search!Closed,
       Search!Successors, Search!Fire, Fire, Search!Delta, Delta
  <2>7. ~ \E m \in store : Satisfies(property, m)
    BY <2>2 DEF AnswerInvariant, Reported
  <2>8. answer_ns' = InitialMarking
    BY <1>4 DEF AnswerInvariant, Collected
  <2>9. Search!AnswerNo
    BY <1>1, <1>4, <1>t, <2>8, <2>5, <2>6, <2>7 DEF Search!AnswerNo
  <2> QED
    BY <2>9 DEF Search!Next
<1> QED
  BY <1>1, <1>2, <1>3, <1>4, <1>t

(***************************************************************************)
(* The theorems.                                                           *)
(***************************************************************************)

LEMMA InvariantInit == Init => SearchInvariant
<1> SUFFICES ASSUME Init PROVE SearchInvariant
  OBVIOUS
<1>1. number_of_threads \in Nat \ {0} /\ 0 \in Thread
  BY ThreadsAssumption DEF Thread
<1>2. TypeOK
  <2>1. 0 \in 0 .. number_of_threads /\ <<>> \in Seq(StackEntry) /\ <<>> \in Seq(Transition)
    BY <1>1
  <2>2. InitialMarking \in Markings
    BY MarkingsAssumption
  <2> QED
    BY <1>1, <2>1, <2>2 DEF Init, TypeOK, Stages
<1>3. Listed = {}
  BY DEF Init, Listed
<1>4. SuspensionLedger
  <2>1. EnteredOnce
    BY DEF Init, EnteredOnce
  <2>2. PromisedOnce
    BY DEF Init, PromisedOnce
  <2>3. \A t \in Thread : Accounted(t)
    BY <1>3 DEF Init, Accounted, Promised
  <2> QED
    BY <2>1, <2>2, <2>3 DEF SuspensionLedger
<1>5. LedgerOutlives
  BY <1>3 DEF Init, LedgerOutlives
<1>6. \A t \in Thread : WorkFits(t)
  BY DEF Init, WorkFits
<1> QED
  BY <1>2, <1>4, <1>5, <1>6 DEF SearchInvariant

LEMMA AnswerInit == Init => AnswerInvariant
<1> SUFFICES ASSUME Init PROVE AnswerInvariant
  OBVIOUS
<1>1. NothingLost /\ OverMeansClosed /\ Reported
  BY DEF Init, NothingLost, OverMeansClosed, Reported
<1>2. Collected
  BY DEF Init, Collected
<1>3. ASSUME NEW t \in Thread
      PROVE  Recorded(t) /\ (~ finished /\ Loaded(t) => stack[t] # <<>>)
  BY DEF Init, Recorded, Loaded
<1> QED
  BY <1>1, <1>2, <1>3 DEF AnswerInvariant

(* The inductive invariant holds in every reachable state: at every        *)
(* handover donor, array and semaphores agree on who waits, and every      *)
(* thread's stack is a path of enabled transitions to its marking.         *)
THEOREM SearchInvariantHolds == Spec => []SearchInvariant
<1>1. SearchInvariant /\ [Next]_vars => SearchInvariant'
  <2> SUFFICES ASSUME SearchInvariant, [Next]_vars PROVE SearchInvariant'
    OBVIOUS
  <2>1. TypeOK'
    BY TypeStep
  <2>2. SuspensionLedger'
    BY LedgerStep
  <2>3. LedgerOutlives'
    BY OutlivesStep
  <2>4. (\A u \in Thread : WorkFits(u))'
    BY WorkStep
  <2> QED
    BY <2>1, <2>2, <2>3, <2>4 DEF SearchInvariant
<1> QED
  BY <1>1, InvariantInit, PTL DEF Spec

(* The variables keep their types; the marking of a thread is always one   *)
(* the net can be in, however often threads step back or are overwritten.  *)
THEOREM TypeCorrect == Spec => []TypeOK
<1>1. SearchInvariant => TypeOK
  BY DEF SearchInvariant
<1> QED
  BY <1>1, SearchInvariantHolds, PTL

(* No donor ever writes into the slots of a thread that runs, no two       *)
(* donors serve one reader, no wake-up is lost or doubled.                 *)
THEOREM LedgerCorrect == Spec => []SuspensionLedger
<1>1. SearchInvariant => SuspensionLedger
  BY DEF SearchInvariant
<1> QED
  BY <1>1, SearchInvariantHolds, PTL

(* The assertions in Transition::fire and backfire never fail.             *)
THEOREM FiringCorrect == Spec => []FiringIsLegal
<1>1. SearchInvariant => FiringIsLegal
  <2> SUFFICES ASSUME SearchInvariant, NEW t \in Thread
               PROVE  /\ pc[t] = "fire" => Enabled(ns[t], Candidate(t))
                      /\ pc[t] = "recheck" => NonNegative(Backfire(ns[t], Candidate(t)))
                      /\ pc[t] = "loop" /\ stack[t] # <<>> =>
                           NonNegative(Backfire(ns[t], Fired(Top(t))))
    BY DEF FiringIsLegal
  <2>1. TypeOK /\ WorkFits(t)
    BY DEF SearchInvariant
  <2>2. ASSUME NEW m \in Markings PROVE NonNegative(m)
    BY MarkingsAssumption DEF NonNegative
  <2>3. pc[t] = "fire" => Enabled(ns[t], Candidate(t))
    BY <2>1, AtFire DEF EnabledAt
  <2>4. pc[t] = "recheck" => NonNegative(Backfire(ns[t], Candidate(t)))
    BY <2>1, <2>2, AtRecheck
  <2>5. ASSUME pc[t] = "loop", stack[t] # <<>>
        PROVE  NonNegative(Backfire(ns[t], Fired(Top(t))))
    <3>1. LeadsTo(stack[t], ns[t])
      BY <2>1, <2>5 DEF WorkFits
    <3> QED
      BY <2>1, <2>2, <2>5, <3>1, AtStepBack
  <2> QED
    BY <2>3, <2>4, <2>5
<1> QED
  BY <1>1, SearchInvariantHolds, PTL

(* When the last thread declares the search complete, everybody else waits *)
(* and nobody has been handed work.                                        *)
THEOREM CompletionCorrect == Spec => []CompleteMeansIdle
BY IdleAtEnd, SearchInvariantHolds, PTL

(* From the first marking stored to the answer collected nothing is lost:  *)
(* what a thread takes on is on record, what it gives away is all taken    *)
(* on by the reader, what is found or exhausted reaches the caller.        *)
THEOREM AnswerInvariantHolds == Spec => []AnswerInvariant
<1>1. SearchInvariant /\ SearchInvariant' /\ AnswerInvariant /\ [Next]_vars
        => AnswerInvariant'
  <2> SUFFICES ASSUME SearchInvariant, SearchInvariant', AnswerInvariant, [Next]_vars
               PROVE  AnswerInvariant'
    OBVIOUS
  <2>1. /\ NothingLost /\ OverMeansClosed /\ Reported /\ Collected
        /\ \A t \in Thread : Recorded(t)
        /\ \A t \in Thread : ~ finished /\ Loaded(t) => stack[t] # <<>>
    BY DEF AnswerInvariant
  <2>2. NothingLost' /\ OverMeansClosed'
    BY <2>1, LostStep, ClosedStep
  <2>3. Reported' /\ Collected'
    BY <2>1, ReportedStep, CollectedStep
  <2>4. ASSUME NEW t \in Thread
        PROVE  Recorded(t)' /\ (~ finished' /\ Loaded(t)' => stack'[t] # <<>>)
    BY <2>1, RecordStep, LoadedStep
  <2> QED
    BY <2>2, <2>3, <2>4 DEF AnswerInvariant
<1> QED
  BY <1>1, AnswerInit, SearchInvariantHolds, PTL DEF Spec

(* Unless a witness has been found, every firelist entry of every stored   *)
(* marking has been fired or is still owed by a thread that is running or  *)
(* about to be woken: no handover, stale read or suspension drops one.     *)
THEOREM NothingIsLost == Spec => []NothingLost
<1>1. AnswerInvariant => NothingLost
  BY DEF AnswerInvariant
<1> QED
  BY <1>1, AnswerInvariantHolds, PTL

(* The marking a thread works on is always the one its stack leads to.     *)
THEOREM ReplayCorrect == Spec => []StackReplays
<1>1. SearchInvariant => StackReplays
  <2> SUFFICES ASSUME SearchInvariant, NEW t \in Thread
               PROVE  /\ pc[t] \in {"loop", "fire", "trylock", "handover", "release",
                                    "recheck", "wait", "suspend"} =>
                           ns[t] = EndOf(stack[t])
                      /\ pc[t] = "check" =>
                           ns[t] = Fire(EndOf(stack[t]), Candidate(t))
    BY DEF StackReplays
  <2>1. ASSUME pc[t] = "check" PROVE ns[t] = Fire(EndOf(stack[t]), Candidate(t))
    <3>1. Fire(EndOf(stack[t]), Fired(EntryOf(t))) = ns[t]
      BY <2>1, EntryPushed
    <3>2. Fired(EntryOf(t)) = Candidate(t)
      BY DEF Fired, EntryOf, Candidate
    <3> QED
      BY <3>1, <3>2
  <2> QED
    BY <2>1, EndsHere
<1> QED
  BY <1>1, SearchInvariantHolds, PTL

(* A thread woken while the search runs has been handed a stack and a      *)
(* stored marking, and takes up the firelist of that marking.              *)
THEOREM WokenCorrect == Spec => WokenWithWork
<1>1. SearchInvariant /\ AnswerInvariant /\ [Next]_vars =>
        [\A t \in Thread :
           (pc[t] = "wait" /\ pc'[t] = "loop") =>
             /\ stack[t] # <<>>
             /\ ns[t] \in store
             /\ currentFirelist'[t] = getFirelist(ns[t])]_vars
  <2> SUFFICES ASSUME SearchInvariant, AnswerInvariant, Next,
                      NEW t \in Thread, pc[t] = "wait", pc'[t] = "loop"
               PROVE  /\ stack[t] # <<>>
                      /\ ns[t] \in store
                      /\ currentFirelist'[t] = getFirelist(ns[t])
    OBVIOUS
  <2>1. WakeRestart(t)
    <3>1. PICK u \in Thread : threadedExploration(u)
      BY DEF Next, Join, Returned, vars
    <3>2. u = t
      BY <3>1, OthersStay DEF SearchInvariant
    <3>3. pc \in [Thread -> Stages]
      BY DEF SearchInvariant, TypeOK
    <3> QED
      BY <3>1, <3>2, <3>3 DEF threadedExploration, StartSatisfied, StartSearch, Abort,
         NextEntry, Backtrack, RunDry, FireKnown, FireNew, CheckSatisfied, CheckSpare,
         CheckDescend, NoReader, TakeReader, CopyToReader, PostReader, GiveUp,
         KeepRest, Suspend, DeclareComplete, PostNext, PostEnd, SwapStack,
         WakeFinished, Goto, Win
  <2>2. Loaded(t) /\ ~ finished
    BY <2>1 DEF WakeRestart, Loaded
  <2>3. currentFirelist'[t] = getFirelist(ns[t])
    BY <2>1 DEF WakeRestart, GrabFirelist, SearchInvariant, TypeOK
  <2> QED
    BY <2>2, <2>3 DEF AnswerInvariant, Recorded
<1> QED
  BY <1>1, SearchInvariantHolds, AnswerInvariantHolds, PTL DEF Spec, WokenWithWork

(* The safety half of KeepsContract: a "yes" comes with a satisfying       *)
(* marking that was reached, a "no" after every marking the firelists lead *)
(* to has been stored and none of them satisfies the property.             *)
THEOREM ContractKept == Spec => Search!Init /\ [][Search!Next]_(Search!searchVars)
<1>1. SearchInvariant /\ AnswerInvariant /\ SearchInvariant' /\ AnswerInvariant'
        /\ [Next]_vars => [Search!Next]_(Search!searchVars)
  <2> SUFFICES ASSUME SearchInvariant, AnswerInvariant, SearchInvariant',
                      AnswerInvariant', [Next]_vars
               PROVE  [Search!Next]_(Search!searchVars)
    OBVIOUS
  <2>1. CASE UNCHANGED vars
    BY <2>1 DEF vars, caller, shared, Search!searchVars
  <2> QED
    BY <2>1, DiscoverStep, AnswerStep DEF Next, Returned
<1> QED
  BY <1>1, ContractInit, SearchInvariantHolds, AnswerInvariantHolds, PTL DEF Spec
=============================================================================
