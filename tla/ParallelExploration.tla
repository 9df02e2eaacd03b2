------------------------ MODULE ParallelExploration ------------------------
(***************************************************************************)
(* The multi-threaded depth-first search of LoLA 2                         *)
(* (src/lola2/src/Exploration/ParallelExploration.cc).                     *)
(*                                                                         *)
(* Every thread searches from the initial marking with a stack of its own; *)
(* the threads share only the store.  A thread that runs dry enters itself *)
(* in suspended_threads and waits on its semaphore; a thread that finds a  *)
(* new marking and has work to spare takes a suspended thread off the      *)
(* array, copies its own stack and marking into that thread's slots and    *)
(* posts the semaphore.  The last thread to run dry, and any thread that   *)
(* finds a satisfying marking, sets finished and posts all semaphores.     *)
(*                                                                         *)
(* One action is one access to shared data with the local work around it:  *)
(* a read of finished or num_suspended, a searchAndInsert, a critical      *)
(* section, a post, a wait.  The sections under num_suspend_mutex and      *)
(* global_property_mutex are short and do not nest: each is one action.    *)
(***************************************************************************)
EXTENDS SearchPath, FiniteSets

CONSTANTS
  number_of_threads,
  getFirelist(_),     (* Firelist::getFirelist of the reduction in use     *)
  Property,           (* the properties depth_first may be called with     *)
  Satisfies(_, _)     (* SimpleProperty::initProperty / checkProperty      *)

ASSUME ThreadsAssumption == number_of_threads \in Nat \ {0}

ASSUME FirelistAssumption ==
  \A m \in Markings :
    getFirelist(m) \in Seq({t \in Transition : Enabled(m, t)})

Thread == 0 .. number_of_threads - 1

VARIABLES
  pc,                 (* where each thread is in threadedExploration       *)
  ns,                 (* thread_netstate: the marking of each thread       *)
  currentFirelist,    (* the firelist each thread works on ...             *)
  currentEntry,       (* ... and how many of its entries are still to fire *)
  stack,              (* thread_stack: SimpleStackEntry records            *)
  store,              (* global_store: the markings inserted               *)
  finished,           (* the flag all threads poll                         *)
  num_suspended,      (* number of threads currently suspended ...         *)
  suspended_threads,  (* ... and the array of their numbers                *)
  reader,             (* reader_thread_number of a donor                   *)
  restartSemaphore,   (* value of each thread's semaphore                  *)
  posted,             (* loop counter of a thread that posts to everybody  *)
  found,              (* the thread returns its marking, not NULL          *)
  global_stack,       (* global_property->stack: the witness path          *)
  property,           (* global_property, the argument of depth_first      *)
  joined,             (* how many threads the caller has joined            *)
  value,              (* property.value                                    *)
  answer_ns           (* the caller's ns: the witness marking              *)

local  == <<ns, currentFirelist, currentEntry, stack, found>>
shared == <<store, finished, num_suspended, suspended_threads, reader,
            restartSemaphore, posted, global_stack>>
caller == <<property, joined, value, answer_ns>>
vars   == <<pc, local, shared, caller>>

Stages == {"start", "loop", "fire", "check", "trylock", "handover",
           "release", "recheck", "suspend", "declare", "post", "swap", "wait",
          "done"}

Goto(t, stage) == pc' = [pc EXCEPT ![t] = stage]

(* Mutant: the oldest entry.                                               *)
TopIsBottom(t) == stack[t][1]
Top(t) == stack[t][Len(stack[t])]
(* Mutant: the entry stays on the stack.                                   *)
PopNothing(t) == stack[t]
Pop(t) == SubSeq(stack[t], 1, Len(stack[t]) - 1)

(* The copy constructor of SimpleStackEntry keeps fl[0 .. current] only.   *)
CopyEntry(e) ==
  [fl |-> SubSeq(e.fl, 1, e.current + 1), current |-> e.current]
(* Mutant: the reader starts with an empty stack.                          *)
CopyNothing(s) == SubSeq(s, 1, 0)
CopyStack(s) == [i \in 1 .. Len(s) |-> CopyEntry(s[i])]

(* Mutant: the last entry of the firelist is skipped.                      *)
GrabShort(t, m) ==
  /\ currentFirelist' = [currentFirelist EXCEPT ![t] = getFirelist(m)]
  /\ currentEntry' = [currentEntry EXCEPT
       ![t] = IF getFirelist(m) = <<>> THEN 0 ELSE Len(getFirelist(m)) - 1]

(* A fresh firelist for marking m.                                         *)
GrabFirelist(t, m) ==
  /\ currentFirelist' = [currentFirelist EXCEPT ![t] = getFirelist(m)]
  /\ currentEntry' = [currentEntry EXCEPT ![t] = Len(getFirelist(m))]

-----------------------------------------------------------------------------
(* depth_first before the threads start.                                   *)
Init ==
  /\ property \in Property
  /\ pc = [t \in Thread |-> "start"]
  /\ ns = [t \in Thread |-> InitialMarking]
  /\ currentFirelist = [t \in Thread |-> <<>>]
  /\ currentEntry = [t \in Thread |-> 0]
  /\ stack = [t \in Thread |-> <<>>]
  /\ found = [t \in Thread |-> FALSE]
  /\ store = {}
  /\ finished = FALSE
  /\ num_suspended = 0
  /\ suspended_threads = [i \in Thread |-> 0]
  /\ reader = [t \in Thread |-> 0]
  /\ restartSemaphore = [t \in Thread |-> 0]
  /\ posted = [t \in Thread |-> 0]
  /\ global_stack = <<>>
  /\ joined = 0
  /\ value = FALSE
  /\ answer_ns = InitialMarking

(* The thread has won: raise finished, then post to everybody.             *)
Win(t) ==
  /\ finished' = TRUE
  /\ found' = [found EXCEPT ![t] = TRUE]
  /\ Goto(t, "post")

(* The initial marking satisfies the property: it is not even stored.      *)
StartSatisfied(t) ==
  /\ pc[t] = "start"
  /\ Satisfies(property, ns[t])
  /\ Win(t)
  /\ UNCHANGED <<ns, currentFirelist, currentEntry, stack, store,
                 num_suspended, suspended_threads, reader, restartSemaphore,
                 posted, global_stack, caller>>

(* Every thread stores the initial marking, whatever the store answers.    *)
StartSearch(t) ==
  /\ pc[t] = "start"
  /\ ~ Satisfies(property, ns[t])
  /\ store' = store \union {ns[t]}
  /\ GrabFirelist(t, ns[t])
  /\ Goto(t, "loop")
  /\ UNCHANGED <<ns, stack, found, finished, num_suspended, suspended_threads,
                 reader, restartSemaphore, posted, global_stack, caller>>

(* The transition under the cursor and the marking it leads to.            *)
Candidate(t) == currentFirelist[t][currentEntry[t] + 1]
NextMarking(t) == Fire(ns[t], Candidate(t))

(* The head of the loop: somebody has finished the search.                 *)
Abort(t) ==
  /\ pc[t] = "loop"
  /\ finished
  /\ Goto(t, "done")
  /\ UNCHANGED <<local, shared, caller>>

(* The head of the loop, with an entry of the firelist left.               *)
NextEntry(t) ==
  /\ pc[t] = "loop"
  /\ ~ finished
  /\ currentEntry[t] > 0
  /\ currentEntry' = [currentEntry EXCEPT ![t] = @ - 1]
  /\ Goto(t, "fire")
  /\ UNCHANGED <<ns, currentFirelist, stack, found, shared, caller>>

(* fire, searchAndInsert answers "exists", backfire.                       *)
FireKnown(t) ==
  /\ pc[t] = "fire"
  /\ NextMarking(t) \in store
  /\ ns' = [ns EXCEPT ![t] = Backfire(NextMarking(t), Candidate(t))]
  /\ Goto(t, "loop")
  /\ UNCHANGED <<currentFirelist, currentEntry, stack, found, shared, caller>>

(* fire, searchAndInsert inserts a new marking.                            *)
FireNew(t) ==
  /\ pc[t] = "fire"
  /\ NextMarking(t) \notin store
  /\ ns' = [ns EXCEPT ![t] = NextMarking(t)]
  /\ store' = store \union {NextMarking(t)}
  /\ Goto(t, "check")
  /\ UNCHANGED <<currentFirelist, currentEntry, stack, found, finished,
                 num_suspended, suspended_threads, reader, restartSemaphore,
                 posted, global_stack, caller>>

(* checkProperty holds in the new marking.  The transition that led to it  *)
(* is not pushed.                                                          *)
CheckSatisfied(t) ==
  /\ pc[t] = "check"
  /\ Satisfies(property, ns[t])
  /\ Win(t)
  /\ UNCHANGED <<ns, currentFirelist, currentEntry, stack, store,
                 num_suspended, suspended_threads, reader, restartSemaphore,
                 posted, global_stack, caller>>

(* Mutant: the entry does not keep the cursor.                             *)
PushZero(t) ==
  stack' = [stack EXCEPT ![t] =
              Append(@, [fl |-> currentFirelist[t], current |-> 0])]

PushCurrent(t) ==
  stack' = [stack EXCEPT ![t] =
              Append(@, [fl |-> currentFirelist[t], current |-> currentEntry[t]])]

(* Two more entries are left, one for each, and the unprotected read of    *)
(* num_suspended shows somebody waiting.                                   *)
CanSpare(t) == currentEntry[t] >= 2 /\ num_suspended > 0

(* Push and go to give the new marking away.                               *)
CheckSpare(t) ==
  /\ pc[t] = "check"
  /\ ~ Satisfies(property, ns[t])
  /\ CanSpare(t)
  /\ PushCurrent(t)
  /\ Goto(t, "trylock")
  /\ UNCHANGED <<ns, currentFirelist, currentEntry, found, shared, caller>>

(* Push and search on below the new marking.                               *)
CheckDescend(t) ==
  /\ pc[t] = "check"
  /\ ~ Satisfies(property, ns[t])
  /\ ~ CanSpare(t)
  /\ PushCurrent(t)
  /\ GrabFirelist(t, ns[t])
  /\ Goto(t, "loop")
  /\ UNCHANGED <<ns, found, shared, caller>>

(* Under num_suspend_mutex: the waiting thread is gone by now.             *)
NoReader(t) ==
  /\ pc[t] = "trylock"
  /\ num_suspended = 0
  /\ GrabFirelist(t, ns[t])
  /\ Goto(t, "loop")
  /\ UNCHANGED <<ns, stack, found, shared, caller>>

(* The thread that was suspended last.                                     *)
(* Mutant: the thread that was suspended first.                            *)
FirstSuspended == suspended_threads[0]
LastSuspended == suspended_threads[num_suspended - 1]

(* Under num_suspend_mutex: take it off the array.                         *)
TakeReader(t) ==
  /\ pc[t] = "trylock"
  /\ num_suspended > 0
  /\ num_suspended' = num_suspended - 1
  /\ reader' = [reader EXCEPT ![t] = LastSuspended]
  /\ Goto(t, "handover")
  /\ UNCHANGED <<local, store, finished, suspended_threads, restartSemaphore,
                 posted, global_stack, caller>>

(* Copy stack and marking into the reader's slots.                         *)
CopyToReader(t) ==
  /\ pc[t] = "handover"
  /\ stack' = [stack EXCEPT ![reader[t]] = CopyStack(stack[t])]
  /\ ns' = [ns EXCEPT ![reader[t]] = ns[t]]
  /\ Goto(t, "release")
  /\ UNCHANGED <<currentFirelist, currentEntry, found, shared, caller>>

(* The reader's data is ready.                                             *)
PostReader(t) ==
  /\ pc[t] = "release"
  /\ restartSemaphore' = [restartSemaphore EXCEPT ![reader[t]] = @ + 1]
  /\ Goto(t, "recheck")
  /\ UNCHANGED <<local, store, finished, num_suspended, suspended_threads,
                 reader, posted, global_stack, caller>>

(* The search has been finished in the meantime.                           *)
GiveUp(t) ==
  /\ pc[t] = "recheck"
  /\ finished
  /\ Goto(t, "done")
  /\ UNCHANGED <<local, shared, caller>>

(* Go on as if the new marking had been known: the firelist is still the   *)
(* one under work, its copy is taken off the stack again.                  *)
KeepRest(t) ==
  /\ pc[t] = "recheck"
  /\ ~ finished
  /\ stack' = [stack EXCEPT ![t] = Pop(t)]
  /\ ns' = [ns EXCEPT ![t] = Backfire(@, Candidate(t))]
  /\ Goto(t, "loop")
  /\ UNCHANGED <<currentFirelist, currentEntry, found, shared, caller>>

(* The head of the loop, firelist exhausted: back to the previous marking. *)
Backtrack(t) ==
  /\ pc[t] = "loop"
  /\ ~ finished
  /\ currentEntry[t] = 0 /\ stack[t] # <<>>
  /\ currentFirelist' = [currentFirelist EXCEPT ![t] = Top(t).fl]
  /\ currentEntry' = [currentEntry EXCEPT ![t] = Top(t).current]
  /\ stack' = [stack EXCEPT ![t] = Pop(t)]
  /\ ns' = [ns EXCEPT ![t] = Backfire(@, Fired(Top(t)))]
  /\ UNCHANGED <<pc, found, shared, caller>>

(* The head of the loop, firelist exhausted and nothing on the stack.      *)
RunDry(t) ==
  /\ pc[t] = "loop"
  /\ ~ finished
  /\ currentEntry[t] = 0 /\ stack[t] = <<>>
  /\ Goto(t, "suspend")
  /\ UNCHANGED <<local, shared, caller>>

(* All the others are suspended.                                           *)
(* Mutant: off by one.                                                     *)
OthersMostlySuspended == num_suspended + 2 >= number_of_threads
OthersSuspended == num_suspended + 1 = number_of_threads

(* Under num_suspend_mutex: enter the array; the last one in declares the  *)
(* search complete.                                                        *)
Suspend(t) ==
  /\ pc[t] = "suspend"
  /\ suspended_threads' = [suspended_threads EXCEPT ![num_suspended] = t]
  /\ num_suspended' = num_suspended + 1
  /\ Goto(t, IF OthersSuspended THEN "declare" ELSE "wait")
  /\ UNCHANGED <<local, store, finished, reader, restartSemaphore, posted,
                 global_stack, caller>>

DeclareComplete(t) ==
  /\ pc[t] = "declare"
  /\ finished' = TRUE
  /\ Goto(t, "post")
  /\ UNCHANGED <<local, store, num_suspended, suspended_threads, reader,
                 restartSemaphore, posted, global_stack, caller>>

(* One round of the loop that posts every semaphore.                       *)
PostNext(t) ==
  /\ pc[t] = "post"
  /\ posted[t] < number_of_threads
  /\ restartSemaphore' = [restartSemaphore EXCEPT ![posted[t]] = @ + 1]
  /\ posted' = [posted EXCEPT ![t] = @ + 1]
  /\ UNCHANGED <<pc, local, store, finished, num_suspended,
                 suspended_threads, reader, global_stack, caller>>

PostEnd(t) ==
  /\ pc[t] = "post"
  /\ posted[t] = number_of_threads
  /\ Goto(t, IF found[t] THEN "swap" ELSE "done")
  /\ UNCHANGED <<local, shared, caller>>

(* Under global_property_mutex: exchange the winner's stack with the one   *)
(* of the caller's property.                                               *)
SwapStack(t) ==
  /\ pc[t] = "swap"
  /\ global_stack' = stack[t]
  /\ stack' = [stack EXCEPT ![t] = global_stack]
  /\ Goto(t, "done")
  /\ UNCHANGED <<ns, currentFirelist, currentEntry, found, store, finished,
                 num_suspended, suspended_threads, reader, restartSemaphore,
                 posted, caller>>

(* sem_wait returns and the search is over.                                *)
WakeFinished(t) ==
  /\ pc[t] = "wait"
  /\ restartSemaphore[t] > 0
  /\ finished
  /\ restartSemaphore' = [restartSemaphore EXCEPT ![t] = @ - 1]
  /\ Goto(t, "done")
  /\ UNCHANGED <<local, store, finished, num_suspended, suspended_threads,
                 reader, posted, global_stack, caller>>

(* sem_wait returns and a donor has filled in stack and marking.           *)
WakeRestart(t) ==
  /\ pc[t] = "wait"
  /\ restartSemaphore[t] > 0
  /\ ~ finished
  /\ restartSemaphore' = [restartSemaphore EXCEPT ![t] = @ - 1]
  /\ GrabFirelist(t, ns[t])
  /\ Goto(t, "loop")
  /\ UNCHANGED <<ns, stack, found, store, finished, num_suspended,
                 suspended_threads, reader, posted, global_stack, caller>>

(* Mutant: the marking of a winner is not handed to the caller.            *)
JoinKeepsOld ==
  /\ joined < number_of_threads
  /\ pc[joined] = "done"
  /\ joined' = joined + 1
  /\ value' = (value \/ found[joined])
  /\ UNCHANGED <<property, answer_ns, pc, local, shared>>

(* The caller joins the threads in the order of their numbers and keeps    *)
(* the marking of the last one that returns one.                           *)
Join ==
  /\ joined < number_of_threads
  /\ pc[joined] = "done"
  /\ joined' = joined + 1
  /\ value' = (value \/ found[joined])
  /\ answer_ns' = IF found[joined] THEN ns[joined] ELSE answer_ns
  /\ UNCHANGED <<property, pc, local, shared>>

(* depth_first has returned: the one state the system may rest in.         *)
Returned ==
  /\ joined = number_of_threads
  /\ UNCHANGED vars

threadedExploration(t) ==
  \/ StartSatisfied(t) \/ StartSearch(t)
  \/ Abort(t) \/ NextEntry(t) \/ Backtrack(t) \/ RunDry(t)
  \/ FireKnown(t) \/ FireNew(t)
  \/ CheckSatisfied(t) \/ CheckSpare(t) \/ CheckDescend(t)
  \/ NoReader(t) \/ TakeReader(t) \/ CopyToReader(t) \/ PostReader(t)
  \/ GiveUp(t) \/ KeepRest(t)
  \/ Suspend(t) \/ DeclareComplete(t)
  \/ PostNext(t) \/ PostEnd(t) \/ SwapStack(t)
  \/ WakeFinished(t) \/ WakeRestart(t)

Next == (\E t \in Thread : threadedExploration(t)) \/ Join \/ Returned

Spec == Init /\ [][Next]_vars

(* The operating system runs every thread that is not blocked; the mutexes *)
(* are held for a bounded time, so a thread at one is not blocked either.  *)
Fairness ==
  /\ \A t \in Thread : WF_vars(threadedExploration(t))
  /\ WF_vars(Join)

FairSpec == Spec /\ Fairness
=============================================================================
