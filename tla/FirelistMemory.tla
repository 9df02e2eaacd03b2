-------------------------- MODULE FirelistMemory --------------------------
(***************************************************************************)
(* Who owns the firelists on the heap during a parallel search             *)
(* (ParallelExploration.cc).  A thread's currentFirelist is an address;    *)
(* pushing puts the address on the stack, backtracking takes it back,      *)
(* assigning a stack copies every firelist on it, destroying a stack       *)
(* deletes them.  Which transition is fired, and when, is left open here.  *)
(***************************************************************************)
EXTENDS SearchStack, Functions

CONSTANTS
  Thread,
  Global,             (* stands for the owner of global_property           *)
  Cell,               (* addresses of the heap                             *)
  Firelist,           (* what a firelist may say                           *)
  Free,               (* the content of an address that is not allocated   *)
  MaxDepth            (* the length of the longest path of the search      *)

ASSUME OwnerAssumption == Global \notin Thread
ASSUME HeapAssumption == Null \notin Cell /\ Free \notin Firelist /\ MaxDepth \in Nat

Owner == Thread \union {Global}

VARIABLES
  stage,              (* where a thread is, see Stages                     *)
  finished,
  suspended,          (* the threads on suspended_threads                  *)
  stack,              (* thread_stack, and global_property->stack          *)
  currentFirelist,    (* address; Null when there is none or it dangles    *)
  heap

vars == <<stage, finished, suspended, stack, currentFirelist, heap>>

(* lent: the marking is given away, its firelist is still on the stack;    *)
(* woken: the stack has been filled by another thread.                     *)
Stages == {"start", "search", "lent", "found", "idle", "woken", "done",
           "joined"}

Goto(t, s) == stage' = [stage EXCEPT ![t] = s]
Unused == {c \in Cell : heap[c] = Free}
Allocated == Cell \ Unused
Freed(C) == [c \in Cell |-> IF c \in C THEN Free ELSE heap[c]]
Full(t) == stack[t].StackPointer >= MaxDepth

(* getFirelist: a new array, whatever currentFirelist was before.          *)
getFirelist(t) ==
  \E c \in Unused, f \in Firelist :
    /\ heap' = [heap EXCEPT ![c] = f]
    /\ currentFirelist' = [currentFirelist EXCEPT ![t] = c]

Init ==
  /\ stage = [t \in Thread |-> "start"]
  /\ finished = FALSE
  /\ suspended = {}
  /\ stack = [o \in Owner |-> EmptyStack]
  /\ currentFirelist = [t \in Thread |-> Null]
  /\ heap = [c \in Cell |-> Free]

Start(t) ==
  /\ stage[t] = "start"
  /\ getFirelist(t)
  /\ Goto(t, "search")
  /\ UNCHANGED <<finished, suspended, stack>>

(* The marking satisfies the property, at the start or later.              *)
Satisfied(t) ==
  /\ stage[t] \in {"start", "search"}
  /\ finished' = TRUE
  /\ Goto(t, "found")
  /\ UNCHANGED <<suspended, stack, currentFirelist, heap>>

(* Under global_property_mutex: swap the stacks; then delete the firelist. *)
Publish(t) ==
  /\ stage[t] = "found"
  /\ stack' = [stack EXCEPT ![Global] = stack[t], ![t] = stack[Global]]
  /\ heap' = Freed({currentFirelist[t]})
  /\ currentFirelist' = [currentFirelist EXCEPT ![t] = Null]
  /\ Goto(t, "done")
  /\ UNCHANGED <<finished, suspended>>

(* A new marking: push its predecessor's firelist and get one of its own.  *)
Descend(t) ==
  /\ stage[t] = "search"
  /\ ~ Full(t)
  /\ stack' = [stack EXCEPT ![t] = push(@, currentFirelist[t])]
  /\ getFirelist(t)
  /\ UNCHANGED <<stage, finished, suspended>>

(* The heap when the firelists in DOMAIN clone have been copied and those  *)
(* in C deleted.                                                           *)
Cloned(clone, C) ==
  [c \in Cell |->
     IF \E d \in DOMAIN clone : clone[d] = c
       THEN heap[CHOOSE d \in DOMAIN clone : clone[d] = c]
       ELSE IF c \in C THEN Free ELSE heap[c]]

(* Mutant: the copy shares the firelists.                                  *)
Shared(C) == {[c \in C |-> c]}
Clones(C) == Injection(C, Unused)

(* A new marking is given away: push, assign the stack to the reader.  The *)
(* reader's old stack dies with a temporary.  A reader that has been told  *)
(* of the end of the search is still on suspended_threads.                 *)
Lend(t, reader) ==
  /\ stage[t] = "search" /\ reader \in suspended
  /\ ~ Full(t)
  /\ LET pushed == push(stack[t], currentFirelist[t])
     IN  \E clone \in Clones(Copied(pushed)) :
           /\ stack' = [stack EXCEPT ![t] = pushed,
                                     ![reader] = copy(pushed, clone)]
           /\ heap' = Cloned(clone, Destroyed(stack[reader]))
  /\ suspended' = suspended \ {reader}
  /\ stage' = [stage EXCEPT ![t] = "lent",
                            ![reader] = IF @ = "idle" THEN "woken" ELSE @]
  /\ UNCHANGED <<finished, currentFirelist>>

(* currentFirelist still points to the firelist that is popped.            *)
KeepRest(t) ==
  /\ stage[t] = "lent"
  /\ ~ finished
  /\ stack' = [stack EXCEPT ![t] = pop(@)]
  /\ Goto(t, "search")
  /\ UNCHANGED <<finished, suspended, currentFirelist, heap>>

(* The thread leaves its firelist to the stack.                            *)
GiveUp(t) ==
  /\ stage[t] = "lent"
  /\ finished
  /\ currentFirelist' = [currentFirelist EXCEPT ![t] = Null]
  /\ Goto(t, "done")
  /\ UNCHANGED <<finished, suspended, stack, heap>>

(* Mutant: the exhausted firelist is not deleted.                          *)
FreedNothing(t) == heap
FreedCurrent(t) == Freed({currentFirelist[t]})

Backtrack(t) ==
  /\ stage[t] = "search"
  /\ ~ finished
  /\ stack[t].StackPointer > 0
  /\ heap' = FreedCurrent(t)
  /\ currentFirelist' = [currentFirelist EXCEPT ![t] = top(stack[t])]
  /\ stack' = [stack EXCEPT ![t] = pop(@)]
  /\ UNCHANGED <<stage, finished, suspended>>

(* Nothing left: suspend, or end the search as the last one.               *)
RunDry(t) ==
  /\ stage[t] = "search"
  /\ ~ finished
  /\ stack[t].StackPointer = 0
  /\ heap' = FreedCurrent(t)
  /\ currentFirelist' = [currentFirelist EXCEPT ![t] = Null]
  /\ suspended' = suspended \union {t}
  /\ IF suspended' = Thread
       THEN finished' = TRUE /\ Goto(t, "done")
       ELSE UNCHANGED finished /\ Goto(t, "idle")
  /\ UNCHANGED stack

(* The head of the loop: somebody has finished the search.                 *)
Abort(t) ==
  /\ stage[t] = "search"
  /\ finished
  /\ heap' = FreedCurrent(t)
  /\ currentFirelist' = [currentFirelist EXCEPT ![t] = Null]
  /\ Goto(t, "done")
  /\ UNCHANGED <<finished, suspended, stack>>

WakeRestart(t) ==
  /\ stage[t] = "woken"
  /\ ~ finished
  /\ getFirelist(t)
  /\ Goto(t, "search")
  /\ UNCHANGED <<finished, suspended, stack>>

WakeFinished(t) ==
  /\ stage[t] \in {"idle", "woken"}
  /\ finished
  /\ Goto(t, "done")
  /\ UNCHANGED <<finished, suspended, stack, currentFirelist, heap>>

(* All threads have returned: delete[] thread_stack.                       *)
Join ==
  /\ \A t \in Thread : stage[t] = "done"
  /\ heap' = Freed(UNION {Destroyed(stack[t]) : t \in Thread})
  /\ stack' = [o \in Owner |-> IF o = Global THEN stack[o] ELSE EmptyStack]
  /\ stage' = [t \in Thread |-> "joined"]
  /\ suspended' = {}
  /\ UNCHANGED <<finished, currentFirelist>>

Returned == (\A t \in Thread : stage[t] = "joined") /\ UNCHANGED vars

Step(t) ==
  \/ Start(t) \/ Satisfied(t) \/ Publish(t) \/ Descend(t)
  \/ (\E reader \in Thread : Lend(t, reader))
  \/ KeepRest(t) \/ GiveUp(t) \/ Backtrack(t) \/ RunDry(t) \/ Abort(t)
  \/ WakeRestart(t) \/ WakeFinished(t)

Next == (\E t \in Thread : Step(t)) \/ Join \/ Returned

Spec == Init /\ [][Next]_vars

-----------------------------------------------------------------------------
(* Types; and every stack has as many chunks as its entries need.          *)
StackType(s) ==
  /\ DOMAIN s = {"StackPointer", "chunks"}
  /\ s.StackPointer \in Nat
  /\ s.chunks \in Seq([Index -> Cell \union {Null}])
  /\ Chunked(s)

TypeOK ==
  /\ stage \in [Thread -> Stages]
  /\ finished \in BOOLEAN
  /\ suspended \subseteq Thread
  /\ DOMAIN stack = Owner /\ \A o \in Owner : StackType(stack[o])
  /\ currentFirelist \in [Thread -> Cell \union {Null}]
  /\ heap \in [Cell -> Firelist \union {Free}]

(* A thread owns its current firelist, unless that is on its stack.        *)
Holds(t) == currentFirelist[t] # Null /\ stage[t] # "lent"

(* No address is on two stacks, or twice on one.                           *)
Injective(s) ==
  \A m, n \in 0 .. s.StackPointer - 1 : Entry(s, m) = Entry(s, n) => m = n
OneSlot ==
  /\ \A o \in Owner : Injective(stack[o])
  /\ \A o, p \in Owner : o # p => Entries(stack[o]) \cap Entries(stack[p]) = {}

(* No address is held by two threads, or held and on a stack.              *)
OneHolder ==
  \A t \in Thread : Holds(t) =>
    /\ \A u \in Thread : Holds(u) /\ currentFirelist[u] = currentFirelist[t] => u = t
    /\ \A o \in Owner : currentFirelist[t] \notin Entries(stack[o])

(* All that is owned is allocated.                                         *)
NoneDangles ==
  /\ \A o \in Owner : Entries(stack[o]) \subseteq Allocated
  /\ \A t \in Thread : Holds(t) => currentFirelist[t] \in Allocated

(* A thread has a firelist exactly while it searches; what it has lent is  *)
(* on top of its stack.  A thread on suspended_threads waits or has        *)
(* returned.                                                               *)
HeldAtStage ==
  \A t \in Thread :
    /\ t \in suspended => stage[t] \in {"idle", "done"}
    /\ stage[t] \in {"search", "lent"} => currentFirelist[t] # Null
    /\ stage[t] \notin {"search", "lent", "found"} => currentFirelist[t] = Null
    /\ stage[t] = "lent" => /\ stack[t].StackPointer > 0
                            /\ currentFirelist[t] = top(stack[t])

(* Every firelist in use has one owner: none is deleted twice, or read     *)
(* after it has been deleted, although pop leaves addresses behind and a   *)
(* thread that gives work away keeps an address that is on its stack.      *)
OwnedOnce == OneSlot /\ OneHolder /\ NoneDangles /\ HeldAtStage

(* Every firelist on the heap has an owner.  So when the threads are       *)
(* joined, only those on the stack returned are left.                      *)
NothingLeaks ==
  Allocated \subseteq (UNION {Entries(stack[o]) : o \in Owner})
                      \union {currentFirelist[t] : t \in {u \in Thread : Holds(u)}}

(* What the stacks and the searches see: sequences of firelists.           *)
Contents(s) == [i \in 1 .. s.StackPointer |-> heap[Entry(s, i - 1)]]
Current(t) == IF currentFirelist[t] = Null THEN Free ELSE heap[currentFirelist[t]]

Sequences_ == INSTANCE FirelistStacks WITH
  contents <- [o \in Owner |-> Contents(stack[o])],
  current  <- [t \in Thread |-> Current(t)],
  None     <- Free

(* Chunks, copies and shared addresses do not show: to the searches, the   *)
(* stacks are sequences that nobody else changes.                          *)
KeepsSequences == Sequences_!Spec
=============================================================================
