---------------------- MODULE ParallelSearchProperties ----------------------
(***************************************************************************)
(* What makes the parallel search correct.                                 *)
(***************************************************************************)
EXTENDS ParallelExploration

(* t is to be woken by a donor: promised, or posted while the search runs. *)
Promised(t) ==
  \E d \in Thread : pc[d] \in {"handover", "release"} /\ reader[d] = t

(* The threads entered in the array of suspended threads.                  *)
Listed == {suspended_threads[i] : i \in 0 .. num_suspended - 1}

(* A donor has filled t's slots and t has not taken up the work yet.       *)
Loaded(t) ==
  /\ pc[t] = "wait"
  /\ \/ restartSemaphore[t] > 0
     \/ \E d \in Thread : pc[d] = "release" /\ reader[d] = t

-----------------------------------------------------------------------------
(* Types of all variables.                                                 *)
TypeOK ==
  /\ property \in Property
  /\ pc \in [Thread -> Stages]
  /\ ns \in [Thread -> Markings]
  /\ currentFirelist \in [Thread -> Seq(Transition)]
  /\ currentEntry \in [Thread -> Nat]
  /\ stack \in [Thread -> Seq(StackEntry)]
  /\ found \in [Thread -> BOOLEAN]
  /\ store \in SUBSET Markings
  /\ finished \in BOOLEAN
  /\ num_suspended \in 0 .. number_of_threads
  /\ suspended_threads \in [Thread -> Thread]
  /\ reader \in [Thread -> Thread]
  /\ restartSemaphore \in [Thread -> Nat]
  /\ posted \in [Thread -> 0 .. number_of_threads]
  /\ global_stack \in Seq(StackEntry)
  /\ joined \in 0 .. number_of_threads
  /\ value \in BOOLEAN
  /\ answer_ns \in Markings

(* The marking a thread works on is the one its stack leads to, also after *)
(* a donor has replaced both and after any number of steps back; in        *)
(* "check" one more transition, not yet pushed, has been fired.            *)
StackReplays ==
  \A t \in Thread :
    /\ pc[t] \in {"loop", "fire", "trylock", "handover", "release", "recheck",
                 "wait", "suspend"} =>
         ns[t] = EndOf(stack[t])
    /\ pc[t] = "check" => ns[t] = Fire(EndOf(stack[t]), Candidate(t))

(* The transitions the search considers in m; those that are still to be   *)
(* fired in m by the entries of a stack, and by the first n entries of     *)
(* t's firelist.                                                           *)
Proposed(m) == {getFirelist(m)[i] : i \in DOMAIN getFirelist(m)}
OnStack(s, m) ==
  UNION {{s[k].fl[i] : i \in 1 .. s[k].current} :
           k \in {j \in 1 .. Len(s) : Replay(s)[j-1] = m}}
Below(t, n) == {currentFirelist[t][i] : i \in 1 .. n}

(* The entries of marking m's firelist that t will still fire: those below *)
(* the cursor in the marking it works on and in those on its stack, and    *)
(* the whole firelist of a marking it is about to expand.                  *)
Owes(t, m) ==
  CASE pc[t] = "loop" ->
         OnStack(stack[t], m) \union
           (IF ns[t] = m THEN Below(t, currentEntry[t]) ELSE {})
    [] pc[t] = "fire" ->
         OnStack(stack[t], m) \union
           (IF ns[t] = m THEN Below(t, currentEntry[t] + 1) ELSE {})
    [] pc[t] = "check" ->
         OnStack(stack[t], m) \union
           (IF ns[t] = m THEN Proposed(m) ELSE {}) \union
           (IF EndOf(stack[t]) = m THEN Below(t, currentEntry[t]) ELSE {})
    [] pc[t] \in {"trylock", "handover"} \/ Loaded(t) ->
         OnStack(stack[t], m) \union (IF ns[t] = m THEN Proposed(m) ELSE {})
    [] pc[t] \in {"release", "recheck"} -> OnStack(stack[t], m)
    [] OTHER -> {}

(* No work is lost: unless a witness has been found, every firelist entry  *)
(* of every stored marking has been fired already or is owed by a thread   *)
(* that is running or about to be woken.  A handover, a stale read of      *)
(* num_suspended or the suspension of the last thread must not drop one.   *)
NothingLost ==
  (\A t \in Thread : ~ found[t]) =>
    \A m \in store : \A a \in Proposed(m) :
      Fire(m, a) \in store \/ \E t \in Thread : a \in Owes(t, m)

(* No thread is entered twice, no thread is promised to two donors.        *)
EnteredOnce ==
  \A i, j \in 0 .. num_suspended - 1 :
    suspended_threads[i] = suspended_threads[j] => i = j
PromisedOnce ==
  \A d, e \in Thread :
    /\ pc[d] \in {"handover", "release"} /\ pc[e] \in {"handover", "release"}
    /\ reader[d] = reader[e]
    => d = e

(* t waits exactly if it is entered, promised or posted, and then it is    *)
(* only one of them.                                                       *)
Accounted(t) ==
  /\ pc[t] = "declare" => t \in Listed
  /\ pc[t] = "wait" <=>
       \/ t \in Listed /\ pc[t] # "declare"
       \/ Promised(t)
       \/ restartSemaphore[t] > 0
  /\ restartSemaphore[t] <= 1
  /\ restartSemaphore[t] = 1 => t \notin Listed /\ ~ Promised(t)
  /\ Promised(t) => t \notin Listed

(* The ledger of suspensions: as long as the search runs, a waiting thread *)
(* is in exactly one of three places, entered in the array, promised to    *)
(* one donor, or posted once; and nobody else is in any of them.  So a     *)
(* donor never overwrites the slots of a running thread.                   *)
SuspensionLedger ==
  /\ EnteredOnce
  /\ PromisedOnce
  /\ ~ finished => \A t \in Thread : Accounted(t)

(* The search is declared complete only when nobody has work left: no      *)
(* thread is running and none has been handed anything.                    *)
CompleteMeansIdle ==
  (\E t \in Thread : pc[t] = "declare") =>
    \A u \in Thread :
      pc[u] \in {"wait", "declare"} /\ ~ Promised(u) /\ restartSemaphore[u] = 0

(* The assertions in Transition::fire and backfire: a transition is fired  *)
(* only where it is enabled, and undoing one never takes a place below     *)
(* zero.                                                                   *)
FiringIsLegal ==
  \A t \in Thread :
    /\ pc[t] = "fire" => Enabled(ns[t], Candidate(t))
    /\ pc[t] = "recheck" => NonNegative(Backfire(ns[t], Candidate(t)))
    /\ pc[t] = "loop" /\ stack[t] # <<>> =>
         NonNegative(Backfire(ns[t], Fired(Top(t))))

(* A thread woken while the search runs starts from a marking somebody     *)
(* else has just found, never again from the initial one with an empty     *)
(* stack.                                                                  *)
WokenWithWork ==
  [][\A t \in Thread :
       (pc[t] = "wait" /\ pc'[t] = "loop") =>
         /\ stack[t] # <<>>
         /\ ns[t] \in store
         /\ currentFirelist'[t] = getFirelist(ns[t])]_vars

(* The contract of depth_first.  The answer is given when all threads have *)
(* been joined.                                                            *)
Search == INSTANCE StateSearch WITH
  goal    <- {m \in Markings : Satisfies(property, m)},
  seen    <- store,
  answer  <- IF joined < number_of_threads THEN "searching"
             ELSE IF value THEN "yes" ELSE "no",
  witness <- IF joined < number_of_threads THEN InitialMarking ELSE answer_ns

(* The parallel search keeps that contract: a "yes" comes with a           *)
(* satisfying marking that was reached, a "no" after the whole (reduced)   *)
(* state space, and an answer always comes.                                *)
KeepsContract == Search!Spec

-----------------------------------------------------------------------------
(* The inductive invariant behind TypeOK, SuspensionLedger, FiringIsLegal  *)
(* and CompleteMeansIdle.                                                  *)

(* A thread's firelist belongs to marking m, n entries are left of it.     *)
ListFits(t, m, n) ==
  currentFirelist[t] \in Seq(EnabledAt(m)) /\ n <= Len(currentFirelist[t])

(* Stack, marking and firelist of a thread fit together.                   *)
WorkFits(t) ==
  /\ pc[t] = "start" => ns[t] = InitialMarking /\ stack[t] = <<>>
  /\ pc[t] \in {"loop", "fire", "trylock", "handover", "release", "recheck",
                "suspend", "wait"} => LeadsTo(stack[t], ns[t])
  /\ pc[t] = "loop" => ListFits(t, ns[t], currentEntry[t])
  /\ pc[t] = "fire" => ListFits(t, ns[t], currentEntry[t] + 1)
  /\ pc[t] = "check" =>
       \E m \in Markings :
         /\ LeadsTo(stack[t], m)
         /\ ListFits(t, m, currentEntry[t] + 1)
         /\ ns[t] = Fire(m, Candidate(t))
  /\ pc[t] \in {"trylock", "handover", "release", "recheck"} =>
       /\ stack[t] # <<>>
       /\ Top(t) = [fl |-> currentFirelist[t], current |-> currentEntry[t]]

(* What the ledger says also after the search is finished: a thread that   *)
(* is entered or promised stays where it cannot do harm, and the last      *)
(* thread to suspend finds everybody else entered.                         *)
LedgerOutlives ==
  /\ \A t \in Listed :
       pc[t] \in {"wait", "declare", "post", "done"} /\ ~ found[t]
  /\ \A d \in Thread : pc[d] \in {"handover", "release"} =>
       /\ pc[reader[d]] \in {"wait", "done"} /\ ~ found[reader[d]]
       /\ reader[d] \notin Listed
  /\ \A t \in Thread :
       /\ found[t] => pc[t] \in {"post", "swap", "done"}
       /\ pc[t] \in {"post", "swap", "done"} => finished
       /\ pc[t] = "declare" \/ (pc[t] = "post" /\ ~ found[t]) =>
            num_suspended = number_of_threads
       /\ pc[t] = "declare" =>
            ~ finished /\ suspended_threads[num_suspended - 1] = t
  /\ finished =>
       num_suspended = number_of_threads \/ \E t \in Thread : found[t]

(* The inductive invariant: at every handover, donor, array and semaphores *)
(* agree on who waits, and every thread's stack leads to its marking.      *)
SearchInvariant ==
  /\ TypeOK
  /\ SuspensionLedger
  /\ LedgerOutlives
  /\ \A t \in Thread : WorkFits(t)

-----------------------------------------------------------------------------
(* The invariant behind NothingLost, WokenWithWork and the contract.       *)

NobodyFound == \A t \in Thread : ~ found[t]

(* The markings along a stack have all been stored in S, and the entries   *)
(* of its firelists stem from the firelists of these markings.             *)
OnRecord(s, S) ==
  /\ \A k \in 0 .. Len(s) : Replay(s)[k] \in S
  /\ \A k \in 1 .. Len(s) : \A i \in 1 .. Len(s[k].fl) :
       s[k].fl[i] \in Proposed(Replay(s)[k-1])

(* What a thread has on its stack and in its hands is in the store and     *)
(* comes from the firelists.                                               *)
Recorded(t) ==
  pc[t] \in {"loop", "fire", "check", "trylock", "handover", "release",
            "recheck", "suspend", "wait"} =>
    /\ ns[t] \in store
    /\ OnRecord(stack[t], store)
    /\ pc[t] \in {"loop", "fire", "check"} =>
         \A i \in 1 .. Len(currentFirelist[t]) :
           currentFirelist[t][i] \in Proposed(EndOf(stack[t]))

(* A satisfying marking that has been stored is in the hands of the thread *)
(* that found it, and a thread that has found one keeps it; only a thread  *)
(* that has not begun, or has won, has not stored the initial marking.     *)
Reported ==
  /\ \A m \in store : Satisfies(property, m) =>
       \E t \in Thread : found[t] \/ (pc[t] = "check" /\ ns[t] = m)
  /\ \A t \in Thread :
       /\ found[t] => /\ Satisfies(property, ns[t])
                      /\ ns[t] \in store \union {InitialMarking}
       /\ pc[t] = "start" \/ found[t] \/ InitialMarking \in store

(* What the caller has collected so far.                                   *)
Collected ==
  /\ \A i \in 0 .. joined - 1 : pc[i] = "done"
  /\ value <=> \E i \in 0 .. joined - 1 : found[i]
  /\ value => /\ Satisfies(property, answer_ns)
              /\ answer_ns \in store \union {InitialMarking}
  /\ ~ value => answer_ns = InitialMarking

(* The search is over without a witness only when every marking the        *)
(* firelists lead to is in the store.                                      *)
OverMeansClosed ==
  finished /\ NobodyFound =>
    \A m \in store : \A a \in Proposed(m) : Fire(m, a) \in store

(* Nothing is lost from the first marking stored to the answer: threads    *)
(* record what they take on, hand over all of it, and what is found or     *)
(* exhausted reaches the caller as the answer.                             *)
AnswerInvariant ==
  /\ NothingLost
  /\ OverMeansClosed
  /\ Reported
  /\ Collected
  /\ \A t \in Thread :
       /\ Recorded(t)
       /\ ~ finished /\ Loaded(t) => stack[t] # <<>>

-----------------------------------------------------------------------------
(* What the code's comments promise and the code does not keep.            *)

(* The stack that is exchanged for the caller's holds all transitions of   *)
(* the witness path: it leads to a marking that satisfies the property.    *)
WitnessPathComplete ==
  (joined = number_of_threads /\ value) => Satisfies(property, EndOf(global_stack))
=============================================================================
