# LoLA 2: models, model checking and proofs

service-technology.org is a family of programs around Petri nets and services. This project is about
LoLA 2 (`src/lola2`), the model checker of the family, and in it about the part everything else rests
on: the explicit exploration of the state space of a place/transition net. It is the one program of
the family with threads, and its answers ("no such marking is reachable") are only worth something
if no marking is lost on the way.

All source paths below are relative to `src/lola2/src` unless they begin with `src/`.

## 1. The system

### 1.1 Components, their state and their operations

| component | state | operations | what makes it correct | status |
|---|---|---|---|---|
| net (`Net/Net.cc`) | arcs, DeltaT, DeltaHash, conflict sets | preprocess, once | conflict sets are what their definition says | partly modelled |
| net state (`Net/NetState.cc`, `Net/Transition.cc`) | marking, hash value, Enabled flags, Disabled lists of scapegoats, permuted Pre lists | fire, backfire, checkEnabled, updateEnabled, revertEnabled, reset | flags, lists and hash value follow the marking | partly: not `isCycle`, and not the copies of its arrays |
| firelists (`Exploration/Firelist.cc`, `FirelistStubborn*.cc`) | search stacks and an and-or-graph, made anew in each marking | getFirelist | enabled transitions only; with reduction: enough of them | default list modelled; stubborn sets partly: not TRUE and FALSE leaves, order and edges abstracted to sets |
| sequential search (`Exploration/DFSExploration.cc`) | stack, firelist and cursor, net state, store | depth_first, find_path, sweepline | complete, honest witness | partly: `sweepline`, which only starts the sweep, is not |
| parallel search (`Exploration/ParallelExploration.cc`) | the same per thread; num_suspended, suspended_threads, finished, semaphores | threadedExploration, depth_first | as above; termination is detected once and only when nobody has work | modelled |
| search stack (`Exploration/SearchStack.h`) | list of chunks, StackPointer | push, pop, top, copy, swap, destroy | behaves as a sequence; every firelist on it has one owner | modelled |
| stores (`Stores/`) | sets, filter bits, per-thread counters, locks | searchAndInsert, popState | atomic although lookup and insertion are separate | partly: exact store and Bloom filter |
| encoders (`Stores/NetStateEncoder`) | bit widths | encode, decode | different markings, different vectors | not modelled |
| sweep line (`SweepLine/`) | ring of stores per front, two lists of persistent stores, semaphores, countdowns, idle flags, front runner flags | several fronts, several threads per front | fronts keep apart, no marking lost, all of them end | partly: not counters and array sizes |
| formulas (`Formula/`, `Exploration/StatePredicateProperty.cc`) | sums, numbers of satisfied parts, parts sorted by value, positions | evaluate, update, getUpSet | incremental value equals value of the marking | partly: not negate and copy |
| CTL (`Formula/CTL`, `Exploration/CTLExploration.cc`) | results and dfs numbers per marking, two stacks per search | check of every kind of node | cached results are right, net state and atomic parts in step | partly: not strong fairness and witnesses |
| LTL (`Exploration/LTLExploration.cc`) | Büchi automaton, product, Tarjan stack | recursive search | | not modelled |
| symmetries, linear algebra, witness processes, front end, planning, output, handlers | | | | not modelled |

The other programs of the repository are listed in `PROJECT.json` and are not modelled.

### 1.2 How the components interact

`Task` chooses a store, a firelist generator and a search and calls `depth_first` (or `find_path`)
with a property, a net state, the store and the firelist. A search fires a transition in the net
state, asks the store whether the marking is new, goes back at once if it is not, and else updates
the enabledness information, evaluates the property, pushes firelist and cursor and descends. In the
parallel search every thread does this with its own net state, stack and property; they share the
store and, when one of them runs dry, copy work into each other's slots. A firelist with reduction asks
the property for the transitions that may make it true. The sweep-line method has its own stores
and its own loop and shares only net state and firelist with the others; CTL formulas check
themselves, each temporal operator with a search of its own that starts searches of the operators
below it in every marking it meets.

### 1.3 What is hard here

* A thread writes into the stack and marking of another one without a lock. That is right only if
  the other one waits, waits for this donor and for nobody else.
* `num_suspended` is read without its mutex, `finished` without any.
* The last thread to run dry ends the search; a donor that has taken a thread off the array but has
  not posted its semaphore yet must not let this happen.
* Several threads may find a witness at once.
* Stores look up and insert in two critical sections, or read bits without the mutex.
* Enabledness is kept incrementally, in lists that are rearranged while they are run through, over
  arbitrarily long sequences of steps down and back, and over resets that clean up only part of it.
* Hash values are updated by signed remainders in both directions.
* Formulas are told only which atomic parts have changed, and keep lists of parts sorted by value.
* A reduced firelist leaves out what the search need not fire: that is an argument about all
  continuations from a marking, made from the lists the walk has left in the net state.
* The fronts of the sweep-line method pass through one list of stores without locks; semaphores,
  countdowns and a flag that moves from front to front keep them apart. Helpers look at a front's idle flag twice,
  once without the lock. `exit` is set without a signal to those who wait.
* A CTL search caches results for later searches and for those it is part of. A result must
  not be settled before the component it depends on, and the test for fairness overwrites
  results and dfs numbers in the middle of a search. A search ends in four ways, after each of which
  the net state must be as it was.

`PROJECT.json` lists these hazards one by one, with the line where each bites and the properties
that would catch it.

## 2. The modules

| module | models | remarks |
|---|---|---|
| `PetriNet` | markings, `Enabled`, `Fire`, `Backfire` | constants of the net and what is assumed of them |
| `SearchPath`, `SearchPathProofs` | the entries of a search stack and the path they describe | common to both searches; what push and pop do to a path |
| `Firelist` | `Firelist::getFirelist` | all enabled transitions, ascending |
| `StateSearch` | what `depth_first` promises | abstract: markings are discovered one by one; "yes" with a witness or "no" when nothing is left |
| `DFSExploration`, `DFSExplorationProofs` | `DFSExploration::depth_first` | one action per round of the loop; implements `StateSearch` |
| `ParallelExploration` | `threadedExploration` and `depth_first` of the parallel search | one action per access to shared data |
| `ParallelSearchProperties` | | its properties, its inductive invariants, and that it implements `StateSearch` |
| `ParallelExplorationProofs` | | the proofs |
| `NetState` | the operations on a net state, as operators on a record | scapegoat lists, permuted Pre lists, hash values |
| `NetStateWalk` | the call sequences the searches make | a state machine around `NetState`, `WalkSpec` |
| `FindPath` | `find_path` with `ChooseTransitionHashDriven` | extends `NetStateWalk`: steps down and resets between the attempts |
| `NetStateProofs` | | the proofs about `NetState`, `NetStateWalk` and `FindPath` |
| `ConflictSets` | `Net::preprocess_organizeConflictingTransitions` | one action per round of its two loops |
| `AtomicStore` | what a search expects of a store | abstract: every call takes effect at one moment |
| `VSTLStore`, `VSTLStoreProofs` | `PluginStore` over `HashingWrapperStore` over `VSTLStore<void>` | implements `AtomicStore` |
| `VBloomStore`, `VBloomStoreProofs` | `VBloomStore` with its double-checked locking | implements `AtomicStore` |
| `SearchStack` | `SearchStack<T>` and its chunks | operators on a record of chunks and stack pointer |
| `FirelistMemory` | who owns the firelists on the heap during a parallel search | a state machine around `SearchStack`; implements `FirelistStacks` |
| `FirelistStacks` | what the search expects of its stacks | abstract: sequences of firelists, which are values |
| `FirelistMemoryProofs` | | the proofs |
| `StatePredicates` | atomic predicates, conjunctions, disjunctions and `StatePredicateProperty` | operators on a record of functions over the nodes |
| `StubbornSets` | `FirelistStubbornStatePredicate`, `FirelistStubbornDeadlock` | operators on a net state |
| `StubbornDeletion` | `FirelistStubbornDeletion` | the and-or-graph, deletion and minimisation |
| `PropertyWalk` | `NetStateWalk` with a formula, and the properties of reduced firelists | composes the four modules above |
| `SweepRing` | `SweepRingStore`: the slots around a front | operators on a record |
| `SweepFronts` | in which order the fronts of a sweep move | the part of `Sweep` that keeps them apart |
| `Sweep` | fronts and helpers of the sweep-line method | extends `SweepFronts`; implements `StateSearch` |
| `SweepProofs` | | the fronts' order, that every step of `Sweep` is one of `SweepFronts` or leaves it alone, and where helpers and markings are, and that no marking is lost |
| `CTLExploration` | `check` of all CTL nodes, `getFairWitness` | one frame per check under way |
| `MC*` | | nets, properties and bounds for TLC |

### 2.1 From code to model

*Markings* are functions from places to numbers. *Stacks* are sequences of firelist and cursor;
indices count from zero as in the code, so `Fired(e)` is `e.fl[e.current + 1]`. The copy constructor
of a stack entry keeps only the part of the firelist up to the cursor, and so does `CopyEntry`.

*Steps of the parallel search.* The label `pc[t]` says where thread `t` is; an action is one access
to shared data together with the local work around it: a look at `finished`, a `searchAndInsert`, the
unprotected look at `num_suspended`, a critical section, a handover, a `sem_post`, a `sem_wait`. Critical sections are
short and do not nest, so each is one action. A stale answer of the unprotected look is covered:
between it and the critical section any other thread may step. `searchAndInsert` is one action
because the stores are atomic; that they are is what `VSTLStore` and `VBloomStore` are about.
The flag `finished` and the counter are plain variables that are read and written without
synchronisation. Every read lies between calls the compiler cannot see through, so it
is a read of memory, and the values it can return are those the variable has had since the thread's
last synchronisation, which interleaving provides for.

*Net states.* In the searches a net state is its marking; enabledness is what `getFirelist` returns
for the marking. This is justified by `NetStateWalk`: under every call sequence the searches make
the flags are exact (proved, 4.8). There, the state has all fields of the code's: flags, lists, positions, permuted Pre
lists, hash value. A list is a sequence and `CardDisabled` its length. The loops of the code are functions from the
number of rounds to the net state after them; the loop over a Disabled list has at most as many rounds
as the list had entries, since in each one an entry is passed or leaves the list.

*Firelists on the heap.* In `FirelistMemory` a slot of a stack and `currentFirelist` hold addresses.
`new` takes any free address, `delete` and the destructor of a stack entry free it; copying a stack
takes a new address for each entry. `pop` leaves the address in the slot, as in the code, and a donor that
has pushed its firelist for a handover keeps the address too. What a firelist says is one value; the
cursor and the cut behind it in a copy are in `ParallelExploration`. Which transitions are enabled and
which markings are new is left open, so a thread may descend, backtrack, hand over or find a
witness whenever the code's tests of `finished`, stack pointer and `suspended_threads` allow it. Taking a reader from the array,
copying the stack and posting are one action: the ledger of `ParallelExploration` says that in between nobody else
touches the two stacks. `MaxDepth` bounds the length of a path.

*Chance.* `ChooseTransitionHashDriven` draws random numbers. The model takes any entry that some draw
selects. An entry whose bucket has no hits is selected for certain when it is looked at.
The table of hits is not initialised by the code; the model starts with any contents from a given set.

*State predicates.* A predicate is a record with a function per field and the nodes as arguments;
positions count from one. A sum is kept as in the code; an atomic node knows which transitions
change it and by how much (`changedSum`), and `update` goes up to the parents. The two sorts in
`ConjunctionStatePredicate` and `DisjunctionStatePredicate` are one operator.

*Reduced firelists.* The closure of an up-set is a set: the order of the search's stack decides only the order of
the firelist. The search for deadlocks is Tarjan's algorithm with its stacks and lowlinks, since it stops in the
middle. A popped transition stays on the Tarjan stack as far as `onTarjanStack` is concerned; so it does in the code.
In the deletion algorithm "white" is "not in the set of nodes that are out", and counters are
compared with the number of successors that have left. Counters the code never sets are taken to be zero. The
graph is that of the code, node by node.

*Sweep line.* The two lists of persistent stores are functions from places to sets of markings, with
`first` and `last`; `at` is a front's place in both (in the code two pointers that move in step). A marking
on its way from one store to another is in neither. `searchAndInsert` asks one store per action. A
wait for a condition is a guard where the condition is set under the mutex and with a signal; where
the code signals without the mutex or without looking whether anybody waits, falling asleep and waking
are actions. The front runner is a set of fronts, because clearing one flag and setting the
next are two steps. The steps a front takes in one critical section are one action.

*CTL.* `calls` is the call stack of the checks; `pc` says which part of a node has been asked. Firing, looking up
and taking back is one action when the marking needs no check. `seen` is the marking the atomic
parts below each node have been updated for, which may differ from the net state's. The walk of `getFairWitness` is a
closure over the stored numbers and results; the order it leaves in the lists of the net state is not
modelled. `HasBits` is what `1 << index` in
`setCachedResult` does on the usual processors, which shift modulo 32: of any sixteen temporal operators only the first four
reach their byte.

*Stores.* The vector of a marking and its bucket are values of the model. The lock for reading and
the lock for writing give one action each. In the Bloom filter every access to a bit is an action.

## 3. The runs

| run | instance | states | what it shows |
|---|---|---|---|
| `parallel_search` | hub net (4 markings, 6 transitions), 3 threads, 3 properties | 82 531 | inductive invariant, ledger of suspensions, stack and marking fit, no firelist entry is lost, completion means idleness, firing is legal, woken threads have work; implements `StateSearch` with liveness |
| `parallel_witness` | 2 threads | violation | the path returned lacks its last transition |
| `dfs_search` | 3 philosophers, 6 properties | 107 | stack is a path without repetition, everything left behind is closed, implements `StateSearch` |
| `netstate_walk` | 6 places, 7 transitions, weights up to 2, paths up to 4 transitions, 3 formulas | 31 725 | net state in step with the marking (flags, lists, positions, hash value, path); formula as if evaluated afresh; reduced firelists keep a way to every goal and every deadlock |
| `stubborn_deletion` | the same net, a conjunction | violation | the deletion algorithm misses a reachable marking |
| `conflict_sets` | all nets with 2 places and 3 transitions | 52 736 | the sets are those of the definition, the stack is in order whatever is moved, it ends |
| `find_path` | 3 places, 4 transitions, `maxdepth` 4, up to 3 attempts or no limit, any table | 84 633 | walks can be fired in every attempt, answers are honest |
| `vstl` | 1 or 2 threads, 3 vectors, 2 buckets, 2 calls | 19 257 | atomic, counters exact |
| `firelist_memory` | 3 threads, 5 addresses, chunks of 2 slots, paths up to 3 transitions | 28 691 | every firelist in use has one owner and is allocated, every firelist on the heap has an owner, stacks have the chunks they need; implements `FirelistStacks` |
| `bloom` | 3 threads, 3 vectors, 3 hash functions, 4 bits | 63 735 | atomic, loop counter in range |
| `sweep_line` | 12 markings with progress values from -1 to 5, 1 to 3 fronts, with and without helpers, 4 goals | 395 382 | order of the fronts, their stores do not overlap, one extends the list at a time, every store holds markings of its progress value, helpers come in only while the first front works; implements `StateSearch`; ends |
| `ctl` | 6 markings, 6 transitions, 384 formulas, 3 sets of fair transitions | 43 320 | every cached result is right, every check begins in step with its marking, all end |

### 3.1 Bounds and why they are enough

The hub net is made for handovers: a thread can give a marking away only if two more entries of its
firelist are left, so the hub has four transitions. Every thread starts at it. Two threads that were
slow to look at their new markings may both want to give work to the only one that waits, and the
second one then finds nobody. Two branches meet again, so what was given away may be found by
somebody else. With three threads one can be in every one of the
roles donor, receiver and bystander (a second donor, the last one to suspend, a winner). Two threads
would have no bystander, and a second donor could not race for the same waiting thread.

`StateInStep`, `StackInOrder` and `SearchInStep` are conjunctions with names for their parts; a run that breaks
one of them shows which.

The net of `netstate_walk` is chosen such that every branch of `checkEnabled` is taken: scapegoats
change, transitions leave lists from the middle and the end, weights exceed one, a side condition
disables its own transition, and two transitions beside the others give the reductions something to leave out. The
formulas have an atomic root, a disjunction, and three levels of both. `MaxDepth` (of `PropertyWalk`; `WalkSpec` has no bound) bounds the path, not the number of steps: going down and back
and resets may alternate for ever.

`sweep_line` has transitions that change the progress value by -3 to 1, hence five stores around a front, and a list that has to grow at both
ends: after a short first round a step back leads below the initial value, and the way from there is
longer than the window, with steps back to what is known and to what is new. A front alone, a front with a
helper, two and three fronts in a ring, and a helper that moves between two fronts are
runs of their own within the run. `HelpersInsideFirst` is about front 0; of the others see section 5.

`ctl`: the markings form cycles through a common marking, a loop, and a deadlock, so components have
several roots on the stack and are left in between. The formulas put searches alone, in the first and second part of another
(with and without negation, EX and AX), in all markings of an outer search, side by side, and five side by side.
EX and AX have a state predicate below them and not a temporal operator (section 5), and the fifth search is in
a part of the net without cycles: on a cycle it does not end, so `ChecksEnd` says nothing of more than four.

`find_path` with no limit on the attempts would run for ever; `MaxTries` bounds it. The table starts
with zeros and ones for each of its buckets: the chooser only asks whether a count is zero.

In `firelist_memory` a stack grows into its second chunk and back, is destroyed with two chunks, is
swapped, and is copied to a thread that waits and to one that has already returned because the search
is over; that takes a third thread, which ends the search. With five addresses no stack of two chunks is copied;
copies of any size are covered by the proof. Threads and addresses are interchangeable, hence the
symmetry; the properties are safety properties.

`vstl` bounds the calls of a thread by `MaxCalls` because the counters grow; its run does not check
for deadlock because the callers stop there. In all other runs deadlock is checked, and
a step that changes nothing stands for a search that has returned.

In `conflict_sets` the nets are all nets of that size, so all trees of place sets with two levels
above the bottom; three transitions are needed for one to be carried up with another while a third
stays behind.

### 3.2 Fairness

`ParallelExploration!FairSpec` assumes weak fairness of each thread: the operating system runs a
thread that is not blocked. A thread waiting at a semaphore with value zero is blocked and its
action is disabled; a thread at a mutex is not considered blocked since the sections are short and
nobody waits inside one. Joining is fair as well. `DFSExploration` and `ConflictSets` are sequential programs that go
on. `Sweep` assumes weak fairness of every thread and of the caller that joins them, as above; a thread
asleep is woken only by a signal. `CTLExploration` is sequential, too; there the weak fairness of `Next`
is written out (infinitely often no check is under way, or a step is taken) because `Next` is enabled
exactly while a check is under way. `FindPath`, `FirelistMemory` and the stores are checked for safety only, without fairness.

## 4. The proofs

TLC checks an instance; TLAPS proves for every net, every set of properties, every firelist of
enabled transitions and every number of threads, vectors, buckets, fronts and hash functions, and every chunk size.

* `ParallelExplorationProofs`: `SearchInvariant` is an invariant, and with it `SuspensionLedger`,
  `FiringIsLegal`, `CompleteMeansIdle` and `StackReplays`; so is `AnswerInvariant`, and with it `NothingLost` and
  `WokenWithWork`. `ContractKept` is the safety half of `KeepsContract`: the initial states are initial states of `StateSearch`,
  and every step is one of its steps or a stutter.
* `DFSExplorationProofs`: `SearchInvariant`, with it `StackIsPath` and `ClosedBehind`, and the same half of `DFSKeepsContract`.
* `NetStateProofs`: `StateInStep` is an invariant of every walk; `find_path` is such a walk (a refinement:
  `FindPathWalks`); its `PathFires` and `AnswerHonest` are invariants.
* `VSTLStoreProofs`, `VBloomStoreProofs`: the stores implement `AtomicStore`, a full refinement
  (initial states map to initial states, every step to a step or a stutter); the counters of the exact store add up to what it holds.
* `FirelistMemoryProofs`: `TypeOK`, `OwnedOnce` and `NothingLeaks` are invariants, and the stacks
  implement `FirelistStacks`, again a full refinement.
* `SweepProofs`: `FrontsInvariant` is an invariant for any number of fronts, any size of the
  window and any offset; from it `FrontsApart` and `ExtendsAlone`. Every behaviour of `Sweep` is one of `SweepFronts`
  (`MovesAsFronts`), so both hold of the sweep-line method with its helpers and for any net. `HelpersInsideFirst` and
  `MarkingsAtTheirProgress` are invariants of the whole method. `ContractKept`: it keeps the contract of `StateSearch`, so it loses no marking.

Assumed are the named `ASSUME`s of the modules: arcs have natural weights, places and transitions are numbered and finitely many, `Markings` is closed under
firing, a firelist contains enabled transitions only, there is at least one thread, there are at least two hash functions
(with one, `VBloomStore.inc:72` writes outside its row) and they stay in range, places have natural hash values and the hash table at least one bucket, a chunk has at least one slot, a front looks at one store at least
and its offset is within them, the progress values of a net change by the measure of the transition that fires and
the window is as wide as the measure's steps (`MeasureAssumption`, `ProgressAssumption`), the null pointer is no address, what is left in the memory of `find_path`'s table are unsigned numbers.
TLC evaluates them in the runs of the modules that state them.

`WorkFits`, `Recorded` and the other parts of the inductive invariants name one thing each. An invariant that is stated
in a module or its proofs and appears in no `.cfg` (`AnswerInvariant`, `SearchInvariant` of the sequential search, `HelpersInvariant`, `ProgressInvariant`, `ContractInvariant`, `PathInvariant`) is
proved; adding it to the `INVARIANT`s of its component's run is a quick way to see which part a change of the model breaks.

Recursive functions (the paths of the searches, sums of counters and hash values, the loops of `NetState`) are reasoned about
with the least number: if a statement fails for some index, it fails for a first one, and the step before that leads to a
contradiction. `LeastNumber` in `SearchPathProofs` is that argument, `Climb` in `NetStateProofs` its form for loops.

### 4.1 The argument for the parallel search

The ledger alone is not inductive. Whether the donor's target waits depends on the target
being off the array since the donor took it, hence on the position of every thread in `pc`; and what
happens after `finished` is set must not break it for those that are still on their way. So
`SearchInvariant` adds to types and ledger

* `LedgerOutlives`: what remains true when `finished` is set. A listed or promised thread stays at a
  harmless place; a thread that declares the search complete is the last entry of a full array; and
  when `finished` holds, either somebody has won or the array is full.
* `WorkFits`: each thread's stack describes a path of enabled transitions from the initial marking
  to its marking, each firelist on it fits the marking it stems from, and the firelist under work
  fits the current one. After a push this must hold with the marking the last transition led to,
  after a handover for the receiver, whose firelists are cut off behind the cursor.

The proof that a step keeps the invariant has one lemma per part and in it one step per
action. Facts about stacks (what push, pop and copy do to a path) are lemmas of `SearchPathProofs`. `FiringIsLegal` and `StackReplays` follow
from `WorkFits`, `CompleteMeansIdle` from the ledger: when the array is full every thread is listed, so none is promised or posted.

`NothingLost` needs to know where work goes, and the answer needs to know what has become of a witness. `AnswerInvariant` therefore
adds: what a thread has on its stack and in its hands is in the store and comes from the firelists (`Recorded`), so that a
handover gives away only what is owed; a satisfying marking in the store is in the hands of the thread that found it (`Reported`); the
search is over without a witness only when the store is closed under the firelists (`OverMeansClosed`), because then every thread is listed,
has an empty stack, and owes nothing; and the caller's answer is that of the threads joined so far (`Collected`).
The sequential search has the same obligations and no one to share them with: `ClosedBehind` says what the cursors have passed,
and its `SearchInvariant` that every firelist is that of the marking it is found with.

### 4.2 The argument for the stores

Exact store: the moment a call takes effect is its lookup if that ends it, else its insertion.
`StoreInvariant` is needed because the abstract store is one set: each vector is in its
own bucket, so looking into one bucket suffices. `CounterExact`: the sum of the counters is compared with the number of
vectors stored, less those whose thread has not counted yet. One lemma says that a sum with one counter raised is greater by one.

Bloom filter: a call that finds its vector new takes effect when it sees the unset bit under the
mutex, not when it sets the last bit. The abstract filter therefore contains the bits the
holder of the mutex is still going to set. A call that finds all bits set takes effect at its last
look; `FilterInvariant` says the bits it has passed stay set.

### 4.3 The argument for the search stack

The prover does not know division by a divisor that is not a numeral, so the first lemmas derive from
the definition what chunk and slot of `n + 1` are, and that `m <= n` is the lexicographic order
of chunk and slot. From these follow the facts about the operations: `push` appends an entry and leaves the others alone, `pop` takes
the last away, the copy constructor reads and the destructor visits exactly the entries in use, whatever
older entries have left in the slots above.

The second step forgets the slots: `Stacked` gives the addresses on each stack, `Held` the
address in each thread's hand, and `Split` says that these sets are disjoint and together are what
is allocated. `OwnedOnce` and `NothingLeaks` are the two halves of this; neither is inductive alone,
since a new address must be seen to have no owner, and a deleted one to have no other. `HeldAtStage` connects the sets with the
place where a thread is: the donor's address is on top of its own stack, a thread on
`suspended_threads` has nothing in its hand. There is one lemma per action or group of like actions.

The refinement reads the heap through the addresses. A step changes the heap only at addresses that were
free, or were owned by the thread that takes the step, or by the reader it hands over to. By `Split` nothing else
refers to these, so the other sequences do not change.

### 4.4 The argument for the fronts

`FrontsApart` compares a front with the one before it and is not inductive: a front may advance because of a post that
was made long ago. `FrontsInvariant` therefore counts credits. `PostsEarned`: a front has advanced once for every post
that is left and for what remains of its countdown. `FollowsBehind`: a front keeps `store_size` stores behind the one before it
and one more for each post that is left, for one the front before it is about to make (`Owes`), and for the one it has itself taken.
`OneLeader`: exactly one front is front runner or about to hand over, so the ring can be cut
there; a front's `Rank` is its distance from the cut.

When the leader hands over, the front behind it becomes leader and the old leader the last in line. The new last must be behind
all others, which follows from neighbours only by induction along the ring. To spare it in
every step, `AllApart` is part of the invariant: all pairs, not just neighbours, are apart. A step moves one front, so each pair is either untouched or one of
the front's and its follower or predecessor, plus what `AllApart` says of the predecessor.
All of it holds until `exit` is set: then the fronts run to their ends, and the posts of `End` are not earned.

`WithinList` bounds how long a front may extend the list to the left (`back_progress`), and with `AllApart`
the first store of the next front is out of its reach, which is `ExtendsAlone`.

For `MovesAsFronts` there is a lemma per action of `Sweep`; the only one that is not immediate is that
`checkNewPersistent` returns at most what it was asked for, a fact about the cardinality of an interval.

### 4.5 The argument for the helpers

A helper that is inside the first front must keep it from moving on, and nothing in the code says so in one place: the front waits until
its number of helpers is zero, helpers look at its flag before they come in, and both happen under a mutex the front
gives up now and then. `AllCounted`: the number is that of the helpers inside, and while there are any the front is in the part of its loop where
they may be. `LoweredAtWork`: where the flag is lowered as seen by a helper. `StartsFirst` is about the beginning, when the flag
is lowered although the front has not begun to work: then all helpers are still asleep. That part fails for the other fronts,
which start while helpers are about (section 5).

### 4.6 The argument for the markings of a sweep

The slot of a marking is computed from its offset with a remainder, while the ring turns and is linked with new places in the list; that every store
holds markings of one progress value depends on all of it. `ProgressInvariant` is the conjunction of

* `RingRight`: the slots are linked with consecutive places, what they hold belongs there (`InPlace`), and slots further
  back than `transient_offset` are empty: else `advanceProgress`, which keeps the markings of the current value only as long, would
  link a slot with a new place in front while old markings are in it. A ring not linked yet is empty.
* `Searched`: when a front goes on, its current store is empty. Whoever has put something there goes on to look at it
  (`Looking`), so the last one to leave has found nothing; that needs the count of the helpers (4.5).
* `Prepared`: `initFront` links a ring that may hold markings from before, at other places. It is empty then, but for
  the initial marking in the first round of the first front, which links the same places once more; that they are the same needs
  that nobody extends the list before (`NobodyStarts`, from the order of the fronts).
* `RingStays`: no ring advances while a helper is inside, nor is it emptied before the search is over. For fronts other than the first a helper may be inside
  before the front has begun (section 5), but then its ring is not linked, and the helper finds nothing to take.
* `InHand` and `ListsRight`: what threads hold, and what the lists hold, belongs to the place it came from.

The lemmas about the ring (`SlotAt`, `SlotsDiffer`, `RingAdvances`, ...) say where a slot goes without remainders. Then there is one
lemma for the steps that touch no marking, one for each that does, and for what each leaves of the other fronts and
threads (`Crew` for the steps of a front, `Checker` for those of `checkStates`).

### 4.7 The argument for the contract of a sweep

A front forgets what it leaves behind, so "every marking seen has all its successors seen" cannot be read off the stores. `NothingLost` says it of the
history: each marking seen is dealt with (`Expanded`), or it is in a thread's hands, among the transient markings a front has ahead, or among the new
persistent ones (`Pending`); once the search is over without a solution there are none of the latter kinds. A step may move a marking between
them, and `MovesData`, `TakesData`, `StoreData` and `AskData` show that none is dropped. What is hard is the step in which a front finds that it has
made nothing persistent and ends the search for all: why is nothing pending *anywhere*? `Sweeping` gives the reasons, as long as `exit` is not set:

* `NothingBehind`: while a front has made no marking persistent there is no new persistent marking behind it, and every front that follows is
  idle. So when the leader gets to the end, none is left in any ring or hand.
* `AtEnd`, `Passed`: at the end the rest of the ring is empty, and the new persistent markings of every value the front has been at were taken.
* `NewWithin`, `Reaches`: no new persistent marking is so far out that no front will get there. Towards the front of the list, none is within `front_offset` of its end,
  where `advanceProgress` stops. Towards the back, it is before the place where the next front begins only while a front is still
  so near to it that it extends the list in time: `extendLeft` lowers its counter by one on each advance, and the two calls of
  `checkNewPersistent` look at exactly the stores that get out of reach (`AgeEnough`, `SlotRound`: at the end the offsets run
  once around the ring).

A step that moves neither markings nor rings (`Calm`) keeps `Sweeping` if the order of the fronts stays (`SameOrder`); only `Pass` changes the leader,
and the one that becomes last is idle or not on its way. `SolutionsRight` is about the other answer: a thread that counts as a solution keeps the marking it
found, because it takes no other while `exit` is set, and `Join` picks one of them. `ContractInvariant` is the conjunction.

### 4.8 The argument for the net state

`StateInStep` says that flags, scapegoat lists, path, marking and hash value agree. It is inductive; what is hard is that between two
calls of a search it is broken and repaired by loops that change the lists they run through.

* `CheckKeeps`: `checkEnabled` makes one transition's flag right, keeps all lists in order and changes nothing for the others except
  that the last entry of the list it leaves may take its slot. One lemma per branch.
* `Repaired` and `Passed` say what holds inside the loops: all is right except for disabled transitions whose scapegoat is still to be
  looked at, in the list under way those from index `j` on (`Pending`: and enabled ones still to be rechecked). `ScanKeeps` has one round per entry: a transition that stays, or goes to
  the front of another list, or leaves, with another one in its slot, which has not been looked at and is at index `j`. A transition that
  gets a new scapegoat goes to a place that lacks tokens, so it is right wherever it lands, also in a list still to come.
* `UpdateExact`: firing takes tokens from some places and gives tokens to others. Only a disabled transition with a scapegoat among the latter
  and an enabled one that consumes from the former can be wrong: exactly those that `updateEnabled` looks at. `RevertExact` is the same for
  the way back, `CheckAllExact` for the reset, which starts from lists of another marking.
* `HashStep`: the hash value is a chain of remainders with the sign of the dividend, taken place by place, in an order that
  depends on the arcs. Each is congruent to the sum of weights times hash values, which does not depend on the order (`HashSumTotal`); hence the
  value after firing is that of the new marking once `WrapExact` has brought it into range.
* `TryKnownKeeps`: a marking that turns out to be known leaves no trace; `backfire(fire(ns, t), t)` is `ns`, hash value included.

For `find_path` it remains to count: `PathInvariant` relates the attempts, the tries and the calls of the store.

### 4.9 Model-checked only

Liveness is out of reach of the prover: the second halves of the contracts of the searches (an answer always comes), `Terminates` of the
sweep line, `WalkEnds` of the conflict sets and `ChecksEnd` of CTL. Reduced firelists, state predicates and CTL use recursive operators for their closures and trees, which the prover
cannot read; so `PredicateExact`, `GoalsKept`, `DeadlocksKept`, `DeletionKeeps`, `AnswersExact` and `SearchInStep` stay with TLC. The steps
of `PropertyWalk` are those of `NetStateWalk` with a formula beside them, so what is proved of the net state holds in it. Not proved yet:
`ConflictsExact` and `StackInOrder` of the conflict sets.

## 5. What the runs found

Two runs of their own show

* that the parallel search does not push the transition that led to the satisfying marking
  (`ParallelExploration.cc:118-138`; the sequential search does, `DFSExploration.cc:75-79`): `parallel_witness`;
* that the deletion algorithm marks the parts of a conjunction as or-nodes and not the conjunction
  (`FirelistStubbornDeletion.cc:123-132`, with the counters set in 606-612), so that a search for two conditions at
  once can miss a marking: `stubborn_deletion`. `DeletionKeeps` in `netstate_walk` is about formulas without conjunctions.

Met while modelling, without a run of its own:

* With two winners of the parallel search, marking and path may belong to different threads (`ParallelExploration.cc:130,374`).
* The hash driven choice counts hits relative to the initial marking's hash value
  (`ChooseTransitionHashDriven.cc:59`), not for the bucket that is entered.
* `PluginStore` drops `noinsert` (`PluginStore.inc:43`).
* Sweep line: a front other than the first lowers its idle flag to start (`Sweep.inc:457-459`). A helper that looks at
  it then (`553`, `1014-1020`) finds a ring whose stores are not linked yet (`SweepRingStore.inc:53,191`). The model
  has a variable `crashed` for this; the arguments `StartupArguments` in `MCSweep` reach it.
* Sweep line: a helper reads its front's idle flag (`Sweep.inc:576`) and raises its own one after it; a front with new work
  in between does not see it idle (`1057`, `697`), and it sleeps through that round. `Doze` and `Nap` are two actions for this, and `Terminates` holds.
* With one hash function (the option's default is two) the Bloom filter writes into another thread's row (`VBloomStore.inc:72`).
* Four arrays of `SweepRingStore` have the size of a type instead of the number of stores or threads (`SweepRingStore.inc:43,53-55`).
* CTL: EX and AX fire without `updateEnabled`. A temporal operator directly below them asks for a firelist of the marking
  before (`EXFormula.h:32-38`); they do not free their firelists either.
* CTL: `setCachedResult` shifts by the index in the whole payload (`CTLFormula.h:36-48`), `getCachedResult` by the
  index in the byte. Of the fifth temporal operator nothing is stored, and its search descends into a cycle for ever.
* CTL: the check of parts of a component for strong fairness takes atomic parts back without having
  updated them, and forbidden transitions of one part stay forbidden in the next (`AUFormula.cc`, not modelled).
* `FirelistStubbornDeletion` allocates predecessor lists of transitions without the edges to the formula's leaves;
  `FirelistStubbornDeadlock` never takes a transition off `onTarjanStack`, which costs reduction at most.
* The handlers read options after they have been freed (`Core/Handlers.cc:130`).

## 6. Not modelled

The named semaphores that two LoLA processes share; the process's signals, exit handler, sockets and
reporter thread (the limits it enforces by a signal); the ownership of the arrays of net states and
properties (a net state is a value; firelists are modelled); of the sweep line the counters of markings and calls, buckets and payloads within a store and the sizes of
four arrays; of formulas negation (done before the search), TRUE and FALSE as leaves and copies; of CTL strong fairness and the construction of witnesses; the wrap-around of the stack pointer at 2^32 entries; encodings of markings as bit vectors; everything marked so in 1.1.

## 7. Plan

Done: both searches with the safety part of their contract proved; net state and `find_path`, proved; the stores with their
counters, proved; the search stack with its chunks, and the ownership of the firelists, proved; the sweep-line method with the
order of its fronts, the place of its helpers, that of its markings and its contract proved; conflict sets; state predicates; reduced firelists; CTL with weak fairness. Left, in this order:

1. Conflict sets: proofs of `StackInOrder` and `ConflictsExact`.
2. Encoders: decode after encode, injectivity.
3. LTL: accepting cycles of the product, with the fairness check of components. CTL: strong fairness.
4. Prefix tree store, cycle store, popVector over buckets, reporter and handlers.
