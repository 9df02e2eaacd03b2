--------------------------- MODULE CTLExploration ---------------------------
(***************************************************************************)
(* CTL model checking (src/lola2/src/Exploration/CTLExploration.cc and     *)
(* src/lola2/src/Formula/CTL).  Every node of a formula checks itself in   *)
(* the current marking and calls its parts; one action is what a check     *)
(* does between two calls, or one round of its search.                     *)
(*                                                                         *)
(* E phi U psi and A phi U psi search depth first, with Tarjan's algorithm *)
(* for strongly connected components.  What they find out about a marking  *)
(* is stored with it, per node, and used by all later checks of that node. *)
(* The other operators with a search are these two with negations:         *)
(* AF x = A true U x, EG x = not A true U not x, A x R y = not E not x U   *)
(* not y, and so on.                                                       *)
(*                                                                         *)
(* Enabledness, and what the atomic parts below a node take for the        *)
(* current marking, is only updated when a part is called, and has to be   *)
(* taken back whichever way a search ends.                                 *)
(***************************************************************************)
EXTENDS NetState

CONSTANTS
  Formulas,      (* the formulas to check: kind, parts and, of an atomic   *)
                 (* one, the markings where it holds                       *)
  Weak           (* the sets of transitions with WEAK_FAIRNESS             *)

VARIABLES
  formula, weak, (* what is checked                                        *)
  ns,            (* the NetState                                           *)
  seen,          (* the marking each atomic node takes for the current one *)
  payload,       (* the store: markings with their results and dfs numbers *)
  calls,         (* the checks under way, innermost last                   *)
  answer         (* what the last check has returned                       *)

vars == <<formula, weak, ns, seen, payload, calls, answer>>
known == <<formula, weak, payload>>

UNKNOWN == 0
IN_PROGRESS == 1
KNOWN_FALSE == 2
KNOWN_TRUE == 3
Result(v) == IF v THEN KNOWN_TRUE ELSE KNOWN_FALSE
IsKnown(r) == r \in {KNOWN_FALSE, KNOWN_TRUE}

Root == 1
Nodes == DOMAIN formula.kind
Kind(n) == formula.kind[n]
Part(n, i) == formula.sub[n][i]
Phi(n) == Part(n, 1)
Psi(n) == Part(n, 2)

RECURSIVE Below(_)
Below(n) == {n} \union UNION {Below(c) : c \in ToSet(formula.sub[n])}

(* A check: pc is where it goes on when the part it has called returns.    *)
Check(n) ==
  [node |-> n, pc |-> "enter", asked |-> 0, todo |-> <<>>, t |-> 0,
   at |-> InitialMarking, lowlink |-> 0, currentDFSNumber |-> 0,
   dfsStack |-> <<>>, tarjanStack |-> <<>>]

Top == Last(calls)
Replaced(f) == [calls EXCEPT ![Len(calls)] = f]
GoOn(f) == calls' = Replaced(f) /\ UNCHANGED answer
Call(f, n) == calls' = Append(Replaced(f), Check(n)) /\ UNCHANGED answer
Return(v) == calls' = Front(calls) /\ answer' = v

Init ==
  /\ formula \in Formulas
  /\ weak \in Weak
  /\ ns = createNetStateFromInitial
  /\ seen = [n \in Nodes |-> InitialMarking]
  /\ payload = <<>>
  /\ calls = <<Check(Root)>>
  /\ answer = FALSE

(* updateAtomics and revertAtomics of node n.                              *)
updateAtomics(s, n, t) ==
  [c \in Nodes |-> IF c \in Below(n) THEN Fire(s[c], t) ELSE s[c]]
revertAtomics(s, n, t) ==
  [c \in Nodes |-> IF c \in Below(n) THEN Backfire(s[c], t) ELSE s[c]]

getFirelist == Ascending({t \in Transition : ns.Enabled[t]}, Max(Transition))

-----------------------------------------------------------------------------
(* Atomic nodes, and true.                                                 *)
CheckAtomic ==
  /\ Kind(Top.node) = "atomic"
  /\ Return(seen[Top.node] \in formula.holds[Top.node])
  /\ UNCHANGED <<known, ns, seen>>

CheckNot ==
  /\ Kind(Top.node) = "not"
  /\ \/ Top.pc = "enter" /\ Call([Top EXCEPT !.pc = "asked"], Part(Top.node, 1))
     \/ Top.pc = "asked" /\ Return(~ answer)
  /\ UNCHANGED <<known, ns, seen>>

(* Conjunctions and disjunctions: the answer of a part that decides.       *)
CheckParts ==
  LET f == Top
      decides == Kind(f.node) = "or"
  IN  /\ Kind(f.node) \in {"and", "or"}
      /\ \/ /\ f.asked > 0 /\ answer = decides
            /\ Return(decides)
         \/ /\ f.asked > 0 /\ answer # decides /\ f.asked = Len(formula.sub[f.node])
            /\ Return(~ decides)
         \/ /\ f.asked = 0 \/ (answer # decides /\ f.asked < Len(formula.sub[f.node]))
            /\ Call([f EXCEPT !.asked = @ + 1], Part(f.node, f.asked + 1))
      /\ UNCHANGED <<known, ns, seen>>

(* EX and AX fire one transition after the other, and call their part      *)
(* without an update of enabledness.                                       *)
(* Mutant: the list is fetched again for every successor.                  *)
Refetched(f) == getFirelist
Remaining(f) == IF f.pc = "enter" THEN getFirelist ELSE f.todo

NextSuccessor ==
  LET f == Top
      todo == Remaining(f)
      t == Last(todo)
  IN  /\ Kind(f.node) \in {"EX", "AX"}
      /\ f.pc \in {"enter", "next"}
      /\ \/ /\ todo = <<>>
            /\ Return(Kind(f.node) = "AX")
            /\ UNCHANGED <<ns, seen>>
         \/ /\ todo # <<>>
            /\ ns' = fire(ns, t)
            /\ seen' = updateAtomics(seen, f.node, t)
            /\ Call([f EXCEPT !.pc = "asked", !.todo = Front(todo), !.t = t],
                    Part(f.node, 1))
      /\ UNCHANGED known

SuccessorChecked ==
  LET f == Top
      decides == Kind(f.node) = "EX"
  IN  /\ Kind(f.node) \in {"EX", "AX"}
      /\ f.pc = "asked"
      /\ ns' = backfire(ns, f.t)
      /\ seen' = revertAtomics(seen, f.node, f.t)
      /\ \/ answer = decides /\ Return(decides)
         \/ answer # decides /\ GoOn([f EXCEPT !.pc = "next"])
      /\ UNCHANGED known

-----------------------------------------------------------------------------
(* E phi U psi and A phi U psi: the answer that ends the whole search, and *)
(* the one for a component without such an answer.                         *)
IsSearch(n) == Kind(n) \in {"EU", "AU"}
Decides(n) == Kind(n) = "EU"

(* The payload of a marking, made when it is inserted.                     *)
Empty == [result |-> [n \in Nodes |-> UNKNOWN], dfs |-> [n \in Nodes |-> 0]]
searchAndInsert(m) == IF m \in DOMAIN payload THEN payload ELSE m :> Empty @@ payload

(* A result has two bits, which are set by shifts of 1 by their index in   *)
(* the whole payload, where they lie behind the dfs numbers of 32 bits.    *)
(* The usual processors shift modulo 32: of any sixteen searches (nodes    *)
(* are numbered as gatherPayloadInformation visits them) the first four    *)
(* reach their byte, and those of the others fall off its end.             *)
HasBits(n) == Cardinality({k \in 1 .. n - 1 : IsSearch(k)}) % 16 < 4
setCachedResult(pl, n, ms, r) ==
  IF ~ HasBits(n) THEN pl
  ELSE [m \in DOMAIN pl |-> IF m \in ms THEN [pl[m] EXCEPT !.result[n] = r] ELSE pl[m]]

EnterSearch ==
  LET f == Top
      m == ns.Current
      pl == searchAndInsert(m)
      cachedResult == pl[m].result[f.node]
  IN  /\ IsSearch(f.node) /\ f.pc = "enter"
      /\ payload' = pl
      /\ \/ /\ IsKnown(cachedResult)
            /\ Return(cachedResult = KNOWN_TRUE)
         \/ /\ ~ IsKnown(cachedResult)
            /\ Call([f EXCEPT !.pc = "psi0", !.at = m], Psi(f.node))
      /\ UNCHANGED <<formula, weak, ns, seen>>

(* The marking the search begins in.                                       *)
FirstPsi ==
  LET f == Top
  IN  /\ IsSearch(f.node) /\ f.pc = "psi0"
      /\ \/ /\ answer
            /\ payload' = setCachedResult(payload, f.node, {f.at}, KNOWN_TRUE)
            /\ Return(TRUE)
         \/ /\ ~ answer
            /\ Call([f EXCEPT !.pc = "phi0"], Phi(f.node))
            /\ UNCHANGED payload
      /\ UNCHANGED <<formula, weak, ns, seen>>

(* A deadlock ends a path.                                                 *)
IsDeadlock(n) == Kind(n) = "AU" /\ getFirelist = <<>>

(* A marking gets its dfs number and is in progress.                       *)
setDFS(pl, n, m, d) ==
  [setCachedResult(pl, n, {m}, IN_PROGRESS) EXCEPT ![m].dfs[n] = d]
Descended(f, m) ==
  [f EXCEPT !.pc = "look", !.at = m, !.todo = getFirelist,
            !.currentDFSNumber = @ + 1, !.lowlink = f.currentDFSNumber + 1]

FirstPhi ==
  LET f == Top
  IN  /\ IsSearch(f.node) /\ f.pc = "phi0"
      /\ \/ /\ ~ answer \/ IsDeadlock(f.node)
            /\ payload' = setCachedResult(payload, f.node, {f.at}, KNOWN_FALSE)
            /\ Return(FALSE)
         \/ /\ answer /\ ~ IsDeadlock(f.node)
            /\ payload' = setDFS(payload, f.node, f.at, 1)
            /\ GoOn(Descended(f, f.at))
      /\ UNCHANGED <<formula, weak, ns, seen>>

(* Mutant: enabledness stays as it was in the marking left.                *)
JustBack(s, n, t) ==
  [ns |-> backfire(s.ns, t), seen |-> revertAtomics(s.seen, n, t)]
StepsBack(s, n, t) ==
  [ns |-> revertEnabled(backfire(s.ns, t), t), seen |-> revertAtomics(s.seen, n, t)]

(* The end of the search with the answer that decides: it is known of all  *)
(* markings on both stacks, and the path is taken back.                    *)
Settle(f, s, pl) ==
  LET onPath == {f.dfsStack[i].at : i \in DOMAIN f.dfsStack}
      back == FoldRight(LAMBDA e, x : StepsBack(x, f.node, e.t), f.dfsStack, s)
  IN  /\ payload' = setCachedResult(pl, f.node,
                                    {f.at} \union ToSet(f.tarjanStack) \union onPath,
                                    Result(Decides(f.node)))
      /\ ns' = back.ns
      /\ seen' = back.seen
      /\ Return(Decides(f.node))

Here == [ns |-> ns, seen |-> seen]

(* The next transition is fired, and taken back at once when something is  *)
(* known of the marking; the mutant forgets what a marking in progress     *)
(* means for the component.                                                *)
SameLowlink(f, d) == f.lowlink
Lowlink(f, d) == IF d < f.lowlink THEN d ELSE f.lowlink

Look ==
  LET f == Top
      t == Last(f.todo)
      m == Fire(ns.Current, t)
      pl == searchAndInsert(m)
      r == pl[m].result[f.node]
      g == [f EXCEPT !.todo = Front(@), !.t = t]
  IN  /\ IsSearch(f.node) /\ f.pc = "look" /\ f.todo # <<>>
      /\ \/ /\ r = UNKNOWN
            /\ payload' = pl
            /\ ns' = updateEnabled(fire(ns, t), t)
            /\ seen' = updateAtomics(seen, f.node, t)
            /\ Call([g EXCEPT !.pc = "psi"], Psi(f.node))
         \/ /\ r = Result(Decides(f.node))
            /\ Settle(g, Here, pl)
         \/ /\ r = IN_PROGRESS
            /\ payload' = pl
            /\ GoOn([g EXCEPT !.lowlink = Lowlink(f, pl[m].dfs[f.node])])
            /\ UNCHANGED <<ns, seen>>
         \/ /\ r = Result(~ Decides(f.node))
            /\ payload' = pl
            /\ GoOn(g)
            /\ UNCHANGED <<ns, seen>>
      /\ UNCHANGED <<formula, weak>>

(* Something is known of the new marking without a look at its successors. *)
Turn(f, v) ==
  LET back == StepsBack(Here, f.node, f.t)
      pl == setCachedResult(payload, f.node, {ns.Current}, Result(v))
  IN  \/ /\ v = Decides(f.node)
         /\ Settle(f, back, pl)
      \/ /\ v # Decides(f.node)
         /\ payload' = pl
         /\ ns' = back.ns
         /\ seen' = back.seen
         /\ GoOn([f EXCEPT !.pc = "look"])

NewPsi ==
  LET f == Top
  IN  /\ IsSearch(f.node) /\ f.pc = "psi"
      /\ \/ /\ answer
            /\ Turn(f, TRUE)
         \/ /\ ~ answer
            /\ Call([f EXCEPT !.pc = "phi"], Phi(f.node))
            /\ UNCHANGED <<payload, ns, seen>>
      /\ UNCHANGED <<formula, weak>>

NewPhi ==
  LET f == Top
      entry == [todo |-> f.todo, t |-> f.t, at |-> f.at, lowlink |-> f.lowlink]
      g == Descended([f EXCEPT !.dfsStack = Append(@, entry)], ns.Current)
  IN  /\ IsSearch(f.node) /\ f.pc = "phi"
      /\ \/ /\ ~ answer
            /\ Turn(f, FALSE)
         \/ /\ answer /\ IsDeadlock(f.node)
            /\ Settle(g, Here, payload)
         \/ /\ answer /\ ~ IsDeadlock(f.node)
            /\ payload' = setDFS(payload, f.node, g.at, g.lowlink)
            /\ GoOn(g)
            /\ UNCHANGED <<ns, seen>>
      /\ UNCHANGED <<formula, weak>>

-----------------------------------------------------------------------------
(* getFairWitness, for weak fairness: the component with root m has a      *)
(* cycle on which every weakly fair transition is fired or disabled.  The  *)
(* component is marked on the way: all its markings get the root's number. *)
InComponent(n, m, d) ==
  /\ m \in DOMAIN payload /\ ~ IsKnown(payload[m].result[n])
  /\ \/ payload[m].dfs[n] = d
     \/ payload[m].result[n] = IN_PROGRESS /\ payload[m].dfs[n] > d

Successors(m) == {Fire(m, t) : t \in EnabledSet(m)}

RECURSIVE Component(_, _, _)
Component(n, ms, d) ==
  LET next == ms \union {x \in UNION {Successors(m) : m \in ms} : InComponent(n, x, d)}
  IN  IF next = ms THEN ms ELSE Component(n, next, d)

Inside(ms) == {<<m, t>> \in ms \X Transition : Enabled(m, t) /\ Fire(m, t) \in ms}

IsFair(ms, w) ==
  /\ Inside(ms) # {}
  /\ \A u \in w : \/ \E m \in ms : ~ Enabled(m, u)
                     \/ \E e \in Inside(ms) : e[2] = u

Marked(n, ms, d) ==
  [m \in DOMAIN payload |->
     IF m \in ms THEN [payload[m] EXCEPT !.result[n] = UNKNOWN, !.dfs[n] = d]
       ELSE payload[m]]

(* The markings on the Tarjan stack that belong to the component of number *)
(* d are its last ones.                                                    *)
Remain(pl, f, d) ==
  LET stays(i) == LET x == pl[f.tarjanStack[i]].dfs[f.node]
                  IN  x < d \/ (x = d /\ Kind(f.node) = "EU")
  IN  Max({0} \union {i \in DOMAIN f.tarjanStack : stays(i)})

(* All successors have been looked at.  A component that is finished has   *)
(* no answer that decides; a fair one is such an answer for A phi U psi.   *)
(* Else the marking waits for its component on the Tarjan stack.           *)
Complete ==
  LET f == Top
      n == f.node
      d == payload[f.at].dfs[n]
      finished == d = f.lowlink
      component == Component(n, {f.at}, d)
      tested == finished /\ Kind(n) = "AU"
      pl == IF tested THEN Marked(n, component, d) ELSE payload
      k == IF finished THEN Remain(pl, f, d) ELSE Len(f.tarjanStack)
      gone == ToSet(SubSeq(f.tarjanStack, k + 1, Len(f.tarjanStack)))
      closed == IF finished THEN setCachedResult(pl, n, {f.at} \union gone, Result(~ Decides(n)))
                  ELSE payload
      waiting == SubSeq(f.tarjanStack, 1, k) \o IF finished THEN <<>> ELSE <<f.at>>
      e == Last(f.dfsStack)
      back == StepsBack(Here, n, e.t)
  IN  /\ IsSearch(n) /\ f.pc = "look" /\ f.todo = <<>>
      /\ \/ /\ tested /\ IsFair(component, weak)
            /\ Settle(f, Here, pl)
         \/ /\ ~ (tested /\ IsFair(component, weak))
            /\ payload' = closed
            /\ \/ /\ f.dfsStack = <<>>
                  /\ Return(~ Decides(n))
                  /\ UNCHANGED <<ns, seen>>
               \/ /\ f.dfsStack # <<>>
                  /\ GoOn([f EXCEPT !.todo = e.todo, !.t = e.t, !.at = e.at,
                                    !.lowlink = Lowlink(f, e.lowlink),
                                    !.dfsStack = Front(@), !.tarjanStack = waiting])
                  /\ ns' = back.ns
                  /\ seen' = back.seen
      /\ UNCHANGED <<formula, weak>>

Next ==
  \/ /\ calls # <<>>
     /\ \/ CheckAtomic \/ CheckNot \/ CheckParts
        \/ NextSuccessor \/ SuccessorChecked
        \/ EnterSearch \/ FirstPsi \/ FirstPhi
        \/ Look \/ NewPsi \/ NewPhi \/ Complete
  \/ calls = <<>> /\ UNCHANGED vars

(* A sequential program goes on: weak fairness of Next, which can take a   *)
(* step exactly while a check is under way.                                *)
Fairness == []<>(calls = <<>>) \/ []<><<Next>>_vars
Spec == Init /\ [][Next]_vars /\ Fairness

-----------------------------------------------------------------------------
(* What CTL says, by the definition of its operators: the markings of a    *)
(* set B, and those of A from which a step leads to one already found.     *)
Steps == [m \in Markings |-> {<<t, Fire(m, t)>> : t \in EnabledSet(m)}]
Leads(m, Z) == \E e \in Steps[m] : e[2] \in Z

Through(A, B) ==
  LET closed == {Z \in SUBSET Markings : B \subseteq Z /\ \A m \in A : Leads(m, Z) => m \in Z}
  IN  {m \in Markings : \A Z \in closed : m \in Z}

(* Sets of markings an infinite path may stay in for ever, weak fairness   *)
(* kept: they are connected, and a transition that is enabled in all of    *)
(* them is one of the steps.                                               *)
MayStay(S, w) ==
  /\ S # {} /\ \A m \in S : Leads(m, S)
  /\ \A T \in SUBSET S : T # {} /\ (\A m \in T : ~ Leads(m, S \ T)) => T = S
  /\ \A u \in w : \/ \E m \in S : \A e \in Steps[m] : e[1] # u
                  \/ \E m \in S : \E e \in Steps[m] : e[1] = u /\ e[2] \in S
FairSets == [w \in Weak |-> {S \in SUBSET Markings : MayStay(S, w)}]

(* Where a node is true, given where its parts are.                        *)
TrueOf(F, w, n, true) ==
  LET parts == F.sub[n]
      phi == true[parts[1]]
      psi == true[parts[2]]
      dead == {m \in Markings : Steps[m] = {}}
      bad == (Markings \ phi) \union dead
                  \union UNION {S \in FairSets[w] : S \subseteq phi \ psi}
  IN  CASE F.kind[n] = "atomic" -> F.holds[n]
        [] F.kind[n] = "not" -> Markings \ phi
        [] F.kind[n] = "and" -> {m \in Markings : \A c \in ToSet(parts) : m \in true[c]}
        [] F.kind[n] = "or" -> {m \in Markings : \E c \in ToSet(parts) : m \in true[c]}
        [] F.kind[n] = "EX" -> {m \in Markings : Leads(m, phi)}
        [] F.kind[n] = "AX" -> {m \in Markings : ~ Leads(m, Markings \ phi)}
        [] F.kind[n] = "EU" -> Through(phi, psi)
        [] F.kind[n] = "AU" -> Markings \ Through(phi \ psi, bad \ psi)

(* The parts of a node come after it.                                      *)
Satisfied(F, w) ==
  FoldRight(LAMBDA n, true : [true EXCEPT ![n] = TrueOf(F, w, n, true)],
            [n \in DOMAIN F.kind |-> n], [n \in DOMAIN F.kind |-> {}])
Truth == [F \in Formulas, w \in Weak |-> Satisfied(F, w)]

(* Every result stored with a marking is right, of every node of the       *)
(* formula and at every moment: no component is settled too early, no      *)
(* answer is passed on to a marking it is not true of, and none is read    *)
(* while it may still change.  And so is the answer of the whole check.    *)
AnswersExact ==
  LET true == Truth[formula, weak]
  IN  /\ \A m \in DOMAIN payload : \A n \in Nodes :
           IsKnown(payload[m].result[n])
             => (payload[m].result[n] = KNOWN_TRUE <=> m \in true[n])
      /\ calls = <<>> => (answer <=> InitialMarking \in true[Root])

(* Enabledness, where it has been updated, is that of the marking.         *)
FlagsRight == \A t \in Transition : ns.Enabled[t] = Enabled(ns.Current, t)

(* Whichever way the searches before it and around it have gone, a check   *)
(* is entered with the atomic parts below its node and, if it asks for a   *)
(* firelist, with the enabledness of the current marking; the last search  *)
(* has walked back to where it began.                                      *)
EnteredInStep ==
  IF calls = <<>>
    THEN ns.Current = InitialMarking /\ FlagsRight /\ seen = [n \in Nodes |-> InitialMarking]
    ELSE Top.pc = "enter" =>
           /\ \A c \in Below(Top.node) : Kind(c) = "atomic" => seen[c] = ns.Current
           /\ IsSearch(Top.node) \/ Kind(Top.node) \in {"EX", "AX"} => FlagsRight

OnPath(f) == {f.at} \union ToSet(f.tarjanStack) \union {f.dfsStack[i].at : i \in DOMAIN f.dfsStack}
Searching(f) == IsSearch(f.node) /\ f.pc \in {"look", "psi", "phi"}

(* A marking is in progress for a node exactly while it is on one of the   *)
(* stacks of the search of that node: no search meets one that another has *)
(* left behind.  What is marked so leaves with its component: a marking    *)
(* without successors left has a number that is not below its lowlink, and *)
(* the first one of a search takes the whole Tarjan stack with it.         *)
BooksBalance ==
  /\ \A n \in {k \in Nodes : IsSearch(k) /\ HasBits(k)} :
       {m \in DOMAIN payload : payload[m].result[n] = IN_PROGRESS}
         = UNION {OnPath(calls[i]) : i \in {j \in DOMAIN calls : calls[j].node = n
                                                              /\ Searching(calls[j])}}
  /\ calls # <<>> /\ Searching(Top) /\ Top.pc = "look" /\ Top.todo = <<>> =>
       LET d == payload[Top.at].dfs[Top.node]
       IN  /\ d >= Top.lowlink
           /\ Top.dfsStack = <<>> => d = Top.lowlink /\ Remain(payload, Top, d) = 0

SearchInStep == EnteredInStep /\ BooksBalance

(* The check of a formula comes to an end, however up to four searches are *)
(* nested in it.  (A fifth one does not end on a cycle: HasBits.)          *)
ChecksEnd == <>(calls = <<>>)
=============================================================================
