-------------------------- MODULE SearchPathProofs --------------------------
(***************************************************************************)
(* Lemmas about firing, taking back and the paths that search stacks       *)
(* describe, for every net and stacks of every height.                     *)
(***************************************************************************)
EXTENDS SearchPath, FiniteSetTheorems, TLAPS

(***************************************************************************)
(* Firing and stacks.                                                      *)
(***************************************************************************)

(* backfire undoes fire.                                                   *)
LEMMA BackfireUndoesFire ==
  ASSUME NEW m \in Markings, NEW t \in Transition
  PROVE  Backfire(Fire(m, t), t) = m
<1>1. m \in [Place -> Nat]
  BY MarkingsAssumption
<1>2. \A p \in Place : Delta(t, p) \in Int
  BY NetAssumption DEF Delta
<1>3. ASSUME NEW p \in Place
      PROVE  (m[p] + Delta(t, p)) - Delta(t, p) = m[p]
  <2>1. m[p] \in Int /\ Delta(t, p) \in Int
    BY <1>1, <1>2
  <2> QED
    BY <2>1
<1>4. Backfire(Fire(m, t), t) = [p \in Place |-> (m[p] + Delta(t, p)) - Delta(t, p)]
  BY DEF Backfire, Fire
<1> QED
  BY <1>1, <1>3, <1>4

(* Firing an enabled transition stays within the markings.                 *)
LEMMA FireStays ==
  ASSUME NEW m \in Markings, NEW t \in EnabledAt(m)
  PROVE  Fire(m, t) \in Markings
BY MarkingsAssumption DEF EnabledAt

(* A firelist entry of a marking is enabled there.                         *)
LEMMA ListedIsEnabled ==
  ASSUME NEW m, NEW fl \in Seq(EnabledAt(m)), NEW i \in 1 .. Len(fl)
  PROVE  fl[i] \in EnabledAt(m) /\ fl[i] \in Transition /\ fl \in Seq(Transition)
<1>1. fl[i] \in EnabledAt(m)
  OBVIOUS
<1>2. EnabledAt(m) \subseteq Transition
  BY DEF EnabledAt
<1>3. fl \in Seq(Transition)
  BY <1>2
<1> QED
  BY <1>1, <1>2, <1>3

(* The empty stack leads to the initial marking.                           *)
LEMMA EmptyStackLeads == LeadsTo(<<>>, InitialMarking)
<1> DEFINE p == [k \in 0 .. 0 |-> InitialMarking]
<1>1. p \in [0 .. Len(<<>>) -> Markings]
  BY MarkingsAssumption
<1>2. p[0] = InitialMarking /\ Len(<<>>) = 0
  OBVIOUS
<1> HIDE DEF p
<1> QED
  BY <1>1, <1>2 DEF LeadsTo

(* Pushing an entry whose firelist fits the marking.                       *)
LEMMA PushLeads ==
  ASSUME NEW s \in Seq(StackEntry), NEW m \in Markings, LeadsTo(s, m),
         NEW e \in StackEntry, e.fl \in Seq(EnabledAt(m)),
         e.current < Len(e.fl)
  PROVE  /\ LeadsTo(Append(s, e), Fire(m, Fired(e)))
         /\ Fire(m, Fired(e)) \in Markings
<1> DEFINE n == Len(s)
<1> DEFINE s2 == Append(s, e)
<1>1. PICK p \in [0 .. n -> Markings] :
        /\ p[0] = InitialMarking
        /\ p[n] = m
        /\ \A k \in 1 .. n :
             /\ s[k].fl \in Seq(EnabledAt(p[k-1]))
             /\ s[k].current < Len(s[k].fl)
             /\ p[k] = Fire(p[k-1], Fired(s[k]))
  BY DEF LeadsTo
<1>2. n \in Nat /\ Len(s2) = n + 1 /\ s2[n+1] = e /\ \A k \in 1 .. n : s2[k] = s[k]
  OBVIOUS
<1>3. Fire(m, Fired(e)) \in Markings
  <2>1. e.current + 1 \in 1 .. Len(e.fl)
    BY DEF StackEntry
  <2> QED
    BY <2>1, ListedIsEnabled, FireStays DEF Fired
<1> DEFINE q == [k \in 0 .. n + 1 |-> IF k = n + 1 THEN Fire(m, Fired(e)) ELSE p[k]]
<1>4. q \in [0 .. Len(s2) -> Markings]
  BY <1>1, <1>2, <1>3
<1>5. q[0] = InitialMarking /\ q[Len(s2)] = Fire(m, Fired(e))
  BY <1>1, <1>2
<1>6. \A k \in 1 .. Len(s2) :
        /\ s2[k].fl \in Seq(EnabledAt(q[k-1]))
        /\ s2[k].current < Len(s2[k].fl)
        /\ q[k] = Fire(q[k-1], Fired(s2[k]))
  <2> SUFFICES ASSUME NEW k \in 1 .. n + 1
               PROVE  /\ s2[k].fl \in Seq(EnabledAt(q[k-1]))
                      /\ s2[k].current < Len(s2[k].fl)
                      /\ q[k] = Fire(q[k-1], Fired(s2[k]))
    BY <1>2
  <2>1. CASE k = n + 1
    <3>1. q[k-1] = m /\ q[k] = Fire(m, Fired(e)) /\ s2[k] = e
      BY <1>1, <1>2, <2>1
    <3> QED
      BY <3>1
  <2>2. CASE k \in 1 .. n
    <3>1. q[k-1] = p[k-1] /\ q[k] = p[k] /\ s2[k] = s[k]
      BY <1>2, <2>2
    <3> HIDE DEF q, s2
    <3> QED
      BY <3>1, <1>1, <2>2
  <2> QED
    BY <2>1, <2>2, <1>2
<1>7. LeadsTo(s2, Fire(m, Fired(e)))
  <2> HIDE DEF q, s2
  <2> QED
    BY <1>4, <1>5, <1>6 DEF LeadsTo
<1> QED
  BY <1>3, <1>7

(* Popping an entry and undoing its transition.                            *)
LEMMA PopLeads ==
  ASSUME NEW s \in Seq(StackEntry), s # <<>>, NEW m, LeadsTo(s, m),
         NEW e, e = s[Len(s)]
  PROVE  LET b == Backfire(m, Fired(e))
         IN  /\ b \in Markings
             /\ LeadsTo(SubSeq(s, 1, Len(s) - 1), b)
             /\ e.fl \in Seq(EnabledAt(b))
             /\ e.current < Len(e.fl)
             /\ m = Fire(b, Fired(e))
<1> DEFINE n == Len(s)
<1> DEFINE r == SubSeq(s, 1, n - 1)
<1>1. PICK p \in [0 .. n -> Markings] :
        /\ p[0] = InitialMarking
        /\ p[n] = m
        /\ \A k \in 1 .. n :
             /\ s[k].fl \in Seq(EnabledAt(p[k-1]))
             /\ s[k].current < Len(s[k].fl)
             /\ p[k] = Fire(p[k-1], Fired(s[k]))
  BY DEF LeadsTo
<1>2. n \in Nat \ {0} /\ Len(r) = n - 1 /\ \A k \in 1 .. n - 1 : r[k] = s[k]
  OBVIOUS
<1>3. e \in StackEntry /\ e = s[n]
  BY <1>2
<1>4. p[n-1] \in Markings /\ e.fl \in Seq(EnabledAt(p[n-1]))
      /\ e.current < Len(e.fl) /\ m = Fire(p[n-1], Fired(e))
  <2>1. n \in 1 .. n /\ n - 1 \in 0 .. n
    BY <1>2
  <2>2. p[n-1] \in Markings
    BY <1>1, <2>1
  <2> HIDE DEF n
  <2> QED
    BY <1>1, <1>3, <2>1, <2>2
<1>5. Fired(e) \in Transition
  <2>1. e.current + 1 \in 1 .. Len(e.fl)
    BY <1>3, <1>4 DEF StackEntry
  <2> QED
    BY <2>1, <1>4, ListedIsEnabled DEF Fired
<1>6. Backfire(m, Fired(e)) = p[n-1]
  BY <1>4, <1>5, BackfireUndoesFire
<1> DEFINE q == [k \in 0 .. n - 1 |-> p[k]]
<1>7. q \in [0 .. Len(r) -> Markings] /\ q[0] = InitialMarking /\ q[Len(r)] = p[n-1]
  BY <1>1, <1>2
<1>8. \A k \in 1 .. Len(r) :
        /\ r[k].fl \in Seq(EnabledAt(q[k-1]))
        /\ r[k].current < Len(r[k].fl)
        /\ q[k] = Fire(q[k-1], Fired(r[k]))
  <2> SUFFICES ASSUME NEW k \in 1 .. n - 1
               PROVE  /\ r[k].fl \in Seq(EnabledAt(q[k-1]))
                      /\ r[k].current < Len(r[k].fl)
                      /\ q[k] = Fire(q[k-1], Fired(r[k]))
    BY <1>2
  <2>1. q[k-1] = p[k-1] /\ q[k] = p[k] /\ r[k] = s[k] /\ k \in 1 .. n
    BY <1>2
  <2> HIDE DEF q, r
  <2> QED
    BY <2>1, <1>1
<1>9. LeadsTo(r, p[n-1])
  <2> HIDE DEF q, r
  <2> QED
    BY <1>7, <1>8 DEF LeadsTo
<1> QED
  BY <1>4, <1>6, <1>9

(***************************************************************************)
(* Induction: sequences of markings and the stacks they run along.         *)
(***************************************************************************)

(* A nonempty set of natural numbers has a smallest element: what is       *)
(* proved about sequences of any length is proved with it.                 *)
LEMMA LeastNumber ==
  ASSUME NEW T, T \subseteq Nat, T # {}
  PROVE  \E x \in T : \A y \in T : x <= y
<1> DEFINE R == StrictSubsetOrdering(Nat)
<1> DEFINE U == {1 .. n : n \in T}
<1>1. IsWellFoundedOn(R, FiniteSubsetsOf(Nat))
  BY FS_StrictSubsetOrderingWellFounded
<1>2. U \subseteq FiniteSubsetsOf(Nat)
  BY FS_Interval DEF FiniteSubsetsOf
<1>3. U # {}
  OBVIOUS
<1> HIDE DEF R, U
<1>4. PICK u \in U : \A v \in U : ~ (<<v, u>> \in R)
  BY <1>1, <1>2, <1>3, WFMin
<1>5. PICK x \in T : u = 1 .. x
  BY DEF U
<1>6. ASSUME NEW y \in T, y < x PROVE FALSE
  <2>1. 1 .. y \in U
    BY DEF U
  <2>2. 1 .. y \subseteq Nat /\ 1 .. x \subseteq Nat
    OBVIOUS
  <2>3. x \in 1 .. x /\ x \notin 1 .. y /\ 1 .. y \subseteq 1 .. x
    BY <1>6
  <2>4. <<1 .. y, 1 .. x>> \in R
    BY <2>2, <2>3 DEF R, StrictSubsetOrdering
  <2> QED
    BY <2>1, <2>4, <1>4, <1>5
<1> QED
  BY <1>6

(* f is the sequence of markings along s, up to the nth entry.             *)
IsReplay(f, s, n) ==
  f = [k \in 0 .. n |->
         IF k = 0 THEN InitialMarking ELSE Fire(f[k-1], Fired(s[k]))]

LEMMA ReplayExists ==
  ASSUME NEW s, NEW n \in Nat
  PROVE  \E f : IsReplay(f, s, n)
<1> DEFINE T == {k \in Nat : ~ \E f : IsReplay(f, s, k)}
<1>1. SUFFICES ASSUME T # {} PROVE FALSE
  OBVIOUS
<1> HIDE DEF T
<1>2. PICK k \in T : \A j \in T : k <= j
  <2>1. T \subseteq Nat
    BY DEF T
  <2> QED
    BY <1>1, <2>1, LeastNumber
<1>3. k \in Nat /\ ~ \E f : IsReplay(f, s, k)
  BY DEF T
<1>4. CASE k = 0
  <2> DEFINE g == [i \in 0 .. 0 |-> InitialMarking]
  <2>1. IsReplay(g, s, 0)
    BY DEF IsReplay
  <2> QED
    BY <1>3, <1>4, <2>1
<1>5. CASE k > 0
  <2>1. k - 1 \in Nat /\ k - 1 \notin T
    BY <1>2, <1>3, <1>5
  <2>2. PICK f : IsReplay(f, s, k - 1)
    BY <2>1 DEF T
  <2> DEFINE g == [i \in 0 .. k |->
                     IF i = k THEN Fire(f[k-1], Fired(s[k])) ELSE f[i]]
  <2>3. \A i \in 0 .. k : g[i] = IF i = 0 THEN InitialMarking
                                 ELSE Fire(g[i-1], Fired(s[i]))
    <3>1. \A i \in 0 .. k - 1 : f[i] = IF i = 0 THEN InitialMarking
                                       ELSE Fire(f[i-1], Fired(s[i]))
      BY <2>2 DEF IsReplay
    <3> QED
      BY <3>1, <1>3, <1>5
  <2>4. g = [i \in 0 .. k |-> g[i]]
    OBVIOUS
  <2> HIDE DEF g
  <2>5. IsReplay(g, s, k)
    BY <2>3, <2>4 DEF IsReplay
  <2> QED
    BY <2>5, <1>3
<1> QED
  BY <1>3, <1>4, <1>5

(* The markings along a stack, one after the other.                        *)
LEMMA ReplaySteps ==
  ASSUME NEW s, Len(s) \in Nat
  PROVE  /\ Replay(s)[0] = InitialMarking
         /\ \A k \in 1 .. Len(s) :
              Replay(s)[k] = Fire(Replay(s)[k-1], Fired(s[k]))
<1>1. Replay(s) = CHOOSE f : IsReplay(f, s, Len(s))
  BY DEF Replay, IsReplay
<1>2. IsReplay(Replay(s), s, Len(s))
  BY <1>1, ReplayExists
<1> QED
  BY <1>2 DEF IsReplay

(* Sequences of markings that fire the same transitions agree.             *)
LEMMA SameMarkings ==
  ASSUME NEW p, NEW q, NEW n \in Nat, p[0] = q[0],
         \A k \in 1 .. n : p[k-1] = q[k-1] => p[k] = q[k]
  PROVE  \A k \in 0 .. n : p[k] = q[k]
<1> DEFINE T == {k \in 0 .. n : p[k] # q[k]}
<1>1. SUFFICES ASSUME T # {} PROVE FALSE
  OBVIOUS
<1> HIDE DEF T
<1>2. PICK k \in T : \A j \in T : k <= j
  <2>1. T \subseteq Nat
    BY DEF T
  <2> QED
    BY <1>1, <2>1, LeastNumber
<1>3. k \in 1 .. n /\ p[k] # q[k]
  BY DEF T
<1>4. k - 1 \in 0 .. n /\ k - 1 \notin T
  BY <1>2, <1>3
<1>5. p[k-1] = q[k-1]
  BY <1>4 DEF T
<1> QED
  BY <1>3, <1>5

(* A stack that leads to m ends there.                                     *)
LEMMA LeadsToEnd ==
  ASSUME NEW s \in Seq(StackEntry), NEW m, LeadsTo(s, m)
  PROVE  EndOf(s) = m
<1>1. PICK p \in [0 .. Len(s) -> Markings] :
        /\ p[0] = InitialMarking
        /\ p[Len(s)] = m
        /\ \A k \in 1 .. Len(s) : p[k] = Fire(p[k-1], Fired(s[k]))
  BY DEF LeadsTo
<1>2. Len(s) \in Nat
  OBVIOUS
<1> DEFINE q == Replay(s)
<1>3. q[0] = InitialMarking /\ \A k \in 1 .. Len(s) : q[k] = Fire(q[k-1], Fired(s[k]))
  BY <1>2, ReplaySteps
<1> HIDE DEF q
<1>4. p[0] = q[0]
  BY <1>1, <1>3
<1>5. \A k \in 1 .. Len(s) : p[k-1] = q[k-1] => p[k] = q[k]
  BY <1>1, <1>3
<1>6. \A k \in 0 .. Len(s) : p[k] = q[k]
  BY <1>2, <1>4, <1>5, SameMarkings
<1> QED
  BY <1>1, <1>2, <1>6 DEF EndOf, q

(* Stacks that fire the same transitions lead through the same markings.   *)
LEMMA SameReplay ==
  ASSUME NEW r \in Seq(StackEntry), NEW s \in Seq(StackEntry),
         NEW n \in Nat, n <= Len(r), n <= Len(s),
         \A k \in 1 .. n : Fired(r[k]) = Fired(s[k])
  PROVE  \A k \in 0 .. n : Replay(r)[k] = Replay(s)[k]
<1> DEFINE p == Replay(r)
<1> DEFINE q == Replay(s)
<1>1. /\ p[0] = InitialMarking /\ \A k \in 1 .. Len(r) : p[k] = Fire(p[k-1], Fired(r[k]))
      /\ q[0] = InitialMarking /\ \A k \in 1 .. Len(s) : q[k] = Fire(q[k-1], Fired(s[k]))
      /\ Len(r) \in Nat /\ Len(s) \in Nat
  BY ReplaySteps
<1> HIDE DEF p, q
<1>2. \A k \in 1 .. n : p[k-1] = q[k-1] => p[k] = q[k]
  BY <1>1
<1>3. p[0] = q[0]
  BY <1>1
<1>4. \A k \in 0 .. n : p[k] = q[k]
  BY <1>2, <1>3, SameMarkings
<1> QED
  BY <1>4 DEF p, q

(* Pushing an entry ...                                                    *)
LEMMA PushReplay ==
  ASSUME NEW s \in Seq(StackEntry), NEW e \in StackEntry
  PROVE  LET r == Append(s, e)
         IN  /\ r \in Seq(StackEntry) /\ Len(s) \in Nat
             /\ Len(r) = Len(s) + 1 /\ r[Len(s) + 1] = e
             /\ \A k \in 1 .. Len(s) : r[k] = s[k]
             /\ \A k \in 0 .. Len(s) : Replay(r)[k] = Replay(s)[k]
             /\ EndOf(r) = Fire(EndOf(s), Fired(e))
<1> DEFINE r == Append(s, e)
<1>1. /\ r \in Seq(StackEntry) /\ Len(r) = Len(s) + 1 /\ r[Len(s) + 1] = e
      /\ \A k \in 1 .. Len(s) : r[k] = s[k]
      /\ Len(s) \in Nat
  OBVIOUS
<1> HIDE DEF r
<1>2. \A k \in 0 .. Len(s) : Replay(r)[k] = Replay(s)[k]
  <2>1. \A k \in 1 .. Len(s) : Fired(r[k]) = Fired(s[k])
    BY <1>1
  <2>2. Len(s) <= Len(r) /\ Len(s) <= Len(s)
    BY <1>1
  <2> QED
    BY <1>1, <2>1, <2>2, SameReplay
<1>3. Replay(r)[Len(r)] = Fire(Replay(r)[Len(r) - 1], Fired(r[Len(r)]))
  <2>1. Len(r) \in Nat /\ Len(r) \in 1 .. Len(r)
    BY <1>1
  <2> QED
    BY <2>1, ReplaySteps
<1>4. Replay(r)[Len(r) - 1] = Replay(s)[Len(s)]
  BY <1>1, <1>2
<1> QED
  BY <1>1, <1>2, <1>3, <1>4 DEF EndOf, r

LEMMA PushEnd ==
  ASSUME NEW s \in Seq(StackEntry), NEW e \in StackEntry
  PROVE  EndOf(Append(s, e)) = Fire(EndOf(s), Fired(e))
BY PushReplay

(* ... and popping it again.                                              *)
LEMMA PopReplay ==
  ASSUME NEW s \in Seq(StackEntry), s # <<>>,
         NEW r, r = SubSeq(s, 1, Len(s) - 1), NEW e, e = s[Len(s)]
  PROVE  /\ r \in Seq(StackEntry) /\ e \in StackEntry /\ s = Append(r, e)
         /\ EndOf(s) = Fire(EndOf(r), Fired(e))
<1>1. r \in Seq(StackEntry) /\ e \in StackEntry /\ s = Append(r, e)
  OBVIOUS
<1>2. EndOf(Append(r, e)) = Fire(EndOf(r), Fired(e))
  BY <1>1, PushEnd
<1> QED
  BY <1>1, <1>2
=============================================================================
