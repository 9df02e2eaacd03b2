--------------------------- MODULE NetStateProofs ---------------------------
(***************************************************************************)
(* The net state is in step with its marking on every walk, and what       *)
(* find_path makes of it, for every net.                                   *)
(***************************************************************************)
EXTENDS FindPath, SearchPathProofs

(***************************************************************************)
(* Induction over intervals, and loops over lists.                         *)
(***************************************************************************)
LEMMA Climb ==
  ASSUME NEW n \in Nat, NEW T, 0 \in T, \A k \in 1 .. n : k - 1 \in T => k \in T
  PROVE  \A k \in 0 .. n : k \in T
<1> DEFINE B == {k \in 0 .. n : k \notin T}
<1>1. SUFFICES ASSUME B # {} PROVE FALSE
  OBVIOUS
<1> HIDE DEF B
<1>2. PICK k \in B : \A j \in B : k <= j
  <2>1. B \subseteq Nat
    BY DEF B
  <2> QED
    BY <1>1, <2>1, LeastNumber
<1>3. k \in 1 .. n /\ k \notin T
  BY DEF B
<1>4. k - 1 \in 0 .. n /\ k - 1 \notin B
  BY <1>2, <1>3
<1> QED
  BY <1>3, <1>4 DEF B

(* f begins with s, and op[k] leads from its k-1st value to the kth.       *)
IsLoop(f, s, op, n) ==
  f = [k \in 0 .. n |-> IF k = 0 THEN s ELSE op[k][f[k-1]]]

LEMMA LoopExists ==
  ASSUME NEW s, NEW op, NEW n \in Nat
  PROVE  \E f : IsLoop(f, s, op, n)
<1> DEFINE T == {k \in Nat : \E f : IsLoop(f, s, op, k)}
<1>1. 0 \in T
  <2> DEFINE g == [i \in 0 .. 0 |-> s]
  <2>1. IsLoop(g, s, op, 0)
    BY DEF IsLoop
  <2> QED
    BY <2>1
<1>2. ASSUME NEW k \in 1 .. n, k - 1 \in T PROVE k \in T
  <2>1. PICK f : IsLoop(f, s, op, k - 1)
    BY <1>2
  <2> DEFINE g == [i \in 0 .. k |-> IF i = k THEN op[k][f[k-1]] ELSE f[i]]
  <2>2. \A i \in 0 .. k - 1 : f[i] = IF i = 0 THEN s ELSE op[i][f[i-1]]
    BY <2>1, k - 1 \in Nat DEF IsLoop
  <2>3. \A i \in 0 .. k : g[i] = IF i = 0 THEN s ELSE op[i][g[i-1]]
    BY <2>2
  <2>4. g = [i \in 0 .. k |-> g[i]]
    OBVIOUS
  <2> HIDE DEF g
  <2>5. IsLoop(g, s, op, k)
    BY <2>3, <2>4 DEF IsLoop
  <2> QED
    BY <2>5
<1> HIDE DEF T
<1>3. n \in T
  BY <1>1, <1>2, Climb
<1> QED
  BY <1>3 DEF T

(* A loop whose every round leads from one set of values to the next.      *)
LEMMA LoopKeeps ==
  ASSUME NEW s, NEW op, NEW n \in Nat, NEW Inv, s \in Inv[0],
         \A k \in 1 .. n : \A x \in Inv[k-1] : op[k][x] \in Inv[k]
  PROVE  \E f : IsLoop(f, s, op, n) /\ \A k \in 0 .. n : f[k] \in Inv[k]
<1>1. PICK f : IsLoop(f, s, op, n)
  BY LoopExists
<1>2. \A k \in 0 .. n : f[k] = IF k = 0 THEN s ELSE op[k][f[k-1]]
  BY <1>1 DEF IsLoop
<1> DEFINE T == {k \in 0 .. n : f[k] \in Inv[k]}
<1>3. 0 \in T
  BY <1>2
<1>4. ASSUME NEW k \in 1 .. n, k - 1 \in T PROVE k \in T
  BY <1>2, <1>4
<1> HIDE DEF T
<1>5. \A k \in 0 .. n : k \in T
  BY <1>3, <1>4, Climb
<1> QED
  BY <1>1, <1>5 DEF T

(* A sequence of values, each from the one before, stays within the sets.  *)
LEMMA LoopStays ==
  ASSUME NEW f, NEW n \in Nat, NEW Inv, f[0] \in Inv[0],
         \A k \in 1 .. n : f[k-1] \in Inv[k-1] => f[k] \in Inv[k]
  PROVE  f[n] \in Inv[n]
<1> DEFINE T == {k \in 0 .. n : f[k] \in Inv[k]}
<1>1. 0 \in T
  OBVIOUS
<1>2. ASSUME NEW k \in 1 .. n, k - 1 \in T PROVE k \in T
  BY <1>2
<1> HIDE DEF T
<1>3. n \in T
  BY <1>1, <1>2, Climb
<1> QED
  BY <1>3 DEF T

(* The loops of NetState, each with the same proof: RecheckEnabled ...     *)
LEMMA RecheckLoop ==
  ASSUME NEW list, Len(list) \in Nat, NEW s, NEW Inv, s \in Inv[0],
         \A k \in 1 .. Len(list) : \A x \in Inv[k-1] : Recheck(x, list[k]) \in Inv[k]
  PROVE  RecheckEnabled(s, list) \in Inv[Len(list)]
<1> DEFINE n == Len(list)
<1> DEFINE op == [k \in 1 .. n |-> [x \in Inv[k-1] |-> Recheck(x, list[k])]]
<1> DEFINE Is(f) == f = [k \in 0 .. n |-> IF k = 0 THEN s ELSE Recheck(f[k-1], list[k])]
<1>1. PICK g : IsLoop(g, s, op, n) /\ \A k \in 0 .. n : g[k] \in Inv[k]
  <2>1. \A k \in 1 .. n : \A x \in Inv[k-1] : op[k][x] \in Inv[k]
    OBVIOUS
  <2> HIDE DEF op, n
  <2> QED
    BY <2>1, LoopKeeps DEF n
<1>2. \A k \in 1 .. n : op[k][g[k-1]] = Recheck(g[k-1], list[k])
  BY <1>1
<1> HIDE DEF op
<1>3. Is(g)
  <2>1. g = [k \in 0 .. n |-> IF k = 0 THEN s ELSE op[k][g[k-1]]]
    BY <1>1 DEF IsLoop
  <2>2. \A k \in 0 .. n : g[k] = IF k = 0 THEN s ELSE Recheck(g[k-1], list[k])
    BY <2>1, <1>2
  <2>3. g = [k \in 0 .. n |-> g[k]]
    BY <2>1
  <2> QED
    BY <2>2, <2>3
<1> DEFINE f == CHOOSE f : Is(f)
<1>4. Is(f)
  BY <1>3
<1>5. RecheckEnabled(s, list) = f[n]
  BY DEF RecheckEnabled, OneByOne
<1> HIDE DEF f
<1>6. \A k \in 0 .. n : f[k] = IF k = 0 THEN s ELSE Recheck(f[k-1], list[k])
  BY <1>4
<1> HIDE DEF Is
<1>7. f[n] \in Inv[n]
  BY <1>6, LoopStays
<1> QED
  BY <1>5, <1>7

(* ... the check of all transitions ...                                    *)
LEMMA CheckLoop ==
  ASSUME NEW list, Len(list) \in Nat, NEW s,
         NEW Inv, s \in Inv[0],
         \A k \in 1 .. Len(list) : \A x \in Inv[k-1] : checkEnabled(x, list[k]) \in Inv[k]
  PROVE  OneByOne(checkEnabled, s, list) \in Inv[Len(list)]
<1> DEFINE n == Len(list)
<1> DEFINE op == [k \in 1 .. n |-> [x \in Inv[k-1] |-> checkEnabled(x, list[k])]]
<1> DEFINE Is(f) == f = [k \in 0 .. n |-> IF k = 0 THEN s ELSE checkEnabled(f[k-1], list[k])]
<1>1. PICK g : IsLoop(g, s, op, n) /\ \A k \in 0 .. n : g[k] \in Inv[k]
  <2>1. \A k \in 1 .. n : \A x \in Inv[k-1] : op[k][x] \in Inv[k]
    OBVIOUS
  <2> HIDE DEF op, n
  <2> QED
    BY <2>1, LoopKeeps DEF n
<1>2. \A k \in 1 .. n : op[k][g[k-1]] = checkEnabled(g[k-1], list[k])
  BY <1>1
<1> HIDE DEF op
<1>3. Is(g)
  <2>1. g = [k \in 0 .. n |-> IF k = 0 THEN s ELSE op[k][g[k-1]]]
    BY <1>1 DEF IsLoop
  <2>2. \A k \in 0 .. n : g[k] = IF k = 0 THEN s ELSE checkEnabled(g[k-1], list[k])
    <3>1. n \in Nat
      OBVIOUS
    <3> HIDE DEF n, Is
    <3> QED
      BY <2>1, <1>2, <3>1
  <2>3. g = [k \in 0 .. n |-> g[k]]
    BY <2>1
  <2> QED
    BY <2>2, <2>3
<1> DEFINE f == CHOOSE f : Is(f)
<1>4. Is(f)
  BY <1>3
<1>5. OneByOne(checkEnabled, s, list) = f[n]
  BY DEF OneByOne
<1> HIDE DEF f
<1>6. \A k \in 0 .. n : f[k] = IF k = 0 THEN s ELSE checkEnabled(f[k-1], list[k])
  BY <1>4
<1> HIDE DEF Is
<1>7. f[n] \in Inv[n]
  <2>1. f[0] \in Inv[0]
    BY <1>6
  <2>2. \A k \in 1 .. n : f[k-1] \in Inv[k-1] => f[k] \in Inv[k]
    BY <1>6
  <2> HIDE DEF n
  <2> QED
    BY <2>1, <2>2, LoopStays DEF n
<1> QED
  BY <1>5, <1>7

(* ... ScanAll ...                                                         *)
LEMMA ScanLoop ==
  ASSUME NEW list, Len(list) \in Nat, NEW s,
         NEW Inv, s \in Inv[0],
         \A k \in 1 .. Len(list) : \A x \in Inv[k-1] : ScanDisabled(x, list[k]) \in Inv[k]
  PROVE  ScanAll(s, list) \in Inv[Len(list)]
<1> DEFINE n == Len(list)
<1> DEFINE op == [k \in 1 .. n |-> [x \in Inv[k-1] |-> ScanDisabled(x, list[k])]]
<1> DEFINE Is(f) == f = [k \in 0 .. n |-> IF k = 0 THEN s ELSE ScanDisabled(f[k-1], list[k])]
<1>1. PICK g : IsLoop(g, s, op, n) /\ \A k \in 0 .. n : g[k] \in Inv[k]
  <2>1. \A k \in 1 .. n : \A x \in Inv[k-1] : op[k][x] \in Inv[k]
    OBVIOUS
  <2> HIDE DEF op, n
  <2> QED
    BY <2>1, LoopKeeps DEF n
<1>2. \A k \in 1 .. n : op[k][g[k-1]] = ScanDisabled(g[k-1], list[k])
  BY <1>1
<1> HIDE DEF op
<1>3. Is(g)
  <2>1. g = [k \in 0 .. n |-> IF k = 0 THEN s ELSE op[k][g[k-1]]]
    BY <1>1 DEF IsLoop
  <2>2. \A k \in 0 .. n : g[k] = IF k = 0 THEN s ELSE ScanDisabled(g[k-1], list[k])
    <3>1. n \in Nat
      OBVIOUS
    <3> HIDE DEF n, Is
    <3> QED
      BY <2>1, <1>2, <3>1
  <2>3. g = [k \in 0 .. n |-> g[k]]
    BY <2>1
  <2> QED
    BY <2>2, <2>3
<1> DEFINE f == CHOOSE f : Is(f)
<1>4. Is(f)
  BY <1>3
<1>5. ScanAll(s, list) = f[n]
  BY DEF ScanAll, OneByOne
<1> HIDE DEF f
<1>6. \A k \in 0 .. n : f[k] = IF k = 0 THEN s ELSE ScanDisabled(f[k-1], list[k])
  BY <1>4
<1> HIDE DEF Is
<1>7. f[n] \in Inv[n]
  <2>1. f[0] \in Inv[0]
    BY <1>6
  <2>2. \A k \in 1 .. n : f[k-1] \in Inv[k-1] => f[k] \in Inv[k]
    BY <1>6
  <2> HIDE DEF n
  <2> QED
    BY <2>1, <2>2, LoopStays DEF n
<1> QED
  BY <1>5, <1>7

(* ... the rounds of ScanDisabled ...                                      *)
LEMMA RoundLoop ==
  ASSUME NEW ns, NEW p, Len(ns.Disabled[p]) \in Nat,
         NEW s, s = [s |-> ns, j |-> 1],
         NEW Inv, s \in Inv[0],
         \A k \in 1 .. Len(ns.Disabled[p]) : \A x \in Inv[k-1] : ScanEntry(x, p) \in Inv[k]
  PROVE  \E r \in Inv[Len(ns.Disabled[p])] : ScanDisabled(ns, p) = r.s
<1> DEFINE n == Len(ns.Disabled[p])
<1> DEFINE op == [k \in 1 .. n |-> [x \in Inv[k-1] |-> ScanEntry(x, p)]]
<1> DEFINE Is(f) == f = [k \in 0 .. n |-> IF k = 0 THEN s ELSE ScanEntry(f[k-1], p)]
<1>1. PICK g : IsLoop(g, s, op, n) /\ \A k \in 0 .. n : g[k] \in Inv[k]
  <2>1. \A k \in 1 .. n : \A x \in Inv[k-1] : op[k][x] \in Inv[k]
    OBVIOUS
  <2> HIDE DEF op, n
  <2> QED
    BY <2>1, LoopKeeps DEF n
<1>2. \A k \in 1 .. n : op[k][g[k-1]] = ScanEntry(g[k-1], p)
  BY <1>1
<1> HIDE DEF op
<1>3. Is(g)
  <2>1. g = [k \in 0 .. n |-> IF k = 0 THEN s ELSE op[k][g[k-1]]]
    BY <1>1 DEF IsLoop
  <2>2. \A k \in 0 .. n : g[k] = IF k = 0 THEN s ELSE ScanEntry(g[k-1], p)
    <3>1. n \in Nat
      OBVIOUS
    <3> HIDE DEF n, Is
    <3> QED
      BY <2>1, <1>2, <3>1
  <2>3. g = [k \in 0 .. n |-> g[k]]
    BY <2>1
  <2> QED
    BY <2>2, <2>3
<1> DEFINE f == CHOOSE f : Is(f)
<1>4. Is(f)
  BY <1>3
<1>5. ScanDisabled(ns, p) = f[n].s
  BY DEF ScanDisabled
<1> HIDE DEF f
<1>6. \A k \in 0 .. n : f[k] = IF k = 0 THEN s ELSE ScanEntry(f[k-1], p)
  BY <1>4
<1> HIDE DEF Is
<1>7. f[n] \in Inv[n]
  <2>1. f[0] \in Inv[0]
    BY <1>6
  <2>2. \A k \in 1 .. n : f[k-1] \in Inv[k-1] => f[k] \in Inv[k]
    BY <1>6
  <2> HIDE DEF n
  <2> QED
    BY <2>1, <2>2, LoopStays DEF n
<1> QED
  BY <1>5, <1>7

(* ... and sums of hash values.                                            *)
LEMMA HashLoop ==
  ASSUME NEW list, Len(list) \in Nat, NEW h, NEW w,
         NEW Inv, h \in Inv[0],
         \A k \in 1 .. Len(list) : \A x \in Inv[k-1] : CRem(x + w[list[k]] * Hash[list[k]], SIZEOF_MARKINGTABLE) \in Inv[k]
  PROVE  HashSum(h, list, w) \in Inv[Len(list)]
<1> DEFINE n == Len(list)
<1> DEFINE op == [k \in 1 .. n |-> [x \in Inv[k-1] |-> CRem(x + w[list[k]] * Hash[list[k]], SIZEOF_MARKINGTABLE)]]
<1> DEFINE Is(f) == f = [k \in 0 .. n |-> IF k = 0 THEN h ELSE CRem(f[k-1] + w[list[k]] * Hash[list[k]], SIZEOF_MARKINGTABLE)]
<1>1. PICK g : IsLoop(g, h, op, n) /\ \A k \in 0 .. n : g[k] \in Inv[k]
  <2>1. \A k \in 1 .. n : \A x \in Inv[k-1] : op[k][x] \in Inv[k]
    OBVIOUS
  <2> HIDE DEF op, n
  <2> QED
    BY <2>1, LoopKeeps DEF n
<1>2. \A k \in 1 .. n : op[k][g[k-1]] = CRem(g[k-1] + w[list[k]] * Hash[list[k]], SIZEOF_MARKINGTABLE)
  BY <1>1
<1> HIDE DEF op
<1>3. Is(g)
  <2>1. g = [k \in 0 .. n |-> IF k = 0 THEN h ELSE op[k][g[k-1]]]
    BY <1>1 DEF IsLoop
  <2>2. \A k \in 0 .. n : g[k] = IF k = 0 THEN h ELSE CRem(g[k-1] + w[list[k]] * Hash[list[k]], SIZEOF_MARKINGTABLE)
    <3>1. n \in Nat
      OBVIOUS
    <3> HIDE DEF n, Is
    <3> QED
      BY <2>1, <1>2, <3>1
  <2>3. g = [k \in 0 .. n |-> g[k]]
    BY <2>1
  <2> QED
    BY <2>2, <2>3
<1> DEFINE f == CHOOSE f : Is(f)
<1>4. Is(f)
  BY <1>3
<1>5. HashSum(h, list, w) = f[n]
  BY DEF HashSum
<1> HIDE DEF f
<1>6. \A k \in 0 .. n : f[k] = IF k = 0 THEN h ELSE CRem(f[k-1] + w[list[k]] * Hash[list[k]], SIZEOF_MARKINGTABLE)
  BY <1>4
<1> HIDE DEF Is
<1>7. f[n] \in Inv[n]
  <2>1. f[0] \in Inv[0]
    BY <1>6
  <2>2. \A k \in 1 .. n : f[k-1] \in Inv[k-1] => f[k] \in Inv[k]
    BY <1>6
  <2> HIDE DEF n
  <2> QED
    BY <2>1, <2>2, LoopStays DEF n
<1> QED
  BY <1>5, <1>7

(***************************************************************************)
(* Numbers in order.                                                       *)
(***************************************************************************)
Highest == Max(Place \union Transition \union {0})

(* A finite set of numbers has an upper bound.                             *)
LEMMA Bounded ==
  ASSUME NEW S, S \subseteq Nat, IsFiniteSet(S)
  PROVE  \E b \in Nat : \A x \in S : x <= b
<1> DEFINE n == Cardinality(S)
<1>1. n \in Nat /\ ExistsBijection(1 .. n, S)
  BY FS_CardinalityType
<1>2. PICK f \in [1 .. n -> S] : \A x \in S : \E i \in 1 .. n : f[i] = x
  BY <1>1 DEF ExistsBijection, Bijection, Surjection
<1> HIDE DEF n
<1> DEFINE T == {k \in 0 .. n : \E b \in Nat : \A i \in 1 .. k : f[i] <= b}
<1>3. 0 \in T
  BY <1>1
<1>4. ASSUME NEW k \in 1 .. n, k - 1 \in T PROVE k \in T
  <2>1. PICK b \in Nat : \A i \in 1 .. k - 1 : f[i] <= b
    BY <1>4
  <2>2. f[k] \in Nat
    BY <1>2
  <2>3. \A i \in 1 .. k : f[i] <= IF f[k] > b THEN f[k] ELSE b
    <3> SUFFICES ASSUME NEW i \in 1 .. k
                 PROVE  f[i] <= IF f[k] > b THEN f[k] ELSE b
      OBVIOUS
    <3>1. f[i] \in Nat
      <4>1. i \in 1 .. n
        BY <1>1
      <4> QED
        BY <4>1, <1>2
    <3>2. CASE i = k
      BY <2>2, <3>2
    <3>3. CASE i \in 1 .. k - 1
      BY <2>1, <2>2, <3>1, <3>3
    <3> QED
      BY <3>2, <3>3
  <2> DEFINE c == IF f[k] > b THEN f[k] ELSE b
  <2>4. c \in Nat
    BY <2>2
  <2> HIDE DEF c
  <2> QED
    BY <1>1, <2>3, <2>4 DEF c
<1> HIDE DEF T
<1>5. n \in T
  BY <1>1, <1>3, <1>4, Climb
<1>6. PICK b \in Nat : \A i \in 1 .. n : f[i] <= b
  BY <1>5 DEF T
<1> QED
  BY <1>2, <1>6

LEMMA MaxExists ==
  ASSUME NEW S, S \subseteq Nat, IsFiniteSet(S), S # {}
  PROVE  Max(S) \in S /\ \A x \in S : x <= Max(S)
<1> DEFINE B == {b \in Nat : \A x \in S : x <= b}
<1>1. B # {}
  BY Bounded
<1>2. PICK b \in B : \A c \in B : b <= c
  <2>1. B \subseteq Nat
    OBVIOUS
  <2> HIDE DEF B
  <2> QED
    BY <1>1, <2>1, LeastNumber
<1>3. b \in S
  <2> SUFFICES ASSUME b \notin S PROVE FALSE
    OBVIOUS
  <2>1. \A x \in S : x \in Nat /\ x < b
    BY <1>2
  <2>2. b - 1 \in B
    <3>1. b \in Nat /\ b > 0
      <4>1. PICK x \in S : TRUE
        OBVIOUS
      <4>2. x \in Nat /\ x < b
        BY <2>1, <4>1
      <4> QED
        BY <1>2, <4>2
    <3>2. \A x \in S : x <= b - 1
      BY <2>1, <3>1
    <3> QED
      BY <3>1, <3>2
  <2> QED
    BY <1>2, <2>2
<1>4. \E m \in S : \A x \in S : m >= x
  BY <1>2, <1>3
<1> QED
  BY <1>4 DEF Max

LEMMA HighestBound ==
  /\ Highest \in Nat
  /\ \A x \in Place \union Transition : x <= Highest
<1> DEFINE S == Place \union Transition \union {0}
<1>1. S \subseteq Nat
  BY NetAssumption, NetStateAssumption
<1>2. IsFiniteSet(S)
  <2>1. IsFiniteSet(Place \union Transition)
    BY NetStateAssumption, FS_Union
  <2>2. IsFiniteSet({0})
    BY FS_Singleton
  <2> QED
    BY <2>1, <2>2, FS_Union
<1>3. Max(S) \in S /\ \A x \in S : x <= Max(S)
  <2>1. S # {}
    OBVIOUS
  <2> HIDE DEF S
  <2> QED
    BY <1>1, <1>2, <2>1, MaxExists
<1> QED
  BY <1>1, <1>3 DEF Highest

(* list holds the elements of S, each once.                                *)
Lists(list, S) ==
  /\ list \in Seq(S)
  /\ \A x \in S : \E i \in 1 .. Len(list) : list[i] = x
  /\ \A i, j \in 1 .. Len(list) : list[i] = list[j] => i = j

LEMMA AscendingLists ==
  ASSUME NEW max \in Nat, NEW S \in SUBSET (0 .. max)
  PROVE  Lists(Ascending(S, max), S)
<1> DEFINE n == max + 1
<1>0. \A x \in S : ~ (x < 0) /\ x < n
  <2>1. \A x \in S : x \in 0 .. max
    OBVIOUS
  <2> QED
    BY <2>1
<1> DEFINE Below(k) == {x \in S : x < k}
<1> DEFINE Inv == [k \in 0 .. n |-> {l \in Seq(S) : Lists(l, Below(k))}]
<1> DEFINE op == [k \in 1 .. n |->
                    [l \in Seq(S) |-> IF k - 1 \in S THEN Append(l, k - 1) ELSE l]]
<1> DEFINE Is(f) ==
      f = [k \in 0 .. n |->
             IF k = 0 THEN <<>>
             ELSE IF k - 1 \in S THEN Append(f[k-1], k - 1) ELSE f[k-1]]
<1>1. <<>> \in Inv[0]
  <2>1. Below(0) = {}
    BY <1>0
  <2>2. Lists(<<>>, {})
    BY DEF Lists
  <2> HIDE DEF Below
  <2> QED
    BY <2>1, <2>2
<1>2. ASSUME NEW k \in 1 .. n, NEW l \in Inv[k-1]
      PROVE  (IF k - 1 \in S THEN Append(l, k - 1) ELSE l) \in Inv[k]
  <2>1. l \in Seq(S) /\ Lists(l, Below(k - 1))
    OBVIOUS
  <2>2. CASE k - 1 \in S
    <3> DEFINE r == Append(l, k - 1)
    <3>1. r \in Seq(S)
      BY <2>1, <2>2
    <3>2. Below(k) = Below(k - 1) \union {k - 1} /\ k - 1 \notin Below(k - 1)
      BY <2>2
    <3>3. /\ Len(l) \in Nat /\ Len(r) = Len(l) + 1 /\ r[Len(l) + 1] = k - 1
          /\ \A i \in 1 .. Len(l) : r[i] = l[i]
      BY <2>1
    <3> HIDE DEF r, Below
    <3>4. \A i \in 1 .. Len(l) : l[i] \in Below(k - 1)
      BY <2>1 DEF Lists
    <3>5. r \in Seq(Below(k))
      <4>1. \A i \in 1 .. Len(r) : r[i] \in Below(k)
        BY <3>2, <3>3, <3>4
      <4> QED
        BY <3>1, <4>1
    <3>6. \A x \in Below(k) : \E i \in 1 .. Len(r) : r[i] = x
      <4> SUFFICES ASSUME NEW x \in Below(k)
                   PROVE  \E i \in 1 .. Len(r) : r[i] = x
        OBVIOUS
      <4>1. CASE x = k - 1
        BY <3>3, <4>1
      <4>2. CASE x \in Below(k - 1)
        <5>1. PICK i \in 1 .. Len(l) : l[i] = x
          BY <2>1, <4>2 DEF Lists
        <5> QED
          BY <3>3, <5>1
      <4> QED
        BY <3>2, <4>1, <4>2
    <3>7. \A i, j \in 1 .. Len(r) : r[i] = r[j] => i = j
      <4>1. \A i, j \in 1 .. Len(l) : l[i] = l[j] => i = j
        BY <2>1 DEF Lists
      <4> QED
        BY <3>2, <3>3, <3>4, <4>1
    <3> QED
      BY <2>2, <3>1, <3>5, <3>6, <3>7 DEF Lists, r
  <2>3. CASE k - 1 \notin S
    <3>1. Below(k) = Below(k - 1)
      BY <2>3
    <3> HIDE DEF Below
    <3> QED
      BY <2>1, <2>3, <3>1
  <2> QED
    BY <2>2, <2>3
<1>3. \A k \in 1 .. n : \A l \in Inv[k-1] : op[k][l] \in Inv[k]
  <2> SUFFICES ASSUME NEW k \in 1 .. n, NEW l \in Inv[k-1] PROVE op[k][l] \in Inv[k]
    OBVIOUS
  <2>1. op[k][l] = IF k - 1 \in S THEN Append(l, k - 1) ELSE l
    OBVIOUS
  <2> HIDE DEF op, Inv
  <2> QED
    BY <1>2, <2>1
<1>4. n \in Nat
  OBVIOUS
<1>5. \A k \in 0 .. n : Inv[k] \subseteq Seq(S)
  OBVIOUS
<1>6. \A k \in 1 .. n, l \in Seq(S) :
        op[k][l] = IF k - 1 \in S THEN Append(l, k - 1) ELSE l
  OBVIOUS
<1>7. \A l \in Inv[n] : Lists(l, S)
  <2>1. Below(n) = S
    BY <1>0
  <2> HIDE DEF Below
  <2> QED
    BY <2>1, <1>4
<1> HIDE DEF op, Inv
<1>8. PICK g : IsLoop(g, <<>>, op, n) /\ \A k \in 0 .. n : g[k] \in Inv[k]
  BY <1>1, <1>3, <1>4, LoopKeeps
<1>9. Is(g)
  <2>1. g = [k \in 0 .. n |-> IF k = 0 THEN <<>> ELSE op[k][g[k-1]]]
    BY <1>8 DEF IsLoop
  <2>2. \A k \in 1 .. n : g[k-1] \in Seq(S)
    BY <1>5, <1>8
  <2>3. \A k \in 0 .. n : g[k] = IF k = 0 THEN <<>>
                                 ELSE IF k - 1 \in S THEN Append(g[k-1], k - 1) ELSE g[k-1]
    <3> HIDE DEF n, Is
    <3> SUFFICES ASSUME NEW k \in 0 .. n
                 PROVE  g[k] = IF k = 0 THEN <<>>
                               ELSE IF k - 1 \in S THEN Append(g[k-1], k - 1) ELSE g[k-1]
      OBVIOUS
    <3>1. CASE k = 0
      BY <2>1, <3>1
    <3>2. CASE k \in 1 .. n
      <4>1. g[k] = op[k][g[k-1]] /\ k # 0
        BY <1>4, <2>1, <3>2
      <4> QED
        BY <1>6, <2>2, <3>2, <4>1
    <3> QED
      BY <1>4, <3>1, <3>2
  <2>4. g = [k \in 0 .. n |-> g[k]]
    BY <2>1
  <2> QED
    BY <2>3, <2>4
<1> DEFINE f == CHOOSE f : Is(f)
<1>10. Is(f)
  BY <1>9
<1>11. Ascending(S, max) = f[n]
  BY DEF Ascending
<1> HIDE DEF f
<1>12. \A k \in 0 .. n : f[k] = IF k = 0 THEN <<>>
                                ELSE IF k - 1 \in S THEN Append(f[k-1], k - 1) ELSE f[k-1]
  BY <1>10
<1> HIDE DEF Is
<1>13. f[n] \in Inv[n]
  <2>1. f[0] \in Inv[0]
    BY <1>1, <1>12
  <2>2. \A k \in 1 .. n : f[k-1] \in Inv[k-1] => f[k] \in Inv[k]
    BY <1>2, <1>12
  <2> HIDE DEF n
  <2> QED
    BY <1>4, <2>1, <2>2, LoopStays
<1> QED
  BY <1>7, <1>11, <1>13

(* Sorted lists of places and transitions.                                 *)
LEMMA OrderedLists ==
  ASSUME NEW S, S \subseteq Place \union Transition
  PROVE  Lists(Ordered(S), S)
<1>1. Highest \in Nat /\ S \in SUBSET (0 .. Highest)
  BY HighestBound, NetAssumption, NetStateAssumption
<1> QED
  BY <1>1, AscendingLists DEF Ordered, Highest

(***************************************************************************)
(* The lists of disabled transitions.                                      *)
(***************************************************************************)

(* Listed, in terms of the lists D, the scapegoats S and the positions P.  *)
InLists(D, S, P, T) ==
  /\ \A q \in Place : \A i \in 1 .. Len(D[q]) :
       D[q][i] \in T /\ S[D[q][i]] = q /\ P[D[q][i]] = i
  /\ \A u \in T : S[u] \in Place /\ P[u] \in 1 .. Len(D[S[u]]) /\ D[S[u]][P[u]] = u

(* t's entry is taken out, the last entry moves to its place.              *)
LEMMA RemoveLists ==
  ASSUME NEW D, NEW S, NEW P, NEW T, InLists(D, S, P, T),
         NEW t \in T, NEW p \in Place, S[t] = p, Len(D[p]) \in Nat,
         NEW E, NEW Q,
         Len(E[p]) = Len(D[p]) - 1,
         \A i \in 1 .. Len(D[p]) - 1 :
           E[p][i] = IF i = P[t] THEN D[p][Len(D[p])] ELSE D[p][i],
         \A q \in Place : q # p => E[q] = D[q],
         \A u \in T : Q[u] = IF u = D[p][Len(D[p])] THEN P[t] ELSE P[u]
  PROVE  InLists(E, S, Q, T \ {t})
<1> DEFINE list == D[p]
<1> DEFINE n == Len(list)
<1> DEFINE slot == P[t]
<1> DEFINE other == list[n]
<1> DEFINE rest == E[p]
<1>0. /\ D[p] = list /\ Len(list) = n /\ P[t] = slot /\ list[n] = other
      /\ E[p] = rest /\ Len(rest) = n - 1 /\ n \in Nat
      /\ \A i \in 1 .. n - 1 : rest[i] = IF i = slot THEN other ELSE list[i]
      /\ \A u \in T : Q[u] = IF u = other THEN slot ELSE P[u]
  OBVIOUS
<1> HIDE DEF list, n, slot, other, rest
<1>1. /\ \A i \in 1 .. n : list[i] \in T /\ S[list[i]] = p /\ P[list[i]] = i
      /\ slot \in 1 .. n /\ list[slot] = t
  BY <1>0 DEF InLists
<1>2. n \in 1 .. n /\ other \in T /\ S[other] = p /\ P[other] = n
  BY <1>0, <1>1
<1>3. other = t <=> slot = n
  BY <1>0, <1>1, <1>2
<1>4. ASSUME NEW q \in Place, NEW i \in 1 .. Len(E[q])
      PROVE  E[q][i] \in T \ {t} /\ S[E[q][i]] = q /\ Q[E[q][i]] = i
  <2>1. CASE q # p
    <3>1. E[q] = D[q] /\ i \in 1 .. Len(D[q])
      BY <1>0, <2>1
    <3>2. D[q][i] \in T /\ S[D[q][i]] = q /\ P[D[q][i]] = i
      BY <1>0, <3>1 DEF InLists
    <3>3. D[q][i] # t /\ D[q][i] # other
      BY <1>0, <2>1, <3>2, <1>2
    <3> QED
      BY <1>0, <3>1, <3>2, <3>3
  <2>2. CASE q = p /\ i = slot
    <3>1. E[q][i] = other /\ slot # n
      BY <1>0, <2>2, <1>1
    <3> QED
      BY <1>0, <2>2, <3>1, <1>2, <1>3
  <2>3. CASE q = p /\ i # slot
    <3>1. i \in 1 .. n - 1 /\ i \in 1 .. n /\ E[q][i] = list[i] /\ i # n
      BY <1>0, <2>3
    <3>2. list[i] # t /\ list[i] # other
      BY <1>0, <2>3, <3>1, <1>1, <1>2
    <3> QED
      BY <1>0, <2>3, <3>1, <3>2, <1>1
  <2> QED
    BY <1>0, <2>1, <2>2, <2>3
<1>5. ASSUME NEW u \in T \ {t}
      PROVE  S[u] \in Place /\ Q[u] \in 1 .. Len(E[S[u]]) /\ E[S[u]][Q[u]] = u
  <2>1. S[u] \in Place /\ P[u] \in 1 .. Len(D[S[u]]) /\ D[S[u]][P[u]] = u
    BY DEF InLists
  <2>2. CASE S[u] # p
    <3>1. E[S[u]] = D[S[u]] /\ Q[u] = P[u]
      BY <1>0, <2>1, <2>2, <1>2
    <3> QED
      BY <1>0, <2>1, <3>1
  <2>3. CASE u = other
    <3>1. slot \in 1 .. n - 1 /\ Q[u] = slot /\ S[u] = p
      BY <1>0, <2>3, <1>1, <1>2, <1>3
    <3> QED
      BY <1>0, <2>3, <3>1
  <2>4. CASE S[u] = p /\ u # other
    <3>1. P[u] \in 1 .. n /\ list[P[u]] = u /\ Q[u] = P[u]
      BY <1>0, <2>1, <2>4
    <3>2. P[u] # n /\ P[u] # slot
      BY <1>0, <2>4, <3>1, <1>1
    <3>3. P[u] \in 1 .. n - 1
      BY <1>0, <3>1, <3>2
    <3> QED
      BY <1>0, <2>4, <3>1, <3>2, <3>3
  <2> QED
    BY <1>0, <2>2, <2>3, <2>4
<1> QED
  BY <1>4, <1>5 DEF InLists

(* t is added at the end of p's list.                                      *)
Longer(D, E, t, p) ==
  /\ Len(D[p]) \in Nat /\ Len(E[p]) = Len(D[p]) + 1 /\ E[p][Len(D[p]) + 1] = t
  /\ \A i \in 1 .. Len(D[p]) : E[p][i] = D[p][i]
  /\ \A q \in Place : q # p => E[q] = D[q]

LEMMA InsertLists ==
  ASSUME NEW D, NEW S, NEW P, NEW T, InLists(D, S, P, T),
         NEW t, t \notin T, NEW p \in Place,
         NEW E, Longer(D, E, t, p),
         NEW R, NEW Q, Q[t] = Len(D[p]) + 1, R[t] = p,
         \A u \in T : Q[u] = P[u] /\ R[u] = S[u]
  PROVE  InLists(E, R, Q, T \union {t})
<1> DEFINE list == D[p]
<1> DEFINE n == Len(list)
<1> DEFINE longer == E[p]
<1>0. /\ D[p] = list /\ Len(list) = n /\ E[p] = longer
      /\ n \in Nat /\ Len(longer) = n + 1 /\ longer[n+1] = t
      /\ \A i \in 1 .. n : longer[i] = list[i]
      /\ Q[t] = n + 1
      /\ \A q \in Place : q # p => E[q] = D[q]
  BY DEF Longer
<1> HIDE DEF list, n, longer
<1>1. ASSUME NEW q \in Place, NEW i \in 1 .. Len(E[q])
      PROVE  E[q][i] \in T \union {t} /\ R[E[q][i]] = q /\ Q[E[q][i]] = i
  <2>1. CASE q = p /\ i = n + 1
    BY <1>0, <2>1
  <2>2. CASE q = p /\ i # n + 1
    <3>1. i \in 1 .. n /\ E[q][i] = list[i] /\ i \in 1 .. Len(D[q]) /\ D[q] = list
      BY <1>0, <2>2
    <3>2. list[i] \in T /\ S[list[i]] = p /\ P[list[i]] = i
      BY <1>0, <2>2, <3>1 DEF InLists
    <3> QED
      BY <1>0, <2>2, <3>1, <3>2
  <2>3. CASE q # p
    <3>1. E[q] = D[q]
      BY <1>0, <2>3
    <3>2. D[q][i] \in T /\ S[D[q][i]] = q /\ P[D[q][i]] = i
      BY <1>0, <3>1 DEF InLists
    <3> QED
      BY <1>0, <3>1, <3>2
  <2> QED
    BY <1>0, <2>1, <2>2, <2>3
<1>2. ASSUME NEW u \in T \union {t}
      PROVE  R[u] \in Place /\ Q[u] \in 1 .. Len(E[R[u]]) /\ E[R[u]][Q[u]] = u
  <2>1. CASE u = t
    BY <1>0, <2>1
  <2>2. CASE u \in T
    <3>1. S[u] \in Place /\ P[u] \in 1 .. Len(D[S[u]]) /\ D[S[u]][P[u]] = u
      BY <1>0, <2>2 DEF InLists
    <3>2. Q[u] = P[u] /\ R[u] = S[u]
      BY <1>0, <2>2
    <3>3. CASE S[u] = p
      <4>1. P[u] \in 1 .. n /\ P[u] \in 1 .. n + 1 /\ list[P[u]] = u
        BY <1>0, <3>1, <3>3
      <4> QED
        BY <1>0, <3>1, <3>2, <3>3, <4>1
    <3>4. CASE S[u] # p
      <4>1. E[S[u]] = D[S[u]]
        BY <1>0, <3>1, <3>4
      <4> QED
        BY <1>0, <3>1, <3>2, <4>1
    <3> QED
      BY <1>0, <3>3, <3>4
  <2> QED
    BY <1>0, <2>1, <2>2
<1> QED
  BY <1>1, <1>2 DEF InLists

Scapegoats(ns) == [t \in Transition |-> ns.Arc[t][1]]

LEMMA ListedInLists ==
  ASSUME NEW ns, ns \in NetStates, NEW T, T \subseteq Transition
  PROVE  Listed(ns, T) <=>
           /\ InLists(ns.Disabled, Scapegoats(ns), ns.PositionScapegoat, T)
           /\ \A t \in T : ns.Arc[t] # <<>>
<1> DEFINE S == Scapegoats(ns)
<1>1. \A t \in Transition : S[t] = ns.Arc[t][1] /\ ns.Arc[t] \in Seq(Place)
  BY DEF NetStates, Scapegoats
<1>2. \A t \in T : ns.Arc[t] # <<>> => S[t] \in Place
  BY <1>1
<1>3. \A p \in Place : \A i \in 1 .. Len(ns.Disabled[p]) : ns.Disabled[p][i] \in Transition
  <2> SUFFICES ASSUME NEW p \in Place, NEW i \in 1 .. Len(ns.Disabled[p])
               PROVE  ns.Disabled[p][i] \in Transition
    OBVIOUS
  <2>1. ns.Disabled[p] \in Seq(Transition)
    BY DEF NetStates
  <2> QED
    BY <2>1
<1> HIDE DEF S
<1>4. ASSUME Listed(ns, T)
      PROVE  InLists(ns.Disabled, S, ns.PositionScapegoat, T) /\ \A t \in T : ns.Arc[t] # <<>>
  <2>1. \A t \in T : ns.Arc[t] # <<>>
    BY <1>4 DEF Listed
  <2>2. \A t \in T : S[t] = ns.Arc[t][1] /\ S[t] \in Place
    BY <1>1, <1>2, <2>1
  <2>3. ASSUME NEW q \in Place, NEW i \in 1 .. Len(ns.Disabled[q])
        PROVE  /\ ns.Disabled[q][i] \in T /\ S[ns.Disabled[q][i]] = q
               /\ ns.PositionScapegoat[ns.Disabled[q][i]] = i
    <3>1. /\ ns.Disabled[q][i] \in T /\ ns.Arc[ns.Disabled[q][i]][1] = q
          /\ ns.PositionScapegoat[ns.Disabled[q][i]] = i
      BY <1>4 DEF Listed
    <3> QED
      BY <2>2, <3>1
  <2>4. \A u \in T : /\ ns.PositionScapegoat[u] \in 1 .. Len(ns.Disabled[S[u]])
                     /\ ns.Disabled[S[u]][ns.PositionScapegoat[u]] = u
    BY <2>2, <1>4 DEF Listed
  <2> QED
    BY <2>1, <2>2, <2>3, <2>4 DEF InLists
<1>5. ASSUME InLists(ns.Disabled, S, ns.PositionScapegoat, T), \A t \in T : ns.Arc[t] # <<>>
      PROVE  Listed(ns, T)
  <2>1. \A t \in T : S[t] = ns.Arc[t][1] /\ S[t] \in Place
    BY <1>1, <1>2, <1>5
  <2>2. ASSUME NEW q \in Place, NEW i \in 1 .. Len(ns.Disabled[q])
        PROVE  /\ ns.Disabled[q][i] \in T /\ ns.Arc[ns.Disabled[q][i]][1] = q
               /\ ns.PositionScapegoat[ns.Disabled[q][i]] = i
    <3>1. /\ ns.Disabled[q][i] \in T /\ S[ns.Disabled[q][i]] = q
          /\ ns.PositionScapegoat[ns.Disabled[q][i]] = i
      BY <1>5 DEF InLists
    <3> QED
      BY <2>1, <3>1
  <2>3. \A u \in T : /\ ns.PositionScapegoat[u] \in 1 .. Len(ns.Disabled[ns.Arc[u][1]])
                     /\ ns.Disabled[ns.Arc[u][1]][ns.PositionScapegoat[u]] = u
    BY <2>1, <1>5 DEF InLists
  <2> QED
    BY <2>2, <2>3, <1>5 DEF Listed
<1> QED
  BY <1>4, <1>5 DEF S

(* The fields of a net state.                                               *)
LEMMA Typed ==
  ASSUME NEW ns, ns \in NetStates
  PROVE  /\ ns.Current \in [Place -> Nat]
         /\ ns.HashCurrent \in 0 .. SIZEOF_MARKINGTABLE - 1
         /\ ns.Enabled \in [Transition -> BOOLEAN] /\ ns.CardEnabled \in Int
         /\ ns.Arc \in [Transition -> Seq(Place)]
         /\ ns.Disabled \in [Place -> Seq(Transition)]
         /\ ns.PositionScapegoat \in [Transition -> Nat]
BY DEF NetStates

(* RemoveFrom.                                                             *)
Removed(ns, r, T, t, p) ==
  /\ r \in NetStates /\ Listed(r, T \ {t}) /\ p \in Place
  /\ r.Current = ns.Current /\ r.HashCurrent = ns.HashCurrent
  /\ r.Enabled = ns.Enabled /\ r.CardEnabled = ns.CardEnabled
  /\ r.Arc = ns.Arc
  /\ Len(ns.Disabled[p]) \in Nat
  /\ Len(r.Disabled[p]) = Len(ns.Disabled[p]) - 1
  /\ \A u \in Transition :
       r.PositionScapegoat[u] \in {ns.PositionScapegoat[u], ns.PositionScapegoat[t]}

LEMMA RemoveKeeps ==
  ASSUME NEW ns, ns \in NetStates, NEW T, T \subseteq Transition, Listed(ns, T),
         NEW t \in T, NEW p, p = ns.Arc[t][1],
         NEW r, r = RemoveFrom(ns, p, t)
  PROVE  Removed(ns, r, T, t, p)
<1>1. PICK D, A, P, S :
        /\ D = ns.Disabled /\ A = ns.Arc /\ P = ns.PositionScapegoat
        /\ S = Scapegoats(ns)
  OBVIOUS
<1>2. /\ D \in [Place -> Seq(Transition)] /\ A \in [Transition -> Seq(Place)]
      /\ P \in [Transition -> Nat]
  BY <1>1, Typed
<1>3. InLists(D, S, P, T) /\ \A u \in T : A[u] # <<>>
  BY <1>1, ListedInLists
<1>4. PICK list, n, slot, other :
        list = D[p] /\ n = Len(list) /\ slot = P[t] /\ other = list[n]
  OBVIOUS
<1>5. S[t] = p /\ p \in Place /\ slot \in 1 .. n /\ list[slot] = t /\ t \in Transition
  <2>1. S[t] = p
    BY <1>1 DEF Scapegoats
  <2> QED
    BY <2>1, <1>3, <1>4 DEF InLists
<1>6. list \in Seq(Transition) /\ n \in Nat /\ n >= 1
  <2>1. list \in Seq(Transition)
    BY <1>2, <1>4, <1>5
  <2> QED
    BY <2>1, <1>4, <1>5
<1>7. other \in T /\ other \in Transition
  <2>1. n \in 1 .. Len(D[p])
    BY <1>4, <1>6
  <2> QED
    BY <2>1, <1>3, <1>4, <1>5 DEF InLists
<1>8. PICK rest, Q :
        /\ rest \in Seq(Transition) /\ Len(rest) = n - 1
        /\ \A i \in 1 .. n - 1 : rest[i] = IF i = slot THEN other ELSE list[i]
        /\ Q \in [Transition -> Nat]
        /\ \A u \in Transition : Q[u] = IF u = other THEN slot ELSE P[u]
        /\ r = [ns EXCEPT !.Disabled = [D EXCEPT ![p] = rest],
                          !.PositionScapegoat = Q, !.Arc = A]
  <2>1. CASE slot = n
    <3> DEFINE rest == SubSeq(list, 1, n - 1)
    <3>1. /\ rest \in Seq(Transition) /\ Len(rest) = n - 1
          /\ \A i \in 1 .. n - 1 : rest[i] = list[i]
      BY <1>4, <1>6
    <3>2. other = t /\ P[other] = slot
      BY <1>4, <1>5, <2>1
    <3>3. RemoveFrom(ns, p, t) = [ns EXCEPT !.Disabled[p] = rest]
      BY <1>1, <1>4, <2>1 DEF RemoveFrom, Front
    <3> HIDE DEF rest
    <3>4. r = [ns EXCEPT !.Disabled = [D EXCEPT ![p] = rest],
                         !.PositionScapegoat = P, !.Arc = A]
      BY <3>3, <1>1 DEF NetStates
    <3>5. \A i \in 1 .. n - 1 : rest[i] = IF i = slot THEN other ELSE list[i]
      BY <3>1, <2>1, <1>6
    <3> QED
      BY <1>2, <3>1, <3>2, <3>4, <3>5
  <2>2. CASE slot # n
    <3> DEFINE long == [list EXCEPT ![slot] = other]
    <3> DEFINE rest == SubSeq(long, 1, n - 1)
    <3> DEFINE Q == [P EXCEPT ![other] = slot]
    <3>1. long \in Seq(Transition) /\ Len(long) = n
      BY <1>4, <1>5, <1>6, <1>7
    <3>2. \A i \in 1 .. n : long[i] = IF i = slot THEN other ELSE list[i]
      <4>1. DOMAIN list = 1 .. n
        BY <1>4, <1>6
      <4> QED
        BY <4>1
    <3>3. RemoveFrom(ns, p, t) =
            [ns EXCEPT !.Disabled[p] = rest, !.PositionScapegoat[other] = slot]
      <4>1. ns.Disabled[p] = list /\ ns.PositionScapegoat[t] = slot /\ Len(list) = n
            /\ list[n] = other
        BY <1>1, <1>4
      <4>2. Front(long) = rest
        BY <3>1 DEF Front
      <4> HIDE DEF rest
      <4> QED
        BY <4>1, <4>2, <2>2 DEF RemoveFrom
    <3> HIDE DEF long
    <3>4. /\ rest \in Seq(Transition) /\ Len(rest) = n - 1
          /\ \A i \in 1 .. n - 1 : rest[i] = long[i]
      BY <3>1, <1>6
    <3> HIDE DEF rest
    <3>5. \A i \in 1 .. n - 1 : rest[i] = IF i = slot THEN other ELSE list[i]
      BY <3>2, <3>4, <1>6
    <3>6. r = [ns EXCEPT !.Disabled = [D EXCEPT ![p] = rest],
                         !.PositionScapegoat = Q, !.Arc = A]
      BY <3>3, <1>1 DEF NetStates
    <3>7. slot \in Nat
      BY <1>5, <1>6
    <3>8. Q \in [Transition -> Nat] /\ \A u \in Transition : Q[u] = IF u = other THEN slot ELSE P[u]
      BY <3>7, <1>2, <1>7
    <3> HIDE DEF Q
    <3> QED
      BY <3>4, <3>5, <3>6, <3>8
  <2> QED
    BY <2>1, <2>2
<1>9. PICK E : E = [D EXCEPT ![p] = rest]
  OBVIOUS
<1>10. /\ E \in [Place -> Seq(Transition)]
       /\ E[p] = rest /\ \A q \in Place : q # p => E[q] = D[q]
  BY <1>2, <1>5, <1>8, <1>9
<1>11. /\ r \in NetStates
       /\ r.Disabled = E /\ r.PositionScapegoat = Q /\ r.Arc = A
       /\ r.Current = ns.Current /\ r.HashCurrent = ns.HashCurrent
       /\ r.Enabled = ns.Enabled /\ r.CardEnabled = ns.CardEnabled
  <2>1. r = [ns EXCEPT !.Disabled = E, !.PositionScapegoat = Q, !.Arc = A]
    BY <1>8, <1>9
  <2>2. Q \in [Transition -> Nat]
    BY <1>8
  <2> QED
    BY <2>1, <2>2, <1>2, <1>10 DEF NetStates
<1>12. InLists(E, S, Q, T \ {t})
  <2>1. \A u \in T : Q[u] = IF u = D[p][Len(D[p])] THEN P[t] ELSE P[u]
    BY <1>4, <1>8
  <2>2. /\ Len(D[p]) \in Nat /\ Len(E[p]) = Len(D[p]) - 1
        /\ \A i \in 1 .. Len(D[p]) - 1 :
             E[p][i] = IF i = P[t] THEN D[p][Len(D[p])] ELSE D[p][i]
    BY <1>4, <1>6, <1>8, <1>10
  <2> QED
    BY <2>1, <2>2, <1>3, <1>5, <1>10, RemoveLists
<1>13. Listed(r, T \ {t})
  <2>1. Scapegoats(r) = S
    BY <1>1, <1>11 DEF Scapegoats
  <2>2. \A u \in T \ {t} : r.Arc[u] # <<>>
    BY <1>3, <1>11
  <2> QED
    BY <2>1, <2>2, <1>11, <1>12, ListedInLists
<1>14. \A u \in Transition :
         r.PositionScapegoat[u] \in {ns.PositionScapegoat[u], ns.PositionScapegoat[t]}
  BY <1>1, <1>4, <1>8, <1>11
<1> QED
  BY <1>1, <1>4, <1>5, <1>6, <1>8, <1>10, <1>11, <1>13, <1>14 DEF Removed

(* InsertInto and ToFront: t gets the place of its ith arc as scapegoat.   *)
Inserted(ns, r, T, t, p) ==
  /\ r \in NetStates /\ Listed(r, T \union {t}) /\ p \in Place
  /\ r.Current = ns.Current /\ r.HashCurrent = ns.HashCurrent
  /\ r.Enabled = ns.Enabled /\ r.CardEnabled = ns.CardEnabled
  /\ r.Arc[t][1] = p
  /\ ArcsPermuted(ns) => ArcsPermuted(r)
  /\ \A q \in Place : q # p => r.Disabled[q] = ns.Disabled[q]
  /\ \A u \in Transition : u # t =>
       /\ r.PositionScapegoat[u] = ns.PositionScapegoat[u]
       /\ r.Arc[u] = ns.Arc[u]

LEMMA InsertKeeps ==
  ASSUME NEW ns, ns \in NetStates, NEW T, T \subseteq Transition, Listed(ns, T),
         NEW t \in Transition, t \notin T,
         NEW i, i \in 1 .. Len(ns.Arc[t]),
         NEW p, p = ns.Arc[t][i],
         NEW r, r = ToFront(InsertInto(ns, p, t), t, i)
  PROVE  Inserted(ns, r, T, t, p)
<1>1. PICK D, A, P, S :
        /\ D = ns.Disabled /\ A = ns.Arc /\ P = ns.PositionScapegoat
        /\ S = Scapegoats(ns)
  OBVIOUS
<1>2. /\ D \in [Place -> Seq(Transition)] /\ A \in [Transition -> Seq(Place)]
      /\ P \in [Transition -> Nat]
  BY <1>1, Typed
<1>3. InLists(D, S, P, T) /\ \A u \in T : A[u] # <<>>
  BY <1>1, ListedInLists
<1>4. PICK arc, l : arc = A[t] /\ l = Len(arc)
  OBVIOUS
<1>5. arc \in Seq(Place) /\ i \in 1 .. l /\ l \in Nat /\ p = arc[i] /\ p \in Place
  <2>1. arc \in Seq(Place) /\ i \in 1 .. Len(arc) /\ p = arc[i]
    BY <1>1, <1>2, <1>4
  <2> QED
    BY <2>1, <1>4
<1>6. PICK list, n : list = D[p] /\ n = Len(list)
  OBVIOUS
<1>7. list \in Seq(Transition) /\ n \in Nat
  <2>1. list \in Seq(Transition)
    BY <1>2, <1>5, <1>6
  <2> QED
    BY <2>1, <1>6
<1>8. PICK longer : longer = Append(list, t)
  OBVIOUS
<1>9. /\ longer \in Seq(Transition) /\ Len(longer) = n + 1 /\ longer[n+1] = t
      /\ \A k \in 1 .. n : longer[k] = list[k]
  BY <1>6, <1>7, <1>8
<1>10. PICK new : new = [[arc EXCEPT ![1] = arc[i]] EXCEPT ![i] = arc[1]]
  OBVIOUS
<1>11. /\ new \in Seq(Place) /\ Len(new) = l /\ DOMAIN new = 1 .. l
       /\ new[1] = arc[i] /\ new[i] = arc[1]
       /\ \A k \in 1 .. l : k # 1 /\ k # i => new[k] = arc[k]
  <2>1. DOMAIN arc = 1 .. l /\ 1 \in 1 .. l /\ i \in 1 .. l
    BY <1>4, <1>5
  <2>2. arc \in [1 .. l -> Place]
    BY <2>1, <1>5
  <2>3. new \in [1 .. l -> Place]
    BY <2>1, <2>2, <1>10
  <2>4. new \in Seq(Place) /\ Len(new) = l
    BY <2>3, <1>5
  <2> QED
    BY <2>1, <2>3, <2>4, <1>10
<1>12. PICK E, Q, B : /\ E = [D EXCEPT ![p] = longer]
                      /\ Q = [P EXCEPT ![t] = n + 1]
                      /\ B = [A EXCEPT ![t] = new]
  OBVIOUS
<1>13. /\ E \in [Place -> Seq(Transition)] /\ Q \in [Transition -> Nat]
       /\ B \in [Transition -> Seq(Place)]
       /\ E[p] = longer /\ \A q \in Place : q # p => E[q] = D[q]
       /\ Q[t] = n + 1 /\ B[t] = new
       /\ \A u \in Transition : u # t => Q[u] = P[u] /\ B[u] = A[u]
  <2>1. n + 1 \in Nat
    BY <1>7
  <2> QED
    BY <2>1, <1>2, <1>5, <1>9, <1>11, <1>12
<1>14. r = [ns EXCEPT !.Disabled = E, !.PositionScapegoat = Q, !.Arc = B]
  <2>1. InsertInto(ns, p, t) = [ns EXCEPT !.Disabled = E, !.PositionScapegoat = Q]
    BY <1>1, <1>6, <1>8, <1>12 DEF InsertInto, NetStates
  <2>2. r = [InsertInto(ns, p, t) EXCEPT !.Arc[t] = new]
    <3>1. InsertInto(ns, p, t).Arc[t] = arc
      BY <2>1, <1>1, <1>4 DEF NetStates
    <3> QED
      BY <3>1, <1>10 DEF ToFront
  <2> QED
    BY <2>1, <2>2, <1>1, <1>12 DEF NetStates
<1>15. /\ r \in NetStates
       /\ r.Disabled = E /\ r.PositionScapegoat = Q /\ r.Arc = B
       /\ r.Current = ns.Current /\ r.HashCurrent = ns.HashCurrent
       /\ r.Enabled = ns.Enabled /\ r.CardEnabled = ns.CardEnabled
  <2>1. /\ E \in [Place -> Seq(Transition)] /\ Q \in [Transition -> Nat]
        /\ B \in [Transition -> Seq(Place)]
    BY <1>13
  <2> QED
    BY <2>1, <1>14 DEF NetStates
<1>16. PICK R : R = Scapegoats(r)
  OBVIOUS
<1>17. R[t] = p /\ \A u \in Transition : u # t => R[u] = S[u]
  BY <1>1, <1>5, <1>11, <1>13, <1>15, <1>16 DEF Scapegoats
<1>18. InLists(E, R, Q, T \union {t})
  <2>1. \A u \in T : Q[u] = P[u] /\ R[u] = S[u]
    BY <1>13, <1>17
  <2>2. Longer(D, E, t, p) /\ Q[t] = Len(D[p]) + 1
    BY <1>6, <1>7, <1>9, <1>13 DEF Longer
  <2> QED
    BY <2>1, <2>2, <1>3, <1>5, <1>17, InsertLists
<1>19. Listed(r, T \union {t})
  <2>1. \A u \in T \union {t} : r.Arc[u] # <<>>
    <3>1. new # <<>>
      BY <1>5, <1>11
    <3> QED
      BY <3>1, <1>3, <1>13, <1>15
  <2>2. T \union {t} \subseteq Transition
    OBVIOUS
  <2> QED
    BY <2>1, <2>2, <1>15, <1>16, <1>18, ListedInLists
<1>20. ArcsPermuted(ns) => ArcsPermuted(r)
  <2> SUFFICES ASSUME ArcsPermuted(ns), NEW u \in Transition
               PROVE  /\ ToSet(r.Arc[u]) = PrePlaces(u)
                      /\ \A k, m \in DOMAIN r.Arc[u] : r.Arc[u][k] = r.Arc[u][m] => k = m
    BY DEF ArcsPermuted
  <2>1. CASE u # t
    <3>1. r.Arc[u] = ns.Arc[u]
      BY <2>1, <1>1, <1>13, <1>15
    <3> QED
      BY <3>1 DEF ArcsPermuted
  <2>2. CASE u = t
    <3>1. r.Arc[u] = new /\ DOMAIN arc = 1 .. l
      BY <2>2, <1>4, <1>5, <1>13, <1>15
    <3>2. ToSet(arc) = PrePlaces(t) /\ \A k, m \in 1 .. l : arc[k] = arc[m] => k = m
      BY <3>1, <1>1, <1>4 DEF ArcsPermuted
    <3>3. ToSet(new) = ToSet(arc)
      <4>1. \A k \in 1 .. l : \E m \in 1 .. l : new[k] = arc[m]
        BY <1>5, <1>11
      <4>2. \A k \in 1 .. l : \E m \in 1 .. l : new[m] = arc[k]
        BY <1>5, <1>11
      <4>3. ToSet(new) = {new[k] : k \in 1 .. l} /\ ToSet(arc) = {arc[k] : k \in 1 .. l}
        BY <3>1, <1>11 DEF ToSet
      <4> QED
        BY <4>1, <4>2, <4>3
    <3>4. \A k, m \in 1 .. l : new[k] = new[m] => k = m
      BY <3>2, <1>5, <1>11
    <3> QED
      BY <2>2, <3>1, <3>2, <3>3, <3>4, <1>11
  <2> QED
    BY <2>1, <2>2
<1>21. r.Arc[t][1] = p
  BY <1>5, <1>11, <1>13, <1>15
<1> QED
  BY <1>1, <1>5, <1>13, <1>15, <1>19, <1>20, <1>21 DEF Inserted

(***************************************************************************)
(* checkEnabled.                                                           *)
(***************************************************************************)
Good(ns) ==
  /\ ns \in NetStates /\ ArcsPermuted(ns)
  /\ Listed(ns, DisabledOnes(ns)) /\ Counted(ns)

(* The arcs whose places lack tokens.                                      *)
Short(ns, t) ==
  {i \in DOMAIN ns.Arc[t] : ns.Current[ns.Arc[t][i]] < Pre[t][ns.Arc[t][i]]}

(* t is right after its check, and nothing has changed for the others.     *)
Checked(ns, c, t) ==
  /\ Good(c) /\ Right(c, t)
  /\ c.Current = ns.Current /\ c.HashCurrent = ns.HashCurrent
  /\ \A u \in Transition : u # t => c.Enabled[u] = ns.Enabled[u] /\ c.Arc[u] = ns.Arc[u]

(* t has left the list of its scapegoat, one other may have moved to its   *)
(* place there.                                                            *)
HasLeft(ns, c, t) ==
  LET p == ns.Arc[t][1]
  IN  /\ Len(c.Disabled[p]) = Len(ns.Disabled[p]) - 1
      /\ \A i \in 1 .. Len(c.Disabled[p]) : c.Disabled[p][i] # t
      /\ \A u \in Transition : u # t =>
           c.PositionScapegoat[u] \in {ns.PositionScapegoat[u], ns.PositionScapegoat[t]}

LEMMA ShortFacts ==
  ASSUME NEW ns, Good(ns), NEW t \in Transition
  PROVE  /\ Short(ns, t) \subseteq 1 .. Len(ns.Arc[t])
         /\ Short(ns, t) # {} =>
              Min(Short(ns, t)) \in Short(ns, t)
              /\ \A i \in Short(ns, t) : Min(Short(ns, t)) <= i
         /\ Short(ns, t) = {} <=> Enabled(ns.Current, t)
<1>1. /\ ns.Arc[t] \in Seq(Place) /\ ns.Current \in [Place -> Nat]
      /\ Pre[t] \in [Place -> Nat] /\ DOMAIN ns.Arc[t] = 1 .. Len(ns.Arc[t])
  <2>1. ns.Arc[t] \in Seq(Place) /\ ns.Current \in [Place -> Nat]
    BY Typed DEF Good
  <2> QED
    BY <2>1, NetAssumption
<1>2. Short(ns, t) \subseteq 1 .. Len(ns.Arc[t])
  BY <1>1 DEF Short
<1>3. ASSUME Short(ns, t) # {}
      PROVE  Min(Short(ns, t)) \in Short(ns, t)
             /\ \A i \in Short(ns, t) : Min(Short(ns, t)) <= i
  <2>1. Short(ns, t) \subseteq Nat
    BY <1>2
  <2>2. \E i \in Short(ns, t) : \A j \in Short(ns, t) : i <= j
    BY <1>3, <2>1, LeastNumber
  <2> QED
    BY <2>2 DEF Min
<1>4. Short(ns, t) = {} <=> Enabled(ns.Current, t)
  <2>1. \A p \in Place : p \in PrePlaces(t) <=> \E i \in DOMAIN ns.Arc[t] : ns.Arc[t][i] = p
    BY DEF Good, ArcsPermuted, ToSet
  <2>2. \A i \in DOMAIN ns.Arc[t] : ns.Arc[t][i] \in Place
    BY <1>1
  <2>3. ASSUME Short(ns, t) = {}, NEW p \in Place
        PROVE  ns.Current[p] >= Pre[t][p]
    <3>1. CASE p \in PrePlaces(t)
      <4>1. PICK i \in DOMAIN ns.Arc[t] : ns.Arc[t][i] = p
        BY <2>1, <3>1
      <4>2. ~ (ns.Current[p] < Pre[t][p])
        BY <2>3, <4>1 DEF Short
      <4> QED
        BY <4>2, <1>1
    <3>2. CASE p \notin PrePlaces(t)
      BY <3>2, <1>1 DEF PrePlaces
    <3> QED
      BY <3>1, <3>2
  <2>4. ASSUME Short(ns, t) # {} PROVE ~ Enabled(ns.Current, t)
    <3>1. PICK i \in DOMAIN ns.Arc[t] : ns.Current[ns.Arc[t][i]] < Pre[t][ns.Arc[t][i]]
      BY <2>4 DEF Short
    <3>2. PICK p \in Place : ns.Current[p] < Pre[t][p]
      BY <2>2, <3>1
    <3> QED
      BY <3>2, <1>1 DEF Enabled
  <2> QED
    BY <2>3, <2>4 DEF Enabled
<1> QED
  BY <1>2, <1>3, <1>4

(* One more transition is disabled, or one less.                           *)
LEMMA DisableOne ==
  ASSUME NEW E \in [Transition -> BOOLEAN], NEW t \in Transition, E[t],
         NEW F, F = [E EXCEPT ![t] = FALSE]
  PROVE  /\ Cardinality({u \in Transition : F[u]}) = Cardinality({u \in Transition : E[u]}) - 1
         /\ {u \in Transition : ~ F[u]} = {u \in Transition : ~ E[u]} \union {t}
<1>1. {u \in Transition : F[u]} = {u \in Transition : E[u]} \ {t}
  OBVIOUS
<1>2. IsFiniteSet({u \in Transition : E[u]})
  BY NetStateAssumption, FS_Subset
<1>3. t \in {u \in Transition : E[u]}
  OBVIOUS
<1>4. Cardinality({u \in Transition : F[u]}) = Cardinality({u \in Transition : E[u]}) - 1
  BY <1>1, <1>2, <1>3, FS_RemoveElement
<1> QED
  BY <1>4

LEMMA EnableOne ==
  ASSUME NEW E \in [Transition -> BOOLEAN], NEW t \in Transition, ~ E[t],
         NEW F, F = [E EXCEPT ![t] = TRUE]
  PROVE  /\ Cardinality({u \in Transition : F[u]}) = Cardinality({u \in Transition : E[u]}) + 1
         /\ {u \in Transition : ~ F[u]} = {u \in Transition : ~ E[u]} \ {t}
<1>1. {u \in Transition : F[u]} = {u \in Transition : E[u]} \union {t}
  OBVIOUS
<1>2. IsFiniteSet({u \in Transition : E[u]})
  BY NetStateAssumption, FS_Subset
<1>3. t \notin {u \in Transition : E[u]}
  OBVIOUS
<1>4. Cardinality({u \in Transition : F[u]}) = Cardinality({u \in Transition : E[u]}) + 1
  BY <1>1, <1>2, <1>3, FS_AddElement
<1> QED
  BY <1>4

(* Listed and ArcsPermuted do not look at the flags.                       *)
LEMMA FlagsOnly ==
  ASSUME NEW ns, NEW r, r.Arc = ns.Arc, r.Disabled = ns.Disabled,
         r.PositionScapegoat = ns.PositionScapegoat
  PROVE  /\ \A T : Listed(ns, T) => Listed(r, T)
         /\ ArcsPermuted(ns) => ArcsPermuted(r)
<1>1. \A T : Listed(ns, T) => Listed(r, T)
  BY DEF Listed
<1>2. ArcsPermuted(ns) => ArcsPermuted(r)
  BY DEF ArcsPermuted
<1> QED
  BY <1>1, <1>2

(* The branch in which an enabled transition turns out to be disabled ...  *)
LEMMA CheckDisables ==
  ASSUME NEW ns, Good(ns), NEW t \in Transition, Short(ns, t) # {}, ns.Enabled[t]
  PROVE  Checked(ns, checkEnabled(ns, t), t)
<1> DEFINE i == Min(Short(ns, t))
<1> DEFINE F == [ns.Enabled EXCEPT ![t] = FALSE]
<1> DEFINE d == [ns EXCEPT !.Enabled = F, !.CardEnabled = ns.CardEnabled - 1]
<1> DEFINE p == ns.Arc[t][i]
<1> DEFINE c == ToFront(InsertInto(d, p, t), t, i)
<1> DEFINE T == DisabledOnes(ns)
<1>1. checkEnabled(ns, t) = c
  <2>1. d = [ns EXCEPT !.Enabled[t] = FALSE, !.CardEnabled = @ - 1]
    BY DEF Good, NetStates
  <2> HIDE DEF d
  <2> QED
    BY <2>1 DEF checkEnabled, Short
<1>2. i \in 1 .. Len(ns.Arc[t]) /\ ns.Current[p] < Pre[t][p]
  BY ShortFacts DEF Short
<1>3. /\ ns \in NetStates /\ ArcsPermuted(ns) /\ Listed(ns, T) /\ Counted(ns)
      /\ ns.Enabled \in [Transition -> BOOLEAN] /\ ns.CardEnabled \in Int
  BY Typed DEF Good
<1>4. /\ Cardinality({u \in Transition : F[u]}) = ns.CardEnabled - 1
      /\ {u \in Transition : ~ F[u]} = T \union {t}
  <2> HIDE DEF F
  <2>1. F = [ns.Enabled EXCEPT ![t] = FALSE]
    BY DEF F
  <2> QED
    BY <2>1, <1>3, DisableOne DEF Counted, DisabledOnes
<1>5. F \in [Transition -> BOOLEAN] /\ ns.CardEnabled - 1 \in Int
  BY <1>3
<1>6. t \notin T /\ T \subseteq Transition
  BY DEF DisabledOnes
<1>7. \A u \in Transition : u # t => F[u] = ns.Enabled[u]
  BY <1>3
<1>a. ~ F[t]
  BY <1>3
<1> HIDE DEF i, F, T
<1>8. /\ d \in NetStates /\ d.Enabled = F /\ d.CardEnabled = ns.CardEnabled - 1
      /\ d.Arc = ns.Arc /\ d.Current = ns.Current /\ d.HashCurrent = ns.HashCurrent
      /\ d.Disabled = ns.Disabled /\ d.PositionScapegoat = ns.PositionScapegoat
  BY <1>3, <1>5 DEF NetStates
<1> HIDE DEF d
<1>b. Listed(d, T) /\ ArcsPermuted(d)
  BY <1>3, <1>8, FlagsOnly
<1>9. i \in 1 .. Len(d.Arc[t]) /\ p = d.Arc[t][i]
  BY <1>2, <1>8
<1> HIDE DEF p
<1>10. /\ c \in NetStates /\ Listed(c, T \union {t})
       /\ c.Current = d.Current /\ c.HashCurrent = d.HashCurrent
       /\ c.Enabled = d.Enabled /\ c.CardEnabled = d.CardEnabled
       /\ c.Arc[t][1] = p /\ ArcsPermuted(c)
       /\ \A u \in Transition : u # t => c.Arc[u] = d.Arc[u]
  <2>1. Inserted(d, c, T, t, p)
    BY <1>6, <1>8, <1>9, <1>b, InsertKeeps
  <2> HIDE DEF c
  <2> QED
    BY <2>1, <1>b DEF Inserted
<1> HIDE DEF c
<1>11. DisabledOnes(c) = T \union {t} /\ Counted(c)
  BY <1>4, <1>8, <1>10 DEF DisabledOnes, Counted
<1>12. Right(c, t)
  BY <1>2, <1>8, <1>10, <1>a DEF Right
<1> QED
  BY <1>1, <1>7, <1>8, <1>10, <1>11, <1>12 DEF Checked, Good

(* ... in which a disabled one gets another scapegoat ...                  *)
LEMMA CheckMoves ==
  ASSUME NEW ns, Good(ns), NEW t \in Transition, Short(ns, t) # {}, ~ ns.Enabled[t],
         Min(Short(ns, t)) > 1
  PROVE  /\ Checked(ns, checkEnabled(ns, t), t)
         /\ HasLeft(ns, checkEnabled(ns, t), t)
<1> DEFINE i == Min(Short(ns, t))
<1> DEFINE p == ns.Arc[t][i]
<1> DEFINE old == ns.Arc[t][1]
<1> DEFINE r == RemoveFrom(ns, old, t)
<1> DEFINE c == ToFront(InsertInto(r, p, t), t, i)
<1> DEFINE T == DisabledOnes(ns)
<1>1. checkEnabled(ns, t) = c
  BY DEF checkEnabled, Short
<1>2. i \in 1 .. Len(ns.Arc[t]) /\ ns.Current[p] < Pre[t][p] /\ i > 1
  BY ShortFacts DEF Short
<1>3. /\ ns \in NetStates /\ ArcsPermuted(ns) /\ Listed(ns, T) /\ Counted(ns)
      /\ ns.Arc[t] \in Seq(Place)
  BY Typed DEF Good
<1>4. t \in T /\ T \subseteq Transition
  BY DEF DisabledOnes
<1>5. old # p
  <2>1. 1 \in DOMAIN ns.Arc[t] /\ i \in DOMAIN ns.Arc[t]
    BY <1>2, <1>3
  <2> QED
    BY <2>1, <1>2, <1>3 DEF ArcsPermuted
<1> HIDE DEF i, T
<1>6. Removed(ns, r, T, t, old)
  BY <1>3, <1>4, RemoveKeeps
<1> HIDE DEF r
<1>7. /\ r \in NetStates /\ Listed(r, T \ {t}) /\ T \ {t} \subseteq Transition
      /\ r.Arc = ns.Arc /\ i \in 1 .. Len(r.Arc[t]) /\ p = r.Arc[t][i]
      /\ t \notin T \ {t} /\ ArcsPermuted(r)
  <2>1. r.Arc = ns.Arc
    BY <1>6 DEF Removed
  <2>2. ArcsPermuted(r)
    BY <2>1, <1>3 DEF ArcsPermuted
  <2> QED
    BY <2>1, <2>2, <1>2, <1>4, <1>6 DEF Removed
<1>8. Inserted(r, c, T \ {t}, t, p)
  <2>1. PICK U : U = T \ {t}
    OBVIOUS
  <2> HIDE DEF p, c
  <2> QED
    BY <2>1, <1>7, InsertKeeps DEF c
<1>9. (T \ {t}) \union {t} = T
  BY <1>4
<1> HIDE DEF c, p, old
<1>10. /\ c \in NetStates /\ Listed(c, T) /\ ArcsPermuted(c)
       /\ c.Current = ns.Current /\ c.HashCurrent = ns.HashCurrent
       /\ c.Enabled = ns.Enabled /\ c.CardEnabled = ns.CardEnabled
       /\ c.Arc[t][1] = p
       /\ \A u \in Transition : u # t => c.Arc[u] = ns.Arc[u]
  BY <1>6, <1>7, <1>8, <1>9 DEF Inserted, Removed
<1>11. Good(c)
  <2>1. DisabledOnes(c) = T /\ Counted(c)
    BY <1>3, <1>10 DEF DisabledOnes, Counted, T
  <2> QED
    BY <2>1, <1>10 DEF Good
<1>12. Right(c, t)
  BY <1>2, <1>10 DEF Right
<1>13. Checked(ns, c, t)
  BY <1>10, <1>11, <1>12 DEF Checked
<1>14. HasLeft(ns, c, t)
  <2>1. old \in Place /\ Len(r.Disabled[old]) = Len(ns.Disabled[old]) - 1
    BY <1>6 DEF Removed
  <2>2. c.Disabled[old] = r.Disabled[old]
    BY <2>1, <1>5, <1>8 DEF Inserted
  <2>3. \A k \in 1 .. Len(c.Disabled[old]) : c.Disabled[old][k] # t
    BY <2>1, <1>5, <1>10 DEF Listed
  <2>4. \A u \in Transition : u # t =>
           c.PositionScapegoat[u] \in {ns.PositionScapegoat[u], ns.PositionScapegoat[t]}
    BY <1>6, <1>8 DEF Inserted, Removed
  <2> QED
    BY <2>1, <2>2, <2>3, <2>4 DEF HasLeft, old
<1> QED
  BY <1>1, <1>13, <1>14

(* ... in which a disabled one turns out to be enabled ...                 *)
LEMMA CheckEnables ==
  ASSUME NEW ns, Good(ns), NEW t \in Transition, Short(ns, t) = {}, ~ ns.Enabled[t]
  PROVE  /\ Checked(ns, checkEnabled(ns, t), t)
         /\ HasLeft(ns, checkEnabled(ns, t), t)
<1> DEFINE F == [ns.Enabled EXCEPT ![t] = TRUE]
<1> DEFINE e == [ns EXCEPT !.Enabled = F, !.CardEnabled = ns.CardEnabled + 1]
<1> DEFINE old == ns.Arc[t][1]
<1> DEFINE c == RemoveFrom(e, old, t)
<1> DEFINE T == DisabledOnes(ns)
<1>1. checkEnabled(ns, t) = c
  <2>1. e = [ns EXCEPT !.Enabled[t] = TRUE, !.CardEnabled = @ + 1]
    BY DEF Good, NetStates
  <2> HIDE DEF e
  <2> QED
    BY <2>1 DEF checkEnabled, Short
<1>3. /\ ns \in NetStates /\ ArcsPermuted(ns) /\ Listed(ns, T) /\ Counted(ns)
      /\ ns.Enabled \in [Transition -> BOOLEAN] /\ ns.CardEnabled \in Int
  BY Typed DEF Good
<1>4. /\ Cardinality({u \in Transition : F[u]}) = ns.CardEnabled + 1
      /\ {u \in Transition : ~ F[u]} = T \ {t}
  <2> HIDE DEF F
  <2>1. F = [ns.Enabled EXCEPT ![t] = TRUE]
    BY DEF F
  <2> QED
    BY <2>1, <1>3, EnableOne DEF Counted, DisabledOnes
<1>5. F \in [Transition -> BOOLEAN] /\ ns.CardEnabled + 1 \in Int
  BY <1>3
<1>6. t \in T /\ T \subseteq Transition
  BY DEF DisabledOnes
<1>7. F[t] /\ \A u \in Transition : u # t => F[u] = ns.Enabled[u]
  BY <1>3
<1> HIDE DEF F, T
<1>8. /\ e \in NetStates /\ e.Enabled = F /\ e.CardEnabled = ns.CardEnabled + 1
      /\ e.Arc = ns.Arc /\ e.Current = ns.Current /\ e.HashCurrent = ns.HashCurrent
      /\ e.Disabled = ns.Disabled /\ e.PositionScapegoat = ns.PositionScapegoat
  BY <1>3, <1>5 DEF NetStates
<1> HIDE DEF e
<1>9. Listed(e, T) /\ ArcsPermuted(e) /\ old = e.Arc[t][1]
  BY <1>3, <1>8, FlagsOnly
<1>10. Removed(e, c, T, t, old)
  <2> HIDE DEF old
  <2> QED
    BY <1>6, <1>8, <1>9, RemoveKeeps
<1> HIDE DEF c, old
<1>11. /\ c \in NetStates /\ Listed(c, T \ {t}) /\ old \in Place
       /\ c.Current = ns.Current /\ c.HashCurrent = ns.HashCurrent
       /\ c.Enabled = F /\ c.CardEnabled = ns.CardEnabled + 1
       /\ c.Arc = ns.Arc
       /\ Len(c.Disabled[old]) = Len(ns.Disabled[old]) - 1
       /\ \A u \in Transition :
            c.PositionScapegoat[u] \in {ns.PositionScapegoat[u], ns.PositionScapegoat[t]}
  BY <1>8, <1>10 DEF Removed
<1>12. Good(c)
  <2>1. DisabledOnes(c) = T \ {t} /\ Counted(c)
    BY <1>4, <1>11 DEF DisabledOnes, Counted
  <2>2. ArcsPermuted(c)
    BY <1>3, <1>11 DEF ArcsPermuted
  <2> QED
    BY <2>1, <2>2, <1>11 DEF Good
<1>13. Right(c, t)
  BY <1>7, <1>11, ShortFacts DEF Right
<1>14. Checked(ns, c, t)
  BY <1>7, <1>11, <1>12, <1>13 DEF Checked
<1>15. HasLeft(ns, c, t)
  <2>1. \A k \in 1 .. Len(c.Disabled[old]) : c.Disabled[old][k] # t
    BY <1>11 DEF Listed
  <2> QED
    BY <2>1, <1>11 DEF HasLeft, old
<1> QED
  BY <1>1, <1>14, <1>15

(* ... and in which nothing has to be done.                                *)
LEMMA CheckKeeps ==
  ASSUME NEW ns, Good(ns), NEW t \in Transition
  PROVE  /\ Checked(ns, checkEnabled(ns, t), t)
         /\ ~ ns.Enabled[t] =>
              checkEnabled(ns, t) = ns \/ HasLeft(ns, checkEnabled(ns, t), t)
<1>1. CASE Short(ns, t) # {} /\ ns.Enabled[t]
  BY <1>1, CheckDisables
<1>2. CASE Short(ns, t) # {} /\ ~ ns.Enabled[t] /\ Min(Short(ns, t)) > 1
  BY <1>2, CheckMoves
<1>3. CASE Short(ns, t) = {} /\ ~ ns.Enabled[t]
  BY <1>3, CheckEnables
<1>4. CASE Short(ns, t) # {} /\ ~ ns.Enabled[t] /\ ~ (Min(Short(ns, t)) > 1)
  <2>1. checkEnabled(ns, t) = ns
    BY <1>4 DEF checkEnabled, Short
  <2>2. Right(ns, t)
    <3>1. Min(Short(ns, t)) = 1 /\ 1 \in Short(ns, t)
      <4>1. Min(Short(ns, t)) \in Short(ns, t) /\ Min(Short(ns, t)) \in 1 .. Len(ns.Arc[t])
        BY <1>4, ShortFacts
      <4> QED
        BY <4>1, <1>4
    <3> QED
      BY <3>1, <1>4 DEF Short, Right
  <2> QED
    BY <2>1, <2>2 DEF Checked
<1>5. CASE Short(ns, t) = {} /\ ns.Enabled[t]
  <2>1. checkEnabled(ns, t) = ns
    BY <1>5 DEF checkEnabled, Short
  <2>2. Right(ns, t)
    BY <1>5, ShortFacts DEF Right
  <2> QED
    BY <2>1, <2>2, <1>5 DEF Checked
<1> QED
  BY <1>1, <1>2, <1>3, <1>4, <1>5


(***************************************************************************)
(* The loops that repair the flags after the marking has changed.          *)
(***************************************************************************)

(* c is ns with repaired flags, except for disabled transitions with a     *)
(* scapegoat in Later.                                                     *)
Repaired(ns, c, Later) ==
  /\ Good(c) /\ c.Current = ns.Current /\ c.HashCurrent = ns.HashCurrent
  /\ \A u \in Transition :
       Right(c, u) \/ (~ c.Enabled[u] /\ c.Arc[u][1] \in Later)

(* The same in the middle of p's list, when j is the next index.           *)
Passed(ns, c, j, p, Later) ==
  /\ Good(c) /\ c.Current = ns.Current /\ c.HashCurrent = ns.HashCurrent
  /\ j \in Nat /\ j >= 1
  /\ \A u \in Transition :
       \/ Right(c, u)
       \/ ~ c.Enabled[u] /\ c.Arc[u][1] \in Later
       \/ ~ c.Enabled[u] /\ c.Arc[u][1] = p /\ c.PositionScapegoat[u] >= j

(* A disabled transition stands in its scapegoat's list.                   *)
LEMMA Stands ==
  ASSUME NEW c, Good(c), NEW p \in Place
  PROVE  /\ Len(c.Disabled[p]) \in Nat
         /\ \A i \in 1 .. Len(c.Disabled[p]) :
              LET u == c.Disabled[p][i]
              IN  u \in Transition /\ ~ c.Enabled[u] /\ c.Arc[u][1] = p /\ c.PositionScapegoat[u] = i
         /\ \A u \in Transition : ~ c.Enabled[u] /\ c.Arc[u][1] = p =>
              /\ c.PositionScapegoat[u] \in 1 .. Len(c.Disabled[p])
              /\ c.Disabled[p][c.PositionScapegoat[u]] = u
<1>1. c.Disabled[p] \in Seq(Transition) /\ Listed(c, DisabledOnes(c))
  BY Typed DEF Good
<1>2. Len(c.Disabled[p]) \in Nat
  BY <1>1
<1>3. \A i \in 1 .. Len(c.Disabled[p]) :
        LET u == c.Disabled[p][i]
        IN  u \in Transition /\ ~ c.Enabled[u] /\ c.Arc[u][1] = p /\ c.PositionScapegoat[u] = i
  BY <1>1 DEF Listed, DisabledOnes
<1>4. \A u \in Transition : ~ c.Enabled[u] /\ c.Arc[u][1] = p =>
        /\ c.PositionScapegoat[u] \in 1 .. Len(c.Disabled[p])
        /\ c.Disabled[p][c.PositionScapegoat[u]] = u
  BY <1>1 DEF Listed, DisabledOnes
<1> QED
  BY <1>2, <1>3, <1>4

LEMMA StaysRight ==
  ASSUME NEW c, NEW d, NEW u, d.Current = c.Current, d.Enabled[u] = c.Enabled[u],
         d.Arc[u] = c.Arc[u], Right(c, u)
  PROVE  Right(d, u)
BY DEF Right

(* One round of ScanDisabled: the entry is passed, or it leaves the list.  *)
Onward(c, j, p, d, i) ==
  LET u == c.Disabled[p][j]
  IN  /\ d = checkEnabled(c, u)
      /\ i = IF j <= Len(d.Disabled[p]) /\ d.Disabled[p][j] # u THEN j ELSE j + 1

LEMMA ScanRound ==
  ASSUME NEW ns, NEW Later, NEW p \in Place, NEW c, NEW j,
         Passed(ns, c, j, p, Later), j <= Len(c.Disabled[p]),
         NEW d, NEW i, Onward(c, j, p, d, i)
  PROVE  /\ Passed(ns, d, i, p, Later)
         /\ Len(d.Disabled[p]) + 1 - i <= Len(c.Disabled[p]) - j
<1>0. PICK u : /\ u = c.Disabled[p][j] /\ d = checkEnabled(c, u)
               /\ i = IF j <= Len(d.Disabled[p]) /\ d.Disabled[p][j] # u THEN j ELSE j + 1
  BY DEF Onward
<1>1. /\ Good(c) /\ c.Current = ns.Current /\ c.HashCurrent = ns.HashCurrent
      /\ j \in Nat /\ j >= 1
      /\ \A v \in Transition :
           \/ Right(c, v)
           \/ ~ c.Enabled[v] /\ c.Arc[v][1] \in Later
           \/ ~ c.Enabled[v] /\ c.Arc[v][1] = p /\ c.PositionScapegoat[v] >= j
  BY DEF Passed
<1>2. Len(c.Disabled[p]) \in Nat /\ j \in 1 .. Len(c.Disabled[p])
  BY <1>1, Stands
<1>3. u \in Transition /\ ~ c.Enabled[u] /\ c.Arc[u][1] = p /\ c.PositionScapegoat[u] = j
  BY <1>0, <1>1, <1>2, Stands
<1>4. Checked(c, d, u) /\ (d = c \/ HasLeft(c, d, u))
  BY <1>0, <1>1, <1>3, CheckKeeps
<1>5. /\ Good(d) /\ Right(d, u)
      /\ d.Current = c.Current /\ d.HashCurrent = c.HashCurrent
      /\ \A v \in Transition : v # u => d.Enabled[v] = c.Enabled[v] /\ d.Arc[v] = c.Arc[v]
  BY <1>4 DEF Checked
<1>6. \A v \in Transition : Right(c, v) => Right(d, v)
  BY <1>5, StaysRight
<1>7. Len(d.Disabled[p]) \in Nat
  BY <1>5, Stands
<1>8. CASE d = c
  <2>1. i = j + 1
    BY <1>0, <1>8
  <2>2. ASSUME NEW v \in Transition, ~ c.Enabled[v], c.Arc[v][1] = p,
               c.PositionScapegoat[v] >= j, v # u
        PROVE  c.PositionScapegoat[v] >= j + 1
    <3>1. /\ c.PositionScapegoat[v] \in 1 .. Len(c.Disabled[p])
          /\ c.Disabled[p][c.PositionScapegoat[v]] = v
      BY <1>1, <2>2, Stands
    <3> QED
      BY <3>1, <2>2, <1>0, <1>2
  <2>3. \A v \in Transition :
           \/ Right(d, v)
           \/ ~ d.Enabled[v] /\ d.Arc[v][1] \in Later
           \/ ~ d.Enabled[v] /\ d.Arc[v][1] = p /\ d.PositionScapegoat[v] >= j + 1
    BY <1>0, <1>1, <1>5, <1>8, <2>2
  <2>4. j + 1 \in Nat /\ j + 1 >= 1
    BY <1>1
  <2>5. Len(d.Disabled[p]) + 1 - i <= Len(c.Disabled[p]) - j
    <3>1. PICK m : m = Len(c.Disabled[p])
      OBVIOUS
    <3>2. Len(d.Disabled[p]) = m /\ m \in Nat
      BY <1>2, <1>8, <3>1
    <3>3. m + 1 - i <= m - j
      BY <1>1, <2>1, <3>2
    <3> QED
      BY <3>1, <3>2, <3>3
  <2>6. Passed(ns, d, i, p, Later)
    BY <1>1, <1>8, <2>1, <2>3, <2>4 DEF Passed
  <2> QED
    BY <2>5, <2>6
<1>9. CASE HasLeft(c, d, u)
  <2>1. /\ Len(d.Disabled[p]) = Len(c.Disabled[p]) - 1
        /\ \A k \in 1 .. Len(d.Disabled[p]) : d.Disabled[p][k] # u
        /\ \A v \in Transition : v # u => d.PositionScapegoat[v] \in {c.PositionScapegoat[v], j}
    BY <1>3, <1>9 DEF HasLeft
  <2>2. i = IF j <= Len(d.Disabled[p]) THEN j ELSE j + 1
    BY <1>0, <1>2, <1>7, <2>1
  <2>3. Len(d.Disabled[p]) + 1 - i <= Len(c.Disabled[p]) - j
    BY <1>1, <1>2, <1>7, <2>1, <2>2
  <2>4. i \in Nat /\ i >= 1
    BY <1>1, <2>2
  <2>5. ASSUME NEW v \in Transition
        PROVE  \/ Right(d, v)
               \/ ~ d.Enabled[v] /\ d.Arc[v][1] \in Later
               \/ ~ d.Enabled[v] /\ d.Arc[v][1] = p /\ d.PositionScapegoat[v] >= i
    <3>1. CASE v = u
      BY <3>1, <1>5
    <3>2. CASE Right(c, v)
      BY <3>2, <1>6
    <3>3. CASE v # u /\ ~ c.Enabled[v] /\ c.Arc[v][1] \in Later
      BY <3>3, <1>5
    <3>4. CASE v # u /\ ~ c.Enabled[v] /\ c.Arc[v][1] = p /\ c.PositionScapegoat[v] >= j
      <4>1. ~ d.Enabled[v] /\ d.Arc[v][1] = p
        BY <3>4, <1>5
      <4>2. d.PositionScapegoat[v] \in 1 .. Len(d.Disabled[p])
        BY <4>1, <1>5, Stands
      <4>3. d.PositionScapegoat[v] >= j
        BY <1>1, <2>1, <3>4
      <4>4. i = j
        BY <4>2, <4>3, <1>1, <1>7, <2>2
      <4> QED
        BY <4>1, <4>3, <4>4
    <3> QED
      BY <1>1, <3>1, <3>2, <3>3, <3>4
  <2>6. Passed(ns, d, i, p, Later)
    BY <1>1, <1>5, <2>4, <2>5 DEF Passed
  <2> QED
    BY <2>3, <2>6
<1> QED
  BY <1>4, <1>8, <1>9

LEMMA ScanKeeps ==
  ASSUME NEW ns, NEW Later, NEW p \in Place, NEW c, Repaired(ns, c, Later \union {p})
  PROVE  Repaired(ns, ScanDisabled(c, p), Later)
<1> DEFINE n == Len(c.Disabled[p])
<1> DEFINE Inv == [k \in 0 .. n |->
                     {x \in [s : NetStates, j : Nat] :
                        /\ Passed(ns, x.s, x.j, p, Later)
                        /\ Len(x.s.Disabled[p]) + 1 - x.j <= n - k}]
<1>1. Good(c) /\ n \in Nat
  BY Stands DEF Repaired
<1>2. Passed(ns, c, 1, p, Later)
  <2>1. ASSUME NEW u \in Transition, ~ c.Enabled[u], c.Arc[u][1] = p
        PROVE  c.PositionScapegoat[u] >= 1
    <3>1. c.PositionScapegoat[u] \in 1 .. n
      BY <1>1, <2>1, Stands
    <3> QED
      BY <3>1
  <2> QED
    BY <2>1 DEF Repaired, Passed
<1>3. PICK x : x = [s |-> c, j |-> 1]
  OBVIOUS
<1>4. x \in Inv[0]
  <2>1. x \in [s : NetStates, j : Nat] /\ x.s = c /\ x.j = 1
    BY <1>1, <1>3 DEF Good
  <2> QED
    BY <1>1, <1>2, <2>1
<1>5. ASSUME NEW k \in 1 .. n, NEW y \in Inv[k-1]
      PROVE  ScanEntry(y, p) \in Inv[k]
  <2>1. PICK d, j : d = y.s /\ j = y.j
    OBVIOUS
  <2>2. /\ Passed(ns, d, j, p, Later) /\ Len(d.Disabled[p]) + 1 - j <= n - (k - 1)
        /\ y \in [s : NetStates, j : Nat]
    BY <1>1, <2>1
  <2>3. Good(d) /\ j \in Nat /\ Len(d.Disabled[p]) \in Nat
    BY <2>2, Stands DEF Passed
  <2>4. CASE j > Len(d.Disabled[p])
    <3>1. ScanEntry(y, p) = y
      BY <2>1, <2>4 DEF ScanEntry
    <3>2. Len(d.Disabled[p]) + 1 - j <= n - k
      BY <1>1, <2>3, <2>4
    <3> QED
      BY <1>1, <2>1, <2>2, <3>1, <3>2
  <2>5. CASE j <= Len(d.Disabled[p])
    <3>1. PICK e, i : Onward(d, j, p, e, i)
      BY DEF Onward
    <3>3. ScanEntry(y, p) = [s |-> e, j |-> i]
      <4>1. ~ (j > Len(d.Disabled[p]))
        BY <2>3, <2>5
      <4> QED
        BY <2>1, <3>1, <4>1 DEF ScanEntry, Onward
    <3> HIDE DEF Inv, n
    <3>4. /\ Passed(ns, e, i, p, Later)
          /\ Len(e.Disabled[p]) + 1 - i <= Len(d.Disabled[p]) - j
      BY <2>2, <2>5, <3>1, ScanRound
    <3>5. e \in NetStates /\ i \in Nat /\ Len(e.Disabled[p]) \in Nat
      BY <3>4, Stands DEF Passed, Good
    <3>6. Len(e.Disabled[p]) + 1 - i <= n - k
      <4>1. k \in Nat
        BY <1>1
      <4>2. PICK a, b : a = Len(e.Disabled[p]) /\ b = Len(d.Disabled[p])
        OBVIOUS
      <4>3. /\ a \in Nat /\ b \in Nat /\ i \in Nat /\ j \in Nat /\ n \in Nat
            /\ b + 1 - j <= n - (k - 1) /\ a + 1 - i <= b - j
        BY <4>2, <1>1, <2>2, <2>3, <3>4, <3>5
      <4>4. a + 1 - i <= n - k
        BY <4>1, <4>3
      <4> QED
        BY <4>2, <4>4
    <3>7. PICK z : z = [s |-> e, j |-> i]
      OBVIOUS
    <3>8. z \in [s : NetStates, j : Nat] /\ z.s = e /\ z.j = i
      BY <3>5, <3>7
    <3>9. z \in Inv[k]
      BY <1>1, <3>4, <3>6, <3>8 DEF Inv
    <3> QED
      BY <3>3, <3>7, <3>9
  <2> QED
    BY <2>3, <2>4, <2>5
<1>6. \A y \in Inv[n] : Repaired(ns, y.s, Later)
  <2> SUFFICES ASSUME NEW y \in Inv[n] PROVE Repaired(ns, y.s, Later)
    OBVIOUS
  <2>1. PICK d, j : d = y.s /\ j = y.j
    OBVIOUS
  <2>2. Passed(ns, d, j, p, Later) /\ Len(d.Disabled[p]) + 1 - j <= n - n
    BY <1>1, <2>1
  <2>3. Good(d) /\ j \in Nat /\ Len(d.Disabled[p]) \in Nat
    BY <2>2, Stands DEF Passed
  <2>4. j > Len(d.Disabled[p])
    BY <1>1, <2>2, <2>3
  <2>5. \A u \in Transition :
          ~ (~ d.Enabled[u] /\ d.Arc[u][1] = p /\ d.PositionScapegoat[u] >= j)
    <3> SUFFICES ASSUME NEW u \in Transition, ~ d.Enabled[u], d.Arc[u][1] = p
                 PROVE  ~ (d.PositionScapegoat[u] >= j)
      OBVIOUS
    <3>1. d.PositionScapegoat[u] \in 1 .. Len(d.Disabled[p])
      BY <2>3, Stands
    <3> QED
      BY <3>1, <2>3, <2>4
  <2> QED
    BY <2>1, <2>2, <2>5 DEF Passed, Repaired
<1>7. PICK r \in Inv[n] : ScanDisabled(c, p) = r.s
  <2>1. \A k \in 1 .. Len(c.Disabled[p]) : \A y \in Inv[k-1] : ScanEntry(y, p) \in Inv[k]
    BY <1>5
  <2> HIDE DEF Inv
  <2> QED
    BY <1>1, <1>3, <1>4, <2>1, RoundLoop
<1> QED
  BY <1>6, <1>7

(* All places of a list.                                                   *)
LEMMA ScanAllKeeps ==
  ASSUME NEW ns, NEW P \in SUBSET Place, NEW list, Lists(list, P), NEW c, Repaired(ns, c, P)
  PROVE  Repaired(ns, ScanAll(c, list), {})
<1> DEFINE n == Len(list)
<1> DEFINE Ahead(k) == {list[m] : m \in k + 1 .. n}
<1> DEFINE Inv == [k \in 0 .. n |-> {s \in NetStates : Repaired(ns, s, Ahead(k))}]
<1>1. n \in Nat /\ (\A i \in 1 .. n : list[i] \in Place) /\ P \subseteq Ahead(0) /\ Ahead(n) = {}
  <2>1. list \in Seq(P) /\ \A x \in P : \E i \in 1 .. n : list[i] = x
    BY DEF Lists
  <2>2. n \in Nat /\ \A i \in 1 .. n : list[i] \in P
    BY <2>1
  <2> QED
    BY <2>1, <2>2
<1>2. c \in Inv[0]
  BY <1>1 DEF Repaired, Good
<1>3. ASSUME NEW k \in 1 .. n, NEW s \in Inv[k-1] PROVE ScanDisabled(s, list[k]) \in Inv[k]
  <2>1. Ahead(k - 1) = Ahead(k) \union {list[k]}
    BY <1>1
  <2>2. Repaired(ns, s, Ahead(k - 1))
    BY <1>1
  <2>3. list[k] \in Place
    BY <1>1
  <2> HIDE DEF Ahead
  <2>4. Repaired(ns, ScanDisabled(s, list[k]), Ahead(k))
    BY <2>1, <2>2, <2>3, ScanKeeps
  <2>5. ScanDisabled(s, list[k]) \in NetStates
    BY <2>4 DEF Repaired, Good
  <2> QED
    BY <1>1, <2>4, <2>5
<1>4. ScanAll(c, list) \in Inv[n]
  <2>1. \A k \in 1 .. Len(list) : \A s \in Inv[k-1] : ScanDisabled(s, list[k]) \in Inv[k]
    BY <1>3
  <2>2. Len(list) \in Nat
    BY <1>1
  <2> HIDE DEF Inv
  <2> QED
    BY <1>2, <2>1, <2>2, ScanLoop
<1>5. Repaired(ns, ScanAll(c, list), Ahead(n))
  BY <1>1, <1>4
<1> QED
  BY <1>1, <1>5

(* c is ns with repaired flags, except for disabled transitions with a     *)
(* scapegoat in Later and enabled ones in U.                               *)
Pending(ns, c, Later, U) ==
  /\ Good(c) /\ c.Current = ns.Current /\ c.HashCurrent = ns.HashCurrent
  /\ \A u \in Transition :
       \/ Right(c, u)
       \/ ~ c.Enabled[u] /\ c.Arc[u][1] \in Later
       \/ c.Enabled[u] /\ u \in U

LEMMA CheckOne ==
  ASSUME NEW ns, NEW Later, NEW U, NEW t \in Transition, NEW c,
         Pending(ns, c, Later, U \union {t})
  PROVE  /\ Pending(ns, checkEnabled(c, t), Later, U)
         /\ Pending(ns, Recheck(c, t), Later, U)
<1>1. /\ Good(c) /\ c.Current = ns.Current /\ c.HashCurrent = ns.HashCurrent
      /\ \A u \in Transition :
           \/ Right(c, u)
           \/ ~ c.Enabled[u] /\ c.Arc[u][1] \in Later
           \/ c.Enabled[u] /\ (u \in U \/ u = t)
  BY DEF Pending
<1>2. PICK d : d = checkEnabled(c, t)
  OBVIOUS
<1>3. Checked(c, d, t)
  BY <1>1, <1>2, CheckKeeps
<1>4. /\ Good(d) /\ Right(d, t)
      /\ d.Current = c.Current /\ d.HashCurrent = c.HashCurrent
      /\ \A v \in Transition : v # t => d.Enabled[v] = c.Enabled[v] /\ d.Arc[v] = c.Arc[v]
  BY <1>3 DEF Checked
<1>5. \A v \in Transition : v # t /\ Right(c, v) => Right(d, v)
  BY <1>4, StaysRight
<1>6. Pending(ns, d, Later, U)
  BY <1>1, <1>4, <1>5 DEF Pending
<1>7. CASE c.Enabled[t]
  BY <1>2, <1>6, <1>7 DEF Recheck
<1>8. CASE ~ c.Enabled[t]
  <2>1. Pending(ns, c, Later, U)
    BY <1>1, <1>8 DEF Pending
  <2> QED
    BY <1>2, <1>6, <1>8, <2>1 DEF Recheck
<1> QED
  BY <1>7, <1>8

(* The entries of a list still to come.                                    *)
Coming(list, k) == {list[m] : m \in k + 1 .. Len(list)}

LEMMA ComingFacts ==
  ASSUME NEW U, NEW list, Lists(list, U)
  PROVE  /\ Len(list) \in Nat
         /\ \A k \in 1 .. Len(list) :
              Coming(list, k - 1) = Coming(list, k) \union {list[k]} /\ list[k] \in U
         /\ U \subseteq Coming(list, 0) /\ Coming(list, Len(list)) = {}
<1> DEFINE n == Len(list)
<1>1. list \in Seq(U) /\ \A x \in U : \E i \in 1 .. n : list[i] = x
  BY DEF Lists
<1>2. n \in Nat /\ \A i \in 1 .. n : list[i] \in U
  BY <1>1
<1>3. \A k \in 1 .. n : Coming(list, k - 1) = Coming(list, k) \union {list[k]}
  BY <1>2 DEF Coming
<1>4. U \subseteq Coming(list, 0)
  BY <1>1, <1>2 DEF Coming
<1>5. Coming(list, n) = {}
  BY <1>2 DEF Coming
<1> QED
  BY <1>2, <1>3, <1>4, <1>5

LEMMA PendingLess ==
  ASSUME NEW ns, NEW Later, NEW U, NEW V, U \subseteq V, NEW c, Pending(ns, c, Later, U)
  PROVE  Pending(ns, c, Later, V)
BY DEF Pending

LEMMA RecheckKeeps ==
  ASSUME NEW ns, NEW Later, NEW U \in SUBSET Transition, NEW list, Lists(list, U),
         NEW c, Pending(ns, c, Later, U)
  PROVE  Pending(ns, RecheckEnabled(c, list), Later, {})
<1> DEFINE n == Len(list)
<1> DEFINE Inv == [k \in 0 .. n |-> {s \in NetStates : Pending(ns, s, Later, Coming(list, k))}]
<1>1. n \in Nat
  BY ComingFacts
<1>2. c \in Inv[0]
  <2>1. U \subseteq Coming(list, 0)
    BY ComingFacts
  <2>2. Pending(ns, c, Later, Coming(list, 0))
    BY <2>1, PendingLess
  <2> QED
    BY <1>1, <2>2 DEF Pending, Good
<1>3. ASSUME NEW k \in 1 .. n, NEW s \in Inv[k-1] PROVE Recheck(s, list[k]) \in Inv[k]
  <2>1. Coming(list, k - 1) = Coming(list, k) \union {list[k]} /\ list[k] \in Transition
    BY ComingFacts
  <2>2. Pending(ns, s, Later, Coming(list, k - 1))
    BY <1>1
  <2>3. Pending(ns, Recheck(s, list[k]), Later, Coming(list, k))
    BY <2>1, <2>2, CheckOne
  <2>4. Recheck(s, list[k]) \in NetStates
    BY <2>3 DEF Pending, Good
  <2> QED
    BY <1>1, <2>3, <2>4
<1>4. RecheckEnabled(c, list) \in Inv[n]
  <2>1. \A k \in 1 .. Len(list) : \A s \in Inv[k-1] : Recheck(s, list[k]) \in Inv[k]
    BY <1>3
  <2> HIDE DEF Inv
  <2> QED
    BY <1>1, <1>2, <2>1, RecheckLoop
<1>5. \A s \in Inv[n] : Pending(ns, s, Later, Coming(list, n))
  BY <1>1
<1>6. Coming(list, n) = {}
  BY ComingFacts
<1> HIDE DEF Inv, n
<1> QED
  BY <1>4, <1>5, <1>6

LEMMA CheckAllKeeps ==
  ASSUME NEW ns, NEW Later, NEW U \in SUBSET Transition, NEW list, Lists(list, U),
         NEW c, Pending(ns, c, Later, U)
  PROVE  Pending(ns, OneByOne(checkEnabled, c, list), Later, {})
<1> DEFINE n == Len(list)
<1> DEFINE Inv == [k \in 0 .. n |-> {s \in NetStates : Pending(ns, s, Later, Coming(list, k))}]
<1>1. n \in Nat
  BY ComingFacts
<1>2. c \in Inv[0]
  <2>1. U \subseteq Coming(list, 0)
    BY ComingFacts
  <2>2. Pending(ns, c, Later, Coming(list, 0))
    BY <2>1, PendingLess
  <2> QED
    BY <1>1, <2>2 DEF Pending, Good
<1>3. ASSUME NEW k \in 1 .. n, NEW s \in Inv[k-1] PROVE checkEnabled(s, list[k]) \in Inv[k]
  <2>1. Coming(list, k - 1) = Coming(list, k) \union {list[k]} /\ list[k] \in Transition
    BY ComingFacts
  <2>2. Pending(ns, s, Later, Coming(list, k - 1))
    BY <1>1
  <2>3. Pending(ns, checkEnabled(s, list[k]), Later, Coming(list, k))
    BY <2>1, <2>2, CheckOne
  <2>4. checkEnabled(s, list[k]) \in NetStates
    BY <2>3 DEF Pending, Good
  <2> QED
    BY <1>1, <2>3, <2>4
<1>4. OneByOne(checkEnabled, c, list) \in Inv[n]
  <2>1. \A k \in 1 .. Len(list) : \A s \in Inv[k-1] : checkEnabled(s, list[k]) \in Inv[k]
    BY <1>3
  <2> HIDE DEF Inv
  <2> QED
    BY <1>1, <1>2, <2>1, CheckLoop
<1>5. \A s \in Inv[n] : Pending(ns, s, Later, Coming(list, n))
  BY <1>1
<1>6. Coming(list, n) = {}
  BY ComingFacts
<1> HIDE DEF Inv, n
<1> QED
  BY <1>4, <1>5, <1>6

(* The flags are exact.                                                    *)
Exact(ns) == Good(ns) /\ \A u \in Transition : Right(ns, u)

LEMMA RepairedExact ==
  ASSUME NEW ns, NEW c, Repaired(ns, c, {})
  PROVE  Exact(c) /\ c.Current = ns.Current /\ c.HashCurrent = ns.HashCurrent
BY DEF Repaired, Exact

(***************************************************************************)
(* fire and updateEnabled, backfire and revertEnabled.                     *)
(***************************************************************************)

(* c is ns with another marking, and the flags have not been looked at.    *)
Moved(ns, c, m) ==
  /\ c \in NetStates /\ c.Current = m
  /\ c.Enabled = ns.Enabled /\ c.CardEnabled = ns.CardEnabled
  /\ c.Arc = ns.Arc /\ c.Disabled = ns.Disabled
  /\ c.PositionScapegoat = ns.PositionScapegoat

LEMMA MovedGood ==
  ASSUME NEW ns, Good(ns), NEW m, NEW c, Moved(ns, c, m)
  PROVE  Good(c) /\ DisabledOnes(c) = DisabledOnes(ns)
<1>1. DisabledOnes(c) = DisabledOnes(ns)
  BY DEF Moved, DisabledOnes
<1>2. Counted(c)
  BY DEF Good, Moved, Counted
<1>3. Listed(c, DisabledOnes(ns)) /\ ArcsPermuted(c)
  BY FlagsOnly DEF Moved, Good
<1> QED
  BY <1>1, <1>2, <1>3 DEF Good, Moved

(* Places that gain tokens may end a transition's disabledness, places     *)
(* that lose tokens its enabledness.                                       *)
LEMMA MovedPending ==
  ASSUME NEW ns, Exact(ns), NEW m, NEW c, Moved(ns, c, m),
         NEW L \in SUBSET Place, \A p \in Place : m[p] > ns.Current[p] => p \in L,
         NEW U, \A u \in Transition, p \in Place :
                  m[p] < ns.Current[p] /\ Pre[u][p] > 0 => u \in U
  PROVE  Pending(c, c, L, U)
<1>1. Good(c)
  BY MovedGood DEF Exact
<1>2. /\ ns.Current \in [Place -> Nat] /\ m \in [Place -> Nat]
      /\ c.Current = m /\ c.Enabled = ns.Enabled /\ c.Arc = ns.Arc
  BY <1>1, Typed DEF Exact, Good, Moved
<1>3. ASSUME NEW u \in Transition, ns.Enabled[u], u \notin U
      PROVE  Right(c, u)
  <2>1. \A p \in Place : ns.Current[p] >= Pre[u][p]
    BY <1>3 DEF Exact, Right, Enabled
  <2>2. \A p \in Place : m[p] >= Pre[u][p]
    <3> SUFFICES ASSUME NEW p \in Place PROVE m[p] >= Pre[u][p]
      OBVIOUS
    <3>1. m[p] \in Nat /\ ns.Current[p] \in Nat /\ Pre[u][p] \in Nat
      BY <1>2, NetAssumption
    <3>2. ns.Current[p] >= Pre[u][p] /\ (m[p] < ns.Current[p] => ~ (Pre[u][p] > 0))
      BY <1>3, <2>1
    <3> QED
      BY <3>1, <3>2
  <2> QED
    BY <2>2, <1>2, <1>3 DEF Right, Enabled
<1>4. ASSUME NEW u \in Transition, ~ ns.Enabled[u], ns.Arc[u][1] \notin L
      PROVE  Right(c, u)
  <2>1. PICK p : p = ns.Arc[u][1]
    OBVIOUS
  <2>2. ns.Current[p] < Pre[u][p]
    BY <1>4, <2>1 DEF Exact, Right
  <2>3. p \in Place
    <3>1. ns.Arc[u] # <<>> /\ ns.Arc[u] \in Seq(Place)
      BY <1>4, Typed DEF Exact, Good, Listed, DisabledOnes
    <3> QED
      BY <2>1, <3>1
  <2>4. m[p] \in Nat /\ ns.Current[p] \in Nat /\ Pre[u][p] \in Nat
    BY <1>2, <2>3, NetAssumption
  <2>5. m[p] < Pre[u][p]
    BY <1>4, <2>1, <2>2, <2>3, <2>4
  <2> QED
    BY <2>1, <2>5, <1>2, <1>4 DEF Right
<1>5. \A u \in Transition : c.Enabled[u] \in BOOLEAN
  BY <1>1, Typed DEF Good
<1> QED
  BY <1>1, <1>2, <1>3, <1>4, <1>5 DEF Pending

LEMMA DeltaInt ==
  ASSUME NEW t \in Transition, NEW p \in Place
  PROVE  Delta(t, p) \in Int /\ Pre[t][p] \in Nat /\ Post[t][p] \in Nat
<1>1. Pre[t][p] \in Nat /\ Post[t][p] \in Nat
  BY NetAssumption
<1> QED
  BY <1>1 DEF Delta

LEMMA UpdateExact ==
  ASSUME NEW ns, Exact(ns), NEW t \in Transition, NEW c, Moved(ns, c, Fire(ns.Current, t))
  PROVE  LET r == updateEnabled(c, t)
         IN  Exact(r) /\ r.Current = c.Current /\ r.HashCurrent = c.HashCurrent
<1> DEFINE m == Fire(ns.Current, t)
<1> DEFINE L == {p \in Place : Delta(t, p) > 0}
<1> DEFINE U == Consumers(PrePlaces(t))
<1>1. /\ ns.Current \in [Place -> Nat]
      /\ \A p \in Place : m[p] = ns.Current[p] + Delta(t, p)
  BY Typed DEF Exact, Good, Fire
<1>2. \A p \in Place : m[p] > ns.Current[p] => p \in L
  <2> SUFFICES ASSUME NEW p \in Place, m[p] > ns.Current[p] PROVE Delta(t, p) > 0
    OBVIOUS
  <2>1. ns.Current[p] \in Nat /\ Delta(t, p) \in Int /\ m[p] = ns.Current[p] + Delta(t, p)
    BY <1>1, DeltaInt
  <2> QED
    BY <2>1
<1>3. \A u \in Transition, p \in Place : m[p] < ns.Current[p] /\ Pre[u][p] > 0 => u \in U
  <2> SUFFICES ASSUME NEW u \in Transition, NEW p \in Place, m[p] < ns.Current[p], Pre[u][p] > 0
               PROVE  p \in PrePlaces(t)
    BY DEF Consumers
  <2>1. /\ ns.Current[p] \in Nat /\ Pre[t][p] \in Nat /\ Post[t][p] \in Nat
        /\ m[p] = ns.Current[p] + (Post[t][p] - Pre[t][p])
    BY <1>1, DeltaInt DEF Delta
  <2>2. Pre[t][p] > 0
    BY <2>1
  <2> QED
    BY <2>2 DEF PrePlaces
<1>4. L \in SUBSET Place /\ U \in SUBSET Transition
  BY DEF Consumers
<1>5. Lists(DeltaPost(t), L) /\ Lists(Conflicting(t), U)
  BY <1>4, OrderedLists DEF DeltaPost, Conflicting
<1> HIDE DEF L, U, m
<1>6. Pending(c, c, L, U)
  BY <1>2, <1>3, <1>4, MovedPending DEF m
<1>7. Pending(c, RecheckEnabled(c, Conflicting(t)), L, {})
  BY <1>4, <1>5, <1>6, RecheckKeeps
<1>8. Repaired(c, RecheckEnabled(c, Conflicting(t)), L)
  BY <1>7 DEF Pending, Repaired
<1>9. Repaired(c, updateEnabled(c, t), {})
  BY <1>4, <1>5, <1>8, ScanAllKeeps DEF updateEnabled
<1> QED
  BY <1>9, RepairedExact

LEMMA RevertExact ==
  ASSUME NEW ns, Exact(ns), NEW t \in Transition, NEW c, Moved(ns, c, Backfire(ns.Current, t))
  PROVE  LET r == revertEnabled(c, t)
         IN  Exact(r) /\ r.Current = c.Current /\ r.HashCurrent = c.HashCurrent
<1> DEFINE m == Backfire(ns.Current, t)
<1> DEFINE L == {p \in Place : Delta(t, p) < 0}
<1> DEFINE U == Consumers(PostPlaces(t))
<1>1. /\ ns.Current \in [Place -> Nat]
      /\ \A p \in Place : m[p] = ns.Current[p] - Delta(t, p)
  BY Typed DEF Exact, Good, Backfire
<1>2. \A p \in Place : m[p] > ns.Current[p] => p \in L
  <2> SUFFICES ASSUME NEW p \in Place, m[p] > ns.Current[p] PROVE Delta(t, p) < 0
    OBVIOUS
  <2>1. ns.Current[p] \in Nat /\ Delta(t, p) \in Int /\ m[p] = ns.Current[p] - Delta(t, p)
    BY <1>1, DeltaInt
  <2> QED
    BY <2>1
<1>3. \A u \in Transition, p \in Place : m[p] < ns.Current[p] /\ Pre[u][p] > 0 => u \in U
  <2> SUFFICES ASSUME NEW u \in Transition, NEW p \in Place, m[p] < ns.Current[p], Pre[u][p] > 0
               PROVE  p \in PostPlaces(t)
    BY DEF Consumers
  <2>1. /\ ns.Current[p] \in Nat /\ Pre[t][p] \in Nat /\ Post[t][p] \in Nat
        /\ m[p] = ns.Current[p] - (Post[t][p] - Pre[t][p])
    BY <1>1, DeltaInt DEF Delta
  <2>2. Post[t][p] > 0
    BY <2>1
  <2> QED
    BY <2>2 DEF PostPlaces
<1>4. L \in SUBSET Place /\ U \in SUBSET Transition
  BY DEF Consumers
<1>5. Lists(DeltaPre(t), L) /\ Lists(BackConflicting(t), U)
  BY <1>4, OrderedLists DEF DeltaPre, BackConflicting
<1> HIDE DEF L, U, m
<1>6. Pending(c, c, L, U)
  BY <1>2, <1>3, <1>4, MovedPending DEF m
<1>7. PICK d : d = RecheckEnabled(c, BackConflicting(t))
  OBVIOUS
<1>8. Pending(c, d, L, {})
  BY <1>4, <1>5, <1>6, <1>7, RecheckKeeps
<1>9. Pending(c, checkEnabled(d, t), L, {})
  <2>1. Pending(c, d, L, {} \union {t})
    BY <1>8, PendingLess
  <2> QED
    BY <2>1, CheckOne
<1>10. Repaired(c, checkEnabled(d, t), L)
  BY <1>9 DEF Pending, Repaired
<1>11. Repaired(c, revertEnabled(c, t), {})
  BY <1>4, <1>5, <1>7, <1>10, ScanAllKeeps DEF revertEnabled
<1> QED
  BY <1>11, RepairedExact

(* The check of all transitions makes the flags exact, whatever they and   *)
(* the lists were before.                                                  *)
LEMMA CheckAllExact ==
  ASSUME NEW ns, ns \in NetStates, ArcsPermuted(ns)
  PROVE  LET r == CheckAll(ns)
         IN  Exact(r) /\ r.Current = ns.Current /\ r.HashCurrent = ns.HashCurrent
<1>1. PICK E, D, n : /\ E = [t \in Transition |-> TRUE] /\ n = Cardinality(Transition)
                     /\ D = [p \in Place |-> <<>>]
  OBVIOUS
<1>2. PICK b : b = [ns EXCEPT !.Enabled = E, !.CardEnabled = n, !.Disabled = D]
  OBVIOUS
<1>3. E \in [Transition -> BOOLEAN] /\ D \in [Place -> Seq(Transition)] /\ n \in Int
  <2>1. n \in Nat
    BY <1>1, NetStateAssumption, FS_CardinalityType
  <2> QED
    BY <2>1, <1>1
<1>4. /\ b \in NetStates /\ b.Enabled = E /\ b.CardEnabled = n /\ b.Disabled = D
      /\ b.Current = ns.Current /\ b.HashCurrent = ns.HashCurrent /\ b.Arc = ns.Arc
  BY <1>2, <1>3 DEF NetStates
<1>5. DisabledOnes(b) = {} /\ {t \in Transition : b.Enabled[t]} = Transition
  BY <1>1, <1>4 DEF DisabledOnes
<1>6. Good(b)
  <2>1. Listed(b, {})
    BY <1>1, <1>4 DEF Listed
  <2>2. ArcsPermuted(b)
    BY <1>4 DEF ArcsPermuted
  <2>3. Counted(b)
    BY <1>1, <1>4, <1>5 DEF Counted
  <2> QED
    BY <2>1, <2>2, <2>3, <1>4, <1>5 DEF Good
<1>7. Pending(b, b, {}, Transition)
  BY <1>5, <1>6 DEF Pending
<1>8. Lists(Ordered(Transition), Transition)
  BY OrderedLists
<1>9. CheckAll(ns) = OneByOne(checkEnabled, b, Ordered(Transition))
  BY <1>1, <1>2 DEF CheckAll
<1>10. Pending(b, CheckAll(ns), {}, {})
  BY <1>7, <1>8, <1>9, CheckAllKeeps
<1>11. Repaired(b, CheckAll(ns), {})
  BY <1>10 DEF Pending, Repaired
<1> QED
  BY <1>4, <1>11, RepairedExact

(***************************************************************************)
(* Hash values.                                                            *)
(***************************************************************************)
Numbers == 0 .. Highest
Vectors == [Numbers -> Int]

Sums(v) == CHOOSE f : f = [k \in 0 .. Highest + 1 |-> IF k = 0 THEN 0 ELSE f[k-1] + v[k-1]]

(* The sum of a vector's entries.                                          *)
Total(v) == Sums(v)[Highest + 1]

LEMMA SumsSteps ==
  ASSUME NEW v \in Vectors
  PROVE  /\ Sums(v)[0] = 0
         /\ \A k \in 0 .. Highest + 1 : Sums(v)[k] \in Int
         /\ \A k \in 1 .. Highest + 1 : Sums(v)[k] = Sums(v)[k-1] + v[k-1]
<1> DEFINE n == Highest + 1
<1> DEFINE op == [k \in 1 .. n |-> [x \in Int |-> x + v[k-1]]]
<1> DEFINE Inv == [k \in 0 .. n |-> Int]
<1> DEFINE Is(f) == f = [k \in 0 .. n |-> IF k = 0 THEN 0 ELSE f[k-1] + v[k-1]]
<1>1. n \in Nat /\ \A k \in 1 .. n : v[k-1] \in Int
  <2>1. Highest \in Nat
    BY HighestBound
  <2>2. \A k \in 1 .. n : k - 1 \in Numbers
    BY <2>1 DEF Numbers
  <2> QED
    BY <2>1, <2>2 DEF Vectors
<1>2. \A k \in 1 .. n : \A x \in Inv[k-1] : op[k][x] \in Inv[k] /\ op[k][x] = x + v[k-1]
  <2> SUFFICES ASSUME NEW k \in 1 .. n, NEW x \in Inv[k-1]
               PROVE  op[k][x] \in Inv[k] /\ op[k][x] = x + v[k-1]
    OBVIOUS
  <2>1. k - 1 \in 0 .. n /\ k \in 0 .. n /\ x \in Int
    BY <1>1
  <2> QED
    BY <2>1, <1>1
<1>3. 0 \in Inv[0] /\ \A k \in 0 .. n : Inv[k] = Int
  BY <1>1
<1> HIDE DEF op, Inv, n
<1>4. PICK g : IsLoop(g, 0, op, n) /\ \A k \in 0 .. n : g[k] \in Inv[k]
  <2>1. \A k \in 1 .. n : \A x \in Inv[k-1] : op[k][x] \in Inv[k]
    BY <1>2
  <2>2. n \in Nat /\ 0 \in Inv[0]
    BY <1>1, <1>3
  <2> QED
    BY <2>1, <2>2, LoopKeeps
<1>5. Is(g)
  <2>1. g = [k \in 0 .. n |-> IF k = 0 THEN 0 ELSE op[k][g[k-1]]]
    BY <1>4 DEF IsLoop
  <2>2. \A k \in 0 .. n : g[k] = IF k = 0 THEN 0 ELSE g[k-1] + v[k-1]
    <3> HIDE DEF Is
    <3> SUFFICES ASSUME NEW k \in 0 .. n, k # 0 PROVE g[k] = g[k-1] + v[k-1]
      BY <2>1
    <3>1. k \in 1 .. n /\ k - 1 \in 0 .. n
      BY <1>1
    <3> QED
      BY <2>1, <3>1, <1>2, <1>4
  <2>3. g = [k \in 0 .. n |-> g[k]]
    BY <2>1
  <2> QED
    BY <2>2, <2>3
<1> DEFINE f == CHOOSE f : Is(f)
<1>6. Is(f)
  BY <1>5
<1>7. Sums(v) = f
  BY DEF Sums, n
<1> HIDE DEF f
<1>8. \A k \in 0 .. n : f[k] = IF k = 0 THEN 0 ELSE f[k-1] + v[k-1]
  BY <1>6
<1> HIDE DEF Is
<1>9. \A k \in 1 .. n : f[k] = f[k-1] + v[k-1]
  BY <1>1, <1>8
<1>10. f[0] = 0
  BY <1>1, <1>8
<1> DEFINE T == {k \in 0 .. n : f[k] \in Int}
<1>11. 0 \in T
  BY <1>1, <1>10
<1>12. \A k \in 1 .. n : k - 1 \in T => k \in T
  BY <1>1, <1>9
<1> HIDE DEF T
<1>13. \A k \in 0 .. n : k \in T
  BY <1>1, <1>11, <1>12, Climb
<1> QED
  BY <1>7, <1>9, <1>10, <1>13 DEF T, n

LEMMA TotalInt ==
  ASSUME NEW v \in Vectors
  PROVE  Total(v) \in Int
<1>1. Highest + 1 \in 0 .. Highest + 1
  BY HighestBound
<1> QED
  BY <1>1, SumsSteps DEF Total

LEMMA TotalAdds ==
  ASSUME NEW u \in Vectors, NEW v \in Vectors, NEW w \in Vectors,
         \A i \in Numbers : w[i] = u[i] + v[i]
  PROVE  Total(w) = Total(u) + Total(v)
<1> DEFINE n == Highest + 1
<1> DEFINE T == {k \in 0 .. n : Sums(w)[k] = Sums(u)[k] + Sums(v)[k]}
<1>1. n \in Nat /\ \A k \in 1 .. n : k - 1 \in Numbers /\ k \in 0 .. n /\ k - 1 \in 0 .. n
  BY HighestBound DEF Numbers
<1>2. 0 \in T
  BY <1>1, SumsSteps
<1>3. ASSUME NEW k \in 1 .. n, k - 1 \in T PROVE k \in T
  <2>1. PICK a, b, c : a = Sums(u)[k-1] /\ b = Sums(v)[k-1] /\ c = Sums(w)[k-1]
    OBVIOUS
  <2>2. a \in Int /\ b \in Int /\ c \in Int
    BY <1>1, <2>1, SumsSteps
  <2>3. c = a + b
    BY <1>3, <2>1
  <2>4. u[k-1] \in Int /\ v[k-1] \in Int /\ w[k-1] = u[k-1] + v[k-1]
    BY <1>1 DEF Vectors
  <2>5. Sums(u)[k] = a + u[k-1] /\ Sums(v)[k] = b + v[k-1] /\ Sums(w)[k] = c + w[k-1]
    BY <2>1, SumsSteps
  <2>6. c + w[k-1] = (a + u[k-1]) + (b + v[k-1])
    BY <2>2, <2>3, <2>4
  <2> QED
    BY <1>1, <2>5, <2>6
<1> HIDE DEF T, n
<1>4. \A k \in 0 .. n : k \in T
  BY <1>1, <1>2, <1>3, Climb
<1>5. n \in T
  BY <1>1, <1>4
<1> QED
  BY <1>5 DEF T, n, Total

LEMMA TotalSingle ==
  ASSUME NEW v \in Vectors, NEW i \in Numbers, \A j \in Numbers : j # i => v[j] = 0
  PROVE  Total(v) = v[i]
<1> DEFINE n == Highest + 1
<1> DEFINE T == {k \in 0 .. n : Sums(v)[k] = IF k > i THEN v[i] ELSE 0}
<1>1. /\ n \in Nat /\ i \in Nat /\ i < n
      /\ \A k \in 1 .. n : k - 1 \in Numbers /\ k \in 0 .. n /\ k - 1 \in 0 .. n
  BY HighestBound DEF Numbers
<1>2. 0 \in T
  BY <1>1, SumsSteps
<1>3. ASSUME NEW k \in 1 .. n, k - 1 \in T PROVE k \in T
  <2>1. PICK a : a = Sums(v)[k-1]
    OBVIOUS
  <2>2. a = IF k - 1 > i THEN v[i] ELSE 0
    BY <1>3, <2>1
  <2>3. v[i] \in Int /\ (k - 1 # i => v[k-1] = 0)
    BY <1>1 DEF Vectors
  <2>4. Sums(v)[k] = a + v[k-1]
    BY <2>1, SumsSteps
  <2>5. a + v[k-1] = IF k > i THEN v[i] ELSE 0
    <3>1. CASE k - 1 = i
      <4>1. a = 0 /\ v[k-1] = v[i] /\ k > i
        BY <1>1, <2>2, <3>1
      <4> QED
        BY <2>3, <4>1
    <3>2. CASE k - 1 > i
      <4>1. a = v[i] /\ v[k-1] = 0 /\ k > i
        BY <1>1, <2>2, <2>3, <3>2
      <4> QED
        BY <2>3, <4>1
    <3>3. CASE k - 1 < i
      <4>1. a = 0 /\ v[k-1] = 0 /\ ~ (k > i)
        BY <1>1, <2>2, <2>3, <3>3
      <4> QED
        BY <4>1
    <3> QED
      BY <1>1, <3>1, <3>2, <3>3
  <2> QED
    BY <1>1, <2>4, <2>5
<1> HIDE DEF T, n
<1>4. \A k \in 0 .. n : k \in T
  BY <1>1, <1>2, <1>3, Climb
<1>5. n \in T
  BY <1>1, <1>4
<1> QED
  BY <1>1, <1>5 DEF T, n, Total

LEMMA TotalZero ==
  ASSUME NEW v \in Vectors, \A i \in Numbers : v[i] = 0
  PROVE  Total(v) = 0
<1>1. Total(v) = Total(v) + Total(v)
  <2>1. \A i \in Numbers : v[i] = v[i] + v[i]
    OBVIOUS
  <2> QED
    BY <2>1, TotalAdds
<1> QED
  BY <1>1, TotalInt

(* Remainders.                                                             *)
Congruent(a, b) == \E q \in Int : a = b + q * SIZEOF_MARKINGTABLE

LEMMA Congruences ==
  /\ \A a \in Int : Congruent(a, a)
  /\ \A a, b, c \in Int : Congruent(a, b) /\ Congruent(b, c) => Congruent(a, c)
  /\ \A a, b \in Int : Congruent(a, b) => Congruent(b, a)
  /\ \A a, b, c, d \in Int : Congruent(a, b) /\ Congruent(c, d) => Congruent(a + c, b + d)
  /\ \A a, b \in 0 .. SIZEOF_MARKINGTABLE - 1 : Congruent(a, b) => a = b
<1> DEFINE s == SIZEOF_MARKINGTABLE
<1>0. s \in Int /\ s > 0
  BY NetStateAssumption
<1>1. \A a \in Int : Congruent(a, a)
  <2> SUFFICES ASSUME NEW a \in Int PROVE a = a + 0 * s
    BY DEF Congruent
  <2> QED
    BY <1>0
<1>2. ASSUME NEW a \in Int, NEW b \in Int, NEW c \in Int, Congruent(a, b), Congruent(b, c)
      PROVE  Congruent(a, c)
  <2>1. PICK q \in Int : a = b + q * s
    BY <1>2 DEF Congruent
  <2>2. PICK r \in Int : b = c + r * s
    BY <1>2 DEF Congruent
  <2>3. a = c + (r + q) * s
    BY <1>0, <2>1, <2>2
  <2>4. r + q \in Int
    OBVIOUS
  <2> QED
    BY <2>3, <2>4 DEF Congruent
<1>3. ASSUME NEW a \in Int, NEW b \in Int, Congruent(a, b) PROVE Congruent(b, a)
  <2>1. PICK q \in Int : a = b + q * s
    BY <1>3 DEF Congruent
  <2>2. b = a + (- q) * s
    BY <1>0, <2>1
  <2>3. - q \in Int
    OBVIOUS
  <2> QED
    BY <2>2, <2>3 DEF Congruent
<1>4. ASSUME NEW a \in Int, NEW b \in Int, NEW c \in Int, NEW d \in Int,
             Congruent(a, b), Congruent(c, d)
      PROVE  Congruent(a + c, b + d)
  <2>1. PICK q \in Int : a = b + q * s
    BY <1>4 DEF Congruent
  <2>2. PICK r \in Int : c = d + r * s
    BY <1>4 DEF Congruent
  <2>3. a + c = (b + d) + (q + r) * s
    BY <1>0, <2>1, <2>2
  <2>4. q + r \in Int
    OBVIOUS
  <2> QED
    BY <2>3, <2>4 DEF Congruent
<1>5. ASSUME NEW a \in 0 .. s - 1, NEW b \in 0 .. s - 1, Congruent(a, b) PROVE a = b
  <2>1. PICK q \in Int : a = b + q * s
    BY <1>5 DEF Congruent
  <2>2. CASE q >= 1
    <3>1. q * s >= s
      BY <1>0, <2>2
    <3>2. q * s \in Int
      BY <1>0
    <3> QED
      BY <1>0, <2>1, <3>1, <3>2
  <2>3. CASE q <= -1
    <3>1. q * s <= - s
      BY <1>0, <2>3
    <3>2. q * s \in Int
      BY <1>0
    <3> QED
      BY <1>0, <2>1, <3>1, <3>2
  <2>4. CASE q = 0
    BY <1>0, <2>1, <2>4
  <2> QED
    BY <2>2, <2>3, <2>4
<1> QED
  BY <1>1, <1>2, <1>3, <1>4, <1>5

LEMMA Remainders ==
  ASSUME NEW a \in Int
  PROVE  LET r == CRem(a, SIZEOF_MARKINGTABLE)
         IN  /\ r \in Int /\ Congruent(r, a)
             /\ - SIZEOF_MARKINGTABLE < r /\ r < SIZEOF_MARKINGTABLE
             /\ a >= 0 => r \in 0 .. SIZEOF_MARKINGTABLE - 1
<1> DEFINE s == SIZEOF_MARKINGTABLE
<1>0. s \in Int /\ s > 0
  BY NetStateAssumption
<1>1. ASSUME NEW b \in Int
      PROVE  /\ b % s \in Int /\ 0 <= b % s /\ b % s < s
             /\ b \div s \in Int /\ b = (b \div s) * s + (b % s)
  BY <1>0
<1>2. CASE a >= 0
  <2>1. CRem(a, s) = a % s
    BY <1>2 DEF CRem
  <2>2. a % s = a + (- (a \div s)) * s
    BY <1>0, <1>1
  <2>3. - (a \div s) \in Int
    BY <1>1
  <2>4. Congruent(CRem(a, s), a)
    BY <2>1, <2>2, <2>3 DEF Congruent
  <2>5. /\ CRem(a, s) \in Int /\ - s < CRem(a, s) /\ CRem(a, s) < s
        /\ CRem(a, s) \in 0 .. s - 1
    BY <1>0, <1>1, <2>1
  <2> QED
    BY <2>4, <2>5
<1>3. CASE a < 0
  <2>0. - a \in Int
    OBVIOUS
  <2>1. CRem(a, s) = - ((- a) % s)
    BY <1>3 DEF CRem
  <2>2. - ((- a) % s) = a + ((- a) \div s) * s
    <3>1. PICK x, y : x = (- a) % s /\ y = ((- a) \div s) * s
      OBVIOUS
    <3>2. x \in Int /\ y \in Int /\ - a = y + x
      BY <1>0, <1>1, <2>0, <3>1
    <3>3. - x = a + y
      BY <3>2
    <3> QED
      BY <3>1, <3>3
  <2>3. (- a) \div s \in Int
    BY <1>1, <2>0
  <2>4. Congruent(CRem(a, s), a)
    BY <2>1, <2>2, <2>3 DEF Congruent
  <2>5. CRem(a, s) \in Int /\ - s < CRem(a, s) /\ CRem(a, s) < s
    BY <1>0, <1>1, <2>0, <2>1
  <2> QED
    BY <1>3, <2>4, <2>5
<1> QED
  BY <1>2, <1>3

(* The hash value is h and the sum of the weighted hash values, each list  *)
(* entry once, whatever the order.                                         *)
LEMMA HashSumTotal ==
  ASSUME NEW P \in SUBSET Place, NEW list, Lists(list, P), NEW w \in [Place -> Int],
         NEW h \in Int, NEW v \in Vectors,
         \A i \in Numbers : v[i] = IF i \in P THEN w[i] * Hash[i] ELSE 0
  PROVE  /\ HashSum(h, list, w) \in Int
         /\ Congruent(HashSum(h, list, w), h + Total(v))
<1> DEFINE n == Len(list)
<1> DEFINE Taken(k) == {list[m] : m \in 1 .. k}
<1> DEFINE Vec == [k \in 0 .. n |-> [i \in Numbers |-> IF i \in Taken(k) THEN w[i] * Hash[i] ELSE 0]]
<1> DEFINE Inv == [k \in 0 .. n |-> {x \in Int : Congruent(x, h + Total(Vec[k]))}]
<1>1. /\ n \in Nat
      /\ \A i \in 1 .. n : list[i] \in P
      /\ \A x \in P : \E i \in 1 .. n : list[i] = x
      /\ \A i, j \in 1 .. n : list[i] = list[j] => i = j
  <2>1. /\ list \in Seq(P)
        /\ \A x \in P : \E i \in 1 .. n : list[i] = x
        /\ \A i, j \in 1 .. n : list[i] = list[j] => i = j
    BY DEF Lists
  <2>2. n \in Nat /\ \A i \in 1 .. n : list[i] \in P
    BY <2>1
  <2> QED
    BY <2>1, <2>2
<1>2. /\ P \subseteq Numbers
      /\ \A p \in P : w[p] \in Int /\ Hash[p] \in Nat /\ w[p] * Hash[p] \in Int
  <2>1. P \subseteq Numbers
    BY HighestBound, NetStateAssumption DEF Numbers
  <2>2. \A p \in P : w[p] \in Int /\ Hash[p] \in Nat
    BY NetStateAssumption
  <2> QED
    BY <2>1, <2>2
<1>3. \A k \in 0 .. n : Taken(k) \subseteq P
  BY <1>1
<1>4. \A k \in 0 .. n : Vec[k] \in Vectors
  <2> SUFFICES ASSUME NEW k \in 0 .. n PROVE Vec[k] \in Vectors
    OBVIOUS
  <2>1. Taken(k) \subseteq P
    BY <1>3
  <2> HIDE DEF Taken
  <2>2. \A i \in Numbers : (IF i \in Taken(k) THEN w[i] * Hash[i] ELSE 0) \in Int
    BY <2>1, <1>2
  <2>3. Vec[k] = [i \in Numbers |-> IF i \in Taken(k) THEN w[i] * Hash[i] ELSE 0]
    OBVIOUS
  <2> QED
    BY <2>2, <2>3 DEF Vectors
<1>a. \A k \in 0 .. n, i \in Numbers :
        Vec[k][i] = IF i \in Taken(k) THEN w[i] * Hash[i] ELSE 0
  OBVIOUS
<1>b. \A k \in 0 .. n : \A x : x \in Inv[k] <=> x \in Int /\ Congruent(x, h + Total(Vec[k]))
  OBVIOUS
<1>c. 0 \in 0 .. n /\ \A k \in 1 .. n : k - 1 \in 0 .. n /\ k \in 0 .. n
  BY <1>1
<1> HIDE DEF Inv, Vec
<1>5. h \in Inv[0]
  <2>1. \A i \in Numbers : Vec[0][i] = 0
    BY <1>a, <1>c
  <2>2. Vec[0] \in Vectors
    BY <1>c, <1>4
  <2>3. Total(Vec[0]) = 0
    BY <2>1, <2>2, TotalZero
  <2>4. Congruent(h, h + Total(Vec[0]))
    BY <2>3, Congruences
  <2> QED
    BY <1>b, <1>c, <2>4
<1>6. ASSUME NEW k \in 1 .. n, NEW x \in Inv[k-1]
      PROVE  CRem(x + w[list[k]] * Hash[list[k]], SIZEOF_MARKINGTABLE) \in Inv[k]
  <2>1. k - 1 \in 0 .. n /\ k \in 0 .. n /\ list[k] \in P
    BY <1>1, <1>c
  <2>2. PICK a : a = w[list[k]] * Hash[list[k]]
    OBVIOUS
  <2>3. a \in Int /\ list[k] \in Numbers
    BY <1>2, <2>1, <2>2
  <2>4. Taken(k) = Taken(k - 1) \union {list[k]} /\ list[k] \notin Taken(k - 1)
    BY <1>1, <2>1
  <2>5. /\ \A i \in Numbers : Vec[k-1][i] = IF i \in Taken(k - 1) THEN w[i] * Hash[i] ELSE 0
        /\ \A i \in Numbers : Vec[k][i] = IF i \in Taken(k) THEN w[i] * Hash[i] ELSE 0
    BY <2>1, <1>a
  <2> HIDE DEF Taken, n
  <2>6. PICK s : s = [i \in Numbers |-> IF i = list[k] THEN a ELSE 0]
    OBVIOUS
  <2>7. s \in Vectors /\ s[list[k]] = a /\ \A i \in Numbers : i # list[k] => s[i] = 0
    <3>1. \A i \in Numbers : (IF i = list[k] THEN a ELSE 0) \in Int
      BY <2>3
    <3>2. s \in Vectors
      BY <3>1, <2>6 DEF Vectors
    <3> QED
      BY <3>2, <2>3, <2>6
  <2>8. PICK y, z : y = Vec[k-1] /\ z = Vec[k]
    OBVIOUS
  <2>9. y \in Vectors /\ z \in Vectors
    BY <1>4, <2>1, <2>8
  <2>10. x \in Int /\ Congruent(x, h + Total(y))
    BY <1>b, <2>1, <2>8
  <2>11. \A i \in Numbers : z[i] = y[i] + s[i]
    <3> SUFFICES ASSUME NEW i \in Numbers PROVE z[i] = y[i] + s[i]
      OBVIOUS
    <3>1. /\ y[i] = IF i \in Taken(k - 1) THEN w[i] * Hash[i] ELSE 0
          /\ z[i] = IF i \in Taken(k) THEN w[i] * Hash[i] ELSE 0
      BY <2>5, <2>8
    <3>2. y[i] \in Int /\ z[i] \in Int /\ s[i] \in Int
      BY <2>7, <2>9 DEF Vectors
    <3>3. CASE i = list[k]
      <4>1. y[i] = 0 /\ z[i] = a /\ s[i] = a
        BY <2>2, <2>4, <2>7, <3>1, <3>3
      <4>2. a = 0 + a
        BY <2>3
      <4> QED
        BY <4>1, <4>2
    <3>4. CASE i # list[k]
      <4>1. z[i] = y[i] /\ s[i] = 0
        BY <2>4, <2>7, <3>1, <3>4
      <4>2. y[i] = y[i] + 0
        BY <3>2
      <4> QED
        BY <4>1, <4>2
    <3> QED
      BY <3>3, <3>4
  <2>12. Total(z) = Total(y) + a
    <3>1. Total(z) = Total(y) + Total(s)
      BY <2>7, <2>9, <2>11, TotalAdds
    <3>2. Total(s) = a
      BY <2>3, <2>7, TotalSingle
    <3> QED
      BY <3>1, <3>2
  <2>13. Total(y) \in Int /\ Total(z) \in Int
    BY <2>9, TotalInt
  <2>14. Congruent(x + a, h + Total(z))
    <3>1. PICK q \in Int : x = (h + Total(y)) + q * SIZEOF_MARKINGTABLE
      BY <2>10 DEF Congruent
    <3>2. PICK e : e = q * SIZEOF_MARKINGTABLE
      OBVIOUS
    <3>3. e \in Int
      BY <3>2, NetStateAssumption
    <3>4. x + a = (h + Total(z)) + e
      BY <2>3, <2>12, <2>13, <3>1, <3>2, <3>3
    <3> QED
      BY <3>2, <3>4 DEF Congruent
  <2>15. PICK r : r = CRem(x + a, SIZEOF_MARKINGTABLE)
    OBVIOUS
  <2>16. x + a \in Int /\ h + Total(z) \in Int
    BY <2>3, <2>10, <2>13
  <2>17. r \in Int /\ Congruent(r, x + a)
    BY <2>15, <2>16, Remainders
  <2>18. Congruent(r, h + Total(z))
    BY <2>14, <2>16, <2>17, Congruences
  <2> QED
    BY <1>b, <2>1, <2>2, <2>8, <2>15, <2>17, <2>18
<1>7. HashSum(h, list, w) \in Inv[n]
  <2>1. \A k \in 1 .. Len(list) : \A x \in Inv[k-1] :
          CRem(x + w[list[k]] * Hash[list[k]], SIZEOF_MARKINGTABLE) \in Inv[k]
    BY <1>6
  <2>2. Len(list) \in Nat
    BY <1>1
  <2> QED
    BY <1>5, <2>1, <2>2, HashLoop
<1>8. Total(Vec[n]) = Total(v)
  <2>1. n \in 0 .. n
    BY <1>1
  <2>2. Taken(n) = P
    BY <1>1
  <2> HIDE DEF Taken
  <2>3. Vec[n] \in Vectors /\ \A i \in Numbers : Vec[n][i] = v[i]
    BY <1>4, <1>a, <2>1, <2>2
  <2>4. Vec[n] = v
    BY <2>3 DEF Vectors
  <2> QED
    BY <2>4
<1>9. n \in 0 .. n
  BY <1>1
<1> QED
  BY <1>7, <1>8, <1>9, <1>b

(* The hash value of a marking ...                                         *)
Weights(w, P) == [i \in Numbers |-> IF i \in P THEN w[i] * Hash[i] ELSE 0]

LEMMA WeightsVector ==
  ASSUME NEW P \in SUBSET Place, NEW w \in [Place -> Int]
  PROVE  Weights(w, P) \in Vectors
<1>1. \A i \in Numbers : (IF i \in P THEN w[i] * Hash[i] ELSE 0) \in Int
  <2> SUFFICES ASSUME NEW i \in P PROVE w[i] * Hash[i] \in Int
    OBVIOUS
  <2>1. w[i] \in Int /\ Hash[i] \in Int
    BY NetStateAssumption
  <2> QED
    BY <2>1
<1> QED
  BY <1>1 DEF Weights, Vectors

LEMMA HashOfTotal ==
  ASSUME NEW m \in [Place -> Nat]
  PROVE  /\ HashOf(m) \in 0 .. SIZEOF_MARKINGTABLE - 1
         /\ Congruent(HashOf(m), Total(Weights(m, Place)))
<1> DEFINE list == Ordered(Place)
<1> DEFINE v == Weights(m, Place)
<1>1. Lists(list, Place)
  BY OrderedLists
<1>2. m \in [Place -> Int]
  OBVIOUS
<1>3. v \in Vectors /\ Total(v) \in Int
  BY <1>2, WeightsVector, TotalInt
<1>4. \A i \in Numbers : v[i] = IF i \in Place THEN m[i] * Hash[i] ELSE 0
  BY DEF Weights
<1> HIDE DEF v
<1>5. HashSum(0, list, m) \in Int /\ Congruent(HashSum(0, list, m), 0 + Total(v))
  <2> HIDE DEF list
  <2> QED
    BY <1>1, <1>2, <1>3, <1>4, HashSumTotal
<1>6. HashSum(0, list, m) \in 0 .. SIZEOF_MARKINGTABLE - 1
  <2> DEFINE Inv == [k \in 0 .. Len(list) |-> 0 .. SIZEOF_MARKINGTABLE - 1]
  <2>1. Len(list) \in Nat /\ \A k \in 1 .. Len(list) : list[k] \in Place
    <3>1. list \in Seq(Place)
      BY <1>1 DEF Lists
    <3> HIDE DEF list
    <3> QED
      BY <3>1
  <2>2. \A k \in 0 .. Len(list) : Inv[k] = 0 .. SIZEOF_MARKINGTABLE - 1
    OBVIOUS
  <2> HIDE DEF Inv, list
  <2>3. 0 \in Inv[0]
    BY <2>1, <2>2, NetStateAssumption
  <2>4. ASSUME NEW k \in 1 .. Len(list), NEW x \in Inv[k-1]
        PROVE  CRem(x + m[list[k]] * Hash[list[k]], SIZEOF_MARKINGTABLE) \in Inv[k]
    <3>1. k - 1 \in 0 .. Len(list) /\ k \in 0 .. Len(list)
      BY <2>1
    <3>2. x \in 0 .. SIZEOF_MARKINGTABLE - 1
      BY <2>2, <3>1
    <3>3. PICK a : a = m[list[k]] * Hash[list[k]]
      OBVIOUS
    <3>4. m[list[k]] \in Nat /\ Hash[list[k]] \in Nat
      BY <2>1, NetStateAssumption
    <3>5. a \in Nat
      BY <3>3, <3>4
    <3>6. x + a \in Int /\ x + a >= 0
      BY <3>2, <3>5, NetStateAssumption
    <3>7. CRem(x + a, SIZEOF_MARKINGTABLE) \in 0 .. SIZEOF_MARKINGTABLE - 1
      BY <3>6, Remainders
    <3> QED
      BY <2>2, <3>1, <3>3, <3>7
  <2>5. HashSum(0, list, m) \in Inv[Len(list)]
    <3>1. \A k \in 1 .. Len(list) : \A x \in Inv[k-1] :
            CRem(x + m[list[k]] * Hash[list[k]], SIZEOF_MARKINGTABLE) \in Inv[k]
      BY <2>4
    <3> QED
      BY <2>1, <2>3, <3>1, HashLoop
  <2>6. Len(list) \in 0 .. Len(list)
    BY <2>1
  <2> QED
    BY <2>2, <2>5, <2>6
<1>7. 0 + Total(v) = Total(v)
  BY <1>3
<1> QED
  BY <1>5, <1>6, <1>7 DEF HashOf, v

(* ... and its change when a transition fires.                             *)
LEMMA DeltaHashTotal ==
  ASSUME NEW t \in Transition, NEW d, d = [p \in Place |-> Delta(t, p)]
  PROVE  /\ d \in [Place -> Int] /\ DeltaHash(t) \in Int
         /\ Congruent(DeltaHash(t), Total(Weights(d, Place)))
<1> DEFINE A == {p \in Place : Delta(t, p) < 0}
<1> DEFINE B == {p \in Place : Delta(t, p) > 0}
<1>1. d \in [Place -> Int]
  BY DeltaInt
<1>2. A \in SUBSET Place /\ B \in SUBSET Place
  OBVIOUS
<1>3. Lists(DeltaPre(t), A) /\ Lists(DeltaPost(t), B)
  BY OrderedLists DEF DeltaPre, DeltaPost
<1>4. PICK a, b, v : a = Weights(d, A) /\ b = Weights(d, B) /\ v = Weights(d, Place)
  OBVIOUS
<1>5. a \in Vectors /\ b \in Vectors /\ v \in Vectors
  BY <1>1, <1>2, <1>4, WeightsVector
<1>6. Total(v) = Total(a) + Total(b)
  <2>1. ASSUME NEW i \in Numbers PROVE v[i] = a[i] + b[i]
    <3>1. /\ a[i] = IF i \in A THEN d[i] * Hash[i] ELSE 0
          /\ b[i] = IF i \in B THEN d[i] * Hash[i] ELSE 0
          /\ v[i] = IF i \in Place THEN d[i] * Hash[i] ELSE 0
      BY <1>4 DEF Weights
    <3>2. a[i] \in Int /\ b[i] \in Int /\ v[i] \in Int
      BY <1>5 DEF Vectors
    <3>3. CASE i \notin Place
      BY <3>1, <3>3
    <3>4. CASE i \in Place /\ Delta(t, i) < 0
      <4>1. i \in A /\ i \notin B
        BY <3>4, DeltaInt
      <4>2. v[i] = a[i] /\ b[i] = 0
        BY <3>1, <3>4, <4>1
      <4> QED
        BY <3>2, <4>2
    <3>5. CASE i \in Place /\ Delta(t, i) > 0
      <4>1. i \notin A /\ i \in B
        BY <3>5, DeltaInt
      <4>2. v[i] = b[i] /\ a[i] = 0
        BY <3>1, <3>5, <4>1
      <4> QED
        BY <3>2, <4>2
    <3>6. CASE i \in Place /\ Delta(t, i) = 0
      <4>1. i \notin A /\ i \notin B /\ d[i] = 0
        BY <3>6
      <4>2. Hash[i] \in Int
        BY <3>6, NetStateAssumption
      <4>3. d[i] * Hash[i] = 0
        BY <4>1, <4>2
      <4> QED
        BY <3>1, <3>6, <4>1, <4>3
    <3> QED
      BY <3>3, <3>4, <3>5, <3>6, DeltaInt
  <2> QED
    BY <2>1, <1>5, TotalAdds
<1>7. Total(a) \in Int /\ Total(b) \in Int
  BY <1>5, TotalInt
<1> HIDE DEF A, B
<1>8. PICK h : h = HashSum(0, DeltaPre(t), d)
  OBVIOUS
<1>9. h \in Int /\ Congruent(h, 0 + Total(a))
  <2>1. \A i \in Numbers : a[i] = IF i \in A THEN d[i] * Hash[i] ELSE 0
    BY <1>4 DEF Weights
  <2> QED
    <3>1. 0 \in Int
      OBVIOUS
    <3> QED
      BY <2>1, <3>1, <1>1, <1>2, <1>3, <1>5, <1>8, HashSumTotal
<1>10. HashSum(h, DeltaPost(t), d) \in Int /\ Congruent(HashSum(h, DeltaPost(t), d), h + Total(b))
  <2>1. \A i \in Numbers : b[i] = IF i \in B THEN d[i] * Hash[i] ELSE 0
    BY <1>4 DEF Weights
  <2> QED
    BY <2>1, <1>1, <1>2, <1>3, <1>5, <1>9, HashSumTotal
<1>11. DeltaHash(t) = HashSum(h, DeltaPost(t), d)
  BY <1>8 DEF DeltaHash
<1>12. Congruent(h + Total(b), Total(v))
  <2>1. Congruent(h, Total(a))
    <3>1. 0 + Total(a) = Total(a)
      BY <1>7
    <3> QED
      BY <3>1, <1>9
  <2>2. Congruent(h + Total(b), Total(a) + Total(b))
    BY <2>1, <1>7, <1>9, Congruences
  <2> QED
    BY <2>2, <1>6
<1>13. h + Total(b) \in Int /\ Total(v) \in Int
  BY <1>5, <1>7, <1>9, TotalInt
<1>14. Congruent(DeltaHash(t), Total(v))
  BY <1>10, <1>11, <1>12, <1>13, Congruences
<1> QED
  BY <1>1, <1>4, <1>10, <1>11, <1>14

LEMMA HashStep ==
  ASSUME NEW m \in [Place -> Nat], NEW r \in [Place -> Nat], NEW t \in Transition,
         \A p \in Place : r[p] = m[p] + Delta(t, p)
  PROVE  Congruent(HashOf(r), HashOf(m) + DeltaHash(t))
<1>1. PICK d : d = [p \in Place |-> Delta(t, p)]
  OBVIOUS
<1>2. PICK u, v, x : u = Weights(m, Place) /\ v = Weights(r, Place) /\ x = Weights(d, Place)
  OBVIOUS
<1>3. m \in [Place -> Int] /\ r \in [Place -> Int] /\ d \in [Place -> Int]
  BY <1>1, DeltaHashTotal
<1>4. u \in Vectors /\ v \in Vectors /\ x \in Vectors
  BY <1>2, <1>3, WeightsVector
<1>5. Total(v) = Total(u) + Total(x)
  <2>1. ASSUME NEW i \in Numbers PROVE v[i] = u[i] + x[i]
    <3>1. /\ u[i] = IF i \in Place THEN m[i] * Hash[i] ELSE 0
          /\ v[i] = IF i \in Place THEN r[i] * Hash[i] ELSE 0
          /\ x[i] = IF i \in Place THEN d[i] * Hash[i] ELSE 0
      BY <1>2 DEF Weights
    <3>2. CASE i \notin Place
      BY <3>1, <3>2
    <3>3. CASE i \in Place
      <4>1. PICK a, b, c, h : a = m[i] /\ b = d[i] /\ c = r[i] /\ h = Hash[i]
        OBVIOUS
      <4>2. a \in Int /\ b \in Int /\ h \in Int
        BY <3>3, <4>1, <1>3, NetStateAssumption
      <4>3. c = a + b
        BY <3>3, <4>1, <1>1
      <4>4. c * h = a * h + b * h
        BY <4>2, <4>3
      <4> QED
        BY <3>1, <3>3, <4>1, <4>4
    <3> QED
      BY <3>2, <3>3
  <2> QED
    BY <2>1, <1>4, TotalAdds
<1>6. Total(u) \in Int /\ Total(v) \in Int /\ Total(x) \in Int
  BY <1>4, TotalInt
<1>7. /\ HashOf(m) \in Int /\ HashOf(r) \in Int /\ DeltaHash(t) \in Int
      /\ Congruent(HashOf(m), Total(u)) /\ Congruent(HashOf(r), Total(v))
      /\ Congruent(DeltaHash(t), Total(x))
  <2>1. HashOf(m) \in 0 .. SIZEOF_MARKINGTABLE - 1 /\ HashOf(r) \in 0 .. SIZEOF_MARKINGTABLE - 1
    BY HashOfTotal
  <2>2. Congruent(HashOf(m), Total(u)) /\ Congruent(HashOf(r), Total(v))
    BY <1>2, HashOfTotal
  <2>3. DeltaHash(t) \in Int /\ Congruent(DeltaHash(t), Total(x))
    BY <1>1, <1>2, DeltaHashTotal
  <2>4. HashOf(m) \in Int /\ HashOf(r) \in Int
    BY <2>1
  <2> QED
    BY <2>2, <2>3, <2>4
<1>8. Congruent(HashOf(m) + DeltaHash(t), Total(v))
  BY <1>5, <1>6, <1>7, Congruences
<1>9. HashOf(m) + DeltaHash(t) \in Int
  BY <1>7
<1>10. Congruent(Total(v), HashOf(m) + DeltaHash(t))
  BY <1>6, <1>8, <1>9, Congruences
<1> QED
  BY <1>6, <1>7, <1>9, <1>10, Congruences

(* The correction of a negative remainder.                                 *)
Wrapped(h) == IF h < 0 THEN h + SIZEOF_MARKINGTABLE ELSE h

LEMMA WrapExact ==
  ASSUME NEW a \in Int, NEW b \in 0 .. SIZEOF_MARKINGTABLE - 1, Congruent(b, a)
  PROVE  Wrapped(CRem(a, SIZEOF_MARKINGTABLE)) = b
<1> DEFINE s == SIZEOF_MARKINGTABLE
<1>0. s \in Int /\ s > 0
  BY NetStateAssumption
<1>1. PICK h : h = CRem(a, s)
  OBVIOUS
<1>2. h \in Int /\ Congruent(h, a) /\ - s < h /\ h < s
  BY <1>1, Remainders
<1>3. Wrapped(h) \in 0 .. s - 1
  BY <1>0, <1>2 DEF Wrapped
<1>4. Congruent(Wrapped(h), a)
  <2>1. CASE h < 0
    <3>1. PICK q \in Int : h = a + q * s
      BY <1>2 DEF Congruent
    <3>2. h + s = a + (q + 1) * s
      BY <1>0, <1>2, <3>1
    <3>3. q + 1 \in Int
      OBVIOUS
    <3> QED
      BY <2>1, <3>2, <3>3 DEF Congruent, Wrapped
  <2>2. CASE ~ (h < 0)
    BY <2>2, <1>2 DEF Wrapped
  <2> QED
    BY <2>1, <2>2
<1>5. b \in Int /\ Wrapped(h) \in Int
  BY <1>0, <1>3
<1>6. Congruent(a, b)
  BY <1>5, Congruences
<1>7. Congruent(Wrapped(h), b)
  BY <1>4, <1>5, <1>6, Congruences
<1> QED
  BY <1>0, <1>1, <1>3, <1>7, Congruences

(* A net state with exact flags and the hash value of its marking.         *)
InStep(ns) == Exact(ns) /\ ns.HashCurrent = HashOf(ns.Current)

LEMMA FireKeeps ==
  ASSUME NEW ns, InStep(ns), NEW t \in Transition, Fire(ns.Current, t) \in [Place -> Nat]
  PROVE  /\ Moved(ns, fire(ns, t), Fire(ns.Current, t))
         /\ fire(ns, t).HashCurrent = HashOf(fire(ns, t).Current)
<1>1. PICK m, h : m = Fire(ns.Current, t) /\ h = Wrapped(CRem(ns.HashCurrent + DeltaHash(t), SIZEOF_MARKINGTABLE))
  OBVIOUS
<1>2. fire(ns, t) = [ns EXCEPT !.Current = m, !.HashCurrent = h]
  <2>1. ns \in NetStates
    BY DEF InStep, Exact, Good
  <2> QED
    BY <1>1, <2>1 DEF fire, Wrapped, NetStates
<1>3. ns.Current \in [Place -> Nat] /\ m \in [Place -> Nat] /\ ns \in NetStates
  BY <1>1, Typed DEF InStep, Exact, Good
<1>4. \A p \in Place : m[p] = ns.Current[p] + Delta(t, p)
  BY <1>1 DEF Fire
<1>5. Congruent(HashOf(m), ns.HashCurrent + DeltaHash(t))
  BY <1>3, <1>4, HashStep DEF InStep
<1>6. HashOf(m) \in 0 .. SIZEOF_MARKINGTABLE - 1 /\ ns.HashCurrent + DeltaHash(t) \in Int
  <2>1. ns.HashCurrent \in 0 .. SIZEOF_MARKINGTABLE - 1
    BY <1>3, Typed
  <2>2. DeltaHash(t) \in Int
    BY DeltaHashTotal
  <2>3. HashOf(m) \in 0 .. SIZEOF_MARKINGTABLE - 1
    BY <1>3, HashOfTotal
  <2> QED
    BY <2>1, <2>2, <2>3
<1>7. h = HashOf(m)
  BY <1>1, <1>5, <1>6, WrapExact
<1>8. /\ fire(ns, t) \in NetStates
      /\ fire(ns, t).Current = m /\ fire(ns, t).HashCurrent = h
      /\ fire(ns, t).Enabled = ns.Enabled /\ fire(ns, t).CardEnabled = ns.CardEnabled
      /\ fire(ns, t).Arc = ns.Arc /\ fire(ns, t).Disabled = ns.Disabled
      /\ fire(ns, t).PositionScapegoat = ns.PositionScapegoat
  BY <1>2, <1>3, <1>6, <1>7 DEF NetStates
<1> QED
  BY <1>1, <1>7, <1>8 DEF Moved

LEMMA BackfireKeeps ==
  ASSUME NEW ns, ns \in NetStates, ns.HashCurrent = HashOf(ns.Current),
         NEW t \in Transition, Backfire(ns.Current, t) \in [Place -> Nat]
  PROVE  /\ Moved(ns, backfire(ns, t), Backfire(ns.Current, t))
         /\ backfire(ns, t).HashCurrent = HashOf(backfire(ns, t).Current)
<1>1. PICK m, h : m = Backfire(ns.Current, t) /\ h = Wrapped(CRem(ns.HashCurrent - DeltaHash(t), SIZEOF_MARKINGTABLE))
  OBVIOUS
<1>2. backfire(ns, t) = [ns EXCEPT !.Current = m, !.HashCurrent = h]
  BY <1>1 DEF backfire, Wrapped, NetStates
<1>3. ns.Current \in [Place -> Nat] /\ m \in [Place -> Nat]
  BY <1>1, Typed
<1>4. \A p \in Place : ns.Current[p] = m[p] + Delta(t, p)
  <2> SUFFICES ASSUME NEW p \in Place PROVE ns.Current[p] = m[p] + Delta(t, p)
    OBVIOUS
  <2>1. m[p] = ns.Current[p] - Delta(t, p) /\ ns.Current[p] \in Int /\ Delta(t, p) \in Int
    BY <1>1, <1>3, DeltaInt DEF Backfire
  <2> QED
    BY <2>1
<1>5. Congruent(ns.HashCurrent, HashOf(m) + DeltaHash(t))
  BY <1>3, <1>4, HashStep
<1>6. /\ HashOf(m) \in 0 .. SIZEOF_MARKINGTABLE - 1 /\ HashOf(m) \in Int
      /\ ns.HashCurrent - DeltaHash(t) \in Int /\ DeltaHash(t) \in Int /\ ns.HashCurrent \in Int
  <2>1. ns.HashCurrent \in 0 .. SIZEOF_MARKINGTABLE - 1
    BY Typed
  <2>2. DeltaHash(t) \in Int
    BY DeltaHashTotal
  <2>3. HashOf(m) \in 0 .. SIZEOF_MARKINGTABLE - 1
    BY <1>3, HashOfTotal
  <2> QED
    BY <2>1, <2>2, <2>3
<1>7. Congruent(HashOf(m), ns.HashCurrent - DeltaHash(t))
  <2>1. PICK q \in Int : ns.HashCurrent = (HashOf(m) + DeltaHash(t)) + q * SIZEOF_MARKINGTABLE
    BY <1>5 DEF Congruent
  <2>2. HashOf(m) = (ns.HashCurrent - DeltaHash(t)) + (- q) * SIZEOF_MARKINGTABLE
    <3>1. PICK a, b, c, s : a = HashOf(m) /\ b = DeltaHash(t) /\ c = ns.HashCurrent /\ s = SIZEOF_MARKINGTABLE
      OBVIOUS
    <3>2. a \in Int /\ b \in Int /\ c \in Int /\ s \in Int
      BY <1>6, <3>1, NetStateAssumption
    <3>3. c = (a + b) + q * s
      BY <2>1, <3>1
    <3>4. a = (c - b) + (- q) * s
      BY <3>2, <3>3
    <3> QED
      BY <3>1, <3>4
  <2>3. - q \in Int
    OBVIOUS
  <2> QED
    BY <2>2, <2>3 DEF Congruent
<1>8. h = HashOf(m)
  BY <1>1, <1>6, <1>7, WrapExact
<1>9. /\ backfire(ns, t) \in NetStates
      /\ backfire(ns, t).Current = m /\ backfire(ns, t).HashCurrent = h
      /\ backfire(ns, t).Enabled = ns.Enabled /\ backfire(ns, t).CardEnabled = ns.CardEnabled
      /\ backfire(ns, t).Arc = ns.Arc /\ backfire(ns, t).Disabled = ns.Disabled
      /\ backfire(ns, t).PositionScapegoat = ns.PositionScapegoat
  BY <1>2, <1>3, <1>6, <1>8 DEF NetStates
<1> QED
  BY <1>1, <1>8, <1>9 DEF Moved

(***************************************************************************)
(* The path.                                                               *)
(***************************************************************************)
LEMMA AlongSteps ==
  ASSUME NEW list \in Seq(Transition)
  PROVE  /\ Along(list)[0] = InitialMarking
         /\ \A k \in 1 .. Len(list) : Along(list)[k] = Fire(Along(list)[k-1], list[k])
<1> DEFINE n == Len(list)
<1> DEFINE D == [Place -> Int]
<1> DEFINE op == [k \in 1 .. n |-> [x \in D |-> Fire(x, list[k])]]
<1> DEFINE Inv == [k \in 0 .. n |-> D]
<1> DEFINE Is(f) == f = [k \in 0 .. n |-> IF k = 0 THEN InitialMarking ELSE Fire(f[k-1], list[k])]
<1>1. n \in Nat /\ \A k \in 1 .. n : list[k] \in Transition
  OBVIOUS
<1>2. InitialMarking \in D
  BY MarkingsAssumption
<1>3. ASSUME NEW x \in D, NEW t \in Transition PROVE Fire(x, t) \in D
  <2>1. \A p \in Place : x[p] + Delta(t, p) \in Int
    BY DeltaInt
  <2> QED
    BY <2>1 DEF Fire
<1>4. \A k \in 1 .. n : \A x \in D : op[k][x] = Fire(x, list[k])
  OBVIOUS
<1>5. \A k \in 0 .. n : Inv[k] = D
  OBVIOUS
<1>6. \A k \in 1 .. n : k \in 0 .. n /\ k - 1 \in 0 .. n
  BY <1>1
<1>7. 0 \in 0 .. n
  BY <1>1
<1> HIDE DEF op, Inv, D, n
<1>8. \A k \in 1 .. n : \A x \in Inv[k-1] : op[k][x] \in Inv[k]
  BY <1>1, <1>3, <1>4, <1>5, <1>6
<1>9. PICK g : IsLoop(g, InitialMarking, op, n) /\ \A k \in 0 .. n : g[k] \in Inv[k]
  <2>1. n \in Nat /\ InitialMarking \in Inv[0]
    BY <1>1, <1>2, <1>5, <1>7
  <2> QED
    BY <2>1, <1>8, LoopKeeps
<1>10. Is(g)
  <2>1. g = [k \in 0 .. n |-> IF k = 0 THEN InitialMarking ELSE op[k][g[k-1]]]
    BY <1>9 DEF IsLoop
  <2>2. \A k \in 0 .. n : g[k] = IF k = 0 THEN InitialMarking ELSE Fire(g[k-1], list[k])
    <3> HIDE DEF Is
    <3> SUFFICES ASSUME NEW k \in 0 .. n, k # 0 PROVE g[k] = Fire(g[k-1], list[k])
      BY <2>1
    <3>1. k \in 1 .. n
      BY <1>1
    <3> QED
      BY <2>1, <3>1, <1>4, <1>5, <1>6, <1>9
  <2>3. g = [k \in 0 .. n |-> g[k]]
    BY <2>1
  <2> QED
    BY <2>2, <2>3
<1> DEFINE f == CHOOSE f : Is(f)
<1>11. Is(f)
  BY <1>10
<1>12. Along(list) = f
  BY DEF Along, n
<1> HIDE DEF f
<1>13. \A k \in 0 .. n : f[k] = IF k = 0 THEN InitialMarking ELSE Fire(f[k-1], list[k])
  BY <1>11
<1> HIDE DEF Is
<1>14. \A k \in 1 .. n : f[k] = Fire(f[k-1], list[k])
  BY <1>1, <1>13
<1>15. f[0] = InitialMarking
  BY <1>7, <1>13
<1> QED
  BY <1>12, <1>14, <1>15 DEF n

(* Two lists with a common beginning lead through the same markings.       *)
LEMMA AlongPrefix ==
  ASSUME NEW list \in Seq(Transition), NEW r \in Seq(Transition), NEW n \in Nat,
         n <= Len(list), n <= Len(r), \A k \in 1 .. n : list[k] = r[k]
  PROVE  \A k \in 0 .. n : Along(list)[k] = Along(r)[k]
<1>1. PICK p, q : p = Along(list) /\ q = Along(r)
  OBVIOUS
<1>2. p[0] = q[0]
  BY <1>1, AlongSteps
<1>3. ASSUME NEW k \in 1 .. n, p[k-1] = q[k-1] PROVE p[k] = q[k]
  <2>1. k \in 1 .. Len(list) /\ k \in 1 .. Len(r)
    OBVIOUS
  <2>2. p[k] = Fire(p[k-1], list[k]) /\ q[k] = Fire(q[k-1], r[k])
    BY <1>1, <2>1, AlongSteps
  <2> QED
    BY <1>3, <2>2
<1>4. \A k \in 0 .. n : p[k] = q[k]
  BY <1>2, <1>3, SameMarkings
<1> QED
  BY <1>1, <1>4

(* list is a firing sequence from the initial marking to m.                *)
OnPath(list, m) ==
  /\ list \in Seq(Transition)
  /\ m = Along(list)[Len(list)]
  /\ \A k \in 1 .. Len(list) : Enabled(Along(list)[k-1], list[k])

LEMMA PathMarkings ==
  ASSUME NEW list, NEW m, OnPath(list, m)
  PROVE  m \in Markings /\ \A k \in 0 .. Len(list) : Along(list)[k] \in Markings
<1> DEFINE n == Len(list)
<1>1. list \in Seq(Transition) /\ n \in Nat /\ \A k \in 1 .. n : list[k] \in Transition
  BY DEF OnPath
<1> DEFINE T == {k \in 0 .. n : Along(list)[k] \in Markings}
<1>2. 0 \in T
  BY <1>1, AlongSteps, MarkingsAssumption
<1>3. ASSUME NEW k \in 1 .. n, k - 1 \in T PROVE k \in T
  <2>1. Along(list)[k] = Fire(Along(list)[k-1], list[k]) /\ Enabled(Along(list)[k-1], list[k])
    BY <1>1, AlongSteps DEF OnPath
  <2>2. Along(list)[k-1] \in Markings
    BY <1>3
  <2> QED
    BY <1>1, <2>1, <2>2, MarkingsAssumption
<1> HIDE DEF T
<1>4. \A k \in 0 .. n : k \in T
  BY <1>1, <1>2, <1>3, Climb
<1>5. \A k \in 0 .. n : Along(list)[k] \in Markings
  BY <1>4 DEF T
<1>6. n \in 0 .. n
  BY <1>1
<1> QED
  BY <1>5, <1>6 DEF OnPath

LEMMA EmptyPath == OnPath(<<>>, InitialMarking)
<1>1. PICK e : e = <<>>
  OBVIOUS
<1>2. e \in Seq(Transition) /\ Len(e) = 0
  BY <1>1
<1>3. Along(e)[0] = InitialMarking
  BY <1>2, AlongSteps
<1>4. OnPath(e, InitialMarking)
  BY <1>2, <1>3 DEF OnPath
<1> QED
  BY <1>1, <1>4

LEMMA PathExtends ==
  ASSUME NEW list, NEW m, OnPath(list, m), NEW t \in Transition, Enabled(m, t)
  PROVE  /\ OnPath(Append(list, t), Fire(m, t))
         /\ \A k \in 0 .. Len(list) : Along(Append(list, t))[k] = Along(list)[k]
<1>1. PICK r, n : r = Append(list, t) /\ n = Len(list)
  OBVIOUS
<1>2. /\ list \in Seq(Transition) /\ r \in Seq(Transition) /\ n \in Nat
      /\ Len(r) = n + 1 /\ r[n+1] = t /\ \A k \in 1 .. n : r[k] = list[k]
  BY <1>1 DEF OnPath
<1>3. \A k \in 0 .. n : Along(r)[k] = Along(list)[k]
  <2>1. n <= Len(r) /\ n <= Len(list) /\ \A k \in 1 .. n : list[k] = r[k]
    BY <1>1, <1>2
  <2> QED
    BY <2>1, <1>2, AlongPrefix
<1>4. Along(r)[n] = m
  BY <1>1, <1>2, <1>3 DEF OnPath
<1>5. Along(r)[n+1] = Fire(m, t)
  <2>1. n + 1 \in 1 .. Len(r) /\ (n + 1) - 1 = n
    BY <1>2
  <2> QED
    BY <2>1, <1>2, <1>4, AlongSteps
<1>6. \A k \in 1 .. n + 1 : Enabled(Along(r)[k-1], r[k])
  <2> SUFFICES ASSUME NEW k \in 1 .. n + 1 PROVE Enabled(Along(r)[k-1], r[k])
    OBVIOUS
  <2>1. CASE k = n + 1
    <3>1. k - 1 = n
      BY <1>2, <2>1
    <3> QED
      BY <2>1, <3>1, <1>2, <1>4
  <2>2. CASE k # n + 1
    <3>1. k \in 1 .. n /\ k - 1 \in 0 .. n
      BY <1>2, <2>2
    <3>2. Enabled(Along(list)[k-1], list[k])
      BY <1>1, <3>1 DEF OnPath
    <3> QED
      BY <3>1, <3>2, <1>2, <1>3
  <2> QED
    BY <2>1, <2>2
<1>7. OnPath(r, Fire(m, t))
  BY <1>2, <1>5, <1>6 DEF OnPath
<1> QED
  BY <1>1, <1>3, <1>7

LEMMA PathShrinks ==
  ASSUME NEW list, NEW m, OnPath(list, m), list # <<>>, NEW t, t = list[Len(list)]
  PROVE  /\ OnPath(Front(list), Backfire(m, t))
         /\ t \in Transition /\ Backfire(m, t) \in [Place -> Nat]
<1>1. PICK r, n : r = Front(list) /\ n = Len(list)
  OBVIOUS
<1>2. /\ list \in Seq(Transition) /\ r \in Seq(Transition) /\ n \in Nat /\ n > 0
      /\ Len(r) = n - 1 /\ \A k \in 1 .. n - 1 : r[k] = list[k]
      /\ t \in Transition
  BY <1>1 DEF OnPath, Front
<1>3. \A k \in 0 .. n - 1 : Along(list)[k] = Along(r)[k]
  <2>1. n - 1 \in Nat /\ n - 1 <= Len(r) /\ n - 1 <= Len(list) /\ \A k \in 1 .. n - 1 : list[k] = r[k]
    BY <1>1, <1>2
  <2> QED
    BY <2>1, <1>2, AlongPrefix
<1>4. m = Fire(Along(list)[n-1], t) /\ Along(list)[n-1] \in Markings
  <2>1. n \in 1 .. Len(list) /\ n - 1 \in 0 .. Len(list)
    BY <1>1, <1>2
  <2>2. m = Along(list)[n] /\ list[n] = t
    BY <1>1 DEF OnPath
  <2> QED
    BY <2>1, <2>2, <1>2, AlongSteps, PathMarkings
<1>5. Backfire(m, t) = Along(list)[n-1]
  BY <1>2, <1>4, BackfireUndoesFire
<1>6. Backfire(m, t) = Along(r)[n-1]
  <2>1. n - 1 \in 0 .. n - 1
    BY <1>2
  <2> QED
    BY <2>1, <1>3, <1>5
<1>7. \A k \in 1 .. n - 1 : Enabled(Along(r)[k-1], r[k])
  <2> SUFFICES ASSUME NEW k \in 1 .. n - 1 PROVE Enabled(Along(r)[k-1], r[k])
    OBVIOUS
  <2>1. k \in 1 .. n /\ k - 1 \in 0 .. n - 1
    BY <1>2
  <2>2. Enabled(Along(list)[k-1], list[k])
    BY <2>1, <1>1 DEF OnPath
  <2> QED
    BY <2>1, <2>2, <1>2, <1>3
<1>8. OnPath(r, Backfire(m, t))
  BY <1>2, <1>6, <1>7 DEF OnPath
<1> QED
  BY <1>1, <1>2, <1>4, <1>5, <1>8, MarkingsAssumption

(***************************************************************************)
(* Every walk.                                                             *)
(***************************************************************************)
OnWalk(ns, list) == InStep(ns) /\ OnPath(list, ns.Current)

LEMMA StateInStepIs == StateInStep <=> OnWalk(netState, path)
<1>1. PathLeadsHere /\ path \in Seq(Transition) <=> OnPath(path, netState.Current)
  BY DEF PathLeadsHere, OnPath
<1> QED
  BY <1>1 DEF StateInStep, WalkTypeOK, EnabledExact, ScapegoatsListed, HashFollowsMarking,
              OnWalk, InStep, Exact, Good

LEMMA ResetKeeps ==
  ASSUME NEW ns, ns \in NetStates, ArcsPermuted(ns),
         ns.Current = InitialMarking, ns.HashCurrent = HashInitial
  PROVE  OnWalk(CheckAll(ns), <<>>)
<1>1. Exact(CheckAll(ns)) /\ CheckAll(ns).Current = InitialMarking /\ CheckAll(ns).HashCurrent = HashInitial
  BY CheckAllExact
<1> QED
  BY <1>1, EmptyPath DEF OnWalk, InStep, HashInitial

LEMMA HashInitialType == HashInitial \in 0 .. SIZEOF_MARKINGTABLE - 1
<1>1. InitialMarking \in [Place -> Nat]
  BY MarkingsAssumption
<1> QED
  BY <1>1, HashOfTotal DEF HashInitial

LEMMA CreateKeeps == OnWalk(createNetStateFromInitial, <<>>)
<1>1. PICK E, A, D, P :
        /\ E = [t \in Transition |-> TRUE]
        /\ A = [t \in Transition |-> Ordered(PrePlaces(t))]
        /\ D = [p \in Place |-> <<>>]
        /\ P = [t \in Transition |-> 0]
  OBVIOUS
<1>2. PICK ns : ns = [Current |-> InitialMarking, HashCurrent |-> HashInitial, Enabled |-> E,
                      CardEnabled |-> 0, Arc |-> A, Disabled |-> D, PositionScapegoat |-> P]
  OBVIOUS
<1>3. createNetStateFromInitial = CheckAll(ns)
  BY <1>1, <1>2 DEF createNetStateFromInitial
<1>4. \A t \in Transition : Lists(A[t], PrePlaces(t)) /\ PrePlaces(t) \subseteq Place
  <2> SUFFICES ASSUME NEW t \in Transition PROVE Lists(Ordered(PrePlaces(t)), PrePlaces(t)) /\ PrePlaces(t) \subseteq Place
    BY <1>1
  <2>1. PrePlaces(t) \subseteq Place
    BY DEF PrePlaces
  <2> QED
    BY <2>1, OrderedLists
<1>5. A \in [Transition -> Seq(Place)]
  <2>1. \A t \in Transition : A[t] \in Seq(Place)
    <3> SUFFICES ASSUME NEW t \in Transition PROVE A[t] \in Seq(Place)
      OBVIOUS
    <3>1. A[t] \in Seq(PrePlaces(t)) /\ PrePlaces(t) \subseteq Place
      BY <1>4 DEF Lists
    <3> QED
      BY <3>1
  <2> QED
    BY <1>1, <2>1
<1>6. /\ ns \in NetStates /\ ns.Arc = A
      /\ ns.Current = InitialMarking /\ ns.HashCurrent = HashInitial
  <2>1. InitialMarking \in [Place -> Nat] /\ 0 \in Int
    BY MarkingsAssumption
  <2>2. /\ E \in [Transition -> BOOLEAN] /\ D \in [Place -> Seq(Transition)]
        /\ P \in [Transition -> Nat]
    BY <1>1
  <2> QED
    BY <1>2, <1>5, <2>1, <2>2, HashInitialType DEF NetStates
<1>7. ArcsPermuted(ns)
  <2> SUFFICES ASSUME NEW t \in Transition
               PROVE  /\ ToSet(A[t]) = PrePlaces(t)
                      /\ \A i, j \in DOMAIN A[t] : A[t][i] = A[t][j] => i = j
    BY <1>6 DEF ArcsPermuted
  <2>1. PICK list, S : list = A[t] /\ S = PrePlaces(t)
    OBVIOUS
  <2>2. /\ list \in Seq(S) /\ \A x \in S : \E i \in 1 .. Len(list) : list[i] = x
        /\ \A i, j \in 1 .. Len(list) : list[i] = list[j] => i = j
    BY <2>1, <1>4 DEF Lists
  <2>3. DOMAIN list = 1 .. Len(list) /\ \A i \in 1 .. Len(list) : list[i] \in S
    BY <2>2
  <2>4. ToSet(list) = S
    BY <2>2, <2>3 DEF ToSet
  <2> QED
    BY <2>1, <2>2, <2>3, <2>4
<1> QED
  BY <1>3, <1>6, <1>7, ResetKeeps

LEMMA DescendKeeps ==
  ASSUME NEW ns, NEW list, OnWalk(ns, list), NEW t \in Transition, ns.Enabled[t]
  PROVE  LET r == updateEnabled(fire(ns, t), t)
         IN  /\ OnWalk(r, Append(list, t)) /\ r.Current = Fire(ns.Current, t)
             /\ Enabled(ns.Current, t)
<1>1. Enabled(ns.Current, t) /\ InStep(ns) /\ OnPath(list, ns.Current) /\ Exact(ns)
  BY DEF OnWalk, InStep, Exact, Right
<1>2. PICK c, m : c = fire(ns, t) /\ m = Fire(ns.Current, t)
  OBVIOUS
<1>3. m \in [Place -> Nat]
  <2>1. ns.Current \in Markings
    BY <1>1, PathMarkings
  <2> QED
    BY <1>1, <1>2, <2>1, MarkingsAssumption
<1>4. Moved(ns, c, m) /\ c.HashCurrent = HashOf(c.Current)
  BY <1>1, <1>2, <1>3, FireKeeps
<1>5. PICK r : r = updateEnabled(c, t)
  OBVIOUS
<1>6. Exact(r) /\ r.Current = c.Current /\ r.HashCurrent = c.HashCurrent
  BY <1>1, <1>2, <1>4, <1>5, UpdateExact
<1>7. InStep(r) /\ r.Current = m
  BY <1>4, <1>6 DEF InStep, Moved
<1>8. OnPath(Append(list, t), m)
  BY <1>1, <1>2, PathExtends
<1> QED
  BY <1>1, <1>2, <1>5, <1>7, <1>8 DEF OnWalk

LEMMA StepBackKeeps ==
  ASSUME NEW ns, NEW list, OnWalk(ns, list), list # <<>>, NEW t, t = list[Len(list)]
  PROVE  OnWalk(revertEnabled(backfire(ns, t), t), Front(list))
<1>1. InStep(ns) /\ OnPath(list, ns.Current) /\ Exact(ns) /\ ns \in NetStates /\ ns.HashCurrent = HashOf(ns.Current)
  BY DEF OnWalk, InStep, Exact, Good
<1>2. PICK c, m : c = backfire(ns, t) /\ m = Backfire(ns.Current, t)
  OBVIOUS
<1>3. OnPath(Front(list), m) /\ t \in Transition /\ m \in [Place -> Nat]
  BY <1>1, <1>2, PathShrinks
<1>4. Moved(ns, c, m) /\ c.HashCurrent = HashOf(c.Current)
  BY <1>1, <1>2, <1>3, BackfireKeeps
<1>5. PICK r : r = revertEnabled(c, t)
  OBVIOUS
<1>6. Exact(r) /\ r.Current = c.Current /\ r.HashCurrent = c.HashCurrent
  BY <1>1, <1>2, <1>3, <1>4, <1>5, RevertExact
<1>7. InStep(r) /\ r.Current = m
  BY <1>4, <1>6 DEF InStep, Moved
<1> QED
  BY <1>2, <1>3, <1>5, <1>7 DEF OnWalk

(* A look at a known successor leaves everything as it was.                *)
LEMMA TryKnownKeeps ==
  ASSUME NEW ns, NEW list, OnWalk(ns, list), NEW t \in Transition, ns.Enabled[t]
  PROVE  backfire(fire(ns, t), t) = ns
<1>1. /\ Enabled(ns.Current, t) /\ InStep(ns) /\ OnPath(list, ns.Current) /\ ns \in NetStates
      /\ ns.HashCurrent = HashOf(ns.Current)
  BY DEF OnWalk, InStep, Exact, Right, Good
<1>2. PICK c, m : c = fire(ns, t) /\ m = Fire(ns.Current, t)
  OBVIOUS
<1>3. ns.Current \in Markings /\ ns.Current \in [Place -> Nat] /\ m \in [Place -> Nat]
  <2>1. ns.Current \in Markings
    BY <1>1, PathMarkings
  <2> QED
    BY <1>1, <1>2, <2>1, MarkingsAssumption
<1>4. Moved(ns, c, m) /\ c.HashCurrent = HashOf(c.Current)
  BY <1>1, <1>2, <1>3, FireKeeps
<1>5. Backfire(m, t) = ns.Current
  BY <1>2, <1>3, BackfireUndoesFire
<1>6. PICK d : d = backfire(c, t)
  OBVIOUS
<1>7. c \in NetStates /\ c.Current = m
  BY <1>4 DEF Moved
<1>8. Moved(c, d, ns.Current) /\ d.HashCurrent = HashOf(d.Current)
  BY <1>3, <1>4, <1>5, <1>6, <1>7, BackfireKeeps
<1>9. /\ d \in NetStates /\ d.Current = ns.Current /\ d.HashCurrent = ns.HashCurrent
      /\ d.Enabled = ns.Enabled /\ d.CardEnabled = ns.CardEnabled
      /\ d.Arc = ns.Arc /\ d.Disabled = ns.Disabled
      /\ d.PositionScapegoat = ns.PositionScapegoat
  BY <1>1, <1>4, <1>8 DEF Moved
<1>10. d = ns
  <2>1. \A x \in NetStates :
          x = [Current |-> x.Current, HashCurrent |-> x.HashCurrent, Enabled |-> x.Enabled,
               CardEnabled |-> x.CardEnabled, Arc |-> x.Arc, Disabled |-> x.Disabled,
               PositionScapegoat |-> x.PositionScapegoat]
    BY DEF NetStates
  <2> QED
    BY <1>1, <1>9, <2>1
<1> QED
  BY <1>2, <1>6, <1>10

LEMMA WalkInitKeeps == WalkInit => StateInStep
<1> SUFFICES ASSUME WalkInit PROVE OnWalk(netState, path)
  BY StateInStepIs
<1> QED
  BY CreateKeeps DEF WalkInit

LEMMA StartOverKeeps ==
  ASSUME NEW ns, NEW list, OnWalk(ns, list)
  PROVE  OnWalk(resetToInitial(ns), <<>>)
<1>1. PICK r : r = [ns EXCEPT !.Current = InitialMarking, !.HashCurrent = HashInitial]
  OBVIOUS
<1>2. ns \in NetStates /\ ArcsPermuted(ns)
  BY DEF OnWalk, InStep, Exact, Good
<1>3. InitialMarking \in [Place -> Nat]
  BY MarkingsAssumption
<1>4. /\ r \in NetStates /\ r.Arc = ns.Arc
      /\ r.Current = InitialMarking /\ r.HashCurrent = HashInitial
  BY <1>1, <1>2, <1>3, HashInitialType DEF NetStates
<1>5. ArcsPermuted(r)
  BY <1>2, <1>4 DEF ArcsPermuted
<1>6. OnWalk(CheckAll(r), <<>>)
  BY <1>4, <1>5, ResetKeeps
<1> QED
  BY <1>1, <1>6 DEF resetToInitial

LEMMA WalkStepKeeps == StateInStep /\ [WalkNext]_walkVars => StateInStep'
<1> SUFFICES ASSUME StateInStep, [WalkNext]_walkVars PROVE StateInStep'
  OBVIOUS
<1>1. OnWalk(netState, path)
  BY StateInStepIs
<1>2. StateInStep' <=> OnWalk(netState', path')
  <2>1. (StateInStep <=> OnWalk(netState, path))'
    BY StateInStepIs, PTL
  <2> QED
    BY <2>1
<1>3. ASSUME NEW t \in Transition, TryKnown(t) PROVE OnWalk(netState', path')
  BY <1>1, <1>3, TryKnownKeeps DEF TryKnown
<1>4. ASSUME NEW t \in Transition, Descend(t) PROVE OnWalk(netState', path')
  BY <1>1, <1>4, DescendKeeps DEF Descend
<1>5. CASE StepBack
  BY <1>1, <1>2, <1>5, StepBackKeeps DEF StepBack
<1>6. CASE StartOver
  BY <1>1, <1>2, <1>6, StartOverKeeps DEF StartOver
<1>7. CASE UNCHANGED walkVars
  BY <1>1, <1>2, <1>7 DEF walkVars
<1> QED
  BY <1>2, <1>3, <1>4, <1>5, <1>6, <1>7 DEF WalkNext

(* The net state of every walk is in step with the marking its path leads  *)
(* to: marking, hash value, enabledness flags and scapegoat lists          *)
(* (Transition::fire, updateEnabled, backfire, revertEnabled and the reset *)
(* of find_path).                                                          *)
THEOREM WalkStateInStep == WalkSpec => []StateInStep
<1>1. WalkInit => StateInStep
  BY WalkInitKeeps
<1>2. StateInStep /\ [WalkNext]_walkVars => StateInStep'
  BY WalkStepKeeps
<1> QED
  BY <1>1, <1>2, PTL DEF WalkSpec

(***************************************************************************)
(* find_path.                                                              *)
(***************************************************************************)

(* The firelist holds the transitions marked enabled.                      *)
LEMMA FirelistLists ==
  /\ Lists(getFirelist, {t \in Transition : netState.Enabled[t]})
  /\ Eligible(getFirelist) \subseteq Transition
<1> DEFINE S == {t \in Transition : netState.Enabled[t]}
<1>1. S \subseteq Transition
  OBVIOUS
<1>2. Lists(Ordered(S), S)
  BY <1>1, OrderedLists
<1>3. PICK fl : fl = getFirelist
  OBVIOUS
<1>4. fl \in Seq(S) /\ Lists(fl, S)
  <2> HIDE DEF S
  <2>1. fl = Ordered(S)
    BY <1>3 DEF getFirelist, S
  <2> QED
    BY <1>2, <2>1 DEF Lists
<1> HIDE DEF S
<1>5. \A i \in DOMAIN fl : fl[i] \in Transition
  BY <1>1, <1>4
<1>6. Eligible(fl) \subseteq Transition
  BY <1>5 DEF Eligible
<1> QED
  BY <1>3, <1>4, <1>6 DEF S

(* Every step of find_path is a step of a walk.                            *)
LEMMA FindPathStepWalks == [Next]_vars => [WalkNext]_walkVars
<1> SUFFICES ASSUME [Next]_vars PROVE [WalkNext]_walkVars
  OBVIOUS
<1>1. CASE NewAttempt
  BY <1>1 DEF NewAttempt, WalkNext
<1>2. CASE NoAttemptLeft
  BY <1>2 DEF NoAttemptLeft, walkVars
<1>3. CASE Step
  <2>1. PICK t \in Eligible(getFirelist) : Descend(t)
    BY <1>3 DEF Step
  <2> QED
    BY <2>1, FirelistLists DEF WalkNext
<1>4. CASE DeadEnd
  BY <1>4 DEF DeadEnd, walkVars
<1>5. CASE DepthReached
  BY <1>5 DEF DepthReached, walkVars
<1>6. CASE Rest
  BY <1>6 DEF Rest, vars, walkVars
<1>7. CASE UNCHANGED vars
  BY <1>7 DEF vars, walkVars
<1> QED
  BY <1>1, <1>2, <1>3, <1>4, <1>5, <1>6, <1>7 DEF Next

(* find_path uses the net state as the searches do: fire and updateEnabled *)
(* for a step, the reset for an attempt, and nothing else.                 *)
THEOREM FindPathWalks == Spec => WalkSpec
<1>1. Init => WalkInit
  BY DEF Init
<1>2. [Next]_vars => [WalkNext]_walkVars
  BY FindPathStepWalks
<1> QED
  BY <1>1, <1>2, PTL DEF Spec, WalkSpec

LEMMA PathBegins == Init => PathInvariant
<1> SUFFICES ASSUME Init PROVE PathInvariant
  OBVIOUS
<1>1. StateInStep /\ path = <<>>
  BY WalkInitKeeps DEF Init, WalkInit
<1>2. WalkTypeOK /\ Len(path) = 0
  BY <1>1 DEF StateInStep
<1>3. TypeOK
  <2>1. /\ attempts \in Attempts /\ goal \in Goals /\ table \in Leftovers
        /\ pc = "next" /\ currentattempt = 0 /\ depth = 0 /\ tries = 0
        /\ calls = 0 /\ value = FALSE
    BY DEF Init
  <2>2. attempts \in Nat /\ maxdepth \in Nat /\ MaxTries \in Nat /\ table \in [Bucket -> Nat]
    BY <2>1, FindPathAssumption
  <2>3. currentattempt \in 0 .. attempts /\ depth \in 0 .. maxdepth /\ tries \in 0 .. MaxTries
    BY <2>1, <2>2
  <2> QED
    BY <1>2, <2>1, <2>2, <2>3 DEF TypeOK
<1>4. calls <= tries * maxdepth
  BY FindPathAssumption DEF Init
<1>5. pc = "next" /\ value = FALSE /\ depth = 0 /\ tries = 0 /\ currentattempt = 0
  BY DEF Init
<1> QED
  BY <1>1, <1>2, <1>3, <1>4, <1>5 DEF PathInvariant

LEMMA NewAttemptKeeps ==
  ASSUME PathInvariant, NewAttempt, StateInStep'
  PROVE  PathInvariant'
<1>1. /\ pc = "next" /\ tries < MaxTries /\ (attempts = 0 \/ currentattempt < attempts)
      /\ currentattempt' = IF attempts = 0 THEN 0 ELSE currentattempt + 1
      /\ tries' = tries + 1 /\ StartOver /\ depth' = 0
      /\ value' = (InitialMarking \in goal)
      /\ pc' = IF value' THEN "returned" ELSE "walk"
      /\ attempts' = attempts /\ goal' = goal /\ table' = table /\ calls' = calls
  BY DEF NewAttempt, AttemptLeft
<1>2. /\ attempts \in Nat /\ attempts \in Attempts /\ goal \in Goals /\ maxdepth \in Nat /\ tries \in 0 .. MaxTries
      /\ calls \in Nat /\ currentattempt \in 0 .. attempts /\ MaxTries \in Nat
      /\ table \in [Bucket -> Nat]
  BY FindPathAssumption DEF PathInvariant, TypeOK
<1>3. path' = <<>>
  BY <1>1 DEF StartOver
<1>4. WalkTypeOK' /\ netState'.Current = InitialMarking
  <2>1. Len(path') = 0
    BY <1>3
  <2>2. WalkTypeOK' /\ netState'.Current = Along(path')[Len(path')]
    BY DEF StateInStep, PathLeadsHere
  <2>3. path' \in Seq(Transition)
    BY <2>2 DEF WalkTypeOK
  <2>4. PICK e : e = path'
    OBVIOUS
  <2>5. Along(e)[0] = InitialMarking
    BY <2>3, <2>4, AlongSteps
  <2> QED
    BY <2>1, <2>2, <2>4, <2>5
<1>5. /\ calls <= tries * maxdepth /\ (attempts > 0 => tries = currentattempt)
  BY DEF PathInvariant
<1>6. calls <= ((tries + 1) - 1) * maxdepth + 0 /\ calls <= (tries + 1) * maxdepth
  <2>1. (tries + 1) - 1 = tries
    BY <1>2
  <2>2. PICK x : x = tries * maxdepth
    OBVIOUS
  <2>3. x \in Int /\ (tries + 1) * maxdepth = x + maxdepth
    BY <1>2, <2>2
  <2> QED
    BY <1>2, <1>5, <2>1, <2>2, <2>3
<1>7. value' \in BOOLEAN /\ pc' \in {"next", "walk", "returned"}
  BY <1>1
<1>8. TypeOK'
  BY <1>1, <1>2, <1>4, <1>7 DEF TypeOK
<1>9. attempts' > 0 => tries' = currentattempt'
  BY <1>1, <1>2, <1>5
<1>10. /\ value' <=> pc' = "returned" /\ netState'.Current \in goal'
       /\ pc' = "returned" => value'
       /\ pc' # "returned" => netState'.Current \notin goal'
  BY <1>1, <1>4
<1>11. Len(path') = depth' /\ \A k \in 0 .. depth' - 1 : Along(path')[k] \notin goal'
  BY <1>1, <1>3
<1>12. tries' > 0
  BY <1>1, <1>2
<1>13. calls' <= tries' * maxdepth /\ calls' <= (tries' - 1) * maxdepth + depth'
  BY <1>1, <1>6
<1> QED
  BY <1>8, <1>9, <1>10, <1>11, <1>12, <1>13 DEF PathInvariant

LEMMA StepKeeps ==
  ASSUME PathInvariant, Step, StateInStep'
  PROVE  PathInvariant'
<1>1. /\ pc = "walk" /\ depth < maxdepth /\ calls' = calls + 1
      /\ depth' = depth + 1 /\ value' = (netState'.Current \in goal)
      /\ pc' = IF value' THEN "returned" ELSE "walk"
      /\ attempts' = attempts /\ goal' = goal
      /\ currentattempt' = currentattempt /\ tries' = tries
  BY DEF Step
<1>2. PICK t \in Transition : Descend(t) /\ Count(t)
  BY FirelistLists DEF Step
<1>3. /\ attempts \in Nat /\ attempts \in Attempts /\ goal \in Goals /\ maxdepth \in Nat /\ tries \in 0 .. MaxTries
      /\ calls \in Nat /\ currentattempt \in 0 .. attempts /\ MaxTries \in Nat
      /\ table \in [Bucket -> Nat] /\ depth \in 0 .. maxdepth
  BY FindPathAssumption DEF PathInvariant, TypeOK
<1>4. OnWalk(netState, path) /\ netState.Enabled[t] /\ path' = Append(path, t)
  BY <1>2, StateInStepIs DEF PathInvariant, Descend
<1>5. /\ path \in Seq(Transition) /\ Len(path) = depth /\ netState.Current \notin goal
      /\ netState.Current = Along(path)[depth]
      /\ \A k \in 0 .. depth - 1 : Along(path)[k] \notin goal
  <2>1. Len(path) = depth /\ netState.Current \notin goal
        /\ \A k \in 0 .. depth - 1 : Along(path)[k] \notin goal
    BY <1>1 DEF PathInvariant
  <2> QED
    BY <1>4, <2>1 DEF OnWalk, OnPath
<1>6. \A k \in 0 .. depth : Along(path')[k] = Along(path)[k]
  <2>1. Enabled(netState.Current, t) /\ OnPath(path, netState.Current)
    BY <1>4, DescendKeeps DEF OnWalk
  <2> QED
    BY <1>4, <1>5, <2>1, PathExtends
<1>7. \A k \in 0 .. depth' - 1 : Along(path')[k] \notin goal'
  <2> SUFFICES ASSUME NEW k \in 0 .. depth' - 1 PROVE Along(path')[k] \notin goal
    BY <1>1
  <2>1. k \in 0 .. depth /\ (k = depth \/ k \in 0 .. depth - 1)
    BY <1>1, <1>3
  <2> QED
    BY <2>1, <1>5, <1>6
<1>8. Len(path') = depth'
  BY <1>1, <1>4, <1>5
<1>9. table' \in [Bucket -> Nat]
  <2>1. PICK b : table' = [table EXCEPT ![b] = @ + 1]
    BY <1>2 DEF Count
  <2>2. table \in [Bucket -> Nat]
    BY <1>3
  <2>3. CASE b \in Bucket
    <3>1. table[b] + 1 \in Nat
      BY <2>2, <2>3
    <3> QED
      BY <2>1, <2>2, <2>3, <3>1
  <2>4. CASE b \notin Bucket
    <3>1. table' = table
      BY <2>1, <2>2, <2>4
    <3> QED
      BY <2>2, <3>1
  <2> QED
    BY <2>3, <2>4
<1>10. WalkTypeOK'
  BY DEF StateInStep
<1>11. TypeOK'
  BY <1>1, <1>3, <1>9, <1>10 DEF TypeOK
<1>12. /\ value' <=> pc' = "returned" /\ netState'.Current \in goal'
       /\ pc' = "returned" => value'
       /\ pc' # "returned" => netState'.Current \notin goal'
  BY <1>1
<1>13. /\ tries > 0 /\ calls <= (tries - 1) * maxdepth + depth
       /\ (attempts > 0 => tries = currentattempt)
  BY <1>1 DEF PathInvariant
<1>14. calls + 1 <= (tries - 1) * maxdepth + (depth + 1) /\ calls + 1 <= tries * maxdepth
  <2>1. PICK x : x = (tries - 1) * maxdepth
    OBVIOUS
  <2>2. x \in Int /\ tries * maxdepth = x + maxdepth
    BY <1>3, <2>1
  <2> QED
    BY <1>1, <1>3, <1>13, <2>1, <2>2
<1> QED
  BY <1>1, <1>7, <1>8, <1>11, <1>12, <1>13, <1>14 DEF PathInvariant

LEMMA PathStepKeeps == PathInvariant /\ [Next]_vars => PathInvariant'
<1> SUFFICES ASSUME PathInvariant, [Next]_vars PROVE PathInvariant'
  OBVIOUS
<1>1. StateInStep'
  BY FindPathStepWalks, WalkStepKeeps DEF PathInvariant
<1>2. CASE NewAttempt
  BY <1>1, <1>2, NewAttemptKeeps
<1>3. CASE NoAttemptLeft
  <2>1. /\ pc = "next" /\ attempts # 0 /\ ~ (currentattempt < attempts)
        /\ value' = FALSE /\ pc' = "returned"
        /\ UNCHANGED <<attempts, goal, currentattempt, depth, netState, path, table, tries, calls>>
    BY <1>3 DEF NoAttemptLeft, AttemptLeft
  <2>2. attempts \in Nat /\ currentattempt \in 0 .. attempts /\ (attempts > 0 => tries = currentattempt)
    BY FindPathAssumption DEF PathInvariant, TypeOK
  <2>3. attempts > 0 /\ tries = attempts /\ tries > 0
    BY <2>1, <2>2
  <2>4. TypeOK'
    BY <2>1 DEF PathInvariant, TypeOK, WalkTypeOK
  <2> QED
    BY <1>1, <2>1, <2>3, <2>4 DEF PathInvariant
<1>4. CASE Step
  BY <1>1, <1>4, StepKeeps
<1>5. CASE DeadEnd
  <2>1. /\ pc = "walk" /\ depth < maxdepth /\ calls' = calls + 1 /\ pc' = "next"
        /\ UNCHANGED <<attempts, goal, currentattempt, depth, netState, path, table, tries, value>>
    BY <1>5 DEF DeadEnd
  <2>2. /\ tries > 0 /\ calls <= (tries - 1) * maxdepth + depth /\ ~ value
        /\ calls \in Nat /\ tries \in 0 .. MaxTries /\ MaxTries \in Nat
        /\ maxdepth \in Nat /\ depth \in 0 .. maxdepth
    BY <2>1, FindPathAssumption DEF PathInvariant, TypeOK
  <2>3. calls + 1 <= tries * maxdepth
    <3>1. PICK x : x = (tries - 1) * maxdepth
      OBVIOUS
    <3>2. x \in Int /\ tries * maxdepth = x + maxdepth
      BY <2>2, <3>1
    <3> QED
      BY <2>1, <2>2, <3>1, <3>2
  <2>4. TypeOK'
    BY <2>1, <2>2 DEF PathInvariant, TypeOK, WalkTypeOK
  <2> QED
    BY <1>1, <2>1, <2>2, <2>3, <2>4 DEF PathInvariant
<1>6. CASE DepthReached
  <2>1. /\ pc = "walk" /\ pc' = "next"
        /\ UNCHANGED <<attempts, goal, currentattempt, depth, netState, path, table, tries, calls, value>>
    BY <1>6 DEF DepthReached
  <2>2. ~ value
    BY <2>1 DEF PathInvariant
  <2>3. TypeOK'
    BY <2>1 DEF PathInvariant, TypeOK, WalkTypeOK
  <2> QED
    BY <1>1, <2>1, <2>2, <2>3 DEF PathInvariant
<1>7. CASE UNCHANGED vars
  <2>1. TypeOK'
    BY <1>7 DEF vars, PathInvariant, TypeOK, WalkTypeOK
  <2> QED
    BY <1>1, <1>7, <2>1 DEF vars, PathInvariant
<1>8. CASE Rest
  BY <1>7, <1>8 DEF Rest
<1> QED
  BY <1>2, <1>3, <1>4, <1>5, <1>6, <1>7, <1>8 DEF Next

LEMMA PathAlways == Spec => []PathInvariant
<1>1. Init => PathInvariant
  BY PathBegins
<1>2. PathInvariant /\ [Next]_vars => PathInvariant'
  BY PathStepKeeps
<1> QED
  BY <1>1, <1>2, PTL DEF Spec

(* In every attempt of find_path the path is a firing sequence from the    *)
(* initial marking to the current one, and the firelist is empty in a      *)
(* deadlock only.                                                          *)
THEOREM FindPathFires == Spec => []PathFires
<1>1. PathInvariant => PathFires
  <2> SUFFICES ASSUME PathInvariant PROVE PathFires
    OBVIOUS
  <2>1. TypeOK /\ Len(path) = depth /\ PathLeadsHere /\ StateInStep
    BY DEF PathInvariant, StateInStep
  <2>2. {t \in Transition : netState.Enabled[t]} = EnabledSet(netState.Current)
    <3>1. \A t \in Transition : netState.Enabled[t] <=> Enabled(netState.Current, t)
      <4> SUFFICES ASSUME NEW t \in Transition
                   PROVE  netState.Enabled[t] <=> Enabled(netState.Current, t)
        OBVIOUS
      <4>1. Right(netState, t) /\ Exact(netState)
        BY <2>1, StateInStepIs DEF StateInStep, EnabledExact, OnWalk, InStep
      <4>2. CASE netState.Enabled[t]
        BY <4>1, <4>2 DEF Right
      <4>3. CASE ~ netState.Enabled[t]
        <5>1. PICK p : p = netState.Arc[t][1]
          OBVIOUS
        <5>2. netState.Current[p] < Pre[t][p]
          BY <4>1, <4>3, <5>1 DEF Right
        <5>3. p \in Place
          <6>1. netState.Arc[t] # <<>> /\ netState.Arc[t] \in Seq(Place)
            BY <4>1, <4>3, Typed DEF Exact, Good, Listed, DisabledOnes
          <6> QED
            BY <5>1, <6>1
        <5>4. netState.Current[p] \in Nat /\ Pre[t][p] \in Nat
          BY <4>1, <5>3, Typed, NetAssumption DEF Exact, Good
        <5>5. ~ Enabled(netState.Current, t)
          BY <5>2, <5>3, <5>4 DEF Enabled
        <5> QED
          BY <4>3, <5>5
      <4> QED
        BY <4>2, <4>3
    <3> QED
      BY <3>1 DEF EnabledSet
  <2>3. getFirelist = <<>> <=> EnabledSet(netState.Current) = {}
    <3>1. PICK fl, S : fl = getFirelist /\ S = EnabledSet(netState.Current)
      OBVIOUS
    <3>2. Lists(fl, S)
      BY <2>2, <3>1, FirelistLists
    <3>3. fl \in Seq(S) /\ \A x \in S : \E i \in 1 .. Len(fl) : fl[i] = x
      BY <3>2 DEF Lists
    <3>4. fl = <<>> => S = {}
      BY <3>3
    <3>5. S = {} => fl = <<>>
      BY <3>3
    <3> QED
      BY <3>1, <3>4, <3>5
  <2> QED
    BY <2>1, <2>3 DEF PathFires
<1> QED
  BY <1>1, PathAlways, PTL

(* find_path answers "yes" in the first satisfying marking of an attempt,  *)
(* and "no" after exactly the attempts asked for.                          *)
THEOREM FindPathHonest == Spec => []AnswerHonest
<1>1. PathInvariant => AnswerHonest
  BY DEF PathInvariant, AnswerHonest
<1> QED
  BY <1>1, PathAlways, PTL
=============================================================================
