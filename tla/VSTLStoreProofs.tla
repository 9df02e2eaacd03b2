-------------------------- MODULE VSTLStoreProofs --------------------------
(***************************************************************************)
(* The exact store is atomic for any number of threads, vectors and        *)
(* buckets, behind a PluginStore or called directly.                       *)
(***************************************************************************)
EXTENDS VSTLStore, FiniteSetTheorems, WellFoundedInduction, TLAPS

(* The invariant holds at the start ...                                    *)
LEMMA InitInvariant == Init => StoreInvariant
BY DEF Init, TypeOK, StoreInvariant

(* ... and every step keeps it: a vector goes into its own bucket, and     *)
(* plugged and noinsert stay during a call.                                *)
LEMMA NextInvariant == StoreInvariant /\ [Next]_vars => StoreInvariant'
<1> SUFFICES ASSUME StoreInvariant, [Next]_vars PROVE StoreInvariant'
  OBVIOUS
<1> USE StoreAssumption DEF StoreInvariant, TypeOK, args
<1>1. CASE UNCHANGED vars
  BY <1>1 DEF vars, SearchOnly
<1>2. ASSUME NEW t \in Thread, Call(t) PROVE StoreInvariant'
  BY <1>2 DEF Call, SearchOnly
<1>3. ASSUME NEW t \in Thread, Add(t), UNCHANGED vec
      PROVE  /\ buckets' \in [Bucket -> SUBSET Vector]
             /\ \A b \in Bucket : \A v \in buckets'[b] : Hash(v) = b
  BY <1>3 DEF Add
<1>4. ASSUME NEW t \in Thread, NEW found \in BOOLEAN, Answer(t, found),
             UNCHANGED buckets \/ Add(t)
      PROVE  StoreInvariant'
  BY <1>3, <1>4 DEF Answer, SearchOnly
<1>5. ASSUME NEW t \in Thread, Unlocked(t) \/ LookupEnds(t) \/ Insert(t)
      PROVE  StoreInvariant'
  <2>1. Known(t) \in BOOLEAN
    BY DEF Known
  <2> QED
    BY <1>4, <1>5, <2>1 DEF Unlocked, LookupEnds, Insert
<1>6. ASSUME NEW t \in Thread, LookupMisses(t) PROVE StoreInvariant'
  BY <1>6 DEF LookupMisses, SearchOnly
<1>7. ASSUME NEW t \in Thread, Return(t) PROVE StoreInvariant'
  BY <1>7 DEF Return, SearchOnly
<1>8. 0 .. number_of_threads - 1 \subseteq Thread
  BY DEF Thread
<1> QED
  BY <1>1, <1>2, <1>5, <1>6, <1>7, <1>8 DEF Next

(* Types, every vector is in its own bucket, and no mere search inserts.   *)
THEOREM StoreInvariantHolds == Spec => []StoreInvariant
BY InitInvariant, NextInvariant, PTL DEF Spec

-----------------------------------------------------------------------------
(* Looking into one bucket tells whether the store knows the vector, and   *)
(* adding to one bucket adds to the store.                                 *)
LEMMA OneBucketWillDo ==
  ASSUME TypeOK, NEW t \in Thread
  PROVE  /\ Known(t) <=> Singleton(vec[t]) \subseteq Contents
         /\ Add(t) => Contents' = Contents \union Singleton(vec[t])
<1> USE StoreAssumption
<1>1. vec[t] \in Vector /\ Hash(vec[t]) \in Bucket
  BY DEF TypeOK
<1>2. Known(t) <=> Singleton(vec[t]) \subseteq Contents
  BY <1>1 DEF TypeOK, Known, Home, Singleton, Contents
<1>3. ASSUME Add(t) PROVE Contents' = Contents \union Singleton(vec[t])
  <2>1. \A b \in Bucket : buckets'[b] = IF b = Hash(vec[t])
                                          THEN buckets[b] \union {vec[t]}
                                          ELSE buckets[b]
    BY <1>3 DEF TypeOK, Add
  <2> QED
    BY <1>1, <2>1 DEF Contents, Singleton
<1> QED
  BY <1>2, <1>3

(* The atomic store begins as this one does ...                            *)
LEMMA InitAtomic == Init => Atomic!Init
<1> SUFFICES ASSUME Init PROVE Atomic!Init
  OBVIOUS
<1>1. Contents = {}
  BY DEF Init, Contents
<1>2. \A t \in Thread :
        [vec |-> vec[t], insert |-> ~ SearchOnly(t), answer |-> Status(t)]
          \in {c \in Atomic!Call : c.answer = "idle"}
  BY DEF Init, SearchOnly, Status, Atomic!Call, Atomic!Answers
<1> QED
  BY <1>1, <1>2 DEF Atomic!Init

(* ... and every step is a step of the atomic store, or leaves it alone.   *)
LEMMA NextAtomic ==
  StoreInvariant /\ [Next]_vars => [Atomic!Next]_(Atomic!storeVars)
<1> SUFFICES ASSUME StoreInvariant, [Next]_vars
             PROVE  [Atomic!Next]_(Atomic!storeVars)
  OBVIOUS
<1> USE DEF StoreInvariant, args
<1> DEFINE Request(t) ==
             [vec |-> vec[t], insert |-> ~ SearchOnly(t), answer |-> Status(t)]
           call == [t \in Thread |-> Request(t)]
<1>1. CASE UNCHANGED vars
  <2>1. UNCHANGED <<Contents, call>>
    BY <1>1 DEF vars, Contents, SearchOnly, Status
  <2> QED
    BY <2>1 DEF Atomic!storeVars
<1>2. ASSUME NEW t \in Thread, Call(t) PROVE Atomic!Start(t)
  <2>1. PICK v \in Vector, n \in BOOLEAN :
          vec' = [vec EXCEPT ![t] = v] /\ noinsert' = [noinsert EXCEPT ![t] = n]
    BY <1>2 DEF Call
  <2>2. call' = [call EXCEPT ![t] =
                   [vec |-> v, insert |-> ~ (~ plugged /\ n), answer |-> "pending"]]
    BY <1>2, <2>1 DEF Call, TypeOK, SearchOnly, Status
  <2>3. Contents' = Contents
    BY <1>2 DEF Call, Contents
  <2> QED
    BY <1>2, <2>2, <2>3 DEF Call, Status, Atomic!Start
<1>3. ASSUME NEW t \in Thread, pc[t] \in {"lookup", "insert"},
             Answer(t, Known(t)),
             IF SearchOnly(t) THEN UNCHANGED buckets
             ELSE Add(t) \/ (Known(t) /\ UNCHANGED buckets)
      PROVE  Atomic!TakeEffect(t)
  <2>1. call' = [call EXCEPT ![t].answer = IF Known(t) THEN "known" ELSE "new"]
    BY <1>3 DEF Answer, TypeOK, SearchOnly, Status
  <2>2. Status(t) = "pending"
    BY <1>3 DEF Status
  <2>3. Contents' = IF SearchOnly(t) THEN Contents
                    ELSE Contents \union Singleton(vec[t])
    <3>1. ASSUME UNCHANGED buckets PROVE Contents' = Contents
      BY <3>1 DEF Contents
    <3> QED
      BY <1>3, <3>1, OneBucketWillDo
  <2>4. Known(t) <=> Singleton(vec[t]) \subseteq Contents
    BY OneBucketWillDo
  <2> QED
    BY <2>1, <2>2, <2>3, <2>4 DEF Atomic!TakeEffect
<1>4. ASSUME NEW t \in Thread, LookupMisses(t) PROVE UNCHANGED <<Contents, call>>
  <2>1. call' = call
    BY <1>4 DEF LookupMisses, TypeOK, SearchOnly, Status
  <2> QED
    BY <1>4, <2>1 DEF LookupMisses, Contents
<1>5. ASSUME NEW t \in Thread, Return(t) PROVE Atomic!Return(t)
  <2>1. call' = [call EXCEPT ![t].answer = "idle"]
    BY <1>5 DEF Return, TypeOK, SearchOnly, Status
  <2> QED
    BY <1>5, <2>1 DEF Return, TypeOK, Status, Contents, Atomic!Return
<1>6. ASSUME NEW t \in Thread, Unlocked(t) PROVE Atomic!TakeEffect(t)
  BY <1>3, <1>6 DEF Unlocked
<1>7. ASSUME NEW t \in Thread, LookupEnds(t) PROVE Atomic!TakeEffect(t)
  BY <1>3, <1>7 DEF LookupEnds
<1>8. ASSUME NEW t \in Thread, Insert(t) PROVE Atomic!TakeEffect(t)
  BY <1>3, <1>8 DEF Insert
<1>9. 0 .. number_of_threads - 1 \subseteq Thread
  BY StoreAssumption DEF TypeOK, Thread
<1> QED
  BY <1>1, <1>2, <1>4, <1>5, <1>6, <1>7, <1>8, <1>9
     DEF Next, Atomic!Next, Atomic!storeVars

(* Lookup and insertion, each in a critical section of its own, implement  *)
(* the atomic store.                                                       *)
THEOREM StoreIsAtomic == Spec => IsAtomic
BY InitAtomic, NextAtomic, StoreInvariantHolds, PTL DEF Spec, IsAtomic, Atomic!Spec

-----------------------------------------------------------------------------
(* A set of numbers has a least one, which is what takes the place of      *)
(* induction below.                                                        *)
LEMMA LeastNumber ==
  ASSUME NEW T, T \subseteq Nat, T # {}
  PROVE  \E x \in T : \A y \in T : x <= y
<1>1. PICK x \in T : \A y \in T : ~ (<<y, x>> \in OpToRel(<, Nat))
  BY NatLessThanWellFounded, WFMin
<1>2. ASSUME NEW y \in T, y < x PROVE <<y, x>> \in OpToRel(<, Nat)
  BY <1>2 DEF OpToRel
<1>3. \A y \in T : ~ (y < x)
  BY <1>1, <1>2
<1> QED
  BY <1>3

(* The partial sums of the first n counters.                               *)
AreSums(f, c, n) ==
  f = [k \in 0 .. n |-> IF k = 0 THEN 0 ELSE f[k-1] + c[k-1]]

LEMMA SumsExist ==
  ASSUME NEW c, NEW n \in Nat
  PROVE  \E f : AreSums(f, c, n)
<1> DEFINE T == {k \in Nat : ~ \E f : AreSums(f, c, k)}
<1>1. SUFFICES ASSUME T # {} PROVE FALSE
  OBVIOUS
<1> HIDE DEF T
<1>2. PICK k \in T : \A j \in T : k <= j
  <2>1. T \subseteq Nat
    BY DEF T
  <2> QED
    BY <1>1, <2>1, LeastNumber
<1>3. k \in Nat /\ ~ \E f : AreSums(f, c, k)
  BY DEF T
<1>4. CASE k = 0
  <2>1. AreSums([i \in 0 .. 0 |-> 0], c, 0)
    BY DEF AreSums
  <2> QED
    BY <1>3, <1>4, <2>1
<1>5. CASE k > 0
  <2>1. k - 1 \in Nat /\ k - 1 \notin T
    BY <1>2, <1>3, <1>5
  <2>2. PICK f : AreSums(f, c, k - 1)
    BY <2>1 DEF T
  <2> DEFINE g == [i \in 0 .. k |-> IF i = k THEN f[k-1] + c[k-1] ELSE f[i]]
  <2>3. \A i \in 0 .. k : g[i] = IF i = 0 THEN 0 ELSE g[i-1] + c[i-1]
    <3>1. \A i \in 0 .. k - 1 : f[i] = IF i = 0 THEN 0 ELSE f[i-1] + c[i-1]
      BY <2>2 DEF AreSums
    <3> QED
      BY <3>1, <1>3, <1>5
  <2>4. g = [i \in 0 .. k |-> g[i]]
    OBVIOUS
  <2> HIDE DEF g
  <2>5. AreSums(g, c, k)
    BY <2>3, <2>4 DEF AreSums
  <2> QED
    BY <2>5, <1>3
<1> QED
  BY <1>3, <1>4, <1>5

(* What that says of every single sum.                                     *)
Adds(f, c, n) == f[0] = 0 /\ \A k \in 1 .. n : f[k] = f[k-1] + c[k-1]

LEMMA TotalIsLastSum ==
  ASSUME NEW c, NEW n \in Nat
  PROVE  \E f : Total(c, n) = f[n] /\ Adds(f, c, n)
<1> DEFINE f == CHOOSE f : AreSums(f, c, n)
<1>1. AreSums(f, c, n)
  BY SumsExist
<1>2. Total(c, n) = f[n]
  BY DEF Total, AreSums
<1> HIDE DEF f
<1>3. Adds(f, c, n)
  BY <1>1 DEF AreSums, Adds
<1> QED
  BY <1>2, <1>3

(* Thread t has counted once more.                                         *)
Counted(c, d, n, t) ==
  \A k \in 0 .. n - 1 : c[k] \in Nat /\ d[k] = IF k = t THEN c[k] + 1 ELSE c[k]

(* From its place on the sums are one greater.                             *)
LEMMA SumsDiffer ==
  ASSUME NEW f, NEW g, NEW c, NEW d, NEW n \in Nat, NEW t \in Nat,
         Adds(f, c, n), Adds(g, d, n), Counted(c, d, n, t)
  PROVE  \A k \in 0 .. n : f[k] \in Nat /\ g[k] = IF t < k THEN f[k] + 1 ELSE f[k]
<1> DEFINE Right(k) == f[k] \in Nat /\ g[k] = IF t < k THEN f[k] + 1 ELSE f[k]
           T == {k \in 0 .. n : ~ Right(k)}
<1>1. SUFFICES ASSUME T # {} PROVE FALSE
  OBVIOUS
<1>2. PICK k \in T : \A j \in T : k <= j
  <2>1. T \subseteq Nat
    OBVIOUS
  <2> HIDE DEF T
  <2> QED
    BY <1>1, <2>1, LeastNumber
<1>3. CASE k = 0
  BY <1>2, <1>3 DEF Adds
<1>4. CASE k \in 1 .. n
  <2>1. k - 1 \in 0 .. n - 1 /\ Right(k - 1)
    BY <1>2, <1>4
  <2>2. c[k-1] \in Nat /\ d[k-1] = IF k - 1 = t THEN c[k-1] + 1 ELSE c[k-1]
    BY <2>1 DEF Counted
  <2>3. f[k] = f[k-1] + c[k-1] /\ g[k] = g[k-1] + d[k-1]
    BY <1>4 DEF Adds
  <2>4. Right(k)
    BY <1>4, <2>1, <2>2, <2>3
  <2> QED
    BY <1>2, <2>4
<1> QED
  BY <1>2, <1>3, <1>4

LEMMA OneMore ==
  ASSUME NEW c, NEW d, NEW n \in Nat, NEW t \in 0 .. n - 1, Counted(c, d, n, t)
  PROVE  Total(d, n) = Total(c, n) + 1 /\ Total(c, n) \in Nat
<1>1. PICK f : Total(c, n) = f[n] /\ Adds(f, c, n)
  BY TotalIsLastSum
<1>2. PICK g : Total(d, n) = g[n] /\ Adds(g, d, n)
  BY TotalIsLastSum
<1>3. n \in 0 .. n /\ t \in Nat /\ t < n
  OBVIOUS
<1>4. f[n] \in Nat /\ g[n] = IF t < n THEN f[n] + 1 ELSE f[n]
  BY <1>1, <1>2, <1>3, SumsDiffer
<1> QED
  BY <1>1, <1>2, <1>3, <1>4

LEMMA TotalIsNatural ==
  ASSUME NEW c, NEW n \in Nat, \A k \in 0 .. n - 1 : c[k] \in Nat
  PROVE  Total(c, n) \in Nat
<1>1. PICK f : Total(c, n) = f[n] /\ Adds(f, c, n)
  BY TotalIsLastSum
<1>2. Counted(c, c, n, n)
  BY DEF Counted
<1>3. n \in 0 .. n
  OBVIOUS
<1> QED
  BY <1>1, <1>2, <1>3, SumsDiffer

(* The sum of no counts.                                                   *)
LEMMA NothingCounted ==
  ASSUME NEW c, NEW n \in Nat, \A k \in 0 .. n - 1 : c[k] = 0
  PROVE  Total(c, n) = 0
<1>1. PICK f : Total(c, n) = f[n] /\ Adds(f, c, n)
  BY TotalIsLastSum
<1> DEFINE T == {k \in 0 .. n : f[k] # 0}
<1>2. ASSUME T # {} PROVE FALSE
  <2>1. PICK k \in T : \A j \in T : k <= j
    <3>1. T \subseteq Nat
      OBVIOUS
    <3> HIDE DEF T
    <3> QED
      BY <1>2, <3>1, LeastNumber
  <2>2. k \in 1 .. n
    BY <1>1, <2>1 DEF Adds
  <2>3. k - 1 \in 0 .. n - 1 /\ f[k-1] = 0
    BY <2>1, <2>2
  <2>4. f[k] = 0
    BY <1>1, <2>2, <2>3 DEF Adds
  <2> QED
    BY <2>1, <2>4
<1> QED
  BY <1>1, <1>2

(* The invariant behind the counters; finitely many vectors are stored.    *)
CountInvariant == StoreInvariant /\ IsFiniteSet(Contents) /\ CountExact

LEMMA ReportingFinite == IsFiniteSet(Reporting)
<1>1. IsFiniteSet(Thread)
  BY StoreAssumption, FS_Interval DEF Thread
<1>2. Reporting \subseteq Thread
  BY DEF Reporting
<1> QED
  BY <1>1, <1>2, FS_Subset

LEMMA InitCount == Init => CountInvariant
<1> SUFFICES ASSUME Init PROVE CountInvariant
  OBVIOUS
<1>1. Contents = {} /\ Reporting = {}
  BY DEF Init, Contents, Reporting
<1>2. IsFiniteSet(Contents) /\ Cardinality(Contents) = 0 /\ Cardinality(Reporting) = 0
  BY <1>1, FS_EmptySet
<1>3. number_of_threads \in Nat /\ \A t \in 0 .. number_of_threads - 1 : markings[t] = 0
  BY StoreAssumption DEF Init, Thread
<1>4. get_number_of_markings = 0
  BY <1>3, NothingCounted DEF get_number_of_markings
<1> QED
  BY <1>2, <1>4, InitInvariant DEF CountInvariant, CountExact

(* Steps that leave the stores and the counters as they are, and let       *)
(* nobody begin or end reporting.                                          *)
LEMMA QuietCount ==
  ASSUME CountInvariant, UNCHANGED <<args, buckets, markings>>, Reporting' = Reporting
  PROVE  IsFiniteSet(Contents)' /\ CountExact'
<1>1. Contents' = Contents
  BY DEF Contents
<1>2. get_number_of_markings' = get_number_of_markings
  BY DEF args, get_number_of_markings
<1> QED
  BY <1>1, <1>2 DEF CountInvariant, CountExact, args

(* The answer to a call: a vector that was not known has been added, and   *)
(* the thread is about to count it.                                        *)
LEMMA AnswerCount ==
  ASSUME CountInvariant, NEW t \in Thread, pc[t] \in {"lookup", "insert"},
         Answer(t, Known(t)),
         IF SearchOnly(t) THEN UNCHANGED buckets
         ELSE Add(t) \/ (Known(t) /\ UNCHANGED buckets)
  PROVE  IsFiniteSet(Contents)' /\ CountExact'
<1>t. TypeOK /\ IsFiniteSet(Contents) /\ CountExact
  BY DEF CountInvariant, StoreInvariant
<1>1. /\ UNCHANGED <<args, vec, noinsert, markings>>
      /\ ret' = [ret EXCEPT ![t] = Known(t)] /\ pc' = [pc EXCEPT ![t] = "return"]
  BY DEF Answer
<1>2. Reporting' = IF Known(t) THEN Reporting ELSE Reporting \union {t}
  <2>1. \A u \in Thread : /\ pc'[u] = IF u = t THEN "return" ELSE pc[u]
                          /\ ret'[u] = IF u = t THEN Known(t) ELSE ret[u]
    BY <1>t, <1>1 DEF TypeOK
  <2>2. t \notin Reporting
    BY DEF Reporting
  <2> QED
    BY <2>1, <2>2 DEF Reporting
<1>3. get_number_of_markings' = get_number_of_markings
  BY <1>1 DEF args, get_number_of_markings
<1>4. Contents' \in {Contents, Contents \union Singleton(vec[t])}
  <2>1. UNCHANGED buckets => Contents' = Contents
    BY DEF Contents
  <2> QED
    BY <1>t, <2>1, OneBucketWillDo
<1>5. IsFiniteSet(Contents')
  BY <1>t, <1>4, FS_AddElement DEF Singleton
<1>6. CASE Known(t)
  <2>1. Contents' = Contents
    BY <1>t, <1>4, <1>6, OneBucketWillDo
  <2> QED
    BY <1>t, <1>1, <1>2, <1>3, <1>6, <2>1 DEF CountExact, args
<1>7. CASE ~ Known(t) /\ plugged
  <2>1. ~ SearchOnly(t)
    BY <1>7 DEF SearchOnly
  <2>2. Contents' = Contents \union {vec[t]} /\ vec[t] \notin Contents
    BY <1>t, <1>7, <2>1, OneBucketWillDo DEF Singleton
  <2>3. Cardinality(Contents') = Cardinality(Contents) + 1
    BY <1>t, <2>2, FS_AddElement
  <2>4. Reporting' = Reporting \union {t} /\ t \notin Reporting
    BY <1>2, <1>7 DEF Reporting
  <2>5. Cardinality(Reporting') = Cardinality(Reporting) + 1
    BY <2>4, ReportingFinite, FS_AddElement
  <2>6. /\ Cardinality(Reporting) \in Nat /\ Cardinality(Contents) \in Nat
        /\ get_number_of_markings + Cardinality(Reporting) = Cardinality(Contents)
    BY <1>t, <1>7, ReportingFinite, FS_CardinalityType DEF CountExact
  <2>7. get_number_of_markings \in Int
    <3>1. \A k \in 0 .. number_of_threads - 1 : k \in Thread
      BY <1>t, StoreAssumption DEF TypeOK, Thread
    <3>2. number_of_threads \in Nat
      BY <1>t, StoreAssumption DEF TypeOK
    <3>3. Total(markings, number_of_threads) \in Nat
      BY <1>t, <3>1, <3>2, TotalIsNatural DEF TypeOK
    <3> QED
      BY <3>3 DEF get_number_of_markings
  <2> QED
    BY <1>3, <1>5, <2>3, <2>5, <2>6, <2>7 DEF CountExact
<1>8. CASE ~ plugged
  BY <1>1, <1>5, <1>8 DEF CountExact, args
<1> QED
  BY <1>6, <1>7, <1>8, <1>5

(* The return: the thread counts what it has added.                        *)
LEMMA ReturnCount ==
  ASSUME CountInvariant, NEW t \in 0 .. number_of_threads - 1, Return(t)
  PROVE  IsFiniteSet(Contents)' /\ CountExact'
<1>t. /\ TypeOK /\ IsFiniteSet(Contents) /\ CountExact
      /\ number_of_threads \in Nat /\ 0 .. number_of_threads - 1 \subseteq Thread
      /\ t \in Thread
  BY StoreAssumption DEF CountInvariant, StoreInvariant, TypeOK, Thread
<1>1. /\ UNCHANGED <<args, vec, noinsert, ret, buckets>> /\ pc[t] = "return"
      /\ pc' = [pc EXCEPT ![t] = "idle"]
      /\ markings' = IF plugged /\ ~ ret[t] THEN [markings EXCEPT ![t] = @ + 1]
                     ELSE markings
  BY DEF Return
<1>2. \A u \in Thread : pc'[u] = IF u = t THEN "idle" ELSE pc[u]
  BY <1>t, <1>1 DEF TypeOK
<1>3. Contents' = Contents
  BY <1>1 DEF Contents
<1>4. CASE ret[t]
  <2>1. Reporting' = Reporting
    BY <1>1, <1>2, <1>4 DEF Reporting
  <2> QED
    BY <1>1, <1>4, <2>1, QuietCount
<1>5. CASE ~ plugged
  BY <1>t, <1>1, <1>3, <1>5 DEF CountExact, args
<1>6. CASE plugged /\ ~ ret[t]
  <2>1. Reporting' = Reporting \ {t} /\ t \in Reporting
    BY <1>t, <1>1, <1>2, <1>6 DEF Reporting
  <2>2. Cardinality(Reporting') = Cardinality(Reporting) - 1
    BY <2>1, ReportingFinite, FS_RemoveElement
  <2>3. Counted(markings, markings', number_of_threads, t)
    BY <1>t, <1>1, <1>6 DEF TypeOK, Counted
  <2>4. /\ Total(markings', number_of_threads) = Total(markings, number_of_threads) + 1
        /\ Total(markings, number_of_threads) \in Nat
    BY <1>t, <2>3, OneMore
  <2>5. get_number_of_markings' = Total(markings', number_of_threads)
    BY <1>1 DEF get_number_of_markings, args
  <2>6. /\ Cardinality(Reporting) \in Nat
        /\ Total(markings, number_of_threads) + Cardinality(Reporting)
             = Cardinality(Contents)
    BY <1>t, <1>6, ReportingFinite, FS_CardinalityType DEF CountExact, get_number_of_markings
  <2>7. get_number_of_markings' + Cardinality(Reporting') = Cardinality(Contents')
    BY <1>3, <2>2, <2>4, <2>5, <2>6
  <2> QED
    BY <1>t, <1>3, <2>7 DEF CountExact
<1> QED
  BY <1>4, <1>5, <1>6

LEMMA NextCount == CountInvariant /\ [Next]_vars => CountInvariant'
<1> SUFFICES ASSUME CountInvariant, [Next]_vars PROVE CountInvariant'
  OBVIOUS
<1>1. TypeOK /\ StoreInvariant'
  BY NextInvariant DEF CountInvariant, StoreInvariant
<1>2. CASE UNCHANGED vars
  <2>1. Reporting' = Reporting
    BY <1>2 DEF vars, Reporting
  <2> QED
    BY <1>1, <1>2, <2>1, QuietCount DEF vars, CountInvariant
<1>3. ASSUME NEW t \in 0 .. number_of_threads - 1, Call(t) \/ LookupMisses(t)
      PROVE  CountInvariant'
  <2>1. /\ UNCHANGED <<args, ret, buckets, markings>>
        /\ pc[t] # "return" /\ \E l : l # "return" /\ pc' = [pc EXCEPT ![t] = l]
    BY <1>3 DEF Call, LookupMisses
  <2>2. Reporting' = Reporting
    BY <1>1, <2>1 DEF Reporting, TypeOK
  <2> QED
    BY <1>1, <2>1, <2>2, QuietCount DEF CountInvariant
<1>4. 0 .. number_of_threads - 1 \subseteq Thread
  BY <1>1, StoreAssumption DEF TypeOK, Thread
<1>5. ASSUME NEW t \in Thread, Unlocked(t) \/ LookupEnds(t) \/ Insert(t)
      PROVE  CountInvariant'
  <2>1. Answer(t, Known(t)) /\ pc[t] \in {"lookup", "insert"}
    BY <1>5 DEF Unlocked, LookupEnds, Insert
  <2>2. IF SearchOnly(t) THEN UNCHANGED buckets
        ELSE Add(t) \/ (Known(t) /\ UNCHANGED buckets)
    BY <1>5 DEF Unlocked, LookupEnds, Insert, CountInvariant, StoreInvariant
  <2> QED
    BY <1>1, <2>1, <2>2, AnswerCount DEF CountInvariant
<1>6. ASSUME NEW t \in 0 .. number_of_threads - 1, Return(t)
      PROVE  CountInvariant'
  BY <1>1, <1>6, ReturnCount DEF CountInvariant
<1> QED
  BY <1>2, <1>3, <1>4, <1>5, <1>6 DEF Next

(* The counters of the threads, read one after the other, add up to the    *)
(* number of vectors in the store, but for those threads that have added   *)
(* one and not yet counted it: exact when the search is over.              *)
THEOREM CounterExact == Spec => []CountExact
<1>1. CountInvariant => CountExact
  BY DEF CountInvariant
<1> QED
  BY <1>1, InitCount, NextCount, PTL DEF Spec
=============================================================================
