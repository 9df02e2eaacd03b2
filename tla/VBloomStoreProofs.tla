------------------------- MODULE VBloomStoreProofs -------------------------
(***************************************************************************)
(* The double-checked locking of the Bloom filter store is correct for any *)
(* number of threads, vectors and hash functions.                          *)
(***************************************************************************)
EXTENDS VBloomStore, TLAPS

(* The invariant holds at the start ...                                    *)
LEMMA InitInvariant == Init => FilterInvariant
BY FilterAssumption DEF Init, FilterInvariant, TypeOK

(* ... and every step of every thread keeps it.                            *)
LEMMA NextInvariant == FilterInvariant /\ [Next]_vars => FilterInvariant'
<1> SUFFICES ASSUME FilterInvariant, [Next]_vars PROVE FilterInvariant'
  OBVIOUS
<1> USE FilterAssumption
<1>1. CASE UNCHANGED vars
  BY <1>1 DEF FilterInvariant, TypeOK, vars
<1>2. ASSUME NEW t \in Thread, Call(t) PROVE FilterInvariant'
  BY <1>2 DEF FilterInvariant, TypeOK, Call
<1>3. ASSUME NEW t \in Thread, ProbeSet(t) PROVE FilterInvariant'
  BY <1>3 DEF FilterInvariant, TypeOK, ProbeSet, Advance, Current
<1>4. ASSUME NEW t \in Thread, ProbeUnset(t) PROVE FilterInvariant'
  BY <1>4 DEF FilterInvariant, TypeOK, ProbeUnset
<1>5. ASSUME NEW t \in Thread, LockUnset(t) PROVE FilterInvariant'
  BY <1>5 DEF FilterInvariant, TypeOK, LockUnset
<1>6. ASSUME NEW t \in Thread, LockSet(t) PROVE FilterInvariant'
  BY <1>6 DEF FilterInvariant, TypeOK, LockSet, Advance, Current
<1>7. ASSUME NEW t \in Thread, SetBit(t) PROVE FilterInvariant'
  BY <1>7 DEF FilterInvariant, TypeOK, SetBit, Release, Current
<1>8. ASSUME NEW t \in Thread, Return(t) PROVE FilterInvariant'
  BY <1>8 DEF FilterInvariant, TypeOK, Return
<1> QED
  BY <1>1, <1>2, <1>3, <1>4, <1>5, <1>6, <1>7, <1>8 DEF Next

(* Bits before the loop counter are set, and only the holder of the mutex  *)
(* is setting bits, in every reachable state.                              *)
THEOREM FilterInvariantHolds == Spec => []FilterInvariant
BY InitInvariant, NextInvariant, PTL DEF Spec
-----------------------------------------------------------------------------
(* Who holds the mutex decides which bits are still to be set.             *)
LEMMA NobodySets ==
  ASSUME FilterInvariant, mutex = Nobody
  PROVE  ToBeSet = {}
BY FilterAssumption DEF FilterInvariant, ToBeSet

LEMMA HolderSets ==
  ASSUME FilterInvariant, NEW t \in Thread, pc[t] = "set"
  PROVE  ToBeSet = Rest(t)
<1>1. \A u \in Thread : pc[u] = "set" => u = t
  BY DEF FilterInvariant
<1>2. {u \in Thread : pc[u] = "set"} = {t}
  BY <1>1
<1> QED
  BY <1>2 DEF ToBeSet

(* The bits still to be set depend on the threads in "set" only.           *)
LEMMA ToBeSetKept ==
  ASSUME FilterInvariant, NEW t \in Thread, pc[t] # "set", pc'[t] # "set",
         \A u \in Thread \ {t} : pc'[u] = pc[u] /\ vec'[u] = vec[u] /\ h'[u] = h[u]
  PROVE  ToBeSet' = ToBeSet
<1>1. {u \in Thread : pc'[u] = "set"} = {u \in Thread : pc[u] = "set"}
  OBVIOUS
<1>2. \A u \in {v \in Thread : pc[v] = "set"} : Rest(u)' = Rest(u)
  BY DEF Rest
<1> QED
  BY <1>1, <1>2 DEF ToBeSet

(* The atomic store begins as this one does ...                            *)
LEMMA InitAtomic == Init => Atomic!Init
<1> SUFFICES ASSUME Init PROVE Atomic!Init
  OBVIOUS
<1>1. filter \union ToBeSet = {}
  BY DEF Init, ToBeSet
<1>2. \A t \in Thread : Answer(t) = "idle"
  BY DEF Init, Answer
<1>3. \A t \in Thread :
        [vec |-> vec[t], insert |-> TRUE, answer |-> Answer(t)]
          \in {c \in Atomic!Call : c.answer = "idle"}
  BY <1>2 DEF Init, Atomic!Call, Atomic!Answers
<1> QED
  BY <1>1, <1>3 DEF Atomic!Init

(* ... and every step is a step of the atomic store, or leaves it alone.   *)
LEMMA NextAtomic ==
  FilterInvariant /\ [Next]_vars => [Atomic!Next]_(Atomic!storeVars)
<1> SUFFICES ASSUME FilterInvariant, [Next]_vars
             PROVE  [Atomic!Next]_(Atomic!storeVars)
  OBVIOUS
<1> USE FilterAssumption
<1> DEFINE filled == filter \union ToBeSet
           Request(t) == [vec |-> vec[t], insert |-> TRUE, answer |-> Answer(t)]
           call == [t \in Thread |-> Request(t)]
<1>0. FilterInvariant'
  BY NextInvariant
<1>1. CASE UNCHANGED vars
  <2>1. UNCHANGED <<filled, call>>
    BY <1>1 DEF vars, ToBeSet, Rest, Answer
  <2> QED
    BY <2>1 DEF Atomic!storeVars
<1>2. ASSUME NEW t \in Thread, Call(t) PROVE Atomic!Start(t)
  <2>1. ToBeSet' = ToBeSet
    BY <1>2, ToBeSetKept DEF Call, FilterInvariant, TypeOK
  <2>2. PICK v \in Vector : vec' = [vec EXCEPT ![t] = v]
    BY <1>2 DEF Call
  <2>3. call' = [call EXCEPT ![t] = [vec |-> v, insert |-> TRUE, answer |-> "pending"]]
    BY <1>2, <2>2 DEF Call, FilterInvariant, TypeOK, Answer
  <2> QED
    BY <1>2, <2>1, <2>3 DEF Call, Answer, Atomic!Start
<1>3. ASSUME NEW t \in Thread, pc[t] \in {"probe", "lock"}, Current(t) \in filter,
             Advance(t), UNCHANGED <<vec, filter>>
      PROVE  [Atomic!TakeEffect(t)]_<<filled, call>>
  <2>1. ToBeSet' = ToBeSet
    BY <1>3, ToBeSetKept DEF Advance, FilterInvariant, TypeOK
  <2>2. CASE h[t] + 1 = hash_functions
    <3>1. Bits(vec[t]) \subseteq filter
      BY <1>3, <2>2 DEF Bits, Current, FilterInvariant, TypeOK
    <3>2. call' = [call EXCEPT ![t].answer = "known"]
      BY <1>3, <2>2 DEF Advance, FilterInvariant, TypeOK, Answer
    <3>3. Answer(t) = "pending"
      BY <1>3 DEF Answer
    <3> QED
      BY <1>3, <2>1, <3>1, <3>2, <3>3 DEF Atomic!TakeEffect
  <2>3. CASE h[t] + 1 # hash_functions
    <3>1. call' = call
      BY <1>3, <2>3 DEF Advance, FilterInvariant, TypeOK, Answer
    <3> QED
      BY <1>3, <2>1, <3>1
  <2> QED
    BY <2>2, <2>3
<1>4. ASSUME NEW t \in Thread, ProbeUnset(t) PROVE UNCHANGED <<filled, call>>
  <2>1. ToBeSet' = ToBeSet
    BY <1>4, ToBeSetKept DEF ProbeUnset, FilterInvariant, TypeOK
  <2>2. call' = call
    BY <1>4 DEF ProbeUnset, FilterInvariant, TypeOK, Answer
  <2> QED
    BY <1>4, <2>1, <2>2 DEF ProbeUnset
<1>5. ASSUME NEW t \in Thread, LockUnset(t) PROVE Atomic!TakeEffect(t)
  <2>1. ToBeSet = {}
    BY <1>5, NobodySets DEF LockUnset
  <2>2. ToBeSet' = Rest(t)'
    <3>1. pc'[t] = "set"
      BY <1>5 DEF LockUnset, FilterInvariant, TypeOK
    <3>2. {u \in Thread : pc'[u] = "set"} = {t}
      BY <1>0, <3>1 DEF FilterInvariant
    <3> QED
      BY <3>2 DEF ToBeSet
  <2>3. Rest(t)' = Rest(t)
    BY <1>5 DEF LockUnset, Rest
  <2>4. filter \union Rest(t) = filter \union Bits(vec[t])
    BY <1>5 DEF LockUnset, Rest, Bits, FilterInvariant, TypeOK
  <2>5. ~ (Bits(vec[t]) \subseteq filter)
    BY <1>5 DEF LockUnset, Current, Bits, FilterInvariant, TypeOK
  <2>6. call' = [call EXCEPT ![t].answer = "new"]
    BY <1>5 DEF LockUnset, FilterInvariant, TypeOK, Answer
  <2>7. Answer(t) = "pending"
    BY <1>5 DEF LockUnset, Answer
  <2> QED
    BY <1>5, <2>1, <2>2, <2>3, <2>4, <2>5, <2>6, <2>7
       DEF LockUnset, Atomic!TakeEffect
<1>6. ASSUME NEW t \in Thread, SetBit(t) PROVE UNCHANGED <<filled, call>>
  <2>1. ToBeSet = Rest(t)
    BY <1>6, HolderSets DEF SetBit
  <2>2. Rest(t) = {Current(t)} \union Rest(t)'
    BY <1>6 DEF SetBit, Rest, Current, FilterInvariant, TypeOK
  <2>3. ToBeSet' = Rest(t)'
    <3>1. CASE h[t] + 1 < hash_functions
      <4>1. pc'[t] = "set"
        BY <1>6, <3>1 DEF SetBit, Release
      <4>2. {u \in Thread : pc'[u] = "set"} = {t}
        BY <1>0, <4>1 DEF FilterInvariant
      <4> QED
        BY <4>2 DEF ToBeSet
    <3>2. CASE ~ (h[t] + 1 < hash_functions)
      <4>1. {u \in Thread : pc'[u] = "set"} = {}
        BY <1>0, <1>6, <3>2 DEF SetBit, Release, FilterInvariant
      <4>2. Rest(t)' = {}
        BY <1>6, <3>2 DEF SetBit, Rest, FilterInvariant, TypeOK
      <4> QED
        BY <4>1, <4>2 DEF ToBeSet
    <3> QED
      BY <3>1, <3>2
  <2>4. call' = call
    BY <1>6 DEF SetBit, Release, FilterInvariant, TypeOK, Answer
  <2> QED
    BY <1>6, <2>1, <2>2, <2>3, <2>4 DEF SetBit
<1>7. ASSUME NEW t \in Thread, Return(t) PROVE Atomic!Return(t)
  <2>1. ToBeSet' = ToBeSet
    BY <1>7, ToBeSetKept DEF Return, FilterInvariant, TypeOK
  <2>2. call' = [call EXCEPT ![t].answer = "idle"]
    BY <1>7 DEF Return, FilterInvariant, TypeOK, Answer
  <2> QED
    BY <1>7, <2>1, <2>2 DEF Return, Answer, Atomic!Return
<1>8. ASSUME NEW t \in Thread, ProbeSet(t) \/ LockSet(t)
      PROVE  [Atomic!TakeEffect(t)]_<<filled, call>>
  BY <1>3, <1>8 DEF ProbeSet, LockSet
<1> QED
  BY <1>1, <1>2, <1>4, <1>5, <1>6, <1>7, <1>8
     DEF Next, Atomic!Next, Atomic!storeVars

(* The filter with its unlocked reads implements the atomic store: double- *)
(* checked locking neither answers "new" twice for one vector nor "known"  *)
(* for one whose bits nobody has undertaken to set.                        *)
THEOREM FilterIsAtomic == Spec => IsAtomic
BY InitAtomic, NextAtomic, FilterInvariantHolds, PTL DEF Spec, IsAtomic, Atomic!Spec
=============================================================================
