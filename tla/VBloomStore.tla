---------------------------- MODULE VBloomStore ----------------------------
(***************************************************************************)
(* The Bloom filter store (VBloomStore::searchAndInsert,                   *)
(* src/lola2/src/Stores/VectorStores/VBloomStore.inc) with its double-     *)
(* checked locking: bits are read without the mutex, and only the first    *)
(* unset bit is read again under it.  Every access to a bit of the filter  *)
(* is one action; the mutex is taken and the bit read again in one, since  *)
(* bits are written under the mutex only.                                  *)
(*                                                                         *)
(* The searches reach this store through PluginStore, which never asks for *)
(* a mere lookup: the early return for noinsert is not taken.              *)
(***************************************************************************)
EXTENDS Integers, FiniteSets

CONSTANTS
  Thread,           (* the threads                                         *)
  Vector,           (* the encoded markings                                *)
  hash_functions,   (* number of hash functions                            *)
  Bit,              (* positions of the filter: 0 .. SIZE - 1              *)
  cur_hash(_, _),   (* cur_hashes[h] of a vector, h < hash_functions       *)
  Nobody            (* no thread                                           *)

(* There are two hash functions at least (the default of the option): the  *)
(* first two are computed without a look at their number, and with only    *)
(* one the second value would be written into the row of another thread.   *)
ASSUME FilterAssumption ==
  /\ Nobody \notin Thread
  /\ hash_functions \in Nat \ {0, 1}
  /\ \A v \in Vector, h \in 0 .. hash_functions - 1 : cur_hash(v, h) \in Bit

VARIABLES
  pc,               (* "idle", "probe", "lock", "set", "known", "new"      *)
  vec,              (* the vector each thread asks for                     *)
  h,                (* the loop counter                                    *)
  filter,           (* the bits that are set                               *)
  mutex             (* its holder, or Nobody                               *)

vars == <<pc, vec, h, filter, mutex>>

Init ==
  /\ pc = [t \in Thread |-> "idle"]
  /\ vec \in [Thread -> Vector]
  /\ h = [t \in Thread |-> 0]
  /\ filter = {}
  /\ mutex = Nobody

(* The bit under the loop counter.                                         *)
Current(t) == cur_hash(vec[t], h[t])

Call(t) ==
  /\ pc[t] = "idle"
  /\ \E v \in Vector : vec' = [vec EXCEPT ![t] = v]
  /\ h' = [h EXCEPT ![t] = 0]
  /\ pc' = [pc EXCEPT ![t] = "probe"]
  /\ UNCHANGED <<filter, mutex>>

(* Mutant: the last hash function is not looked at.                        *)
AdvanceShort(t) ==
  /\ h' = [h EXCEPT ![t] = @ + 1]
  /\ pc' = [pc EXCEPT ![t] = IF h[t] + 2 >= hash_functions THEN "known" ELSE "probe"]

(* The end of the loop body: the next hash function, or all bits were set. *)
Advance(t) ==
  /\ h' = [h EXCEPT ![t] = @ + 1]
  /\ pc' = [pc EXCEPT ![t] = IF h[t] + 1 = hash_functions THEN "known" ELSE "probe"]

ProbeSet(t) ==
  /\ pc[t] = "probe"
  /\ Current(t) \in filter
  /\ Advance(t)
  /\ UNCHANGED <<vec, filter, mutex>>

ProbeUnset(t) ==
  /\ pc[t] = "probe"
  /\ Current(t) \notin filter
  /\ pc' = [pc EXCEPT ![t] = "lock"]
  /\ UNCHANGED <<vec, h, filter, mutex>>

(* Under the mutex the bit is still unset.                                 *)
LockUnset(t) ==
  /\ pc[t] = "lock"
  /\ mutex = Nobody
  /\ Current(t) \notin filter
  /\ mutex' = t
  /\ pc' = [pc EXCEPT ![t] = "set"]
  /\ UNCHANGED <<vec, h, filter>>

(* Mutant: the bit is not read again.                                      *)
LockTrusts(t) ==
  /\ pc[t] = "lock"
  /\ mutex = Nobody
  /\ Current(t) \in filter
  /\ mutex' = t
  /\ pc' = [pc EXCEPT ![t] = "set"]
  /\ UNCHANGED <<vec, h, filter>>

(* Somebody else has set it in the meantime: release the mutex, go on.     *)
LockSet(t) ==
  /\ pc[t] = "lock"
  /\ mutex = Nobody
  /\ Current(t) \in filter
  /\ Advance(t)
  /\ UNCHANGED <<vec, filter, mutex>>

(* Mutant: the mutex is released before the last bit is set.               *)
ReleaseEarly(t) ==
  IF h[t] + 2 < hash_functions
    THEN UNCHANGED <<pc, mutex>>
    ELSE /\ mutex' = Nobody
         /\ pc' = [pc EXCEPT ![t] = IF h[t] + 1 < hash_functions THEN "set" ELSE "new"]

(* Release the mutex after the last bit.                                   *)
Release(t) ==
  IF h[t] + 1 < hash_functions
    THEN UNCHANGED <<pc, mutex>>
    ELSE /\ mutex' = Nobody
         /\ pc' = [pc EXCEPT ![t] = "new"]

SetBit(t) ==
  /\ pc[t] = "set"
  /\ filter' = filter \union {Current(t)}
  /\ h' = [h EXCEPT ![t] = @ + 1]
  /\ Release(t)
  /\ UNCHANGED vec

Return(t) ==
  /\ pc[t] \in {"known", "new"}
  /\ pc' = [pc EXCEPT ![t] = "idle"]
  /\ UNCHANGED <<vec, h, filter, mutex>>

Next ==
  \E t \in Thread :
    \/ Call(t) \/ ProbeSet(t) \/ ProbeUnset(t)
    \/ LockUnset(t) \/ LockSet(t) \/ SetBit(t) \/ Return(t)

Spec == Init /\ [][Next]_vars

-----------------------------------------------------------------------------
(* All bits of a vector, and those that are still to be set: by the holder *)
(* of the mutex, from its loop counter on.                                 *)
Bits(v) == {cur_hash(v, i) : i \in 0 .. hash_functions - 1}
Rest(t) == {cur_hash(vec[t], i) : i \in h[t] .. hash_functions - 1}
ToBeSet == UNION {Rest(t) : t \in {u \in Thread : pc[u] = "set"}}

(* Types of all variables; the loop counter never leaves the array of hash *)
(* values while it is used as an index.                                    *)
TypeOK ==
  /\ pc \in [Thread -> {"idle", "probe", "lock", "set", "known", "new"}]
  /\ vec \in [Thread -> Vector]
  /\ h \in [Thread -> 0 .. hash_functions]
  /\ filter \in SUBSET Bit
  /\ mutex \in Thread \union {Nobody}
  /\ \A t \in Thread : pc[t] \in {"probe", "lock", "set"} => h[t] < hash_functions

(* The double-checked locking works: the filter is atomic in the sense of  *)
(* AtomicStore.  Of several calls with one vector a single one is answered *)
(* "new", and no vector is answered "known" before all its bits are meant  *)
(* to be set.                                                              *)
Answer(t) ==
  IF pc[t] \in {"probe", "lock"} THEN "pending"
  ELSE IF pc[t] = "set" THEN "new" ELSE pc[t]

Atomic == INSTANCE AtomicStore WITH
  Cells  <- Bits,
  filled <- filter \union ToBeSet,
  call   <- [t \in Thread |->
               [vec |-> vec[t], insert |-> TRUE, answer |-> Answer(t)]]

IsAtomic == Atomic!Spec

(* The inductive invariant behind it: the bits before the loop counter are *)
(* set, and only the holder of the mutex is setting bits.                  *)
FilterInvariant ==
  /\ TypeOK
  /\ \A t \in Thread :
       /\ pc[t] = "set" <=> mutex = t
       /\ pc[t] \in {"probe", "lock"} =>
            \A i \in 0 .. h[t] - 1 : cur_hash(vec[t], i) \in filter
=============================================================================
