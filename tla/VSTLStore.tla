------------------------------ MODULE VSTLStore ------------------------------
(***************************************************************************)
(* The exact store: searchAndInsert of VSTLStore (a set under a read-write *)
(* lock) behind HashingWrapperStore (one VSTLStore per bucket), called     *)
(* from PluginStore by the searches, or directly by the sweep line         *)
(* (src/lola2/src/Stores).                                                 *)
(*                                                                         *)
(* The lookup holds the lock for reading and changes nothing, the          *)
(* insertion holds it for writing: each of the two critical sections is    *)
(* one action.  Between them the lock is free.                             *)
(***************************************************************************)
EXTENDS Integers, FiniteSets

CONSTANTS
  MaxThreads,       (* bound on the number of threads                      *)
  Vector,           (* the encoded markings                                *)
  Bucket,           (* buckets of the HashingWrapperStore                  *)
  Hash(_),          (* the bucket of a vector: NetState::HashCurrent       *)
  MaxCalls          (* bound on the calls counted for a thread             *)

ASSUME StoreAssumption ==
  /\ MaxThreads \in Nat \ {0}
  /\ \A v \in Vector : Hash(v) \in Bucket

Thread == 0 .. MaxThreads - 1

VARIABLES
  plugged,          (* the store is behind a PluginStore                   *)
  number_of_threads, (* argument of the constructor                        *)
  pc,               (* "idle", "lookup", "insert", "return"                *)
  vec,              (* intermediate: the vector each thread asks for       *)
  noinsert,         (* the caller only wants to search                     *)
  ret,              (* the answer: the vector was found                    *)
  buckets,          (* the set in each bucket                              *)
  calls, markings   (* the counters of class Store                         *)

args == <<plugged, number_of_threads>>
vars == <<args, pc, vec, noinsert, ret, buckets, calls, markings>>

singleThreaded == number_of_threads = 1

Init ==
  /\ plugged \in BOOLEAN
  /\ number_of_threads \in 1 .. MaxThreads
  /\ pc = [t \in Thread |-> "idle"]
  /\ vec \in [Thread -> Vector]
  /\ noinsert = [t \in Thread |-> FALSE]
  /\ ret = [t \in Thread |-> FALSE]
  /\ buckets = [b \in Bucket |-> {}]
  /\ calls = [t \in Thread |-> 0]
  /\ markings = [t \in Thread |-> 0]

Home(t) == buckets[Hash(vec[t])]
Known(t) == vec[t] \in Home(t)

(* Mutant: the vector goes into all the other buckets.                     *)
AddElsewhere(t) ==
  buckets' = [b \in Bucket |->
                buckets[b] \union (IF b = Hash(vec[t]) THEN {} ELSE {vec[t]})]
Add(t) == buckets' = [buckets EXCEPT ![Hash(vec[t])] = @ \union {vec[t]}]

(* The call arrives; PluginStore counts it.                                *)
Call(t) ==
  /\ pc[t] = "idle"
  /\ calls[t] < MaxCalls
  /\ \E v \in Vector, n \in BOOLEAN :
       /\ vec' = [vec EXCEPT ![t] = v]
       /\ noinsert' = [noinsert EXCEPT ![t] = n]
  /\ calls' = IF plugged THEN [calls EXCEPT ![t] = @ + 1] ELSE calls
  /\ pc' = [pc EXCEPT ![t] = "lookup"]
  /\ UNCHANGED <<args, ret, buckets, markings>>

(* PluginStore does not hand noinsert on: its default is to insert.        *)
SearchOnly(t) == ~ plugged /\ noinsert[t]

Answer(t, found) ==
  /\ ret' = [ret EXCEPT ![t] = found]
  /\ pc' = [pc EXCEPT ![t] = "return"]
  /\ UNCHANGED <<args, vec, noinsert, calls, markings>>

(* Only one thread: no locks.                                              *)
Unlocked(t) ==
  /\ pc[t] = "lookup"
  /\ singleThreaded
  /\ IF SearchOnly(t) THEN UNCHANGED buckets ELSE Add(t)
  /\ Answer(t, Known(t))

(* Under the lock for reading.                                             *)
LookupEnds(t) ==
  /\ pc[t] = "lookup"
  /\ ~ singleThreaded
  /\ Known(t) \/ SearchOnly(t)
  /\ UNCHANGED buckets
  /\ Answer(t, Known(t))

LookupMisses(t) ==
  /\ pc[t] = "lookup"
  /\ ~ singleThreaded
  /\ ~ Known(t) /\ ~ SearchOnly(t)
  /\ pc' = [pc EXCEPT ![t] = "insert"]
  /\ UNCHANGED <<args, vec, noinsert, ret, buckets, calls, markings>>

(* Mutant: the answer of the lookup is taken for good.                     *)
InsertBlindly(t) ==
  /\ pc[t] = "insert"
  /\ Add(t)
  /\ Answer(t, FALSE)

(* Under the lock for writing: the vector may be known by now.             *)
Insert(t) ==
  /\ pc[t] = "insert"
  /\ Add(t)
  /\ Answer(t, Known(t))

(* PluginStore counts the new markings.                                    *)
Return(t) ==
  /\ pc[t] = "return"
  /\ markings' = IF plugged /\ ~ ret[t] THEN [markings EXCEPT ![t] = @ + 1]
                 ELSE markings
  /\ pc' = [pc EXCEPT ![t] = "idle"]
  /\ UNCHANGED <<args, vec, noinsert, ret, buckets, calls>>

Next ==
  \E t \in 0 .. number_of_threads - 1 :
    \/ Call(t) \/ Unlocked(t) \/ LookupEnds(t) \/ LookupMisses(t)
    \/ Insert(t) \/ Return(t)

Spec == Init /\ [][Next]_vars

(* The counters of all threads, added up one after the other.              *)
Total(counters, n) ==
  LET result[k \in 0 .. n] ==
        IF k = 0 THEN 0 ELSE result[k-1] + counters[k-1]
  IN  result[n]
get_number_of_markings == Total(markings, number_of_threads)

-----------------------------------------------------------------------------
(* Types of all variables; a vector is stored in its own bucket only.      *)
TypeOK ==
  /\ plugged \in BOOLEAN
  /\ number_of_threads \in 1 .. MaxThreads
  /\ pc \in [Thread -> {"idle", "lookup", "insert", "return"}]
  /\ vec \in [Thread -> Vector]
  /\ noinsert \in [Thread -> BOOLEAN]
  /\ ret \in [Thread -> BOOLEAN]
  /\ buckets \in [Bucket -> SUBSET Vector]
  /\ \A b \in Bucket : \A v \in buckets[b] : Hash(v) = b
  /\ calls \in [Thread -> Nat]
  /\ markings \in [Thread -> Nat]

(* The inductive invariant: a call that only searches never reaches the    *)
(* insertion.                                                              *)
StoreInvariant ==
  /\ TypeOK
  /\ \A t \in Thread : pc[t] = "insert" => ~ SearchOnly(t)

(* The store is atomic although its lookup and its insertion are two       *)
(* critical sections: see AtomicStore.                                     *)
Contents == UNION {buckets[b] : b \in Bucket}
Singleton(v) == {v}
Status(t) ==
  IF pc[t] = "idle" THEN "idle"
  ELSE IF pc[t] # "return" THEN "pending"
  ELSE IF ret[t] THEN "known" ELSE "new"

Atomic == INSTANCE AtomicStore WITH
  Cells  <- Singleton,
  filled <- Contents,
  call   <- [t \in Thread |->
               [vec |-> vec[t], insert |-> ~ SearchOnly(t), answer |-> Status(t)]]

IsAtomic == Atomic!Spec

(* "The value is exact when the search is finished": the counters of the   *)
(* threads add up to the number of vectors stored, but for the calls that  *)
(* have inserted one and not yet returned.                                 *)
Reporting == {t \in Thread : pc[t] = "return" /\ ~ ret[t]}
CountExact ==
  plugged =>
    get_number_of_markings + Cardinality(Reporting) = Cardinality(Contents)
=============================================================================
