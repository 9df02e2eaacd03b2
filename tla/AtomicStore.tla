---------------------------- MODULE AtomicStore ----------------------------
(***************************************************************************)
(* What the searches expect of a store that several threads use at once    *)
(* (VectorStore::searchAndInsert, src/lola2/src/Stores): every call takes  *)
(* effect at one moment between its start and its return, and answers      *)
(* whether the vector was known at that moment.                            *)
(*                                                                         *)
(* A vector is known when all its cells are filled: an exact store has one *)
(* cell for each vector, in a Bloom filter vectors share cells.            *)
(***************************************************************************)
EXTENDS Integers

CONSTANTS
  Thread,       (* the threads that use the store                          *)
  Vector,       (* the encoded markings                                    *)
  Cells(_)      (* the cells of a vector                                   *)

VARIABLES
  filled,       (* the cells filled so far                                 *)
  call          (* what each thread is calling: see Call                   *)

storeVars == <<filled, call>>

Answers == {"idle", "pending", "known", "new"}
Call == [vec : Vector, insert : BOOLEAN, answer : Answers]

Init ==
  /\ filled = {}
  /\ call \in [Thread -> {c \in Call : c.answer = "idle"}]

Start(t) ==
  /\ call[t].answer = "idle"
  /\ \E v \in Vector, i \in BOOLEAN :
       call' = [call EXCEPT ![t] = [vec |-> v, insert |-> i, answer |-> "pending"]]
  /\ UNCHANGED filled

(* The moment the call takes effect.                                       *)
TakeEffect(t) ==
  /\ call[t].answer = "pending"
  /\ IF Cells(call[t].vec) \subseteq filled
       THEN call' = [call EXCEPT ![t].answer = "known"]
       ELSE call' = [call EXCEPT ![t].answer = "new"]
  /\ filled' = IF call[t].insert THEN filled \union Cells(call[t].vec) ELSE filled

Return(t) ==
  /\ call[t].answer \in {"known", "new"}
  /\ call' = [call EXCEPT ![t].answer = "idle"]
  /\ UNCHANGED filled

Next == \E t \in Thread : Start(t) \/ TakeEffect(t) \/ Return(t)

Spec == Init /\ [][Next]_storeVars
=============================================================================
