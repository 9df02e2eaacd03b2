---------------------------- MODULE SearchStack ----------------------------
(***************************************************************************)
(* SearchStack<T> (src/lola2/src/Exploration/SearchStack.h): a stack kept  *)
(* in chunks of SIZEOF_STACKCHUNK slots.  The chunks linked by prev are a  *)
(* sequence, oldest first; its last element is currentchunk.  A slot holds *)
(* an address; popping neither clears nor destroys a slot, so slots at and *)
(* above StackPointer may hold anything.                                   *)
(***************************************************************************)
EXTENDS Integers, Sequences

CONSTANTS
  SIZEOF_STACKCHUNK,
  Null                (* what calloc leaves in a slot                      *)

ASSUME ChunkAssumption == SIZEOF_STACKCHUNK \in Nat \ {0}

Index == 0 .. SIZEOF_STACKCHUNK - 1
ChunkOf(n) == n \div SIZEOF_STACKCHUNK
Slot(n) == n % SIZEOF_STACKCHUNK
currentchunk(s) == s.chunks[Len(s.chunks)]
Previous(s) == SubSeq(s.chunks, 1, Len(s.chunks) - 1)

EmptyStack == [StackPointer |-> 0, chunks |-> <<>>]

NewChunk(e) == [i \in Index |-> IF i = 0 THEN e ELSE Null]

push(s, e) ==
  [StackPointer |-> s.StackPointer + 1,
   chunks |-> IF Slot(s.StackPointer) = 0
                THEN Append(s.chunks, NewChunk(e))
                ELSE [s.chunks EXCEPT
                        ![Len(s.chunks)][Slot(s.StackPointer)] = e]]

(* Mutant: the chunk is left when its last slot has been popped.           *)
popEarly(s) ==
  [StackPointer |-> s.StackPointer - 1,
   chunks |-> IF Slot(s.StackPointer) = 0 THEN Previous(s) ELSE s.chunks]
pop(s) ==
  [StackPointer |-> s.StackPointer - 1,
   chunks |-> IF Slot(s.StackPointer - 1) = 0 THEN Previous(s) ELSE s.chunks]

(* Mutant: the slot the next push would take.                              *)
topAbove(s) == currentchunk(s)[Slot(s.StackPointer)]
top(s) == currentchunk(s)[Slot(s.StackPointer - 1)]

(* How many slots of the k-th chunk the copy constructor copies.           *)
numElements(s, k) ==
  IF k = Len(s.chunks) THEN Slot(s.StackPointer - 1) + 1 ELSE SIZEOF_STACKCHUNK

(* The entries copied, and the copy, where clone[e] is the copy of e.      *)
Copied(s) ==
  UNION {{s.chunks[k][i] : i \in 0 .. numElements(s, k) - 1} :
           k \in 1 .. Len(s.chunks)}
copy(s, clone) ==
  [StackPointer |-> s.StackPointer,
   chunks |-> [k \in 1 .. Len(s.chunks) |->
                 [i \in Index |-> IF i < numElements(s, k)
                                    THEN clone[s.chunks[k][i]] ELSE Null]]]

(* The entries the destructor destroys: all in the previous chunks, and    *)
(* those of the current one from the top down to its first slot.           *)
(* Mutant: the previous chunks are forgotten.                              *)
DestroyedInCurrent(s) ==
  IF s.chunks = <<>> THEN {}
  ELSE {currentchunk(s)[i] : i \in 0 .. Slot(s.StackPointer - 1)}
Destroyed(s) ==
  DestroyedInCurrent(s) \union
    UNION {{Previous(s)[k][i] : i \in Index} : k \in DOMAIN Previous(s)}

-----------------------------------------------------------------------------
(* What the slots mean: the n-th entry from the bottom, counting from 0.   *)
Entry(s, n) == s.chunks[ChunkOf(n) + 1][Slot(n)]
Entries(s) == {Entry(s, n) : n \in 0 .. s.StackPointer - 1}

(* As many chunks as the entries need; none for the empty stack, as an     *)
(* assertion in push demands.                                              *)
Chunked(s) ==
  Len(s.chunks) = IF s.StackPointer = 0 THEN 0
                  ELSE ChunkOf(s.StackPointer - 1) + 1
=============================================================================
