----------------------------- MODULE SweepRing -----------------------------
(***************************************************************************)
(* The stores a front of the sweep-line method looks at                    *)
(* (src/lola2/src/SweepLine/SweepRingStore.inc): a ring of stores for      *)
(* transient markings, one for each progress value in reach, the swap      *)
(* space for those with the current value that have been dealt with, and   *)
(* for every slot of the ring the place of the persistent stores with the  *)
(* same value in their lists; linked says whether the places are set.      *)
(*                                                                         *)
(* A store is the set of its markings.  The two lists of persistent stores *)
(* are always linked in step, so a place is a number that grows along the  *)
(* list, and new[q] and old[q] are the stores at place q.                  *)
(***************************************************************************)
EXTENDS Integers, FiniteSets

CONSTANTS store_size, front_offset

Slots == 0 .. store_size - 1

(* The constructor; nothing is linked yet.                                 *)
NewRing ==
  [store |-> [i \in Slots |-> {}], samevalue |-> {},
   place |-> [i \in Slots |-> 0], linked |-> FALSE,
   active |-> store_size - front_offset - 1, new_persistent_empty |-> TRUE]

(* The slot a progress offset away from the current one.                   *)
Slot(r, offset) == (r.active + store_size + offset) % store_size

PlaceOf(r, offset) == r.place[Slot(r, offset)]
Linked(r) == r.linked

(* init: link the slots with the lists from the place start on.            *)
Link(r, start) ==
  [r EXCEPT !.place = [i \in Slots |-> start + i],
            !.linked = TRUE,
            !.active = store_size - front_offset - 1,
            !.new_persistent_empty = TRUE]

(* The stores searchAndInsert asks one after the other; it inserts into    *)
(* the last one.                                                           *)
Probes(offset) ==
  CASE offset > 0 -> <<"old", "new", "store">>
    [] offset < 0 -> <<"old", "store", "new">>
    [] OTHER      -> <<"old", "new", "samevalue", "store">>

(* What the ring itself holds at an offset.                                *)
Holds(r, where, offset) ==
  IF where = "samevalue" THEN r.samevalue ELSE r.store[Slot(r, offset)]

(* The insertion into a store of the ring, or the note of one elsewhere.   *)
Insert(r, where, offset, m) ==
  IF where = "new" THEN [r EXCEPT !.new_persistent_empty = FALSE]
    ELSE [r EXCEPT !.store[Slot(r, offset)] = @ \union {m}]

(* The tests of advanceProgress and of the two checkNewPersistent.         *)
AnyAhead(r) == \E o \in 1 .. front_offset : r.store[Slot(r, o)] # {}
LowestNew(r, new) == new[PlaceOf(r, front_offset + 1)] # {}
AgeFrom(r, new, bp, lowest) ==
  Cardinality({i \in 0 .. bp - 1 :
    \E j \in 0 .. i : new[PlaceOf(r, front_offset + j + lowest)] # {}})
AgeFromRearmost(r, new, bp) == AgeFrom(r, new, bp, 1)
Age(r, new, bp) == AgeFrom(r, new, bp, 2)

(* The next place in the lists, or the same once more.                     *)
SamePlace(r) == PlaceOf(r, front_offset)
NextPlace(r) == PlaceOf(r, front_offset) + 1

(* advanceProgress: markings with the current value are kept in the ring   *)
(* until they are transient_offset behind, those that are so far behind    *)
(* are forgotten, and the next place is linked at the front.               *)
Advanced(r, transient_offset) ==
  LET back == Slot(r, - transient_offset)
      kept == IF transient_offset = 0 THEN r.store
                ELSE [r.store EXCEPT ![back] = r.store[r.active],
                                     ![r.active] = r.samevalue]
  IN  [r EXCEPT !.store = kept,
                !.samevalue = {},
                !.place[Slot(r, front_offset + 1)] = NextPlace(r),
                !.active = Slot(r, 1)]

(* clear.                                                                  *)
Emptied(r) ==
  [r EXCEPT !.store = [i \in Slots |-> {}], !.samevalue = {}]
=============================================================================
