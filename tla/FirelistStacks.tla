--------------------------- MODULE FirelistStacks ---------------------------
(***************************************************************************)
(* What the parallel search expects of its stacks: sequences of firelists, *)
(* one for each thread and one for the result.  A firelist is a value, a   *)
(* copy of it another one that does not change with the first.             *)
(***************************************************************************)
EXTENDS Integers, Sequences

CONSTANTS Thread, Global, Firelist, None

VARIABLES contents, current

Init ==
  /\ contents = [o \in Thread \union {Global} |-> <<>>]
  /\ current = [t \in Thread |-> None]

Last(s) == s[Len(s)]
Front(s) == SubSeq(s, 1, Len(s) - 1)

(* Get a firelist; or be done with it.                                     *)
Get(t) ==
  /\ \E f \in Firelist : current' = [current EXCEPT ![t] = f]
  /\ UNCHANGED contents

Drop(t) ==
  /\ current' = [current EXCEPT ![t] = None]
  /\ UNCHANGED contents

(* Put the firelist on the stack and get another one.                      *)
Down(t) ==
  /\ contents' = [contents EXCEPT ![t] = Append(@, current[t])]
  /\ \E f \in Firelist : current' = [current EXCEPT ![t] = f]

Back(t) ==
  /\ contents[t] # <<>>
  /\ current' = [current EXCEPT ![t] = Last(contents[t])]
  /\ contents' = [contents EXCEPT ![t] = Front(@)]

(* Put the firelist on the stack, and give a copy of all to another one.   *)
Give(t, reader) ==
  /\ contents' = [contents EXCEPT ![t] = Append(@, current[t]),
                                  ![reader] = Append(contents[t], current[t])]
  /\ UNCHANGED current

(* Exchange the stack with the result; or forget all stacks but this one.  *)
Win(t) ==
  /\ contents' = [contents EXCEPT ![Global] = contents[t],
                                  ![t] = contents[Global]]
  /\ current' = [current EXCEPT ![t] = None]

End ==
  /\ contents' = [o \in Thread \union {Global} |->
                    IF o = Global THEN contents[o] ELSE <<>>]
  /\ UNCHANGED current

Next ==
  \/ \E t \in Thread : Get(t) \/ Drop(t) \/ Down(t) \/ Back(t) \/ Win(t)
  \/ \E t, reader \in Thread : t # reader /\ Give(t, reader)
  \/ End

Spec == Init /\ [][Next]_<<contents, current>>
=============================================================================
