--------------------------- MODULE BoundedHistory ---------------------------
(***************************************************************************)
(* What the trace log and the bus write logs expect of a CircularBuffer: a *)
(* bounded history, oldest item first.  A push on a full history forgets   *)
(* its oldest item; popBack hands out the newest one.                      *)
(***************************************************************************)
EXTENDS Integers, Sequences

CONSTANTS Capacity,  \* m_capacity: how many items the history keeps
          Items,     \* the values stored
          NoItem     \* nothing has been popped yet

VARIABLES items,     \* the live items, oldest first
          out        \* what popBack returned last

vars == <<items, out>>

Init == items = << >> /\ out = NoItem

Push(x) ==
    /\ items' = Append(IF Len(items) = Capacity THEN Tail(items) ELSE items, x)
    /\ UNCHANGED out

PopBack ==
    /\ items # << >>
    /\ items' = SubSeq(items, 1, Len(items) - 1)
    /\ out' = items[Len(items)]

Clear == items' = << >> /\ UNCHANGED out

Next == (\E x \in Items : Push(x)) \/ PopBack \/ Clear

Spec == Init /\ [][Next]_vars
=============================================================================
