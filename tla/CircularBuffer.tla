--------------------------- MODULE CircularBuffer ---------------------------
(***************************************************************************)
(* CircularBuffer<T> (include/util/circular_buffer.h): the ring behind the *)
(* execution trace and the write logs of both memory buses.  It keeps the  *)
(* slot to be written next and the number of live items; the age order of  *)
(* the items is implied by the two.                                        *)
(***************************************************************************)
EXTENDS Integers, Sequences

CONSTANTS RingCapacity, \* m_capacity
          Items,        \* the values of T that are told apart
          Blank,        \* a default-constructed or moved-from T
          NoItem        \* popBack has not returned anything yet

ASSUME BufferAssumption ==
    /\ RingCapacity \in Nat \ {0}
    /\ Blank \in Items

VARIABLES buffer,  \* m_buffer: slot |-> item
          head,    \* m_head: the slot the next push fills
          size,    \* m_size: how many items are live
          out      \* the item popBack moved out last

ringVars == <<buffer, head, size, out>>

Slots == 0 .. RingCapacity - 1

RingInit ==
    /\ buffer = [s \in Slots |-> Blank]
    /\ head = 0
    /\ size = 0
    /\ out = NoItem

\* Faulty: forgets that the head points one past the newest item.
NewestAtHead == head

(***************************************************************************)
(* The slot of the newest item: back() reads it, popBack() steps onto it.  *)
(***************************************************************************)
Newest == (head + RingCapacity - 1) % RingCapacity

\* Faulty: counts pushes past the capacity.
GrownSizeUncapped == size + 1

\* m_size after a push: it stops at the capacity.
GrownSize == IF size < RingCapacity THEN size + 1 ELSE size

\* push() and pushSlot(): the slot is filled in place and the head advances.
Push(x) ==
    /\ buffer' = [buffer EXCEPT ![head] = x]
    /\ head' = (head + 1) % RingCapacity
    /\ size' = GrownSize
    /\ UNCHANGED out

(***************************************************************************)
(* popBack(): the item is moved out, so its slot keeps either the old      *)
(* value (a T that copies) or an emptied one (a T with strings, vectors).  *)
(***************************************************************************)
PopBack ==
    /\ size > 0
    /\ \E left \in {buffer[Newest], Blank} :
           buffer' = [buffer EXCEPT ![Newest] = left]
    /\ head' = Newest
    /\ out' = buffer[Newest]
    /\ size' = size - 1

\* clear(): the slots keep their stale items.
Clear ==
    /\ head' = 0
    /\ size' = 0
    /\ UNCHANGED <<buffer, out>>

RingNext == (\E x \in Items : Push(x)) \/ PopBack \/ Clear

RingSpec == RingInit /\ [][RingNext]_ringVars

\* Faulty: the oldest item is always taken to be in slot 0.
AtFromZero(index) == buffer[index]

(***************************************************************************)
(* operator[]: slot `index' while the ring is not full, otherwise counted  *)
(* from the head.                                                          *)
(***************************************************************************)
At(index) == IF size < RingCapacity THEN buffer[index]
                                ELSE buffer[(head + index) % RingCapacity]
-----------------------------------------------------------------------------
\* The slot holding the i-th oldest live item, i counted from 0.
AgeSlot(i) == (head + RingCapacity - size + i) % RingCapacity

\* The live items, oldest first.
Contents == [i \in 1 .. size |-> buffer[AgeSlot(i - 1)]]

History == INSTANCE BoundedHistory WITH items <- Contents, Capacity <- RingCapacity

(***************************************************************************)
(* The ring is a bounded history: whatever sequence of pushes, pops and    *)
(* clears wraps m_head around, popBack returns the newest live item and a  *)
(* push forgets exactly the oldest.                                        *)
(***************************************************************************)
ImplementsHistory == History!Spec

(***************************************************************************)
(* operator[] reads the live items oldest first, as the trace views need,  *)
(* whenever the ring is full or has not wrapped.  The case left out, a     *)
(* ring that wrapped and was popped below its capacity, is the one in      *)
(* which operator[] still counts from slot 0 and the oldest item is        *)
(* elsewhere.                                                              *)
(***************************************************************************)
IndexedByAge ==
    size = RingCapacity \/ head = size => \A i \in 0 .. size - 1 : At(i) = Contents[i + 1]

\* The head and the count stay inside the allocated slots.
RingTypeOK ==
    /\ buffer \in [Slots -> Items]
    /\ head \in Slots
    /\ size \in 0 .. RingCapacity
    /\ out \in Items \cup {NoItem}
=============================================================================
