------------------------------ MODULE RingQueue ------------------------------
(***************************************************************************)
(* The circular buffer of libs/src/queue.c.  The buffer is allocated with  *)
(* malloc and never cleared, so a slot that was never written holds        *)
(* Garbage.  A cursor (currentIdx) walks over the slots for the command    *)
(* history of the client.                                                  *)
(*                                                                         *)
(* dequeue() returns a pointer to the slot, not a copy: dispatch_events()  *)
(* of both programs keeps reading the slot while the handlers it calls     *)
(* enqueue further events.  The variable lent follows that pointer.        *)
(*                                                                         *)
(* A definition marked "faulty" is a plausible slip that no specification  *)
(* uses; each is there to show that a property would notice it.            *)
(***************************************************************************)
EXTENDS Integers, Sequences

CONSTANTS
  Capacity,   \* number of slots
  Items,      \* the items a caller may store
  NoItem,     \* the NULL pointer
  Garbage     \* the contents of a slot that was never written

ASSUME CapacityAssumption == Capacity \in Nat \ {0}
ASSUME ItemsAssumption == NoItem \notin Items /\ Garbage \notin Items

VARIABLES
  items,      \* the slots
  front,      \* index of the oldest item
  rear,       \* index of the next slot to write
  currentIdx, \* the cursor
  count,      \* number of items held
  dequeued,   \* the item the last dequeue() returned a pointer to
  lent        \* the slot of that pointer, and the slots that were free then

vars == <<items, front, rear, currentIdx, count, dequeued, lent>>

Slots == 0 .. Capacity - 1

Following(i) == (i + 1) % Capacity

\* No pointer is held: dequeue() returned NULL or was never called.
NotLent == [slot |-> -1, room |-> 0]

Init ==                                                     \* create_queue()
  /\ items = [i \in Slots |-> Garbage]
  /\ front = 0
  /\ rear = 0
  /\ currentIdx = 0
  /\ count = 0
  /\ dequeued = NoItem
  /\ lent = NotLent

IsEmpty == count = 0
IsFullOneEarly == count = Capacity - 1            \* faulty: one slot is wasted
IsFull == count = Capacity

StoreAfterAdvance(x) ==                           \* faulty: advances, then writes
  items' = [items EXCEPT ![Following(rear)] = x]
Store(x) == items' = [items EXCEPT ![rear] = x]

\* A full queue gives up its oldest item, any other grows by one.
DropOrGrow ==
  IF IsFull
  THEN front' = Following(front) /\ UNCHANGED count
  ELSE count' = count + 1 /\ UNCHANGED front

Enqueue(x) ==
  /\ Store(x)
  /\ DropOrGrow
  /\ rear' = Following(rear)
  /\ currentIdx' = rear'
  /\ lent' = [lent EXCEPT !.room = @ - (IF @ >= 0 THEN 1 ELSE 0)]
  /\ UNCHANGED dequeued

Dequeue ==
  /\ ~IsEmpty
  /\ dequeued' = items[front]
  /\ lent' = [slot |-> front, room |-> Capacity - count]
  /\ front' = Following(front)
  /\ count' = count - 1
  /\ UNCHANGED <<items, rear, currentIdx>>

DequeueEmpty ==
  /\ IsEmpty
  /\ dequeued' = NoItem
  /\ lent' = NotLent
  /\ UNCHANGED <<items, front, rear, currentIdx, count>>

\* The cursor is compared with the plain indices front and rear.  It is above
\* 0 here, so the code's (currentIdx - 1) % capacity is currentIdx - 1.
GetPreviousItem ==
  /\ currentIdx > front
  /\ currentIdx' = (currentIdx - 1) % Capacity
  /\ UNCHANGED <<items, front, rear, count, dequeued, lent>>

GetNextItem ==
  /\ currentIdx < rear
  /\ currentIdx' = Following(currentIdx)
  /\ UNCHANGED <<items, front, rear, count, dequeued, lent>>

Next ==
  \/ \E x \in Items : Enqueue(x)
  \/ Dequeue
  \/ DequeueEmpty
  \/ GetPreviousItem
  \/ GetNextItem

Spec == Init /\ [][Next]_vars

------------------------------------------------------------------------------
(* Properties *)

\* Every index addresses a slot and the counter is within the capacity.
TypeOK ==
  /\ items \in [Slots -> Items \cup {Garbage}]
  /\ front \in Slots
  /\ rear \in Slots
  /\ currentIdx \in Slots
  /\ count \in 0 .. Capacity
  /\ dequeued \in Items \cup {NoItem}
  /\ lent \in [slot : Slots \cup {-1}, room : -1 .. Capacity]

\* The slots of the items held, oldest first.
SlotOf(i) == (front + i) % Capacity

\* front, rear and count are updated separately by enqueue() and dequeue();
\* they always describe the same stretch of the buffer.
IndicesAgree == rear = SlotOf(count)

\* No item the queue will hand out is memory that was never written.
NoGarbageInside == \A i \in 0 .. count - 1 : items[SlotOf(i)] # Garbage

\* The pointer that dequeue() returned still reads the dequeued item until as
\* many items have been enqueued as there were free slots at that moment.
\* With a full queue that is none: the next enqueue() overwrites the item a
\* handler is still working on.
LentItemIntact ==
  lent.slot # -1 /\ lent.room >= 0 => items[lent.slot] = dequeued

\* The ring implements the drop-oldest queue.
Held == [i \in 1 .. count |-> items[SlotOf(i - 1)]]
Contract == INSTANCE DropOldestQueue WITH contents <- Held
IsDropOldestQueue == Contract!Spec
==============================================================================
