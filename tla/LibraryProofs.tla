----------------------------- MODULE LibraryProofs -----------------------------
(***************************************************************************)
(* Proofs about two parts of the code that client and server share: the    *)
(* circular queue (RingQueue), for every capacity and every set of items,  *)
(* and the log and the settings of a process (Lifecycle), for any number   *)
(* of processes, any size of a batch and any bound on the lines.           *)
(***************************************************************************)
EXTENDS RingQueue, Lifecycle, FiniteSetTheorems, SequenceTheorems, TLAPS

------------------------------------------------------------------------------
(* RingQueue: index arithmetic *)

\* A sum of two indices is brought back into the buffer by one subtraction.
LEMMA ModOnce ==
  ASSUME NEW a \in Nat, a < 2 * Capacity
  PROVE  a % Capacity = IF a < Capacity THEN a ELSE a - Capacity
  BY CapacityAssumption

\* The successor of an index.
LEMMA FollowingIndex ==
  ASSUME NEW i \in Slots
  PROVE  /\ Following(i) \in Slots
         /\ Following(i) = IF i + 1 = Capacity THEN 0 ELSE i + 1
<1>1. i + 1 \in Nat /\ i + 1 <= Capacity /\ i + 1 < 2 * Capacity
  BY CapacityAssumption DEF Slots
<1>2. (i + 1) % Capacity = IF i + 1 < Capacity THEN i + 1 ELSE i + 1 - Capacity
  BY <1>1, ModOnce, CapacityAssumption DEF Slots
<1>3. QED
  BY <1>1, <1>2, CapacityAssumption DEF Following, Slots

\* The index that lies k places after another one.
LEMMA IndexAhead ==
  ASSUME NEW f \in Slots, NEW k \in 0 .. Capacity
  PROVE  /\ (f + k) % Capacity \in Slots
         /\ (f + k) % Capacity =
              IF f + k < Capacity THEN f + k ELSE f + k - Capacity
<1>1. f + k \in Nat /\ f + k < 2 * Capacity
  BY CapacityAssumption DEF Slots
<1>2. (f + k) % Capacity = IF f + k < Capacity THEN f + k ELSE f + k - Capacity
  BY <1>1, ModOnce, CapacityAssumption DEF Slots
<1>3. QED
  BY <1>1, <1>2, CapacityAssumption DEF Slots

\* The slot of the i-th item held.
LEMMA SlotOfIndex ==
  ASSUME front \in Slots, NEW k \in 0 .. Capacity
  PROVE  /\ SlotOf(k) \in Slots
         /\ SlotOf(k) = IF front + k < Capacity THEN front + k ELSE front + k - Capacity
  BY IndexAhead DEF SlotOf

------------------------------------------------------------------------------
(* RingQueue: the inductive invariant *)

\* While its item is intact, the lent slot is the one that the enqueue() after
\* the next lent.room ones will overwrite.
LentSlotAhead ==
  lent.slot # -1 =>
    /\ lent.room < Capacity
    /\ lent.room >= 0 => lent.slot = (rear + lent.room) % Capacity

IInv ==
  /\ TypeOK
  /\ IndicesAgree
  /\ NoGarbageInside
  /\ LentSlotAhead
  /\ LentItemIntact

LEMMA InitIInv == Init => IInv
  BY CapacityAssumption, ItemsAssumption, IndexAhead
  DEF Init, IInv, TypeOK, IndicesAgree, NoGarbageInside, LentSlotAhead, LentItemIntact,
      NotLent, Slots, SlotOf

\* An enqueue() leaves the items it keeps in place, one position closer to the
\* front when the oldest is dropped, and the new item is the last one.
LEMMA EnqueueSlots ==
  ASSUME IInv, NEW x \in Items, Enqueue(x), NEW j \in 0 .. count' - 1
  PROVE  items'[SlotOf(j)'] =
           IF j = count' - 1 THEN x ELSE items[SlotOf(IF IsFull THEN j + 1 ELSE j)]
<1> USE CapacityAssumption
<1>1. /\ front \in Slots /\ rear \in Slots /\ count \in 0 .. Capacity
      /\ items \in [Slots -> Items \cup {Garbage}]
      /\ rear = (front + count) % Capacity
  BY DEF IInv, TypeOK, IndicesAgree, SlotOf
<1>2. rear = IF front + count < Capacity THEN front + count ELSE front + count - Capacity
  BY <1>1, IndexAhead
<1>3. items' = [items EXCEPT ![rear] = x]
  BY DEF Enqueue, Store
<1>4. CASE IsFull
  <2>1. /\ count = Capacity /\ count' = Capacity /\ j \in 0 .. Capacity - 1
        /\ front' = IF front + 1 = Capacity THEN 0 ELSE front + 1
        /\ front' \in Slots
    BY <1>1, <1>4, FollowingIndex DEF Enqueue, DropOrGrow, IsFull
  <2>2. SlotOf(j)' = IF front' + j < Capacity THEN front' + j ELSE front' + j - Capacity
    BY <2>1, ModOnce DEF SlotOf, Slots
  <2>3. SlotOf(j + 1) = IF front + (j + 1) < Capacity THEN front + (j + 1)
                                                  ELSE front + (j + 1) - Capacity
    BY <1>1, <2>1, SlotOfIndex
  <2>4. rear = front
    BY <1>1, <1>2, <2>1 DEF Slots
  <2>5. SlotOf(j)' = SlotOf(j + 1) /\ SlotOf(j + 1) \in Slots
    BY <1>1, <2>1, <2>2, <2>3 DEF Slots
  <2>6. SlotOf(j + 1) = rear <=> j = count' - 1
    BY <1>1, <2>1, <2>3, <2>4 DEF Slots
  <2>7. QED
    BY <1>1, <1>3, <1>4, <2>5, <2>6
<1>5. CASE ~IsFull
  <2>1. /\ count < Capacity /\ count' = count + 1 /\ j \in 0 .. count
        /\ front' = front
    BY <1>1, <1>5 DEF Enqueue, DropOrGrow, IsFull
  <2>2. SlotOf(j) = IF front + j < Capacity THEN front + j ELSE front + j - Capacity
    BY <1>1, <2>1, SlotOfIndex
  <2>3. SlotOf(j)' = SlotOf(j) /\ SlotOf(j) \in Slots
    BY <1>1, <2>1, <2>2 DEF SlotOf, Slots
  <2>4. SlotOf(j) = rear <=> j = count' - 1
    BY <1>1, <1>2, <2>1, <2>2 DEF Slots
  <2>5. QED
    BY <1>1, <1>3, <1>5, <2>3, <2>4
<1>6. QED
  BY <1>4, <1>5

\* A dequeue() moves every remaining item one position closer to the front.
LEMMA DequeueSlots ==
  ASSUME IInv, Dequeue, NEW j \in 0 .. count' - 1
  PROVE  items'[SlotOf(j)'] = items[SlotOf(j + 1)]
<1> USE CapacityAssumption
<1>1. /\ front \in Slots /\ count \in 1 .. Capacity /\ count' = count - 1
      /\ items' = items
      /\ front' \in Slots
      /\ front' = IF front + 1 = Capacity THEN 0 ELSE front + 1
  BY FollowingIndex DEF IInv, TypeOK, Dequeue, IsEmpty
<1>2. SlotOf(j)' = IF front' + j < Capacity THEN front' + j ELSE front' + j - Capacity
  BY <1>1, ModOnce DEF SlotOf, Slots
<1>3. SlotOf(j + 1) = IF front + (j + 1) < Capacity THEN front + (j + 1)
                                                ELSE front + (j + 1) - Capacity
  BY <1>1, ModOnce DEF SlotOf, Slots
<1>4. QED
  BY <1>1, <1>2, <1>3 DEF Slots

------------------------------------------------------------------------------
(* RingQueue: the steps preserve the invariant *)

LEMMA EnqueueIInv ==
  ASSUME IInv, NEW x \in Items, Enqueue(x)
  PROVE  IInv'
<1> USE CapacityAssumption
<1>1. TypeOK
  BY DEF IInv
<1>2. TypeOK'
  <2>1. front' \in Slots /\ rear' \in Slots /\ currentIdx' \in Slots
    BY <1>1, FollowingIndex DEF TypeOK, Enqueue, DropOrGrow
  <2>2. items' \in [Slots -> Items \cup {Garbage}] /\ count' \in 0 .. Capacity
    BY <1>1 DEF TypeOK, Enqueue, DropOrGrow, Store, IsFull
  <2>3. lent' \in [slot : Slots \cup {-1}, room : -1 .. Capacity]
    BY <1>1 DEF TypeOK, Enqueue
  <2>4. QED
    BY <1>1, <2>1, <2>2, <2>3 DEF TypeOK, Enqueue
<1>3. /\ rear \in Slots /\ front \in Slots /\ count \in 0 .. Capacity
      /\ rear' = IF rear + 1 = Capacity THEN 0 ELSE rear + 1
      /\ rear' \in Slots
  BY <1>1, FollowingIndex DEF TypeOK, Enqueue
<1>4. IndicesAgree'
  <2>1. rear = IF front + count < Capacity THEN front + count ELSE front + count - Capacity
    BY <1>3, SlotOfIndex DEF IInv, IndicesAgree
  <2>2. /\ front' \in Slots /\ count' \in 0 .. Capacity
        /\ IF count = Capacity
           THEN count' = count /\ front' = (IF front + 1 = Capacity THEN 0 ELSE front + 1)
           ELSE count' = count + 1 /\ front' = front
    BY <1>2, <1>3, FollowingIndex DEF Enqueue, DropOrGrow, IsFull, TypeOK
  <2>3. front' \in Slots /\ count' \in 0 .. Capacity
    BY <2>2
  <2>4. (front' + count') % Capacity =
          IF front' + count' < Capacity THEN front' + count'
                                        ELSE front' + count' - Capacity
    BY <2>3, IndexAhead
  <2>5. rear' = (front' + count') % Capacity
    BY <1>3, <2>1, <2>2, <2>4 DEF Slots
  <2>6. QED
    BY <2>5 DEF IndicesAgree, SlotOf
<1>5. NoGarbageInside'
  <2>1. SUFFICES ASSUME NEW j \in 0 .. count' - 1
                 PROVE  items'[SlotOf(j)'] # Garbage
    BY DEF NoGarbageInside
  <2>2. CASE j = count' - 1
    BY <2>2, EnqueueSlots, ItemsAssumption
  <2>3. CASE j # count' - 1
    <3>1. (IF IsFull THEN j + 1 ELSE j) \in 0 .. count - 1
      BY <1>3, <2>3 DEF Enqueue, DropOrGrow, IsFull
    <3>2. QED
      BY <2>3, <3>1, EnqueueSlots DEF IInv, NoGarbageInside
  <2>4. QED
    BY <2>2, <2>3
<1>6. LentSlotAhead' /\ LentItemIntact'
  <2>1. CASE lent.slot # -1
    <3>1. /\ lent.slot \in Slots /\ lent.room \in -1 .. Capacity - 1
          /\ lent'.slot = lent.slot
          /\ lent'.room = IF lent.room >= 0 THEN lent.room - 1 ELSE lent.room
          /\ lent.room >= 0 => /\ lent.slot = (rear + lent.room) % Capacity
                               /\ items[lent.slot] = dequeued
      BY <1>1, <2>1 DEF IInv, TypeOK, LentSlotAhead, LentItemIntact, Enqueue
    <3>2. CASE lent'.room >= 0
      <4>1. lent.room \in 1 .. Capacity - 1 /\ lent'.room = lent.room - 1
        BY <3>1, <3>2
      <4>2. lent.slot = IF rear + lent.room < Capacity THEN rear + lent.room
                                                       ELSE rear + lent.room - Capacity
        <5>1. lent.room \in 0 .. Capacity /\ lent.slot = (rear + lent.room) % Capacity
          BY <3>1, <4>1
        <5>2. (rear + lent.room) % Capacity =
                IF rear + lent.room < Capacity THEN rear + lent.room
                                               ELSE rear + lent.room - Capacity
          BY <1>3, <5>1, IndexAhead
        <5>3. QED
          BY <5>1, <5>2
      <4>3. lent.slot # rear
        BY <1>3, <4>1, <4>2 DEF Slots
      <4>4. (rear' + lent'.room) % Capacity =
              IF rear' + lent'.room < Capacity THEN rear' + lent'.room
                                               ELSE rear' + lent'.room - Capacity
        BY <1>3, <4>1, ModOnce DEF Slots
      <4>5. lent'.slot = (rear' + lent'.room) % Capacity
        BY <1>3, <3>1, <4>1, <4>2, <4>4 DEF Slots
      <4>6. items'[lent'.slot] = dequeued'
        BY <1>1, <3>1, <4>1, <4>3 DEF Enqueue, Store, TypeOK
      <4>7. QED
        BY <4>1, <4>5, <4>6 DEF LentSlotAhead, LentItemIntact
    <3>3. CASE ~(lent'.room >= 0)
      BY <1>2, <3>1, <3>3 DEF LentSlotAhead, LentItemIntact, TypeOK
    <3>4. QED
      BY <3>2, <3>3
  <2>2. CASE lent.slot = -1
    BY <1>1, <2>2 DEF LentSlotAhead, LentItemIntact, Enqueue, TypeOK
  <2>3. QED
    BY <2>1, <2>2
<1>7. QED
  BY <1>2, <1>4, <1>5, <1>6 DEF IInv

LEMMA DequeueIInv ==
  ASSUME IInv, Dequeue
  PROVE  IInv'
<1> USE CapacityAssumption
<1>1. /\ TypeOK
      /\ front \in Slots /\ rear \in Slots /\ count \in 1 .. Capacity
      /\ front' = IF front + 1 = Capacity THEN 0 ELSE front + 1
      /\ front' \in Slots
      /\ count' = count - 1 /\ rear' = rear /\ items' = items
  BY FollowingIndex DEF IInv, TypeOK, Dequeue, IsEmpty
<1>2. SlotOf(0) = front
  BY <1>1, SlotOfIndex DEF Slots
<1>3. rear = IF front + count < Capacity THEN front + count ELSE front + count - Capacity
  BY <1>1, SlotOfIndex DEF IInv, IndicesAgree
<1>4. items[front] \in Items
  BY <1>1, <1>2 DEF IInv, TypeOK, NoGarbageInside
<1>5. TypeOK'
  BY <1>1, <1>4 DEF TypeOK, Dequeue
<1>6. IndicesAgree'
  <2>1. (front' + count') % Capacity =
          IF front' + count' < Capacity THEN front' + count'
                                        ELSE front' + count' - Capacity
    <3>1. front' \in Slots /\ count' \in 0 .. Capacity
      BY <1>1
    <3>2. QED
      BY <3>1, IndexAhead
  <2>2. rear' = IF front' + count' < Capacity THEN front' + count'
                                              ELSE front' + count' - Capacity
    BY <1>1, <1>3 DEF Slots
  <2>3. QED
    BY <2>1, <2>2 DEF IndicesAgree, SlotOf
<1>7. NoGarbageInside'
  <2>1. SUFFICES ASSUME NEW j \in 0 .. count' - 1
                 PROVE  items'[SlotOf(j)'] # Garbage
    BY DEF NoGarbageInside
  <2>2. j + 1 \in 0 .. count - 1
    BY <1>1
  <2>3. QED
    BY <2>2, DequeueSlots DEF IInv, NoGarbageInside
<1>8. LentSlotAhead' /\ LentItemIntact'
  <2>1. /\ lent' = [slot |-> front, room |-> Capacity - count]
        /\ dequeued' = items'[front]
    BY <1>1 DEF Dequeue
  <2>2. Capacity - count \in 0 .. Capacity - 1
    BY <1>1
  <2>3. (rear' + lent'.room) % Capacity =
          IF rear' + lent'.room < Capacity THEN rear' + lent'.room
                                           ELSE rear' + lent'.room - Capacity
    BY <1>1, <2>1, <2>2, ModOnce DEF Slots
  <2>4. front = (rear' + lent'.room) % Capacity
    BY <1>1, <1>3, <2>1, <2>2, <2>3 DEF Slots
  <2>5. QED
    BY <2>1, <2>2, <2>4 DEF LentSlotAhead, LentItemIntact
<1>9. QED
  BY <1>5, <1>6, <1>7, <1>8 DEF IInv

\* The cursor moves leave everything but the cursor alone.
LEMMA OtherIInv ==
  ASSUME IInv, DequeueEmpty \/ GetPreviousItem \/ GetNextItem \/ UNCHANGED vars
  PROVE  IInv'
<1> USE CapacityAssumption
<1>1. CASE DequeueEmpty
  BY <1>1 DEF DequeueEmpty, NotLent, IInv, TypeOK, IndicesAgree, NoGarbageInside,
              LentSlotAhead, LentItemIntact, SlotOf
<1>2. CASE GetPreviousItem \/ GetNextItem
  <2>1. front \in Slots /\ rear \in Slots /\ currentIdx \in Slots
    BY DEF IInv, TypeOK
  <2>2. currentIdx' \in Slots
    <3>1. CASE GetPreviousItem
      <4>1. currentIdx - 1 \in Nat /\ currentIdx - 1 < 2 * Capacity
        BY <2>1, <3>1 DEF GetPreviousItem, Slots
      <4>2. (currentIdx - 1) % Capacity = currentIdx - 1
        BY <2>1, <4>1, ModOnce DEF Slots
      <4>3. QED
        BY <2>1, <3>1, <4>1, <4>2 DEF GetPreviousItem, Slots
    <3>2. CASE GetNextItem
      BY <2>1, <3>2, FollowingIndex DEF GetNextItem
    <3>3. QED
      BY <1>2, <3>1, <3>2
  <2>3. UNCHANGED <<items, front, rear, count, dequeued, lent>>
    BY <1>2 DEF GetPreviousItem, GetNextItem
  <2>4. QED
    BY <2>2, <2>3 DEF IInv, TypeOK, IndicesAgree, NoGarbageInside,
                      LentSlotAhead, LentItemIntact, SlotOf
<1>3. CASE UNCHANGED vars
  BY <1>3 DEF vars, IInv, TypeOK, IndicesAgree, NoGarbageInside, LentSlotAhead,
              LentItemIntact, SlotOf
<1>4. QED
  BY <1>1, <1>2, <1>3

LEMMA NextIInv == IInv /\ [Next]_vars => IInv'
  BY EnqueueIInv, DequeueIInv, OtherIInv DEF Next

LEMMA SpecIInv == Spec => []IInv
  BY InitIInv, NextIInv, PTL DEF Spec

\* For every capacity, the indices of the ring stay inside the buffer.
THEOREM TypeCorrect == Spec => []TypeOK
<1>1. IInv => TypeOK
  BY DEF IInv
<1>2. QED
  BY <1>1, SpecIInv, PTL

\* front, rear and count never disagree about which slots are in use, and no
\* slot in use was never written.
THEOREM RingConsistent == Spec => [](IndicesAgree /\ NoGarbageInside)
<1>1. IInv => IndicesAgree /\ NoGarbageInside
  BY DEF IInv
<1>2. QED
  BY <1>1, SpecIInv, PTL

\* The pointer dequeue() returns can be used until as many events were pushed
\* as slots were free when it was returned.
THEOREM LentPointerSafe == Spec => []LentItemIntact
<1>1. IInv => LentItemIntact
  BY DEF IInv
<1>2. QED
  BY <1>1, SpecIInv, PTL

------------------------------------------------------------------------------
(* RingQueue: it implements the drop-oldest queue *)

HeldIsContents ==
  /\ Held \in Seq(Items)
  /\ Len(Held) = count
  /\ \A i \in 1 .. count : Held[i] = items[SlotOf(i - 1)]

LEMMA HeldItems == IInv => HeldIsContents
<1> SUFFICES ASSUME IInv
             PROVE  HeldIsContents
  OBVIOUS
<1> USE CapacityAssumption
<1>1. \A i \in 1 .. count : items[SlotOf(i - 1)] \in Items
  <2>1. SUFFICES ASSUME NEW i \in 1 .. count
                 PROVE  items[SlotOf(i - 1)] \in Items
    OBVIOUS
  <2>2. i - 1 \in 0 .. count - 1 /\ i - 1 \in 0 .. Capacity
    BY DEF IInv, TypeOK
  <2>3. QED
    BY <2>2, SlotOfIndex DEF IInv, TypeOK, NoGarbageInside
<1>2. count \in Nat /\ Held \in [1 .. count -> Items]
  BY <1>1 DEF IInv, TypeOK, Held
<1>3. Held \in Seq(Items)
  BY <1>2, SeqDef
<1>4. Len(Held) = count
  BY <1>2, <1>3, LenProperties
<1>5. QED
  BY <1>3, <1>4 DEF HeldIsContents, Held

\* The abstract contents before and after an enqueue().
LEMMA EnqueueRefines ==
  ASSUME IInv, NEW x \in Items, Enqueue(x)
  PROVE  Contract!Put(x)
<1> USE CapacityAssumption
<1>1. IInv'
  BY EnqueueIInv
<1>2. HeldIsContents /\ count \in 0 .. Capacity
  BY HeldItems DEF IInv, TypeOK
<1>3. HeldIsContents'
  BY <1>1, HeldItems, PTL
<1>4. Contract!Kept \in Seq(Items) /\ Len(Contract!Kept) = count' - 1
  <2>1. CASE IsFull
    <3>1. Held # <<>> /\ count' = count /\ Contract!Kept = Tail(Held)
      BY <1>2, <2>1, EmptySeq DEF HeldIsContents, Contract!Kept, IsFull, Enqueue, DropOrGrow
    <3>2. QED
      BY <1>2, <3>1, HeadTailProperties DEF HeldIsContents
  <2>2. CASE ~IsFull
    BY <1>2, <2>2 DEF HeldIsContents, Contract!Kept, IsFull, Enqueue, DropOrGrow
  <2>3. QED
    BY <2>1, <2>2
<1>5. \A i \in 1 .. count' - 1 : Contract!Kept[i] = Held'[i]
  <2>1. SUFFICES ASSUME NEW i \in 1 .. count' - 1
                 PROVE  Contract!Kept[i] = Held'[i]
    OBVIOUS
  <2>2. /\ i - 1 \in 0 .. count' - 1 /\ i - 1 # count' - 1 /\ i \in 1 .. count'
        /\ i \in 1 .. count
    BY <1>2 DEF Enqueue, DropOrGrow, IsFull
  <2>3. Held'[i] = items[SlotOf(IF IsFull THEN i - 1 + 1 ELSE i - 1)]
    BY <1>3, <2>2, EnqueueSlots DEF HeldIsContents
  <2>4. CASE IsFull
    <3>1. Held # <<>> /\ count' = count /\ Contract!Kept = Tail(Held)
      BY <1>2, <2>4, EmptySeq DEF HeldIsContents, Contract!Kept, IsFull, Enqueue, DropOrGrow
    <3>2. Len(Tail(Held)) = count - 1 /\ Tail(Held)[i] = Held[i + 1]
      BY <1>2, <2>2, <3>1, HeadTailProperties DEF HeldIsContents
    <3>3. i + 1 \in 1 .. count /\ (i + 1) - 1 = i /\ i - 1 + 1 = i
      BY <1>2, <2>2, <3>1
    <3>4. QED
      BY <1>2, <2>3, <2>4, <3>1, <3>2, <3>3 DEF HeldIsContents
  <2>5. CASE ~IsFull
    BY <1>2, <2>2, <2>3, <2>5 DEF HeldIsContents, Contract!Kept, IsFull
  <2>6. QED
    BY <2>4, <2>5
<1>6. /\ count' - 1 \in Nat /\ (count' - 1) + 1 = count'
      /\ count' - 1 \in 0 .. count' - 1 /\ count' \in 1 .. count'
  BY <1>2 DEF Enqueue, DropOrGrow, IsFull
<1>7. Held'[count'] = x
  BY <1>3, <1>6, EnqueueSlots DEF HeldIsContents
<1>8. Held' = Append(Contract!Kept, x)
  <2> DEFINE kept == Contract!Kept
             n == count' - 1
  <2>1. n \in Nat /\ n + 1 = count'
    BY <1>6
  <2>2. kept \in Seq(Items) /\ Len(kept) = n /\ \A i \in 1 .. n : kept[i] = Held'[i]
    BY <1>4, <1>5
  <2>3. Held' \in Seq(Items) /\ Len(Held') = n + 1 /\ Held'[n + 1] = x
    BY <1>3, <1>7, <2>1 DEF HeldIsContents
  <2> HIDE DEF kept, n
  <2>4. /\ Append(kept, x) \in Seq(Items) /\ Len(Append(kept, x)) = n + 1
        /\ \A i \in 1 .. n : Append(kept, x)[i] = kept[i]
        /\ Append(kept, x)[n + 1] = x
    BY <2>2, AppendProperties
  <2>5. \A i \in 1 .. n + 1 : Append(kept, x)[i] = Held'[i]
    <3>1. \A i \in 1 .. n + 1 : i \in 1 .. n \/ i = n + 1
      BY <2>1
    <3>2. QED
      BY <2>2, <2>3, <2>4, <3>1
  <2>6. Held' = Append(kept, x)
    BY <2>3, <2>4, <2>5, SeqEqual
  <2>7. QED
    BY <2>6 DEF kept
<1>9. QED
  BY <1>8 DEF Contract!Put, Enqueue

LEMMA DequeueRefines ==
  ASSUME IInv, Dequeue
  PROVE  Contract!TakeOldest
<1> USE CapacityAssumption
<1>1. IInv'
  BY DequeueIInv
<1>2. HeldIsContents /\ count \in 1 .. Capacity /\ count' = count - 1
  BY HeldItems DEF IInv, TypeOK, Dequeue, IsEmpty
<1>3. HeldIsContents'
  BY <1>1, HeldItems, PTL
<1>4. Held # <<>>
  BY <1>2, EmptySeq DEF HeldIsContents
<1>5. /\ Tail(Held) \in Seq(Items) /\ Len(Tail(Held)) = count'
      /\ \A i \in 1 .. count' : Tail(Held)[i] = Held[i + 1]
  BY <1>2, <1>4, HeadTailProperties DEF HeldIsContents
<1>6. \A i \in 1 .. count' : Held'[i] = Held[i + 1]
  <2>1. SUFFICES ASSUME NEW i \in 1 .. count'
                 PROVE  Held'[i] = Held[i + 1]
    OBVIOUS
  <2>2. /\ i - 1 \in 0 .. count' - 1 /\ i + 1 \in 1 .. count
        /\ i - 1 + 1 = i /\ i + 1 - 1 = i
    BY <1>2
  <2>3. Held'[i] = items[SlotOf(i - 1 + 1)]
    BY <1>3, <2>2, DequeueSlots DEF HeldIsContents
  <2>4. QED
    BY <1>2, <2>2, <2>3 DEF HeldIsContents
<1>7. Held' = Tail(Held)
  BY <1>3, <1>5, <1>6, SeqEqual DEF HeldIsContents
<1>8. dequeued' = Head(Held)
  <2>1. front \in Slots /\ SlotOf(1 - 1) = front
    BY <1>2, SlotOfIndex DEF IInv, TypeOK, Slots
  <2>2. Head(Held) = Held[1]
    BY <1>4, <1>2 DEF HeldIsContents
  <2>3. QED
    BY <1>2, <2>1, <2>2 DEF HeldIsContents, Dequeue
<1>9. QED
  BY <1>4, <1>7, <1>8 DEF Contract!TakeOldest

\* Whatever the capacity, queue.c behaves as a queue that drops its oldest
\* item when it is full: no other item is lost, duplicated or reordered.
THEOREM ImplementsDropOldestQueue == Spec => IsDropOldestQueue
<1> USE CapacityAssumption
<1>1. Init => Contract!Init
  <2>1. SUFFICES ASSUME Init
                 PROVE  Contract!Init
    OBVIOUS
  <2>2. HeldIsContents /\ count = 0
    BY <2>1, HeldItems, InitIInv DEF Init
  <2>3. Held = <<>>
    BY <2>2, EmptySeq DEF HeldIsContents
  <2>4. QED
    BY <2>1, <2>3 DEF Init, Contract!Init
<1>2. IInv /\ [Next]_vars => [Contract!Next]_(Contract!qvars)
  <2> SUFFICES ASSUME IInv, [Next]_vars
               PROVE  [Contract!Next]_(Contract!qvars)
    OBVIOUS
  <2>1. ASSUME NEW x \in Items, Enqueue(x)
        PROVE  Contract!Next
    BY <2>1, EnqueueRefines DEF Contract!Next
  <2>2. CASE Dequeue
    BY <2>2, DequeueRefines DEF Contract!Next
  <2>3. CASE DequeueEmpty
    <3>1. Held = <<>> /\ Held' = Held
      BY <2>3, HeldItems, EmptySeq
      DEF DequeueEmpty, IsEmpty, HeldIsContents, Held, SlotOf
    <3>2. QED
      BY <2>3, <3>1 DEF DequeueEmpty, Contract!Next, Contract!TakeNothing
  <2>4. CASE GetPreviousItem \/ GetNextItem \/ UNCHANGED vars
    BY <2>4 DEF GetPreviousItem, GetNextItem, vars, Held, SlotOf, Contract!qvars
  <2>5. QED
    BY <2>1, <2>2, <2>3, <2>4 DEF Next
<1>3. QED
  BY <1>1, <1>2, SpecIInv, PTL DEF Spec, IsDropOldestQueue, Contract!Spec

------------------------------------------------------------------------------
(* Lifecycle: the inductive invariant *)

\* A line that was inherited from the parent stands in front of a process' own
\* lines; the others are its own and not yet written.
OwnUnwritten(b, p) ==
  IF b[p] # << >> /\ b[p][1].by # p THEN Len(b[p]) - 1 ELSE Len(b[p])
OwnWritten(b, m, p) == m[p] - OwnUnwritten(b, p)

\* The copies of the line that a process logs first.
FirstLine(q) == [by |-> q, n |-> 1]
Places(f, q) == {i \in DOMAIN f[ProgramOf(q)] : f[ProgramOf(q)][i] = FirstLine(q)}
Holders(b, q) == {p \in Processes : \E i \in DOMAIN b[p] : b[p][i] = FirstLine(q)}
Copies(f, b, q) == Cardinality(Places(f, q)) + Cardinality(Holders(b, q))

\* Buffers b, log files f and numbers of lines m, where the processes of gone
\* will not log any more and those of dup have made themselves daemons.
BuffersTyped(f, b, m) ==
  /\ b \in [Processes -> Seq(LineSet)]
  /\ f \in [Programs -> Seq(LineSet)]
  /\ m \in [Processes -> Nat]
BufferOrder(b, m, gone, dup) ==
  \A p \in Processes : \A i \in DOMAIN b[p] :
    \/ /\ b[p][i].by = p
       /\ b[p][i].n = m[p] - Len(b[p]) + i /\ b[p][i].n >= 1
    \/ /\ i = 1 /\ p \in Servers
       /\ b[p][i].n = 1 /\ b[p][i].by # p
       /\ b[p][i].by \in gone \cap dup /\ m[b[p][i].by] = 1
LogLines(f, b, m, dup) ==
  \A g \in Programs : \A i \in DOMAIN f[g] :
    /\ ProgramOf(f[g][i].by) = g
    /\ f[g][i].n \in 1 .. m[f[g][i].by]
    /\ \/ f[g][i].n <= OwnWritten(b, m, f[g][i].by)
       \/ f[g][i].n = 1 /\ f[g][i].by \in dup
LogOrder(f, dup) ==
  \A g \in Programs : \A i, j \in DOMAIN f[g] :
    i < j /\ f[g][i].by = f[g][j].by =>
      /\ f[g][i].n <= f[g][j].n
      /\ f[g][i].n = f[g][j].n => f[g][i].n = 1 /\ f[g][i].by \in dup
NoneMissing(f, b, m) ==
  \A p \in Processes : \A k \in 1 .. OwnWritten(b, m, p) :
    \E i \in DOMAIN f[ProgramOf(p)] : f[ProgramOf(p)][i] = [by |-> p, n |-> k]
FewCopies(f, b) ==
  \A q \in Processes : IsFiniteSet(Holders(b, q)) /\ Copies(f, b, q) <= 3
LinesInv(f, b, m, gone, dup) ==
  /\ BuffersTyped(f, b, m)
  /\ BufferOrder(b, m, gone, dup)
  /\ LogLines(f, b, m, dup)
  /\ LogOrder(f, dup)
  /\ NoneMissing(f, b, m)
  /\ FewCopies(f, b)

Gone == {q \in Servers : options[q].daemon /\ phase[q] \in Ended \cup {"cleanup", "closing"}}
Daemons == {q \in Processes : options[q].daemon /\ logged[q] > 0}

\* A daemon has room for the copies that its forks will make.
RoomForForks ==
  \A p, q \in Processes :
    phase[p] = "detaching" /\ p \in Holders(buffer, q) => Copies(log, buffer, q) + forks[p] <= 3

\* One server at a time is on its way to become a daemon; only servers do.
Starting == {"started", "opened", "detaching"}
OneServerStarts ==
  \A p, q \in Servers : phase[p] \in Starting /\ phase[q] \in Starting => p = q
Phases ==
  \A p \in Processes :
    /\ phase[p] \in {"none", "started", "opened"} => logged[p] = 0 /\ buffer[p] = << >>
    /\ phase[p] \in {"none", "started"} => forks[p] = 0
    /\ phase[p] = "detaching" => p \in Servers /\ logged[p] <= 1 /\ Len(buffer[p]) <= 1
    /\ phase[p] = "exited" => buffer[p] = << >>
    /\ forks[p] > 0 => options[p].daemon
    /\ p \in Servers => phase[p] \notin {"saving", "storing", "cut"}
    /\ p \in Clients => ~options[p].daemon
------------------------------------------------------------------------------
(* Lifecycle: lines that are added, written and copied *)

\* A process logs to the file of its program.
LEMMA OwnLog ==
  /\ \A p \in Processes : ProgramOf(p) \in Programs
  /\ \A p \in Servers : p \in Processes /\ p \notin Clients /\ ProgramOf(p) = "server"
  BY ProcessesAssumption DEF ProgramOf, Programs, Processes

\* What a line is made of.
LEMMA LineItems ==
  ASSUME NEW s \in Seq(LineSet), NEW i \in 1 .. Len(s)
  PROVE  /\ s[i] \in LineSet /\ s[i].by \in Processes /\ s[i].n \in Nat
         /\ s[i] = [by |-> s[i].by, n |-> s[i].n]
<1>1. s[i] \in LineSet
  OBVIOUS
<1>2. QED
  BY <1>1 DEF LineSet

\* What is inherited stands first and what is left is a process' own, in order.
LEMMA OwnLines ==
  ASSUME NEW f, NEW b, NEW m, NEW gone, NEW dup, LinesInv(f, b, m, gone, dup),
         NEW p \in Processes
  PROVE  /\ b[p] \in Seq(LineSet) /\ Len(b[p]) \in Nat /\ m[p] \in Nat
         /\ OwnUnwritten(b, p) \in 0 .. Len(b[p])
         /\ OwnWritten(b, m, p) \in 0 .. m[p]
         /\ OwnUnwritten(b, p) = m[p] - OwnWritten(b, m, p)
         /\ \A i \in 1 .. Len(b[p]) :
              b[p][i].by = p <=> i > Len(b[p]) - OwnUnwritten(b, p)
         /\ \A i \in 1 .. Len(b[p]) :
              b[p][i].by = p => b[p][i].n = m[p] - Len(b[p]) + i
         /\ \A i \in 1 .. Len(b[p]) :
              b[p][i].by # p => /\ i = 1 /\ p \in Servers
                                /\ b[p][i].n = 1 /\ b[p][i].by \in gone \cap dup
                                /\ m[b[p][i].by] = 1
<1> DEFINE s == b[p]
           u == OwnUnwritten(b, p)
<1>1. s \in Seq(LineSet) /\ m[p] \in Nat /\ Len(s) \in Nat /\ DOMAIN s = 1 .. Len(s)
  BY DEF LinesInv, BuffersTyped
<1>2. \A i \in 1 .. Len(s) :
        \/ s[i].by = p /\ s[i].n = m[p] - Len(s) + i /\ s[i].n >= 1
        \/ /\ i = 1 /\ p \in Servers /\ s[i].n = 1 /\ s[i].by # p
           /\ s[i].by \in gone \cap dup /\ m[s[i].by] = 1
  BY <1>1 DEF LinesInv, BufferOrder
<1>3. u = IF s # << >> /\ s[1].by # p THEN Len(s) - 1 ELSE Len(s)
  BY DEF OwnUnwritten
<1>4. s = << >> <=> Len(s) = 0
  BY <1>1
<1>5. OwnWritten(b, m, p) = m[p] - u
  BY DEF OwnWritten
<1> HIDE DEF s, u
<1>6. u \in 0 .. Len(s) /\ \A i \in 1 .. Len(s) : s[i].by = p <=> i > Len(s) - u
  <2>1. \A i \in 1 .. Len(s) : s[i].by # p => i = 1
    BY <1>2
  <2>2. CASE s = << >>
    BY <1>1, <1>3, <1>4, <2>2
  <2>3. CASE s # << >> /\ s[1].by # p
    <3>1. u = Len(s) - 1 /\ Len(s) >= 1
      BY <1>1, <1>3, <1>4, <2>3
    <3>2. QED
      BY <1>1, <2>1, <2>3, <3>1
  <2>4. CASE s # << >> /\ s[1].by = p
    <3>1. u = Len(s) /\ \A i \in 1 .. Len(s) : s[i].by = p
      BY <1>3, <2>1, <2>4
    <3>2. QED
      BY <1>1, <3>1
  <2>5. QED
    BY <2>2, <2>3, <2>4
<1>7. u <= m[p]
  <2>1. CASE u = 0
    BY <1>1, <2>1
  <2>2. CASE u # 0
    <3> DEFINE i == Len(s) - u + 1
    <3>1. u \in 0 .. Len(s)
      BY <1>6
    <3>2. i \in 1 .. Len(s) /\ i > Len(s) - u
      BY <1>1, <2>2, <3>1
    <3>3. s[i].by = p
      BY <1>6, <3>2
    <3>4. s[i].n = m[p] - Len(s) + i /\ s[i].n >= 1
      BY <1>2, <3>2, <3>3
    <3>5. QED
      BY <1>1, <3>1, <3>4
  <2>3. QED
    BY <2>1, <2>2
<1>8. m[p] - u \in 0 .. m[p] /\ u = m[p] - (m[p] - u)
  BY <1>1, <1>6, <1>7
<1>9. \A i \in 1 .. Len(s) : s[i].by = p => s[i].n = m[p] - Len(s) + i
  BY <1>2
<1>10. \A i \in 1 .. Len(s) :
         s[i].by # p => /\ i = 1 /\ p \in Servers
                        /\ s[i].n = 1 /\ s[i].by \in gone \cap dup
                        /\ m[s[i].by] = 1
  BY <1>2
<1>11. QED
  BY <1>1, <1>5, <1>6, <1>8, <1>9, <1>10 DEF s, u

\* A line is in a buffer once.
LEMMA HeldOnce ==
  ASSUME NEW f, NEW b, NEW m, NEW gone, NEW dup, LinesInv(f, b, m, gone, dup),
         NEW p \in Processes, NEW i \in 1 .. Len(b[p]), NEW j \in 1 .. Len(b[p]),
         b[p][i] = b[p][j]
  PROVE  i = j
<1>1. CASE b[p][i].by = p
  <2>0. \A k \in 1 .. Len(b[p]) : b[p][k].by = p => b[p][k].n = m[p] - Len(b[p]) + k
    BY OwnLines
  <2>1. b[p][i].n = m[p] - Len(b[p]) + i
    BY <1>1, <2>0
  <2>2. b[p][j].by = p
    BY <1>1
  <2>3. b[p][j].n = m[p] - Len(b[p]) + j
    BY <2>0, <2>2
  <2>4. m[p] \in Nat /\ Len(b[p]) \in Nat
    BY OwnLines
  <2>5. m[p] - Len(b[p]) + i = m[p] - Len(b[p]) + j
    BY <2>1, <2>3
  <2>6. QED
    BY <2>4, <2>5
<1>2. CASE b[p][i].by # p
  BY <1>2, OwnLines
<1>3. QED
  BY <1>1, <1>2

\* The places of a line in the log are few enough to be counted.
LEMMA CopiesCounted ==
  ASSUME NEW f, NEW b, NEW m, NEW gone, NEW dup, LinesInv(f, b, m, gone, dup),
         NEW q \in Processes
  PROVE  /\ IsFiniteSet(Places(f, q)) /\ Cardinality(Places(f, q)) \in Nat
         /\ IsFiniteSet(Holders(b, q)) /\ Cardinality(Holders(b, q)) \in Nat
         /\ Places(f, q) \subseteq 1 .. Len(f[ProgramOf(q)])
         /\ Copies(f, b, q) <= 3
<1>1. f[ProgramOf(q)] \in Seq(LineSet)
  BY OwnLog DEF LinesInv, BuffersTyped
<1>2. Places(f, q) \subseteq 1 .. Len(f[ProgramOf(q)])
  BY <1>1 DEF Places
<1>3. IsFiniteSet(1 .. Len(f[ProgramOf(q)]))
  BY <1>1, FS_Interval
<1>4. IsFiniteSet(Places(f, q))
  BY <1>2, <1>3, FS_Subset
<1>5. IsFiniteSet(Holders(b, q)) /\ Copies(f, b, q) <= 3
  BY DEF LinesInv, FewCopies
<1>6. QED
  BY <1>2, <1>4, <1>5, FS_CardinalityType

\* More processes that will not log, or that have become daemons, change nothing.
LEMMA LinesGrow ==
  ASSUME NEW f, NEW b, NEW m, NEW gone, NEW dup, LinesInv(f, b, m, gone, dup),
         NEW gone2, NEW dup2, gone \subseteq gone2, dup \subseteq dup2
  PROVE  LinesInv(f, b, m, gone2, dup2)
<1>1. BufferOrder(b, m, gone2, dup2)
  BY DEF LinesInv, BufferOrder
<1>2. LogLines(f, b, m, dup2)
  BY DEF LinesInv, LogLines
<1>3. LogOrder(f, dup2)
  BY DEF LinesInv, LogOrder
<1>4. QED
  BY <1>1, <1>2, <1>3 DEF LinesInv

\* The buffers and the numbers after a process has logged a line.
AddsLine(p, b, m, b2, m2) ==
  /\ b2 = [b EXCEPT ![p] = Append(b[p], [by |-> p, n |-> m[p] + 1])]
  /\ m2 = [m EXCEPT ![p] = m[p] + 1]

\* A new line of a process that is not gone stands behind all others.
LEMMA LineAdded ==
  ASSUME NEW f, NEW b, NEW m, NEW gone, NEW dup, LinesInv(f, b, m, gone, dup),
         NEW p \in Processes, p \notin gone,
         NEW b2, NEW m2, AddsLine(p, b, m, b2, m2)
  PROVE  /\ LinesInv(f, b2, m2, gone, dup)
         /\ \A q \in Processes : q # p \/ m[p] > 0 => Holders(b2, q) = Holders(b, q)
         /\ m[p] = 0 => Holders(b2, p) = {p} /\ Copies(f, b2, p) = 1
<1> DEFINE line == [by |-> p, n |-> m[p] + 1]
           s == b[p]
           s2 == b2[p]
<1>1. /\ b \in [Processes -> Seq(LineSet)] /\ f \in [Programs -> Seq(LineSet)]
      /\ m \in [Processes -> Nat] /\ s \in Seq(LineSet) /\ Len(s) \in Nat /\ m[p] \in Nat
  BY DEF LinesInv, BuffersTyped
<1>2. line \in LineSet /\ line.by = p /\ line.n = m[p] + 1
  BY <1>1 DEF LineSet
<1>3. s2 = Append(s, line)
  BY <1>1 DEF AddsLine
<1>4. /\ s2 \in Seq(LineSet) /\ Len(s2) = Len(s) + 1
      /\ \A i \in 1 .. Len(s) : s2[i] = s[i]
      /\ s2[Len(s) + 1] = line
  <2> HIDE DEF line, s, s2
  <2>1. QED
    BY <1>1, <1>2, <1>3
<1>5. /\ \A q \in Processes \ {p} : b2[q] = b[q] /\ m2[q] = m[q]
      /\ m2[p] = m[p] + 1
  BY <1>1 DEF AddsLine
<1>6. BuffersTyped(f, b2, m2)
  BY <1>1, <1>2 DEF BuffersTyped, AddsLine
<1>7. \A q \in Processes : OwnWritten(b2, m2, q) = OwnWritten(b, m, q)
  <2>1. SUFFICES ASSUME NEW q \in Processes PROVE OwnWritten(b2, m2, q) = OwnWritten(b, m, q)
    OBVIOUS
  <2>2. CASE q # p
    BY <1>5, <2>2 DEF OwnWritten, OwnUnwritten
  <2>3. CASE q = p
    <3>1. s2 # << >> /\ s2[1] = IF s = << >> THEN line ELSE s[1]
      BY <1>1, <1>4
    <3>2. OwnUnwritten(b2, p) = OwnUnwritten(b, p) + 1 /\ OwnUnwritten(b, p) \in Nat
      <4> HIDE DEF line
      <4>1. OwnUnwritten(b, p) = IF s # << >> /\ s[1].by # p THEN Len(s) - 1 ELSE Len(s)
        BY DEF OwnUnwritten
      <4>2. OwnUnwritten(b2, p) = IF s2 # << >> /\ s2[1].by # p THEN Len(s2) - 1 ELSE Len(s2)
        BY DEF OwnUnwritten
      <4>3. s = << >> <=> Len(s) = 0
        BY <1>1
      <4> HIDE DEF s, s2
      <4>4. QED
        BY <1>1, <1>2, <1>4, <3>1, <4>1, <4>2, <4>3
    <3>3. m2[p] - OwnUnwritten(b2, p) = m[p] - OwnUnwritten(b, p)
      BY <1>1, <1>5, <3>2
    <3>4. QED
      BY <2>3, <3>3 DEF OwnWritten
  <2>4. QED
    BY <2>2, <2>3
<1>8. \A q \in Processes : \A i \in 1 .. Len(b[q]) : b[q][i].by = p => q = p
  <2>1. SUFFICES ASSUME NEW q \in Processes, NEW i \in 1 .. Len(b[q]),
                        b[q][i].by = p, q # p
                 PROVE  FALSE
    OBVIOUS
  <2>2. b[q][i].by \in gone \cap dup
    BY <2>1, OwnLines
  <2>3. QED
    BY <2>1, <2>2
<1>9. BufferOrder(b2, m2, gone, dup)
  <2>1. SUFFICES ASSUME NEW q \in Processes, NEW i \in DOMAIN b2[q]
                 PROVE  \/ /\ b2[q][i].by = q
                           /\ b2[q][i].n = m2[q] - Len(b2[q]) + i /\ b2[q][i].n >= 1
                        \/ /\ i = 1 /\ q \in Servers
                           /\ b2[q][i].n = 1 /\ b2[q][i].by # q
                           /\ b2[q][i].by \in gone \cap dup /\ m2[b2[q][i].by] = 1
    BY DEF BufferOrder
  <2>2. CASE q = p /\ i = Len(s) + 1
    <3>1. b2[q][i] = line /\ m2[q] = m[p] + 1 /\ Len(b2[q]) = Len(s) + 1
      BY <1>4, <1>5, <2>2
    <3>2. m2[q] - Len(b2[q]) + i = m[p] + 1
      BY <1>1, <2>2, <3>1
    <3>3. QED
      BY <1>1, <1>2, <2>2, <3>1, <3>2
  <2>3. CASE ~(q = p /\ i = Len(s) + 1)
    <3>1. i \in DOMAIN b[q] /\ b2[q][i] = b[q][i] /\ DOMAIN b[q] = 1 .. Len(b[q])
      <4>1. DOMAIN b[q] = 1 .. Len(b[q])
        BY <1>1
      <4>2. CASE q # p
        BY <1>5, <2>1, <4>1, <4>2
      <4>3. CASE q = p
        <5>1. i \in 1 .. Len(s) + 1
          BY <1>4, <2>1, <4>3
        <5>2. i \in 1 .. Len(s)
          BY <1>1, <2>3, <4>3, <5>1
        <5>3. QED
          BY <1>4, <4>1, <4>3, <5>2
      <4>4. QED
        BY <4>2, <4>3
    <3>2. m2[q] - Len(b2[q]) = m[q] - Len(b[q])
      BY <1>1, <1>4, <1>5, SMTT(30)
    <3>3. \/ b[q][i].by = q /\ b[q][i].n = m[q] - Len(b[q]) + i /\ b[q][i].n >= 1
          \/ /\ i = 1 /\ q \in Servers /\ b[q][i].n = 1 /\ b[q][i].by # q
             /\ b[q][i].by \in gone \cap dup /\ m[b[q][i].by] = 1
      BY <3>1 DEF LinesInv, BufferOrder
    <3>4. b[q][i].by # q => b[q][i].by # p
      BY <1>8, <3>1
    <3>5. b[q][i].by \in Processes
      BY <1>1, <3>1, LineItems
    <3>6. b[q][i].by # q => m2[b[q][i].by] = m[b[q][i].by]
      BY <1>5, <3>4, <3>5
    <3>7. QED
      BY <3>1, <3>2, <3>3, <3>6
  <2>4. QED
    BY <2>2, <2>3
<1>10. \A g \in Programs : \A i \in DOMAIN f[g] :
         /\ f[g][i].by \in Processes /\ ProgramOf(f[g][i].by) = g
         /\ f[g][i].n \in 1 .. m[f[g][i].by]
  <2>1. SUFFICES ASSUME NEW g \in Programs, NEW i \in DOMAIN f[g]
                 PROVE  f[g][i].by \in Processes
    BY DEF LinesInv, LogLines
  <2>2. f[g] \in Seq(LineSet) /\ i \in 1 .. Len(f[g])
    BY <1>1
  <2>3. QED
    BY <2>2, LineItems
<1>11. LogLines(f, b2, m2, dup)
  <2>1. \A q \in Processes : m[q] \in Nat /\ m2[q] \in Nat /\ m[q] <= m2[q]
    <3>1. SUFFICES ASSUME NEW q \in Processes
                   PROVE  m[q] \in Nat /\ m2[q] \in Nat /\ m[q] <= m2[q]
      OBVIOUS
    <3>2. m[q] \in Nat
      BY <1>1
    <3>3. m2[q] = m[q] \/ m2[q] = m[q] + 1
      BY <1>5
    <3>4. QED
      BY <3>2, <3>3
  <2>2. SUFFICES ASSUME NEW g \in Programs, NEW i \in DOMAIN f[g]
                 PROVE  /\ f[g][i].n \in 1 .. m2[f[g][i].by]
                        /\ \/ f[g][i].n <= OwnWritten(b2, m2, f[g][i].by)
                           \/ f[g][i].n = 1 /\ f[g][i].by \in dup
    BY <1>10 DEF LogLines
  <2>3. f[g][i].n \in 1 .. m2[f[g][i].by]
    BY <1>10, <2>1
  <2>4. \/ f[g][i].n <= OwnWritten(b, m, f[g][i].by)
        \/ f[g][i].n = 1 /\ f[g][i].by \in dup
    BY DEF LinesInv, LogLines
  <2>5. QED
    BY <1>7, <1>10, <2>3, <2>4
<1>12. NoneMissing(f, b2, m2)
  BY <1>7 DEF LinesInv, NoneMissing
<1>13. \A q \in Processes : q # p \/ m[p] > 0 => Holders(b2, q) = Holders(b, q)
  <2>1. SUFFICES ASSUME NEW q \in Processes, q # p \/ m[p] > 0, NEW r \in Processes
                 PROVE  (\E i \in DOMAIN b2[r] : b2[r][i] = FirstLine(q))
                          <=> \E i \in DOMAIN b[r] : b[r][i] = FirstLine(q)
    BY DEF Holders
  <2>2. CASE r # p
    BY <1>5, <2>2
  <2>3. CASE r = p
    <3>1. line # FirstLine(q)
      <4>1. FirstLine(q).by = q /\ FirstLine(q).n = 1
        BY DEF FirstLine
      <4>2. line.by # q \/ line.n # 1
        BY <1>1, <1>2, <2>1
      <4>3. QED
        BY <4>1, <4>2
    <3>2. DOMAIN s2 = 1 .. Len(s) + 1 /\ DOMAIN s = 1 .. Len(s)
      BY <1>1, <1>4
    <3> HIDE DEF line, s, s2
    <3>3. (\E i \in DOMAIN s2 : s2[i] = FirstLine(q)) <=> \E i \in DOMAIN s : s[i] = FirstLine(q)
      <4>1. ASSUME NEW i \in DOMAIN s, s[i] = FirstLine(q)
            PROVE  \E j \in DOMAIN s2 : s2[j] = FirstLine(q)
        <5>1. i \in DOMAIN s2 /\ s2[i] = s[i]
          BY <1>1, <1>4, <3>2, <4>1
        <5>2. QED
          BY <4>1, <5>1
      <4>2. ASSUME NEW i \in DOMAIN s2, s2[i] = FirstLine(q)
            PROVE  \E j \in DOMAIN s : s[j] = FirstLine(q)
        <5>1. i # Len(s) + 1
          BY <1>4, <3>1, <4>2
        <5>2. i \in DOMAIN s /\ s2[i] = s[i]
          BY <1>1, <1>4, <3>2, <4>2, <5>1
        <5>3. QED
          BY <4>2, <5>2
      <4>3. QED
        BY <4>1, <4>2
    <3>4. QED
      BY <2>3, <3>3 DEF s, s2
  <2>4. QED
    BY <2>2, <2>3
<1>14. m[p] = 0 => Places(f, p) = {} /\ Holders(b2, p) = {p}
  <2>1. SUFFICES ASSUME m[p] = 0 PROVE Places(f, p) = {} /\ Holders(b2, p) = {p}
    OBVIOUS
  <2>2. \A i \in DOMAIN f[ProgramOf(p)] : f[ProgramOf(p)][i].by # p
    <3>1. SUFFICES ASSUME NEW i \in DOMAIN f[ProgramOf(p)], f[ProgramOf(p)][i].by = p
                   PROVE  FALSE
      OBVIOUS
    <3>2. f[ProgramOf(p)][i].n \in 1 .. m[p]
      BY <1>10, <3>1, OwnLog
    <3>3. QED
      BY <2>1, <3>2
  <2>3. Places(f, p) = {}
    BY <2>2 DEF Places, FirstLine
  <2>4. \A q \in Processes \ {p} : \A i \in DOMAIN b2[q] : b2[q][i] # FirstLine(p)
    <3>1. \A q \in Processes : DOMAIN b[q] = 1 .. Len(b[q])
      BY <1>1
    <3>2. FirstLine(p).by = p
      BY DEF FirstLine
    <3>3. QED
      BY <1>5, <1>8, <3>1, <3>2
  <2>5. s2[Len(s) + 1] = FirstLine(p) /\ Len(s) + 1 \in DOMAIN s2
    BY <1>1, <1>4, <2>1 DEF FirstLine
  <2>6. Holders(b2, p) = {p}
    BY <2>4, <2>5 DEF Holders
  <2>7. QED
    BY <2>3, <2>6
<1>15. m[p] = 0 => IsFiniteSet(Holders(b2, p)) /\ Copies(f, b2, p) = 1
  <2>1. SUFFICES ASSUME m[p] = 0
                 PROVE  IsFiniteSet(Holders(b2, p)) /\ Copies(f, b2, p) = 1
    OBVIOUS
  <2>2. Cardinality(Places(f, p)) = 0
    BY <1>14, <2>1, FS_EmptySet
  <2>3. IsFiniteSet(Holders(b2, p)) /\ Cardinality(Holders(b2, p)) = 1
    BY <1>14, <2>1, FS_Singleton
  <2>4. QED
    BY <2>2, <2>3 DEF Copies
<1>16. FewCopies(f, b2)
  <2>1. SUFFICES ASSUME NEW q \in Processes
                 PROVE  IsFiniteSet(Holders(b2, q)) /\ Copies(f, b2, q) <= 3
    BY DEF FewCopies
  <2>2. CASE q # p \/ m[p] > 0
    <3>1. Holders(b2, q) = Holders(b, q) /\ Copies(f, b2, q) = Copies(f, b, q)
      BY <1>13, <2>2 DEF Copies
    <3>2. QED
      BY <3>1, CopiesCounted
  <2>3. CASE q = p /\ m[p] = 0
    BY <1>15, <2>3
  <2>4. QED
    BY <1>1, <2>2, <2>3
<1>17. QED
  BY <1>6, <1>9, <1>11, <1>12, <1>13, <1>14, <1>15, <1>16 DEF LinesInv

\* The log and the buffers after the lines of a process were written.
WritesLines(p, f, b, f2, b2) ==
  /\ f2 = [f EXCEPT ![ProgramOf(p)] = f[ProgramOf(p)] \o b[p]]
  /\ b2 = [b EXCEPT ![p] = << >>]

\* The lines of a buffer go to the log: nothing is lost and nothing is doubled
\* that was not held twice.
LEMMA LinesWritten ==
  ASSUME NEW f, NEW b, NEW m, NEW gone, NEW dup, LinesInv(f, b, m, gone, dup),
         gone \subseteq Servers, NEW p \in Processes,
         NEW f2, NEW b2, WritesLines(p, f, b, f2, b2)
  PROVE  /\ LinesInv(f2, b2, m, gone, dup)
         /\ \A q \in Processes : /\ Holders(b2, q) \subseteq Holders(b, q) \ {p}
                                 /\ Copies(f2, b2, q) = Copies(f, b, q)
<1> DEFINE g == ProgramOf(p)
           old == f[g]
           new == f2[g]
           s == b[p]
           L == Len(old)
           K == Len(s)
<1>1. /\ b \in [Processes -> Seq(LineSet)] /\ f \in [Programs -> Seq(LineSet)]
      /\ m \in [Processes -> Nat] /\ g \in Programs
      /\ s \in Seq(LineSet) /\ old \in Seq(LineSet) /\ K \in Nat /\ L \in Nat /\ m[p] \in Nat
  BY OwnLog DEF LinesInv, BuffersTyped
<1>2. new = old \o s /\ \A h \in Programs \ {g} : f2[h] = f[h]
  BY <1>1 DEF WritesLines
<1>3. /\ new \in Seq(LineSet) /\ Len(new) = L + K
      /\ \A i \in 1 .. L + K : new[i] = IF i <= L THEN old[i] ELSE s[i - L]
  <2> HIDE DEF g, old, new, s
  <2>1. old \o s \in Seq(LineSet) /\ Len(old \o s) = L + K
        /\ \A i \in 1 .. L + K : (old \o s)[i] = IF i <= L THEN old[i] ELSE s[i - L]
    BY <1>1, ConcatProperties
  <2>2. QED
    BY <1>2, <2>1
<1>4. b2[p] = << >> /\ \A q \in Processes \ {p} : b2[q] = b[q]
  BY <1>1 DEF WritesLines
<1>5. BuffersTyped(f2, b2, m)
  <2>1. b2 \in [Processes -> Seq(LineSet)]
    BY <1>1 DEF WritesLines
  <2>2. f2 \in [Programs -> Seq(LineSet)]
    BY <1>1, <1>3 DEF WritesLines
  <2>3. QED
    BY <1>1, <2>1, <2>2 DEF BuffersTyped
<1>6. OwnWritten(b2, m, p) = m[p]
  BY <1>1, <1>4 DEF OwnWritten, OwnUnwritten
<1>7. \A q \in Processes \ {p} : OwnWritten(b2, m, q) = OwnWritten(b, m, q)
  BY <1>4 DEF OwnWritten, OwnUnwritten
<1> DEFINE w == OwnWritten(b, m, p)
           u == OwnUnwritten(b, p)
<1>8. w \in 0 .. m[p] /\ u \in 0 .. K /\ u = m[p] - w
  BY OwnLines
<1>9. \A i \in 1 .. K :
        \/ s[i].by = p /\ i > K - u /\ s[i].n = m[p] - K + i
        \/ /\ s[i].by # p /\ i = 1 /\ p \in Servers /\ s[i].n = 1
           /\ s[i].by \in gone \cap dup /\ m[s[i].by] = 1
  BY OwnLines, SMTT(30)
\* The lines of the file come from the file or from the buffer.
<1>10. \A h \in Programs : \A i \in DOMAIN f2[h] :
         \/ i \in DOMAIN f[h] /\ f2[h][i] = f[h][i] /\ (h = g => i <= L)
         \/ h = g /\ i > L /\ i - L \in 1 .. K /\ f2[h][i] = s[i - L]
  <2>1. SUFFICES ASSUME NEW h \in Programs, NEW i \in DOMAIN f2[h]
                 PROVE  \/ i \in DOMAIN f[h] /\ f2[h][i] = f[h][i] /\ (h = g => i <= L)
                        \/ h = g /\ i > L /\ i - L \in 1 .. K /\ f2[h][i] = s[i - L]
    OBVIOUS
  <2>2. CASE h # g
    BY <1>2, <2>2
  <2>3. CASE h = g
    <3>1. i \in 1 .. L + K /\ DOMAIN f[h] = 1 .. L
      BY <1>1, <1>3, <2>3
    <3>2. CASE i <= L
      BY <1>1, <1>3, <2>3, <3>1, <3>2
    <3>3. CASE i > L
      <4>1. i - L \in 1 .. K /\ f2[h][i] = s[i - L]
        BY <1>1, <1>3, <2>3, <3>1, <3>3
      <4>2. QED
        BY <2>3, <3>3, <4>1
    <3>4. QED
      BY <1>1, <3>1, <3>2, <3>3
  <2>4. QED
    BY <2>2, <2>3
<1>11. \A h \in Programs : \A i \in DOMAIN f[h] :
         /\ i \in DOMAIN f2[h] /\ f2[h][i] = f[h][i]
         /\ i \in Nat /\ f[h][i].by \in Processes /\ f[h][i].n \in Nat
  <2>1. SUFFICES ASSUME NEW h \in Programs, NEW i \in DOMAIN f[h]
                 PROVE  /\ i \in DOMAIN f2[h] /\ f2[h][i] = f[h][i]
                        /\ i \in Nat /\ f[h][i].by \in Processes /\ f[h][i].n \in Nat
    OBVIOUS
  <2>2. f[h] \in Seq(LineSet) /\ i \in 1 .. Len(f[h])
    BY <1>1
  <2>3. i \in DOMAIN f2[h] /\ f2[h][i] = f[h][i]
    <3>1. CASE h # g
      BY <1>2, <3>1
    <3>2. CASE h = g
      <4>1. i \in 1 .. L /\ i \in 1 .. L + K /\ DOMAIN new = 1 .. L + K
        BY <1>1, <1>3, <2>2, <3>2
      <4>2. i <= L
        BY <4>1
      <4>3. new[i] = old[i]
        BY <1>3, <4>1, <4>2
      <4>4. QED
        BY <3>2, <4>1, <4>3
    <3>3. QED
      BY <3>1, <3>2
  <2>4. f[h][i].by \in Processes /\ f[h][i].n \in Nat
    BY <2>2, LineItems
  <2>5. i \in Nat
    BY <2>2
  <2>6. QED
    BY <2>3, <2>4, <2>5
\* What is known of the lines that were in the file before.
<1>12. \A h \in Programs : \A i \in DOMAIN f[h] :
         /\ ProgramOf(f[h][i].by) = h /\ f[h][i].n \in 1 .. m[f[h][i].by]
         /\ \/ f[h][i].n <= OwnWritten(b, m, f[h][i].by)
            \/ f[h][i].n = 1 /\ f[h][i].by \in dup
  BY DEF LinesInv, LogLines
\* And of the new ones.
<1>13. \A i \in 1 .. K :
         /\ s[i].by \in Processes /\ s[i].n \in 1 .. m[s[i].by]
         /\ ProgramOf(s[i].by) = g
         /\ \/ s[i].n <= OwnWritten(b2, m, s[i].by)
            \/ s[i].n = 1 /\ s[i].by \in dup
  <2>1. SUFFICES ASSUME NEW i \in 1 .. K
                 PROVE  /\ s[i].by \in Processes /\ s[i].n \in 1 .. m[s[i].by]
                        /\ ProgramOf(s[i].by) = g
                        /\ \/ s[i].n <= OwnWritten(b2, m, s[i].by)
                           \/ s[i].n = 1 /\ s[i].by \in dup
    OBVIOUS
  <2>2. s[i].by \in Processes
    BY <1>1, LineItems
  <2>3. CASE s[i].by = p
    <3>1. s[i].n = m[p] - K + i /\ i > K - u
      BY <1>9, <2>3
    <3>2. s[i].n \in 1 .. m[p]
      BY <1>1, <1>8, <3>1
    <3>3. QED
      BY <1>6, <2>2, <2>3, <3>2
  <2>4. CASE s[i].by # p
    <3>1. p \in Servers /\ s[i].n = 1 /\ s[i].by \in Servers /\ s[i].by \in dup /\ m[s[i].by] = 1
      BY <1>9, <2>4
    <3>2. QED
      BY <2>2, <3>1, OwnLog
  <2>5. QED
    BY <2>3, <2>4
<1> HIDE DEF g, old, new, s, L, K, w, u
<1>14. BufferOrder(b2, m, gone, dup)
  <2>1. SUFFICES ASSUME NEW q \in Processes, NEW i \in DOMAIN b2[q]
                 PROVE  \/ /\ b2[q][i].by = q
                           /\ b2[q][i].n = m[q] - Len(b2[q]) + i /\ b2[q][i].n >= 1
                        \/ /\ i = 1 /\ q \in Servers
                           /\ b2[q][i].n = 1 /\ b2[q][i].by # q
                           /\ b2[q][i].by \in gone \cap dup /\ m[b2[q][i].by] = 1
    BY DEF BufferOrder
  <2>2. q # p
    BY <1>4, <2>1
  <2>3. QED
    BY <1>4, <2>1, <2>2 DEF LinesInv, BufferOrder
<1>15. LogLines(f2, b2, m, dup)
  <2>1. SUFFICES ASSUME NEW h \in Programs, NEW i \in DOMAIN f2[h]
                 PROVE  /\ ProgramOf(f2[h][i].by) = h
                        /\ f2[h][i].n \in 1 .. m[f2[h][i].by]
                        /\ \/ f2[h][i].n <= OwnWritten(b2, m, f2[h][i].by)
                           \/ f2[h][i].n = 1 /\ f2[h][i].by \in dup
    BY DEF LogLines
  <2>2. CASE i \in DOMAIN f[h] /\ f2[h][i] = f[h][i]
    <3>1. /\ ProgramOf(f[h][i].by) = h /\ f[h][i].n \in 1 .. m[f[h][i].by]
          /\ \/ f[h][i].n <= OwnWritten(b, m, f[h][i].by)
             \/ f[h][i].n = 1 /\ f[h][i].by \in dup
          /\ f[h][i].by \in Processes
      BY <1>11, <1>12, <2>2
    <3>2. CASE f[h][i].by = p
      BY <1>6, <2>2, <3>1, <3>2
    <3>3. CASE f[h][i].by # p
      BY <1>7, <2>2, <3>1, <3>3
    <3>4. QED
      BY <3>2, <3>3
  <2>3. CASE h = g /\ i - L \in 1 .. K /\ f2[h][i] = s[i - L]
    BY <1>13, <2>3
  <2>4. QED
    BY <1>10, <2>2, <2>3
<1>16. LogOrder(f2, dup)
  <2>1. SUFFICES ASSUME NEW h \in Programs, NEW i \in DOMAIN f2[h], NEW j \in DOMAIN f2[h],
                        i < j, f2[h][i].by = f2[h][j].by
                 PROVE  /\ f2[h][i].n <= f2[h][j].n
                        /\ f2[h][i].n = f2[h][j].n =>
                             f2[h][i].n = 1 /\ f2[h][i].by \in dup
    BY DEF LogOrder
  <2>2. CASE j \in DOMAIN f[h] /\ f2[h][j] = f[h][j] /\ (h = g => j <= L)
    <3>1. i \in DOMAIN f[h] /\ f2[h][i] = f[h][i]
      <4>1. DOMAIN f[h] = 1 .. Len(f[h]) /\ Len(f[h]) \in Nat
        BY <1>1
      <4>2. i \in Nat /\ i >= 1
        <5>1. f2[h] \in Seq(LineSet)
          BY <1>5 DEF BuffersTyped
        <5>2. DOMAIN f2[h] = 1 .. Len(f2[h]) /\ Len(f2[h]) \in Nat
          BY <5>1
        <5>3. QED
          BY <2>1, <5>2
      <4>3. i \in DOMAIN f[h]
        BY <2>1, <2>2, <4>1, <4>2
      <4>4. QED
        BY <1>11, <4>3
    <3>2. QED
      BY <2>1, <2>2, <3>1 DEF LinesInv, LogOrder
  <2>3. CASE h = g /\ j > L /\ j - L \in 1 .. K /\ f2[h][j] = s[j - L]
    <3> DEFINE k == j - L
    <3>1. k \in 1 .. K /\ f2[h][j] = s[k]
      BY <2>3
    <3> HIDE DEF k
    <3>2. CASE i \in DOMAIN f[h] /\ f2[h][i] = f[h][i]
      <4>1. f[h][i].n \in 1 .. m[f[h][i].by] /\ f[h][i].by = s[k].by
        BY <1>12, <2>1, <3>1, <3>2
      <4>2. CASE s[k].by = p
        <5>1. s[k].n = m[p] - K + k /\ k > K - u
          BY <1>9, <3>1, <4>2
        <5>2. s[k].n > w /\ s[k].n >= 1 /\ s[k].n \in Nat
          BY <1>1, <1>8, <3>1, <5>1, SMTT(30)
        <5>3. f[h][i].n <= w \/ (f[h][i].n = 1 /\ f[h][i].by \in dup)
          BY <1>12, <3>2, <4>1, <4>2 DEF w
        <5>4. f[h][i].n \in Nat
          BY <1>11, <3>2
        <5>5. w \in Nat
          BY <1>1, <1>8
        <5>6. /\ f[h][i].n <= s[k].n
              /\ f[h][i].n = s[k].n => f[h][i].n = 1 /\ f[h][i].by \in dup
          <6>1. CASE f[h][i].n <= w
            BY <5>2, <5>4, <5>5, <6>1
          <6>2. CASE f[h][i].n = 1 /\ f[h][i].by \in dup
            BY <5>2, <6>2
          <6>3. QED
            BY <5>3, <6>1, <6>2
        <5>7. QED
          BY <3>1, <3>2, <5>6
      <4>3. CASE s[k].by # p
        <5>1. s[k].n = 1 /\ s[k].by \in dup /\ m[s[k].by] = 1
          BY <1>9, <3>1, <4>3
        <5>2. f[h][i].n = 1
          BY <4>1, <5>1
        <5>3. QED
          BY <3>1, <3>2, <4>1, <5>1, <5>2
      <4>4. QED
        BY <4>2, <4>3
    <3>3. CASE i > L /\ i - L \in 1 .. K /\ f2[h][i] = s[i - L]
      <4> DEFINE l == i - L
      <4>1. l \in 1 .. K /\ f2[h][i] = s[l] /\ l < k
        <5>1. i \in Int /\ j \in Int
          BY <1>5, <2>1 DEF BuffersTyped
        <5>2. QED
          BY <1>1, <2>1, <3>3, <5>1 DEF k
      <4> HIDE DEF l
      <4>2. s[k].by = p
        BY <1>9, <3>1, <4>1
      <4>3. s[l].by = p
        BY <2>1, <3>1, <4>1, <4>2
      <4>4. s[k].n = m[p] - K + k /\ s[l].n = m[p] - K + l
        BY <1>9, <3>1, <4>1, <4>2, <4>3
      <4>5. s[l].n < s[k].n
        BY <1>1, <3>1, <4>1, <4>4
      <4>6. s[l].n \in Nat /\ s[k].n \in Nat
        BY <1>1, <3>1, <4>1, LineItems DEF K
      <4>7. QED
        BY <3>1, <4>1, <4>5, <4>6
    <3>4. QED
      BY <1>10, <2>3, <3>2, <3>3
  <2>4. QED
    BY <1>10, <2>2, <2>3
<1>17. NoneMissing(f2, b2, m)
  <2>1. SUFFICES ASSUME NEW q \in Processes, NEW k \in 1 .. OwnWritten(b2, m, q)
                 PROVE  \E i \in DOMAIN f2[ProgramOf(q)] :
                          f2[ProgramOf(q)][i] = [by |-> q, n |-> k]
    BY DEF NoneMissing
  <2>0. old = f[g] /\ new = f2[g] /\ s = b[p] /\ L = Len(old) /\ K = Len(s) /\ g = ProgramOf(p)
        /\ w = OwnWritten(b, m, p) /\ u = OwnUnwritten(b, p)
    BY DEF g, old, new, s, L, K, w, u
  <2>2. CASE k \in 1 .. OwnWritten(b, m, q)
    <3>1. PICK i \in DOMAIN f[ProgramOf(q)] : f[ProgramOf(q)][i] = [by |-> q, n |-> k]
      BY <2>2 DEF LinesInv, NoneMissing
    <3>2. QED
      BY <1>11, <3>1, OwnLog
  <2>3. CASE k \notin 1 .. OwnWritten(b, m, q)
    <3>1. q = p
      BY <1>7, <2>1, <2>3
    <3>2. k \in 1 .. m[p] /\ k > w
      BY <1>1, <1>6, <1>8, <2>0, <2>1, <2>3, <3>1
    <3>3. PICK i \in 1 .. K : i = k - m[p] + K /\ i > K - u
      <4>1. k - m[p] + K \in Int /\ k - m[p] + K <= K
        BY <1>1, <3>2
      <4>2. k - m[p] + K > K - u /\ K - u >= 0
        BY <1>1, <1>8, <3>2, SMTT(30)
      <4>3. k - m[p] + K \in 1 .. K
        BY <1>1, <1>8, <4>1, <4>2
      <4>4. QED
        BY <4>2, <4>3
    <3>4. s[i].by = p
      <4>1. \A l \in 1 .. K : s[l].by = p <=> l > K - u
        BY <2>0, OwnLines
      <4>2. QED
        BY <3>3, <4>1
    <3>5. s[i].n = m[p] - K + i
      BY <1>9, <3>4
    <3>6. s[i].n = k
      BY <1>1, <3>2, <3>3, <3>5
    <3>7. s[i] = [by |-> p, n |-> k]
      <4>1. s[i] = [by |-> s[i].by, n |-> s[i].n]
        BY <1>1, <2>0, LineItems
      <4>2. QED
        BY <3>4, <3>6, <4>1
    <3>8. PICK j \in 1 .. L + K : j = L + i
      BY <1>1
    <3>9. ~(j <= L) /\ j - L = i
      BY <1>1, <3>8
    <3>10. j \in DOMAIN new /\ new[j] = s[i]
      <4>1. DOMAIN new = 1 .. L + K
        BY <1>3
      <4>2. new[j] = IF j <= L THEN old[j] ELSE s[j - L]
        BY <1>3
      <4>3. QED
        BY <3>9, <4>1, <4>2
    <3>11. QED
      BY <2>0, <3>1, <3>7, <3>10
  <2>4. QED
    BY <2>2, <2>3
<1>18. ASSUME NEW q \in Processes
       PROVE  /\ IsFiniteSet(Holders(b2, q)) /\ Holders(b2, q) = Holders(b, q) \ {p}
              /\ Copies(f2, b2, q) = Copies(f, b, q)
  <2>0. old = f[g] /\ new = f2[g] /\ s = b[p] /\ L = Len(old) /\ K = Len(s) /\ g = ProgramOf(p)
    BY DEF g, old, new, s, L, K
  <2>1. /\ IsFiniteSet(Places(f, q)) /\ Cardinality(Places(f, q)) \in Nat
        /\ IsFiniteSet(Holders(b, q)) /\ Cardinality(Holders(b, q)) \in Nat
        /\ Places(f, q) \subseteq 1 .. Len(f[ProgramOf(q)])
    BY <1>18, CopiesCounted
  <2>2. Holders(b2, q) = Holders(b, q) \ {p}
    BY <1>4 DEF Holders
  <2>3. IsFiniteSet(Holders(b2, q)) /\ Cardinality(Holders(b2, q)) =
          IF p \in Holders(b, q) THEN Cardinality(Holders(b, q)) - 1
                                 ELSE Cardinality(Holders(b, q))
    <3> DEFINE H == Holders(b, q)
    <3>1. IsFiniteSet(H)
      BY <2>1
    <3> HIDE DEF H
    <3>2. IsFiniteSet(H \ {p}) /\ Cardinality(H \ {p}) =
            IF p \in H THEN Cardinality(H) - 1 ELSE Cardinality(H)
      BY <3>1, FS_RemoveElement
    <3>3. QED
      BY <2>2, <3>2 DEF H
  <2>4. FirstLine(q).by = q
    BY DEF FirstLine
  <2>5. ProgramOf(q) \in Programs
    BY <1>18, OwnLog
  <2>6. CASE p \in Holders(b, q)
    <3>1. PICK i \in 1 .. K : s[i] = FirstLine(q)
      BY <1>1, <2>0, <2>6 DEF Holders
    <3>2. ProgramOf(q) = g
      BY <1>13, <2>4, <3>1
    <3>3. \A j \in 1 .. K : s[j] = FirstLine(q) => j = i
      BY <2>0, <3>1, HeldOnce
    <3>4. DOMAIN new = 1 .. L + K /\ DOMAIN old = 1 .. L
      BY <1>1, <1>3, <2>0
    <3>5. Places(f2, q) = Places(f, q) \cup {L + i}
      <4>1. \A j \in DOMAIN new : new[j] = FirstLine(q) <=>
              j \in Places(f, q) \cup {L + i}
        <5>1. SUFFICES ASSUME NEW j \in DOMAIN new
                       PROVE  new[j] = FirstLine(q) <=> j \in Places(f, q) \cup {L + i}
          OBVIOUS
        <5>2. CASE j <= L
          <6>1. j \in DOMAIN old /\ new[j] = old[j] /\ j # L + i
            BY <1>1, <1>3, <3>4, <5>2
          <6>2. QED
            BY <2>0, <3>2, <6>1 DEF Places
        <5>3. CASE j > L
          <6>1. j - L \in 1 .. K /\ new[j] = s[j - L] /\ j \notin DOMAIN old
            BY <1>1, <1>3, <3>4, <5>3
          <6>2. j \notin Places(f, q)
            BY <2>0, <3>2, <6>1 DEF Places
          <6>3. new[j] = FirstLine(q) <=> j - L = i
            BY <3>1, <3>3, <6>1
          <6>4. j - L = i <=> j = L + i
            <7>1. j \in Int /\ i \in Int /\ L \in Int
              BY <1>1, <3>4
            <7>2. QED
              BY <7>1
          <6>5. QED
            BY <6>2, <6>3, <6>4
        <5>4. QED
          BY <1>1, <3>4, <5>2, <5>3
      <4>2. Places(f, q) \cup {L + i} \subseteq DOMAIN new
        BY <1>1, <2>0, <2>1, <3>2, <3>4
      <4>3. Places(f2, q) = {j \in DOMAIN new : new[j] = FirstLine(q)}
        BY <2>0, <3>2 DEF Places
      <4>4. QED
        BY <4>1, <4>2, <4>3
    <3>6. L + i \notin Places(f, q)
      BY <1>1, <2>0, <2>1, <3>2
    <3>7. Cardinality(Places(f2, q)) = Cardinality(Places(f, q)) + 1
      BY <2>1, <3>5, <3>6, FS_AddElement
    <3>8. Cardinality(Holders(b2, q)) = Cardinality(Holders(b, q)) - 1
      BY <2>3, <2>6
    <3>9. Copies(f2, b2, q) = Copies(f, b, q)
      BY <2>1, <3>7, <3>8 DEF Copies
    <3>10. QED
      BY <2>2, <2>3, <3>9
  <2>7. CASE p \notin Holders(b, q)
    <3>1. \A i \in 1 .. K : s[i] # FirstLine(q)
      <4>1. DOMAIN b[p] = 1 .. K /\ b[p] = s
        BY <1>1, <2>0
      <4>2. ~ \E i \in DOMAIN b[p] : b[p][i] = FirstLine(q)
        BY <2>7 DEF Holders
      <4>3. QED
        BY <4>1, <4>2
    <3>2. Places(f2, q) = Places(f, q)
      <4> DEFINE h == ProgramOf(q)
      <4>1. \A i \in DOMAIN f2[h] : f2[h][i] = FirstLine(q) => i \in Places(f, q)
        <5>1. SUFFICES ASSUME NEW i \in DOMAIN f2[h], f2[h][i] = FirstLine(q)
                       PROVE  i \in Places(f, q)
          OBVIOUS
        <5>2. i \in DOMAIN f[h] /\ f2[h][i] = f[h][i]
          BY <1>10, <2>5, <3>1, <5>1
        <5>3. QED
          BY <5>1, <5>2 DEF Places
      <4>2. \A i \in Places(f, q) : i \in DOMAIN f2[h] /\ f2[h][i] = FirstLine(q)
        BY <1>11, <2>5 DEF Places
      <4>3. Places(f2, q) = {i \in DOMAIN f2[h] : f2[h][i] = FirstLine(q)}
        BY DEF Places
      <4> HIDE DEF h
      <4>4. QED
        BY <4>1, <4>2, <4>3
    <3>3. QED
      BY <2>2, <2>3, <2>7, <3>2 DEF Copies
  <2>8. QED
    BY <2>6, <2>7
<1>19. FewCopies(f2, b2)
  BY <1>18 DEF FewCopies, LinesInv
<1>20. QED
  BY <1>5, <1>14, <1>15, <1>16, <1>17, <1>18, <1>19 DEF LinesInv

\* A child inherits at most one line, which its parent has logged first and now
\* leaves alone.
LEMMA LinesInherited ==
  ASSUME NEW f, NEW b, NEW m, NEW gone, NEW dup, LinesInv(f, b, m, gone, dup),
         NEW p \in Servers, NEW c \in Servers, c # p, c \notin gone,
         b[c] = << >>, m[c] = 0,
         Len(b[p]) <= 1, m[p] <= 1,
         p \in gone, m[p] > 0 => p \in dup,
         \A q \in Processes : p \in Holders(b, q) => Copies(f, b, q) <= 2
  PROVE  LET b2 == [b EXCEPT ![c] = b[p]]
         IN /\ LinesInv(f, b2, m, gone, dup)
            /\ \A q \in Processes :
                 /\ Holders(b2, q) \subseteq Holders(b, q) \cup {c}
                 /\ c \in Holders(b2, q) => p \in Holders(b, q)
                 /\ p \in Holders(b, q) => Copies(f, b2, q) = Copies(f, b, q) + 1
                 /\ p \notin Holders(b, q) => Copies(f, b2, q) = Copies(f, b, q)
<1> DEFINE b2 == [b EXCEPT ![c] = b[p]]
<1>0. p \in Processes /\ c \in Processes
  BY OwnLog
<1>1. /\ b \in [Processes -> Seq(LineSet)] /\ f \in [Programs -> Seq(LineSet)]
      /\ m \in [Processes -> Nat] /\ b[p] \in Seq(LineSet) /\ Len(b[p]) \in Nat /\ m[p] \in Nat
  BY <1>0 DEF LinesInv, BuffersTyped
<1>2. b2[c] = b[p] /\ \A q \in Processes \ {c} : b2[q] = b[q]
  BY <1>0, <1>1
<1>3. BuffersTyped(f, b2, m)
  BY <1>0, <1>1 DEF BuffersTyped
<1> HIDE DEF b2
\* The line that is inherited, if there is one.
<1>4. \A i \in DOMAIN b[p] :
        /\ i = 1 /\ DOMAIN b[p] = {1} /\ Len(b[p]) = 1
        /\ b[p][i].n = 1 /\ b[p][i].by \in gone \cap dup
        /\ b[p][i].by # c /\ m[b[p][i].by] = 1
  <2>1. SUFFICES ASSUME NEW i \in DOMAIN b[p]
                 PROVE  /\ i = 1 /\ DOMAIN b[p] = {1} /\ Len(b[p]) = 1
                        /\ b[p][i].n = 1 /\ b[p][i].by \in gone \cap dup
                        /\ b[p][i].by # c /\ m[b[p][i].by] = 1
    OBVIOUS
  <2>2. i \in 1 .. Len(b[p]) /\ DOMAIN b[p] = 1 .. Len(b[p])
    BY <1>1
  <2>3. i = 1 /\ Len(b[p]) = 1 /\ DOMAIN b[p] = {1}
    <3>1. i = 1 /\ Len(b[p]) = 1
      <4> DEFINE n == Len(b[p])
      <4>1. n \in Nat /\ n <= 1 /\ i \in 1 .. n
        BY <1>1, <2>2
      <4> HIDE DEF n
      <4>2. i = 1 /\ n = 1
        BY <4>1
      <4>3. QED
        BY <4>2 DEF n
    <3>2. 1 .. 1 = {1}
      OBVIOUS
    <3>3. QED
      BY <2>2, <3>1, <3>2
  <2>4. CASE b[p][i].by = p
    <3>1. b[p][i].n = m[p] - Len(b[p]) + i /\ b[p][i].n >= 1
      BY <1>0, <2>4 DEF LinesInv, BufferOrder
    <3>2. b[p][i].n = 1 /\ m[p] = 1
      BY <1>1, <2>3, <3>1
    <3>3. p \in gone /\ p \in dup
      BY <3>2
    <3>4. QED
      BY <2>3, <2>4, <3>2, <3>3
  <2>5. CASE b[p][i].by # p
    <3>1. b[p][i].n = 1 /\ b[p][i].by \in gone \cap dup /\ m[b[p][i].by] = 1
      BY <1>0, <2>5 DEF LinesInv, BufferOrder
    <3>2. QED
      BY <2>3, <3>1
  <2>6. QED
    BY <2>4, <2>5
<1>5. BufferOrder(b2, m, gone, dup)
  <2>1. SUFFICES ASSUME NEW q \in Processes, NEW i \in DOMAIN b2[q]
                 PROVE  \/ /\ b2[q][i].by = q
                           /\ b2[q][i].n = m[q] - Len(b2[q]) + i /\ b2[q][i].n >= 1
                        \/ /\ i = 1 /\ q \in Servers
                           /\ b2[q][i].n = 1 /\ b2[q][i].by # q
                           /\ b2[q][i].by \in gone \cap dup /\ m[b2[q][i].by] = 1
    BY DEF BufferOrder
  <2>2. CASE q = c
    BY <1>2, <1>4, <2>1, <2>2
  <2>3. CASE q # c
    BY <1>2, <2>1, <2>3 DEF LinesInv, BufferOrder
  <2>4. QED
    BY <2>2, <2>3
<1>6. \A q \in Processes : OwnWritten(b2, m, q) = OwnWritten(b, m, q)
  <2>1. SUFFICES ASSUME NEW q \in Processes PROVE OwnUnwritten(b2, q) = OwnUnwritten(b, q)
    BY DEF OwnWritten
  <2>2. CASE q # c
    BY <1>2, <2>2 DEF OwnUnwritten
  <2>3. CASE q = c
    <3>1. OwnUnwritten(b, c) = 0
      <4>1. b[c] = << >> /\ Len(<< >>) = 0
        OBVIOUS
      <4>2. QED
        BY <4>1 DEF OwnUnwritten
    <3>2. CASE b[p] = << >>
      <4>1. OwnUnwritten(b2, c) = 0
        BY <1>2, <3>2 DEF OwnUnwritten
      <4>2. QED
        BY <2>3, <3>1, <4>1
    <3>3. CASE b[p] # << >>
      <4>1. 1 \in DOMAIN b[p]
        BY <1>1, <3>3
      <4>2. b2[c] # << >> /\ b2[c][1].by # c /\ Len(b2[c]) = 1
        BY <1>2, <1>4, <3>3, <4>1
      <4>3. OwnUnwritten(b2, c) = 0
        BY <4>2 DEF OwnUnwritten
      <4>4. QED
        BY <2>3, <3>1, <4>3
    <3>4. QED
      BY <3>2, <3>3
  <2>4. QED
    BY <2>2, <2>3
<1>7. LogLines(f, b2, m, dup)
  <2>1. SUFFICES ASSUME NEW g \in Programs, NEW i \in DOMAIN f[g]
                 PROVE  f[g][i].by \in Processes
    BY <1>6 DEF LinesInv, LogLines
  <2>2. f[g] \in Seq(LineSet) /\ i \in 1 .. Len(f[g])
    BY <1>1
  <2>3. QED
    BY <2>2, LineItems
<1>8. NoneMissing(f, b2, m)
  BY <1>6 DEF LinesInv, NoneMissing
<1>9. ASSUME NEW q \in Processes
      PROVE  /\ Holders(b2, q) = Holders(b, q) \cup {r \in {c} : p \in Holders(b, q)}
             /\ c \notin Holders(b, q)
             /\ IsFiniteSet(Holders(b2, q))
             /\ Copies(f, b2, q) = Copies(f, b, q) + IF p \in Holders(b, q) THEN 1 ELSE 0
  <2>1. /\ Cardinality(Places(f, q)) \in Nat
        /\ IsFiniteSet(Holders(b, q)) /\ Cardinality(Holders(b, q)) \in Nat
    BY <1>9, CopiesCounted
  <2>2. c \notin Holders(b, q)
    BY DEF Holders
  <2>3. \A r \in Processes : r \in Holders(b2, q) <=>
          r \in Holders(b, q) \/ (r = c /\ p \in Holders(b, q))
    <3>1. SUFFICES ASSUME NEW r \in Processes
                   PROVE  r \in Holders(b2, q) <=>
                            r \in Holders(b, q) \/ (r = c /\ p \in Holders(b, q))
      OBVIOUS
    <3>2. CASE r = c
      BY <1>0, <1>2, <2>2, <3>2 DEF Holders
    <3>3. CASE r # c
      BY <1>2, <3>3 DEF Holders
    <3>4. QED
      BY <3>2, <3>3
  <2>4. Holders(b, q) \subseteq Processes /\ Holders(b2, q) \subseteq Processes
    BY DEF Holders
  <2>5. Holders(b2, q) = Holders(b, q) \cup {r \in {c} : p \in Holders(b, q)}
    BY <1>0, <2>3, <2>4
  <2> DEFINE H == Holders(b, q)
  <2>6. CASE p \in Holders(b, q)
    <3>1. Holders(b2, q) = H \cup {c}
      BY <2>5, <2>6
    <3>2. IsFiniteSet(H) /\ c \notin H
      BY <2>1, <2>2
    <3> HIDE DEF H
    <3>3. IsFiniteSet(H \cup {c}) /\ Cardinality(H \cup {c}) = Cardinality(H) + 1
      BY <3>2, FS_AddElement
    <3>4. Cardinality(Holders(b2, q)) = Cardinality(Holders(b, q)) + 1
      BY <3>1, <3>3 DEF H
    <3>5. Copies(f, b2, q) = Copies(f, b, q) + 1
      BY <2>1, <3>4 DEF Copies
    <3>6. QED
      BY <2>2, <2>5, <2>6, <3>1, <3>3, <3>5
  <2>7. CASE p \notin Holders(b, q)
    <3>1. Holders(b2, q) = H
      BY <2>5, <2>7
    <3>2. Copies(f, b2, q) = Copies(f, b, q) /\ Copies(f, b, q) \in Nat
      BY <2>1, <3>1 DEF Copies
    <3>3. Copies(f, b, q) + 0 = Copies(f, b, q)
      BY <3>2
    <3>4. QED
      BY <2>1, <2>2, <2>5, <2>7, <3>1, <3>2, <3>3
  <2>8. QED
    BY <2>6, <2>7
<1>10. FewCopies(f, b2)
  <2>1. SUFFICES ASSUME NEW q \in Processes
                 PROVE  IsFiniteSet(Holders(b2, q)) /\ Copies(f, b2, q) <= 3
    BY DEF FewCopies
  <2>2. Copies(f, b, q) <= 3 /\ Copies(f, b, q) \in Nat
    BY <2>1, CopiesCounted DEF Copies
  <2>3. Copies(f, b2, q) = Copies(f, b, q) + (IF p \in Holders(b, q) THEN 1 ELSE 0)
    BY <1>9
  <2>4. p \in Holders(b, q) => Copies(f, b, q) <= 2
    OBVIOUS
  <2>5. QED
    BY <1>9, <2>2, <2>3, <2>4
<1>11. LinesInv(f, b2, m, gone, dup)
  BY <1>3, <1>5, <1>7, <1>8, <1>10 DEF LinesInv
<1>12. \A q \in Processes :
         /\ Holders(b2, q) \subseteq Holders(b, q) \cup {c}
         /\ c \in Holders(b2, q) => p \in Holders(b, q)
         /\ p \in Holders(b, q) => Copies(f, b2, q) = Copies(f, b, q) + 1
         /\ p \notin Holders(b, q) => Copies(f, b2, q) = Copies(f, b, q)
  <2>1. SUFFICES ASSUME NEW q \in Processes
                 PROVE  /\ Holders(b2, q) \subseteq Holders(b, q) \cup {c}
                        /\ c \in Holders(b2, q) => p \in Holders(b, q)
                        /\ p \in Holders(b, q) => Copies(f, b2, q) = Copies(f, b, q) + 1
                        /\ p \notin Holders(b, q) => Copies(f, b2, q) = Copies(f, b, q)
    OBVIOUS
  <2>2. Copies(f, b, q) \in Nat
    BY CopiesCounted DEF Copies
  <2>3. Copies(f, b2, q) = Copies(f, b, q) + (IF p \in Holders(b, q) THEN 1 ELSE 0)
    BY <1>9
  <2>4. QED
    BY <1>9, <2>2, <2>3
<1>13. QED
  BY <1>11, <1>12 DEF b2

------------------------------------------------------------------------------
(* Lifecycle: what the steps of a process have in common *)

\* Only process p moves, within the types of what it has.
OnlyProcess(p) ==
  /\ phase' \in [Processes -> PhaseSet]
  /\ options' \in [Processes -> Options]
  /\ logger' \in [Processes -> {"none", "open", "broken"}]
  /\ forks' \in [Processes -> 0 .. 2]
  /\ \A q \in Processes \ {p} :
       phase'[q] = phase[q] /\ options'[q] = options[q] /\ forks'[q] = forks[q]

\* What a step of process p may do to the lines.
LogStep(p) ==
  /\ LinesInv(log', buffer', logged', Gone, Daemons)
  /\ \A q \in Processes \ {p} : buffer'[q] = buffer[q] /\ logged'[q] = logged[q]
  /\ logged'[p] \in {logged[p], logged[p] + 1}
  /\ Len(buffer'[p]) <= Len(buffer[p]) + 1
  /\ Len(buffer'[p]) < FrequencyOf(p)
  /\ \A q \in Processes : \A r \in Processes \ {p} :
       r \in Holders(buffer', q) =>
         r \in Holders(buffer, q) /\ Copies(log', buffer', q) <= Copies(log, buffer, q)
  /\ logged[p] = 0 /\ buffer[p] = << >> =>
       \A q \in Processes : p \in Holders(buffer', q) => Copies(log', buffer', q) <= 1

\* What it may do to the process.
MoveAllowed(p) ==
  /\ p \in Gone => phase'[p] \in Ended \cup {"cleanup", "closing"}
  /\ options'[p].daemon = options[p].daemon \/ (logged[p] = 0 /\ p \notin Gone)
  /\ options'[p].level = options[p].level \/ buffer'[p] = << >>
  /\ phase'[p] \in {"none", "started", "opened"} => logged'[p] = 0 /\ buffer'[p] = << >>
  /\ phase'[p] \in {"none", "started"} => forks'[p] = 0
  /\ phase'[p] = "detaching" => p \in Servers /\ logged[p] = 0 /\ buffer[p] = << >>
  /\ phase'[p] = "exited" => buffer'[p] = << >>
  /\ forks'[p] > 0 => options'[p].daemon
  /\ p \in Servers => phase'[p] \notin {"saving", "storing", "cut"}
  /\ p \in Clients => ~options'[p].daemon
  /\ p \in Servers /\ phase'[p] \in Starting =>
       phase[p] \in Starting \/ \A q \in Servers \ {p} : phase[q] \notin Starting

\* The invariant without the settings.
ProcessInv ==
  /\ phase \in [Processes -> PhaseSet]
  /\ options \in [Processes -> Options]
  /\ logger \in [Processes -> {"none", "open", "broken"}]
  /\ logged \in [Processes -> Nat]
  /\ forks \in [Processes -> 0 .. 2]
  /\ buffer \in [Processes -> Seq(LineSet)] /\ log \in [Programs -> Seq(LineSet)]
  /\ \A p \in Processes : Len(buffer[p]) < FrequencyOf(p)
  /\ LinesInv(log, buffer, logged, Gone, Daemons)
  /\ RoomForForks
  /\ OneServerStarts
  /\ Phases

\* What a process has when its options are typed.
LEMMA Frequencies ==
  ASSUME NEW p \in Processes
  PROVE  FrequencyOf(p) \in Nat /\ FrequencyOf(p) >= 1
  BY ProcessesAssumption DEF FrequencyOf

\* A process that may move and log keeps the invariant of the processes.
LEMMA ProcessStep ==
  ASSUME ProcessInv, NEW p \in Processes, OnlyProcess(p), LogStep(p), MoveAllowed(p)
  PROVE  ProcessInv'
<1>1. /\ phase' \in [Processes -> PhaseSet] /\ options' \in [Processes -> Options]
      /\ logger' \in [Processes -> {"none", "open", "broken"}]
      /\ forks' \in [Processes -> 0 .. 2]
  BY DEF OnlyProcess
<1>2. \A q \in Processes \ {p} :
        /\ phase'[q] = phase[q] /\ options'[q] = options[q] /\ forks'[q] = forks[q]
        /\ buffer'[q] = buffer[q] /\ logged'[q] = logged[q]
  BY DEF OnlyProcess, LogStep
<1>3. /\ buffer' \in [Processes -> Seq(LineSet)] /\ log' \in [Programs -> Seq(LineSet)]
      /\ logged' \in [Processes -> Nat]
  BY DEF LogStep, LinesInv, BuffersTyped
<1>4. Gone \subseteq Gone'
  <2>1. SUFFICES ASSUME NEW q \in Gone PROVE q \in Gone'
    OBVIOUS
  <2>2. /\ q \in Servers /\ q \in Processes /\ options[q].daemon
        /\ phase[q] \in Ended \cup {"cleanup", "closing"}
    BY OwnLog DEF Gone
  <2>3. options'[q].daemon /\ phase'[q] \in Ended \cup {"cleanup", "closing"}
    <3>1. CASE q # p
      BY <1>2, <2>2, <3>1
    <3>2. CASE q = p
      BY <2>1, <2>2, <3>2 DEF MoveAllowed
    <3>3. QED
      BY <3>1, <3>2
  <2>4. QED
    BY <2>2, <2>3 DEF Gone, Ended
<1>5. Daemons \subseteq Daemons'
  <2>1. SUFFICES ASSUME NEW q \in Daemons PROVE q \in Daemons'
    OBVIOUS
  <2>2. q \in Processes /\ options[q].daemon /\ logged[q] > 0 /\ logged[q] \in Nat
    BY DEF Daemons, ProcessInv
  <2>3. options'[q].daemon /\ logged'[q] > 0
    <3>1. CASE q # p
      BY <1>2, <2>2, <3>1
    <3>2. CASE q = p
      <4>1. logged'[p] > 0
        BY <2>2, <3>2 DEF LogStep
      <4>2. options'[p].daemon = options[p].daemon
        BY <2>2, <3>2 DEF MoveAllowed
      <4>3. QED
        BY <2>2, <3>2, <4>1, <4>2
    <3>3. QED
      BY <3>1, <3>2
  <2>4. QED
    BY <2>2, <2>3 DEF Daemons
<1>6. LinesInv(log', buffer', logged', Gone', Daemons')
  <2>1. LinesInv(log', buffer', logged', Gone, Daemons)
    BY DEF LogStep
  <2>2. QED
    BY <1>4, <1>5, <2>1, LinesGrow
<1>7. \A q \in Processes : Len(buffer'[q]) < FrequencyOf(q)'
  <2>1. SUFFICES ASSUME NEW q \in Processes PROVE Len(buffer'[q]) < FrequencyOf(q)'
    OBVIOUS
  <2>2. FrequencyOf(q)' \in Nat /\ FrequencyOf(q)' >= 1
    BY ProcessesAssumption DEF FrequencyOf
  <2>3. CASE q # p
    BY <1>2, <2>3 DEF ProcessInv, FrequencyOf
  <2>4. CASE q = p /\ options'[p].level = options[p].level
    BY <2>4 DEF LogStep, FrequencyOf
  <2>5. CASE q = p /\ buffer'[p] = << >>
    BY <2>2, <2>5
  <2>6. QED
    BY <2>3, <2>4, <2>5 DEF MoveAllowed
<1>8. RoomForForks'
  <2>1. SUFFICES ASSUME NEW r \in Processes, NEW q \in Processes,
                        phase'[r] = "detaching", r \in Holders(buffer', q)
                 PROVE  Copies(log', buffer', q) + forks'[r] <= 3
    BY DEF RoomForForks
  <2>2. Copies(log', buffer', q) \in Nat /\ forks'[r] \in 0 .. 2
    <3>1. LinesInv(log', buffer', logged', Gone', Daemons')
      BY <1>6
    <3>2. Cardinality(Places(log', q)) \in Nat /\ Cardinality(Holders(buffer', q)) \in Nat
      BY <3>1, CopiesCounted
    <3>3. QED
      BY <1>1, <3>2 DEF Copies
  <2>3. CASE r # p
    <3>1. r \in Holders(buffer, q) /\ Copies(log', buffer', q) <= Copies(log, buffer, q)
      BY <2>1, <2>3 DEF LogStep
    <3>2. phase[r] = "detaching" /\ forks'[r] = forks[r]
      BY <1>2, <2>1, <2>3
    <3>3. Copies(log, buffer, q) + forks[r] <= 3
      BY <3>1, <3>2 DEF ProcessInv, RoomForForks
    <3>4. Copies(log, buffer, q) \in Nat
      BY CopiesCounted DEF ProcessInv, Copies
    <3>5. QED
      BY <2>2, <3>1, <3>2, <3>3, <3>4
  <2>4. CASE r = p
    <3>1. logged[p] = 0 /\ buffer[p] = << >>
      BY <2>1, <2>4 DEF MoveAllowed
    <3>2. Copies(log', buffer', q) <= 1
      BY <2>1, <2>4, <3>1 DEF LogStep
    <3>3. QED
      BY <2>2, <3>2
  <2>5. QED
    BY <2>3, <2>4
<1>9. OneServerStarts'
  <2>1. SUFFICES ASSUME NEW q \in Servers, NEW r \in Servers,
                        phase'[q] \in Starting, phase'[r] \in Starting
                 PROVE  q = r
    BY DEF OneServerStarts, Starting
  <2>2. q \in Processes /\ r \in Processes
    BY OwnLog
  <2>3. \A x, y \in Servers : phase[x] \in Starting /\ phase[y] \in Starting => x = y
    BY DEF ProcessInv, OneServerStarts
  <2>4. p \in Servers /\ phase'[p] \in Starting =>
          phase[p] \in Starting \/ \A x \in Servers \ {p} : phase[x] \notin Starting
    BY DEF MoveAllowed
  <2>5. QED
    BY <1>2, <2>1, <2>2, <2>3, <2>4
<1>10. Phases'
  <2>1. SUFFICES ASSUME NEW q \in Processes
                 PROVE
    /\ phase'[q] \in {"none", "started", "opened"} => logged'[q] = 0 /\ buffer'[q] = << >>
    /\ phase'[q] \in {"none", "started"} => forks'[q] = 0
    /\ phase'[q] = "detaching" => q \in Servers /\ logged'[q] <= 1 /\ Len(buffer'[q]) <= 1
    /\ phase'[q] = "exited" => buffer'[q] = << >>
    /\ forks'[q] > 0 => options'[q].daemon
    /\ q \in Servers => phase'[q] \notin {"saving", "storing", "cut"}
    /\ q \in Clients => ~options'[q].daemon
    BY DEF Phases
  <2>2. CASE q # p
    BY <1>2, <2>2 DEF ProcessInv, Phases
  <2>3. CASE q = p
    <3>1. logged[p] = 0 /\ buffer[p] = << >> => logged'[p] <= 1 /\ Len(buffer'[p]) <= 1
      <4>1. Len(buffer'[p]) \in Nat /\ Len(<< >>) = 0
        BY <1>3
      <4>2. logged'[p] \in {logged[p], logged[p] + 1} /\ Len(buffer'[p]) <= Len(buffer[p]) + 1
        BY DEF LogStep
      <4>3. QED
        BY <4>1, <4>2
    <3>2. QED
      BY <2>3, <3>1 DEF MoveAllowed
  <2>4. QED
    BY <2>2, <2>3
<1>11. QED
  BY <1>1, <1>3, <1>6, <1>7, <1>8, <1>9, <1>10 DEF ProcessInv

\* Nothing happens to the lines.
LEMMA NothingLogged ==
  ASSUME ProcessInv, NEW p \in Processes, UNCHANGED <<buffer, log, logged>>
  PROVE  LogStep(p)
<1>1. \A q \in Processes : p \in Holders(buffer, q) => buffer[p] # << >>
  BY DEF Holders
<1>2. LinesInv(log, buffer, logged, Gone, Daemons) /\ Len(buffer[p]) < FrequencyOf(p)
  BY DEF ProcessInv
<1>3. \A q \in Processes : Copies(log, buffer, q) \in Nat
  BY <1>2, CopiesCounted DEF Copies
<1>4. Len(buffer[p]) \in Nat
  BY DEF ProcessInv
<1>5. QED
  BY <1>1, <1>2, <1>3, <1>4 DEF LogStep

\* The end of log_message() and log_error().
LEMMA AddLogs ==
  ASSUME ProcessInv, NEW p \in Processes, p \notin Gone, Add(p)
  PROVE  LogStep(p)
<1>1. /\ buffer \in [Processes -> Seq(LineSet)] /\ log \in [Programs -> Seq(LineSet)]
      /\ logged \in [Processes -> Nat] /\ logged[p] \in Nat
      /\ buffer[p] \in Seq(LineSet) /\ Len(buffer[p]) \in Nat
      /\ LinesInv(log, buffer, logged, Gone, Daemons)
      /\ \A q \in Processes : Len(buffer[q]) < FrequencyOf(q)
  BY DEF ProcessInv
<1>2. CASE logger[p] # "open"
  BY <1>2, NothingLogged DEF Add
<1>3. CASE logger[p] = "open"
  <2> DEFINE line == [by |-> p, n |-> logged[p] + 1]
             lines == Append(buffer[p], line)
             b1 == [buffer EXCEPT ![p] = lines]
  <2>1. /\ logged' = [logged EXCEPT ![p] = logged[p] + 1]
        /\ \/ /\ Len(lines) >= FrequencyOf(p)
              /\ log' = [log EXCEPT ![ProgramOf(p)] = log[ProgramOf(p)] \o lines]
              /\ buffer' = [buffer EXCEPT ![p] = << >>]
           \/ /\ ~(Len(lines) >= FrequencyOf(p))
              /\ buffer' = b1 /\ log' = log
    BY <1>3 DEF Add, Flushed
  <2>2. AddsLine(p, buffer, logged, b1, logged')
    BY <2>1 DEF AddsLine
  <2>3. Len(lines) = Len(buffer[p]) + 1
    BY <1>1
  <2>4. b1[p] = lines /\ \A q \in Processes \ {p} : b1[q] = buffer[q]
    BY <1>1
  <2> HIDE DEF b1, lines
  <2>5. /\ LinesInv(log, b1, logged', Gone, Daemons)
        /\ \A q \in Processes : q # p \/ logged[p] > 0 => Holders(b1, q) = Holders(buffer, q)
        /\ logged[p] = 0 => Holders(b1, p) = {p} /\ Copies(log, b1, p) = 1
    BY <1>1, <2>2, LineAdded
  <2>6. \A q \in Processes : Copies(log, buffer, q) \in Nat /\ Copies(log, b1, q) \in Nat
    BY <1>1, <2>5, CopiesCounted, SMTT(30) DEF Copies
  <2>7. \A q \in Processes : \A r \in Processes \ {p} :
          r \in Holders(b1, q) =>
            r \in Holders(buffer, q) /\ Copies(log, b1, q) <= Copies(log, buffer, q)
    <3>1. SUFFICES ASSUME NEW q \in Processes, NEW r \in Processes \ {p}, r \in Holders(b1, q)
                   PROVE  /\ r \in Holders(buffer, q)
                          /\ Copies(log, b1, q) <= Copies(log, buffer, q)
      OBVIOUS
    <3>2. q # p \/ logged[p] > 0
      BY <1>1, <2>5, <3>1
    <3>3. Holders(b1, q) = Holders(buffer, q) /\ Copies(log, b1, q) = Copies(log, buffer, q)
      BY <2>5, <3>2 DEF Copies
    <3>4. QED
      BY <2>6, <3>1, <3>3
  <2>8. logged[p] = 0 /\ buffer[p] = << >> =>
          \A q \in Processes : p \in Holders(b1, q) => Copies(log, b1, q) <= 1
    <3>1. SUFFICES ASSUME logged[p] = 0, buffer[p] = << >>,
                          NEW q \in Processes, p \in Holders(b1, q)
                   PROVE  Copies(log, b1, q) <= 1
      OBVIOUS
    <3>2. p \notin Holders(buffer, q)
      BY <3>1 DEF Holders
    <3>3. q = p
      BY <2>5, <3>1, <3>2
    <3>4. QED
      BY <2>5, <3>1, <3>3
  <2>9. /\ \A q \in Processes \ {p} : buffer'[q] = buffer[q] /\ logged'[q] = logged[q]
        /\ logged'[p] = logged[p] + 1
    BY <1>1, <2>1, <2>4
  <2>10. CASE /\ ~(Len(lines) >= FrequencyOf(p))
              /\ buffer' = b1 /\ log' = log
    <3>1. Len(buffer'[p]) < FrequencyOf(p) /\ Len(buffer'[p]) <= Len(buffer[p]) + 1
      BY <1>1, <2>3, <2>4, <2>10, Frequencies
    <3>2. QED
      BY <2>5, <2>7, <2>8, <2>9, <2>10, <3>1 DEF LogStep
  <2>11. CASE /\ Len(lines) >= FrequencyOf(p)
              /\ log' = [log EXCEPT ![ProgramOf(p)] = log[ProgramOf(p)] \o lines]
              /\ buffer' = [buffer EXCEPT ![p] = << >>]
    <3>1. buffer' = [b1 EXCEPT ![p] = << >>]
      BY <2>11 DEF b1
    <3>2. WritesLines(p, log, b1, log', buffer')
      BY <2>4, <2>11, <3>1 DEF WritesLines
    <3>3. Gone \subseteq Servers
      BY DEF Gone
    <3>4. /\ LinesInv(log', buffer', logged', Gone, Daemons)
          /\ \A q \in Processes : /\ Holders(buffer', q) \subseteq Holders(b1, q) \ {p}
                                  /\ Copies(log', buffer', q) = Copies(log, b1, q)
      BY <2>5, <3>2, <3>3, LinesWritten
    <3>5. buffer'[p] = << >>
      BY <1>1, <2>11
    <3>6. Len(buffer'[p]) < FrequencyOf(p) /\ Len(buffer'[p]) <= Len(buffer[p]) + 1
      BY <1>1, <3>5, Frequencies
    <3>7. QED
      BY <2>7, <2>8, <2>9, <3>4, <3>6 DEF LogStep
  <2>12. QED
    BY <2>1, <2>10, <2>11
<1>4. QED
  BY <1>2, <1>3

\* log_message(), log_error(), and a daemon's silence.
LEMMA MessageLogs ==
  ASSUME ProcessInv, NEW p \in Processes, NEW level, p \notin Gone, Message(p, level)
  PROVE  LogStep(p)
  BY AddLogs, NothingLogged DEF Message

\* finalize_logging()
LEMMA RestLogged ==
  ASSUME ProcessInv, NEW p \in Processes, WrittenOut(p), UNCHANGED logged
  PROVE  LogStep(p) /\ buffer'[p] = << >>
<1>1. /\ buffer \in [Processes -> Seq(LineSet)] /\ log \in [Programs -> Seq(LineSet)]
      /\ buffer[p] \in Seq(LineSet) /\ Len(buffer[p]) \in Nat
      /\ LinesInv(log, buffer, logged, Gone, Daemons)
      /\ \A q \in Processes : Len(buffer[q]) < FrequencyOf(q)
  BY DEF ProcessInv
<1>2. CASE buffer[p] = << >>
  <2>1. UNCHANGED <<buffer, log, logged>>
    BY <1>2 DEF WrittenOut, logs
  <2>2. QED
    BY <1>2, <2>1, NothingLogged
<1>3. CASE buffer[p] # << >>
  <2>1. WritesLines(p, log, buffer, log', buffer')
    BY <1>3 DEF WrittenOut, Flushed, WritesLines
  <2>2. Gone \subseteq Servers
    BY DEF Gone
  <2>3. /\ LinesInv(log', buffer', logged, Gone, Daemons)
        /\ \A q \in Processes : /\ Holders(buffer', q) \subseteq Holders(buffer, q) \ {p}
                                /\ Copies(log', buffer', q) = Copies(log, buffer, q)
    BY <1>1, <2>1, <2>2, LinesWritten
  <2>4. buffer'[p] = << >> /\ \A q \in Processes \ {p} : buffer'[q] = buffer[q]
    BY <1>1, <2>1 DEF WritesLines
  <2>5. Len(buffer'[p]) < FrequencyOf(p) /\ Len(buffer'[p]) <= Len(buffer[p]) + 1
    BY <1>1, <2>4, Frequencies
  <2>6. \A q \in Processes : Copies(log, buffer, q) \in Nat
    BY <1>1, CopiesCounted DEF Copies
  <2>7. QED
    BY <2>3, <2>4, <2>5, <2>6 DEF LogStep
<1>4. QED
  BY <1>2, <1>3

------------------------------------------------------------------------------
(* Lifecycle: the processes, step by step *)

\* A step after which the process has its logger and its level for good.
SameOptions(p) ==
  \/ options' = options
  \/ \E o \in Options : /\ options' = [options EXCEPT ![p] = o]
                        /\ o.level = options[p].level /\ o.daemon = options[p].daemon

\* Such a step keeps the invariant, if what is gone does not come back.
LEMMA LaterMove ==
  ASSUME ProcessInv, NEW p \in Processes, LogStep(p), SameOptions(p),
         NEW to \in PhaseSet \ {"none", "started", "opened", "detaching"},
         phase' = [phase EXCEPT ![p] = to],
         forks' = forks, logger' \in [Processes -> {"none", "open", "broken"}],
         p \in Gone => to \in Ended \cup {"cleanup", "closing"},
         p \in Servers => to \notin {"saving", "storing", "cut"},
         to = "exited" => buffer'[p] = << >>
  PROVE  ProcessInv'
<1>1. /\ phase \in [Processes -> PhaseSet] /\ options \in [Processes -> Options]
      /\ forks \in [Processes -> 0 .. 2]
  BY DEF ProcessInv
<1>2. /\ options' \in [Processes -> Options]
      /\ \A q \in Processes \ {p} : options'[q] = options[q]
      /\ options'[p].level = options[p].level /\ options'[p].daemon = options[p].daemon
  <2>1. CASE options' = options
    BY <1>1, <2>1
  <2>2. CASE \E o \in Options : /\ options' = [options EXCEPT ![p] = o]
                                /\ o.level = options[p].level /\ o.daemon = options[p].daemon
    BY <1>1, <2>2
  <2>3. QED
    BY <2>1, <2>2 DEF SameOptions
<1>3. phase'[p] = to /\ OnlyProcess(p)
  BY <1>1, <1>2 DEF OnlyProcess
<1>4. MoveAllowed(p)
  <2>1. /\ forks[p] > 0 => options[p].daemon
        /\ p \in Clients => ~options[p].daemon
    BY DEF ProcessInv, Phases
  <2>2. to \notin Starting
    BY DEF Starting
  <2>3. /\ forks'[p] > 0 => options'[p].daemon
        /\ p \in Clients => ~options'[p].daemon
    <3>1. forks'[p] > 0 => options[p].daemon
      BY <2>1
    <3>2. QED
      BY <1>2, <2>1, <3>1, Zenon
  <2>4. to \notin {"none", "started", "opened", "detaching"}
    OBVIOUS
  <2>5. QED
    BY <1>2, <1>3, <2>2, <2>3, <2>4 DEF MoveAllowed
<1>5. QED
  BY <1>3, <1>4, ProcessStep

\* What is gone has come to its end or is about to.
LEMMA StillThere ==
  ASSUME NEW p \in Processes,
         \/ phase[p] \notin Ended \cup {"cleanup", "closing"}
         \/ p \notin Servers \/ ~options[p].daemon
  PROVE  p \notin Gone
  BY DEF Gone

\* main() up to the arguments
LEMMA StartKeepsProcesses ==
  ASSUME ProcessInv, NEW p \in Processes, NEW o \in Options,
         Moves(p, "none", "started"),
         options' = [options EXCEPT ![p] = o],
         UNCHANGED <<logger, logged, forks, logs>>,
         ~o.daemon,
         p \in Servers => Only({p})
  PROVE  ProcessInv'
<1>1. /\ phase \in [Processes -> PhaseSet] /\ options \in [Processes -> Options]
      /\ logger \in [Processes -> {"none", "open", "broken"}] /\ forks \in [Processes -> 0 .. 2]
      /\ logged[p] = 0 /\ buffer[p] = << >> /\ forks[p] = 0
  BY DEF ProcessInv, Phases, Moves
<1>2. LogStep(p)
  BY NothingLogged DEF logs
<1>3. phase'[p] = "started" /\ options'[p] = o /\ forks'[p] = 0
  BY <1>1 DEF Moves
<1>4. OnlyProcess(p)
  BY <1>1 DEF OnlyProcess, Moves, PhaseSet
<1>5. MoveAllowed(p)
  <2>1. p \notin Gone
    BY StillThere DEF Moves, Ended
  <2>2. p \in Servers => \A q \in Servers \ {p} : phase[q] \notin Starting
    BY OwnLog DEF Only, Starting
  <2>3. logged'[p] = 0 /\ buffer'[p] = << >>
    BY <1>1 DEF logs
  <2>4. QED
    BY <1>1, <1>3, <2>1, <2>2, <2>3 DEF MoveAllowed, Ended
<1>6. QED
  BY <1>2, <1>4, <1>5, ProcessStep

\* The arguments set options of their types.
LEMMA ArgumentsTyped ==
  ASSUME NEW p \in Processes, options[p] \in Options, NEW o \in Arguments(p)
  PROVE  o \in Options /\ (p \in Clients => o.daemon = options[p].daemon)
<1>1. CASE p \in Servers
  <2>1. \E l \in Levels, d \in BOOLEAN : o = [options[p] EXCEPT !.level = l, !.daemon = d]
    BY <1>1 DEF Arguments, ServerArguments
  <2>2. PICK l \in Levels, d \in BOOLEAN : o = [options[p] EXCEPT !.level = l, !.daemon = d]
    BY <2>1
  <2>3. QED
    BY <1>1, <2>2, ProcessesAssumption DEF Options
<1>2. CASE p \notin Servers
  <2>1. PICK l \in Levels : o = [options[p] EXCEPT !.level = l]
    BY <1>2 DEF Arguments, ClientArguments
  <2>2. QED
    BY <2>1 DEF Options
<1>3. QED
  BY <1>1, <1>2

\* create_logger()
LEMMA OpenLogKeepsProcesses ==
  ASSUME ProcessInv, NEW p \in Processes, OpenLog(p)
  PROVE  ProcessInv'
<1>1. /\ phase \in [Processes -> PhaseSet] /\ options \in [Processes -> Options]
      /\ logger \in [Processes -> {"none", "open", "broken"}] /\ forks \in [Processes -> 0 .. 2]
      /\ options[p] \in Options
      /\ phase[p] = "started" /\ logged[p] = 0 /\ buffer[p] = << >>
      /\ p \in Clients => ~options[p].daemon
  BY DEF ProcessInv, Phases, Moves, OpenLog
<1>2. PICK o \in Arguments(p) :
        /\ options' = [options EXCEPT ![p] = o]
        /\ forks' = [forks EXCEPT ![p] = IF o.daemon THEN 2 ELSE 0]
  BY DEF OpenLog
<1>3. o \in Options /\ (p \in Clients => ~o.daemon)
  BY <1>1, ArgumentsTyped
<1>4. LogStep(p)
  BY NothingLogged DEF OpenLog, logs
<1>5. /\ phase'[p] = "opened" /\ options'[p] = o
      /\ forks'[p] = IF o.daemon THEN 2 ELSE 0
      /\ logged'[p] = 0 /\ buffer'[p] = << >>
  BY <1>1, <1>2 DEF OpenLog, Moves, logs
<1>6. OnlyProcess(p)
  <2>1. phase' \in [Processes -> PhaseSet] /\ logger' \in [Processes -> {"none", "open", "broken"}]
    BY <1>1 DEF OpenLog, Moves, PhaseSet
  <2>2. forks' \in [Processes -> 0 .. 2] /\ options' \in [Processes -> Options]
    BY <1>1, <1>2, <1>3
  <2>3. \A q \in Processes \ {p} :
          phase'[q] = phase[q] /\ options'[q] = options[q] /\ forks'[q] = forks[q]
    BY <1>1, <1>2 DEF OpenLog, Moves
  <2>4. QED
    BY <2>1, <2>2, <2>3 DEF OnlyProcess
<1>7. MoveAllowed(p)
  <2>1. p \notin Gone
    BY <1>1, StillThere DEF Ended
  <2>2. phase[p] \in Starting
    BY <1>1 DEF Starting
  <2>3. QED
    BY <1>1, <1>3, <1>5, <2>1, <2>2 DEF MoveAllowed
<1>8. QED
  BY <1>4, <1>6, <1>7, ProcessStep

\* The first line, and the last one before the process runs.
LEMMA LogStartKeepsProcesses ==
  ASSUME ProcessInv, NEW p \in Processes, LogStart(p)
  PROVE  ProcessInv'
<1>1. /\ phase \in [Processes -> PhaseSet] /\ options \in [Processes -> Options]
      /\ logger \in [Processes -> {"none", "open", "broken"}] /\ forks \in [Processes -> 0 .. 2]
      /\ phase[p] = "opened" /\ logged[p] = 0 /\ buffer[p] = << >>
      /\ forks[p] > 0 => options[p].daemon
      /\ p \in Clients => ~options[p].daemon
  BY DEF ProcessInv, Phases, Moves, LogStart
<1>2. LogStep(p)
  <2>1. p \notin Gone
    BY <1>1, StillThere DEF Ended
  <2>2. QED
    BY <2>1, MessageLogs DEF LogStart
<1>3. CASE forks[p] > 0
  <2>1. phase' = [phase EXCEPT ![p] = "detaching"] /\ UNCHANGED <<options, logger, forks>>
    BY <1>3 DEF LogStart, Moves
  <2>2. OnlyProcess(p) /\ phase'[p] = "detaching"
    BY <1>1, <2>1 DEF OnlyProcess, PhaseSet
  <2>3. p \in Servers
    BY <1>1, <1>3 DEF Processes
  <2>4. phase[p] \in Starting /\ p \notin Gone
    BY <1>1, StillThere DEF Starting, Ended
  <2>5. MoveAllowed(p)
    BY <1>1, <2>1, <2>2, <2>3, <2>4 DEF MoveAllowed
  <2>6. QED
    BY <1>2, <2>2, <2>5, ProcessStep
<1>4. CASE ~(forks[p] > 0)
  <2>1. phase' = [phase EXCEPT ![p] = "running"] /\ UNCHANGED <<options, logger, forks>>
    BY <1>4 DEF LogStart, Moves
  <2>2. p \notin Gone
    BY <1>1, StillThere DEF Ended
  <2>3. "running" \in PhaseSet \ {"none", "started", "opened", "detaching"}
    BY DEF PhaseSet
  <2>4. QED
    BY <1>1, <1>2, <2>1, <2>2, <2>3, LaterMove DEF SameOptions
<1>5. QED
  BY <1>3, <1>4

\* daemonize(): the child takes over, and the parent leaves its line alone.
LEMMA ForkKeepsProcesses ==
  ASSUME ProcessInv, NEW p \in Processes, NEW child \in Processes, Fork(p, child)
  PROVE  ProcessInv'
<1>1. /\ phase \in [Processes -> PhaseSet] /\ options \in [Processes -> Options]
      /\ logger \in [Processes -> {"none", "open", "broken"}]
      /\ logged \in [Processes -> Nat] /\ forks \in [Processes -> 0 .. 2]
      /\ buffer \in [Processes -> Seq(LineSet)] /\ log \in [Programs -> Seq(LineSet)]
      /\ LinesInv(log, buffer, logged, Gone, Daemons)
      /\ \A q \in Processes : Len(buffer[q]) < FrequencyOf(q)
  BY DEF ProcessInv
<1>2. /\ forks[p] > 0 /\ forks[p] \in 0 .. 2 /\ child \in Servers
      /\ phase[p] = "detaching" /\ phase[child] = "none" /\ child # p
      /\ phase' = [phase EXCEPT ![p] = "cleanup", ![child] = "detaching"]
      /\ options' = [options EXCEPT ![child] = options[p]]
      /\ logger' = [logger EXCEPT ![child] = logger[p]]
      /\ buffer' = [buffer EXCEPT ![child] = buffer[p]]
      /\ forks' = [forks EXCEPT ![child] = forks[p] - 1]
      /\ logged' = logged /\ log' = log
  BY <1>1 DEF Fork
<1>3. /\ p \in Servers /\ logged[p] <= 1 /\ Len(buffer[p]) <= 1 /\ options[p].daemon
      /\ logged[child] = 0 /\ buffer[child] = << >>
  BY <1>2 DEF ProcessInv, Phases
<1>4. /\ phase'[p] = "cleanup" /\ phase'[child] = "detaching"
      /\ options'[child] = options[p] /\ options'[p] = options[p]
      /\ buffer'[child] = buffer[p] /\ buffer'[p] = buffer[p]
      /\ forks'[child] = forks[p] - 1 /\ forks'[p] = forks[p]
      /\ \A q \in Processes \ {p, child} :
           /\ phase'[q] = phase[q] /\ options'[q] = options[q] /\ forks'[q] = forks[q]
           /\ buffer'[q] = buffer[q]
  BY <1>1, <1>2
<1>5. /\ phase' \in [Processes -> PhaseSet] /\ options' \in [Processes -> Options]
      /\ logger' \in [Processes -> {"none", "open", "broken"}]
      /\ logged' \in [Processes -> Nat] /\ forks' \in [Processes -> 0 .. 2]
      /\ buffer' \in [Processes -> Seq(LineSet)] /\ log' \in [Programs -> Seq(LineSet)]
  <2>1. phase' \in [Processes -> PhaseSet]
    BY <1>1, <1>2 DEF PhaseSet
  <2>2. options' \in [Processes -> Options] /\ logger' \in [Processes -> {"none", "open", "broken"}]
    BY <1>1, <1>2
  <2>3. forks' \in [Processes -> 0 .. 2]
    <3>1. forks[p] - 1 \in 0 .. 2
      BY <1>2
    <3>2. QED
      BY <1>1, <1>2, <3>1
  <2>4. buffer' \in [Processes -> Seq(LineSet)]
    BY <1>1, <1>2
  <2>5. QED
    BY <1>1, <1>2, <2>1, <2>2, <2>3, <2>4
<1> DEFINE gone == Gone \cup {p}
<1>6. p \in gone /\ child \notin gone /\ (logged[p] > 0 => p \in Daemons)
  BY <1>2, <1>3 DEF Gone, Daemons, Ended
<1>7. \A q \in Processes : p \in Holders(buffer, q) => Copies(log, buffer, q) + forks[p] <= 3
  BY <1>2 DEF ProcessInv, RoomForForks
<1>8. \A q \in Processes : Copies(log, buffer, q) \in Nat
  BY <1>1, CopiesCounted, SMTT(30) DEF Copies
<1>9. /\ LinesInv(log, buffer', logged, gone, Daemons)
      /\ \A q \in Processes :
           /\ Holders(buffer', q) \subseteq Holders(buffer, q) \cup {child}
           /\ child \in Holders(buffer', q) => p \in Holders(buffer, q)
           /\ p \in Holders(buffer, q) => Copies(log, buffer', q) = Copies(log, buffer, q) + 1
           /\ p \notin Holders(buffer, q) => Copies(log, buffer', q) = Copies(log, buffer, q)
  <2>1. LinesInv(log, buffer, logged, gone, Daemons)
    BY <1>1, LinesGrow
  <2>2. \A q \in Processes : p \in Holders(buffer, q) => Copies(log, buffer, q) <= 2
    BY <1>2, <1>7, <1>8
  <2> HIDE DEF gone
  <2>3. QED
    <3> DEFINE b2 == [buffer EXCEPT ![child] = buffer[p]]
    <3>1. /\ LinesInv(log, b2, logged, gone, Daemons)
          /\ \A q \in Processes :
               /\ Holders(b2, q) \subseteq Holders(buffer, q) \cup {child}
               /\ child \in Holders(b2, q) => p \in Holders(buffer, q)
               /\ p \in Holders(buffer, q) => Copies(log, b2, q) = Copies(log, buffer, q) + 1
               /\ p \notin Holders(buffer, q) => Copies(log, b2, q) = Copies(log, buffer, q)
      <4>1. /\ p \in Servers /\ child \in Servers /\ child # p /\ child \notin gone
            /\ buffer[child] = << >> /\ logged[child] = 0
            /\ Len(buffer[p]) <= 1 /\ logged[p] <= 1
            /\ p \in gone /\ (logged[p] > 0 => p \in Daemons)
        BY <1>2, <1>3, <1>6
      <4>2. QED
        BY <2>1, <2>2, <4>1, LinesInherited, ZenonT(30)
    <3>2. buffer' = b2
      BY <1>2
    <3> HIDE DEF b2
    <3>3. QED
      BY <3>1, <3>2
<1>10. gone \subseteq Gone'
  <2>1. p \in Gone'
    BY <1>3, <1>4 DEF Gone
  <2>2. ASSUME NEW q \in Gone PROVE q \in Gone'
    <3>1. /\ q \in Servers /\ q \in Processes /\ options[q].daemon
          /\ phase[q] \in Ended \cup {"cleanup", "closing"}
      BY <2>2, OwnLog DEF Gone
    <3>2. q # p /\ q # child
      BY <1>2, <3>1 DEF Ended
    <3>3. phase'[q] = phase[q] /\ options'[q] = options[q]
      BY <1>4, <3>1, <3>2
    <3>4. QED
      BY <3>1, <3>3 DEF Gone, Ended
  <2>3. QED
    BY <2>1, <2>2
<1>11. Daemons \subseteq Daemons'
  <2>1. SUFFICES ASSUME NEW q \in Daemons PROVE q \in Daemons'
    OBVIOUS
  <2>2. q \in Processes /\ options[q].daemon /\ logged[q] > 0
    BY DEF Daemons
  <2>3. q # child
    BY <1>3, <2>2
  <2>4. options'[q] = options[q]
    BY <1>4, <2>2, <2>3
  <2>5. QED
    BY <1>2, <2>2, <2>4 DEF Daemons
<1>12. LinesInv(log', buffer', logged', Gone', Daemons')
  <2> HIDE DEF gone
  <2>1. LinesInv(log, buffer', logged, Gone', Daemons')
    BY <1>9, <1>10, <1>11, LinesGrow
  <2>2. QED
    BY <1>2, <2>1
<1>13. \A q \in Processes : Len(buffer'[q]) < FrequencyOf(q)'
  BY <1>1, <1>4, ZenonT(30) DEF FrequencyOf
<1>14. \A q \in Servers : phase[q] \in Starting => q = p
  BY <1>2, <1>3 DEF ProcessInv, OneServerStarts, Starting
<1>15. \A q \in Processes : phase'[q] = "detaching" => q = child
  <2>1. SUFFICES ASSUME NEW q \in Processes, phase'[q] = "detaching", q # child PROVE FALSE
    OBVIOUS
  <2>2. q # p /\ phase[q] = "detaching"
    BY <1>4, <2>1
  <2>3. q \in Servers
    BY <2>2 DEF ProcessInv, Phases
  <2>4. QED
    BY <1>14, <2>2, <2>3 DEF Starting
<1>16. RoomForForks'
  <2>1. SUFFICES ASSUME NEW q \in Processes, child \in Holders(buffer', q)
                 PROVE  Copies(log', buffer', q) + forks'[child] <= 3
    BY <1>15 DEF RoomForForks
  <2>2. p \in Holders(buffer, q) /\ Copies(log', buffer', q) = Copies(log, buffer, q) + 1
    BY <1>2, <1>9, <2>1
  <2>3. QED
    BY <1>2, <1>4, <1>7, <1>8, <2>2
<1>17. OneServerStarts'
  <2>1. SUFFICES ASSUME NEW q \in Servers, phase'[q] \in Starting PROVE q = child
    BY DEF OneServerStarts, Starting
  <2>2. q \in Processes
    BY OwnLog
  <2>3. q # p
    BY <1>4, <2>1 DEF Starting
  <2>4. QED
    BY <1>4, <1>14, <2>1, <2>2, <2>3
<1>18. Phases'
  <2>1. SUFFICES ASSUME NEW q \in Processes
                 PROVE
    /\ phase'[q] \in {"none", "started", "opened"} => logged'[q] = 0 /\ buffer'[q] = << >>
    /\ phase'[q] \in {"none", "started"} => forks'[q] = 0
    /\ phase'[q] = "detaching" => q \in Servers /\ logged'[q] <= 1 /\ Len(buffer'[q]) <= 1
    /\ phase'[q] = "exited" => buffer'[q] = << >>
    /\ forks'[q] > 0 => options'[q].daemon
    /\ q \in Servers => phase'[q] \notin {"saving", "storing", "cut"}
    /\ q \in Clients => ~options'[q].daemon
    BY DEF Phases
  <2>2. CASE q = child
    BY <1>2, <1>3, <1>4, <2>2, OwnLog
  <2>3. CASE q = p
    BY <1>2, <1>3, <1>4, <2>3, OwnLog
  <2>4. CASE q \notin {p, child}
    BY <1>2, <1>4, <2>4 DEF ProcessInv, Phases
  <2>5. QED
    BY <2>2, <2>3, <2>4
<1>19. QED
  BY <1>5, <1>12, <1>13, <1>16, <1>17, <1>18 DEF ProcessInv


\* Before the process runs
LEMMA MainKeepsProcesses ==
  ASSUME ProcessInv, NEW p \in Processes,
         WrongArgument(p) \/ OpenLogFails(p) \/ DaemonStarts(p)
  PROVE  ProcessInv'
<1>1. phase \in [Processes -> PhaseSet] /\ logger \in [Processes -> {"none", "open", "broken"}]
  BY DEF ProcessInv
<1>2. {"cleanup", "running"} \subseteq PhaseSet \ {"none", "started", "opened", "detaching"}
  BY DEF PhaseSet
<1>3. CASE WrongArgument(p) \/ OpenLogFails(p)
  <2>1. LogStep(p)
    BY <1>3, NothingLogged DEF WrongArgument, OpenLogFails, logs
  <2>2. /\ options \in [Processes -> Options] /\ forks \in [Processes -> 0 .. 2]
        /\ options[p] \in Options
        /\ phase[p] = "started" /\ logged[p] = 0 /\ buffer[p] = << >> /\ forks[p] = 0
        /\ p \in Clients => ~options[p].daemon
    BY <1>3 DEF ProcessInv, Phases, Moves, WrongArgument, OpenLogFails
  <2>3. PICK o \in Arguments(p) : options' = [options EXCEPT ![p] = o]
    BY <1>3 DEF WrongArgument, OpenLogFails
  <2>4. o \in Options /\ (p \in Clients => ~o.daemon)
    BY <2>2, ArgumentsTyped
  <2>5. /\ phase' = [phase EXCEPT ![p] = "cleanup"] /\ forks' = forks
        /\ logged' = logged /\ buffer' = buffer
        /\ logger' \in [Processes -> {"none", "open", "broken"}]
    BY <1>1, <1>3 DEF WrongArgument, OpenLogFails, Moves, logs
  <2>6. OnlyProcess(p) /\ phase'[p] = "cleanup" /\ options'[p] = o
    BY <1>1, <1>2, <2>2, <2>3, <2>4, <2>5 DEF OnlyProcess
  <2>7. p \notin Gone
    BY <2>2, StillThere DEF Ended
  <2>8. MoveAllowed(p)
    BY <2>2, <2>4, <2>5, <2>6, <2>7 DEF MoveAllowed, Starting
  <2>9. QED
    BY <2>1, <2>6, <2>8, ProcessStep
<1>4. CASE DaemonStarts(p)
  <2>1. p \notin Gone
    BY <1>4, StillThere DEF DaemonStarts, Moves, Ended
  <2>2. LogStep(p)
    BY <1>4, <2>1, MessageLogs DEF DaemonStarts
  <2>3. /\ phase' = [phase EXCEPT ![p] = "running"]
        /\ options' = options /\ forks' = forks /\ logger' = logger
    BY <1>4 DEF DaemonStarts, Moves
  <2>4. QED
    BY <1>1, <1>2, <2>1, <2>2, <2>3, LaterMove DEF SameOptions
<1>5. QED
  BY <1>3, <1>4

\* While it runs
LEMMA RunningKeepsProcesses ==
  ASSUME ProcessInv, NEW p \in Processes,
         Log(p) \/ SetText(p) \/ SetPort(p) \/ Exit(p) \/ Failed(p)
  PROVE  ProcessInv'
<1>1. /\ phase \in [Processes -> PhaseSet] /\ logger \in [Processes -> {"none", "open", "broken"}]
      /\ options \in [Processes -> Options] /\ options[p] \in Options
  BY DEF ProcessInv
<1>2. {"cleanup", "running"} \subseteq PhaseSet \ {"none", "started", "opened", "detaching"}
  BY DEF PhaseSet
<1>3. p \notin Gone
  BY StillThere DEF Log, SetText, SetPort, Exit, Failed, Moves, Ended
<1>4. CASE Log(p)
  <2>1. LogStep(p)
    BY <1>3, <1>4, MessageLogs DEF Log
  <2>2. /\ phase' = [phase EXCEPT ![p] = "running"]
        /\ options' = options /\ forks' = forks /\ logger' = logger
    BY <1>1, <1>4 DEF Log
  <2>3. QED
    BY <1>1, <1>2, <1>3, <2>1, <2>2, LaterMove DEF SameOptions
<1>5. CASE SetText(p) \/ SetPort(p)
  <2>1. LogStep(p)
    BY <1>5, NothingLogged DEF SetText, SetPort, logs
  <2>2. phase' = [phase EXCEPT ![p] = "running"] /\ forks' = forks /\ logger' = logger
    BY <1>1, <1>5 DEF SetText, SetPort
  <2>3. SameOptions(p)
    <3>1. CASE SetText(p)
      <4>1. PICK text \in Texts : options' = [options EXCEPT ![p].text = text]
        BY <3>1 DEF SetText
      <4>2. [options[p] EXCEPT !.text = text] \in Options
        BY <1>1 DEF Options
      <4>3. QED
        BY <1>1, <4>1, <4>2 DEF SameOptions, Options
    <3>2. CASE SetPort(p)
      <4>1. PICK port \in Ports : options' = [options EXCEPT ![p].port = port]
        BY <3>2 DEF SetPort
      <4>2. [options[p] EXCEPT !.port = port] \in Options
        BY <1>1 DEF Options
      <4>3. QED
        BY <1>1, <4>1, <4>2 DEF SameOptions, Options
    <3>3. QED
      BY <1>5, <3>1, <3>2
  <2>4. QED
    BY <1>1, <1>2, <1>3, <2>1, <2>2, <2>3, LaterMove
<1>6. CASE Exit(p)
  <2>1. LogStep(p)
    BY <1>6, NothingLogged DEF Exit, logs
  <2>2. /\ phase' = [phase EXCEPT ![p] = "cleanup"]
        /\ options' = options /\ forks' = forks /\ logger' = logger
    BY <1>6 DEF Exit, Moves
  <2>3. QED
    BY <1>1, <1>2, <2>1, <2>2, LaterMove DEF SameOptions
<1>7. CASE Failed(p)
  <2>1. LogStep(p)
    BY <1>3, <1>7, AddLogs DEF Failed, Error
  <2>2. /\ phase' = [phase EXCEPT ![p] = "cleanup"]
        /\ options' = options /\ forks' = forks /\ logger' = logger
    BY <1>7 DEF Failed
  <2>3. QED
    BY <1>1, <1>2, <2>1, <2>2, LaterMove DEF SameOptions
<1>8. QED
  BY <1>4, <1>5, <1>6, <1>7

\* cleanup() and the end of the process
LEMMA CleanupKeepsProcesses ==
  ASSUME ProcessInv, NEW p \in Processes, Cleanup(p) \/ Kill(p)
  PROVE  ProcessInv'
<1>1. /\ phase \in [Processes -> PhaseSet] /\ logger \in [Processes -> {"none", "open", "broken"}]
      /\ p \in Servers => phase[p] \notin {"saving", "storing", "cut"}
  BY DEF ProcessInv, Phases
<1>2. {"saving", "closing", "storing", "cut", "exited", "killed", "torn", "saved"}
        \subseteq PhaseSet \ {"none", "started", "opened", "detaching"}
  BY DEF PhaseSet, Ended
<1>3. p \in Clients => p \notin Servers /\ p \notin Gone
  BY ProcessesAssumption DEF Gone
<1>4. CASE ClientTerminated(p)
  <2>1. LogStep(p)
    BY <1>3, <1>4, MessageLogs DEF ClientTerminated
  <2>2. /\ phase' = [phase EXCEPT ![p] = "saving"] /\ p \in Clients
        /\ options' = options /\ forks' = forks /\ logger' = logger
    BY <1>4 DEF ClientTerminated, Moves
  <2>3. QED
    BY <1>1, <1>2, <1>3, <2>1, <2>2, LaterMove DEF SameOptions
<1>5. CASE ServerTerminated(p)
  <2>1. LogStep(p)
    <3>1. CASE options[p].daemon
      BY <1>5, <3>1, NothingLogged DEF ServerTerminated
    <3>2. CASE ~options[p].daemon
      BY <1>5, <3>2, StillThere, MessageLogs DEF ServerTerminated
    <3>3. QED
      BY <3>1, <3>2
  <2>2. /\ phase' = [phase EXCEPT ![p] = "closing"]
        /\ options' = options /\ forks' = forks /\ logger' = logger
    BY <1>5 DEF ServerTerminated, Moves
  <2>3. QED
    BY <1>1, <1>2, <2>1, <2>2, LaterMove DEF SameOptions
<1>6. CASE EraseSettings(p) \/ StoreSettings(p)
  <2>1. LogStep(p)
    BY <1>6, NothingLogged DEF EraseSettings, StoreSettings, logs
  <2>2. /\ options' = options /\ forks' = forks /\ logger' = logger
        /\ p \notin Servers /\ p \notin Gone
    BY <1>1, <1>6 DEF EraseSettings, StoreSettings, Moves, Gone
  <2>3. \/ phase' = [phase EXCEPT ![p] = "storing"]
        \/ phase' = [phase EXCEPT ![p] = "closing"]
    BY <1>6 DEF EraseSettings, StoreSettings, Moves
  <2>4. QED
    BY <1>1, <1>2, <2>1, <2>2, <2>3, LaterMove DEF SameOptions
<1>7. CASE SaveFails(p)
  <2>1. /\ phase' = [phase EXCEPT ![p] = "cut"] /\ p \notin Servers /\ p \notin Gone
        /\ options' = options /\ forks' = forks /\ logger' = logger
    BY <1>1, <1>7 DEF SaveFails, Moves, Gone
  <2>2. LogStep(p)
    BY <1>7, <2>1, AddLogs DEF SaveFails, Error
  <2>3. QED
    BY <1>1, <1>2, <2>1, <2>2, LaterMove DEF SameOptions
<1>8. CASE CloseLog(p)
  <2>1. LogStep(p) /\ buffer'[p] = << >>
    BY <1>8, RestLogged DEF CloseLog
  <2>2. /\ phase' = [phase EXCEPT ![p] = "exited"]
        /\ options' = options /\ forks' = forks /\ logger' = logger
    BY <1>8 DEF CloseLog, Moves
  <2>3. QED
    BY <1>1, <1>2, <2>1, <2>2, LaterMove DEF SameOptions, Ended
<1>9. CASE Kill(p)
  <2>1. LogStep(p)
    BY <1>9, NothingLogged DEF Kill, logs
  <2>2. /\ phase' = [phase EXCEPT ![p] = KilledIn(p)]
        /\ options' = options /\ forks' = forks /\ logger' = logger
    BY <1>9 DEF Kill
  <2>3. KilledIn(p) \in {"killed", "torn", "saved"}
    BY DEF KilledIn
  <2>4. QED
    BY <1>1, <1>2, <2>1, <2>2, <2>3, LaterMove DEF SameOptions, Ended
<1>10. QED
  BY <1>4, <1>5, <1>6, <1>7, <1>8, <1>9 DEF Cleanup

------------------------------------------------------------------------------
(* Lifecycle: the settings file *)

\* It holds nothing, or what a client has stored.
FileHolds == file = {} \/ \E o \in Options : ~o.daemon /\ file = {o}

\* It gives what client p has started with, or what p has stored.
HasLoaded(p) == Loaded = {loaded[p]}
HasStored(p) == \E new \in AsRead(options[p]) : file = {new}

\* The settings file while a client that started alone is the only one, and when
\* it has ended.
Others(p) == \A q \in Clients \ {p} : phase[q] \in Ended \cup {"none"}
BeforeSaving == PhaseSet \ (Ended \cup {"none", "storing", "closing"})
RunsAlone(p) == Others(p) /\ Len(history) >= 1 /\ history[Len(history)] = p
Alone(p) ==
  /\ phase[p] \in BeforeSaving => HasLoaded(p)
  /\ phase[p] = "storing" => file = {}
  /\ phase[p] = "closing" => HasStored(p)
Over(p) ==
  /\ phase[p] \in {"killed", "cut"} => HasLoaded(p)
  /\ phase[p] = "torn" => file = {}
  /\ phase[p] \in {"exited", "saved"} => HasStored(p)
SettingsInv ==
  \A p \in Clients : (RunsAlone(p) => Alone(p)) /\ (RanAlone(p) => Over(p))

FilesInv ==
  /\ FileHolds
  /\ loaded \in [Processes -> Options]
  /\ history \in Seq(Processes)
  /\ SettingsInv
LifecycleInv == ProcessInv /\ FilesInv

\* read_settings()
LEMMA LoadedOptions ==
  ASSUME FileHolds, NEW o \in Loaded
  PROVE  o \in Options /\ ~o.daemon /\ Loaded = {o}
<1>1. CASE file = {}
  <2>1. Defaults \in Options /\ ~Defaults.daemon
    BY ProcessesAssumption DEF Defaults, Options, Ports, Texts
  <2>2. QED
    BY <1>1, <2>1 DEF Loaded
<1>2. CASE file # {}
  BY <1>2 DEF Loaded, FileHolds
<1>3. QED
  BY <1>1, <1>2

\* What the clients are, and the files, stay as they are.
LEMMA SettingsAlone ==
  ASSUME SettingsInv, UNCHANGED <<file, loaded, history>>,
         \A q \in Clients : phase'[q] = phase[q] /\ options'[q] = options[q]
  PROVE  SettingsInv'
<1>1. ASSUME NEW p \in Clients
      PROVE  /\ RunsAlone(p)' <=> RunsAlone(p)
             /\ RanAlone(p)' <=> RanAlone(p)
  BY <1>1 DEF RunsAlone, Others, RanAlone, Ended
<1>2. ASSUME NEW p \in Clients
      PROVE  (HasLoaded(p)' <=> HasLoaded(p)) /\ (HasStored(p)' <=> HasStored(p))
  BY <1>2 DEF HasLoaded, HasStored, Loaded
<1>3. ASSUME NEW p \in Clients
      PROVE  (Alone(p)' <=> Alone(p)) /\ (Over(p)' <=> Over(p))
  BY <1>2, <1>3 DEF Alone, Over, BeforeSaving, Ended, PhaseSet
<1>4. QED
  BY <1>1, <1>3 DEF SettingsInv

\* While a client runs or cleans up, no other one is alone.
LEMMA SettingsActive ==
  ASSUME NEW p \in Clients, phase'[p] \notin Ended \cup {"none"},
         RunsAlone(p)' => Alone(p)'
  PROVE  SettingsInv'
<1>1. SUFFICES ASSUME NEW q \in Clients
               PROVE  (RunsAlone(q)' => Alone(q)') /\ (RanAlone(q)' => Over(q)')
  BY DEF SettingsInv
<1>2. ~RanAlone(q)'
  BY DEF RanAlone, Ended
<1>3. q # p => ~RunsAlone(q)'
  BY DEF RunsAlone, Others, Ended
<1>4. QED
  BY <1>2, <1>3

\* A client that ends is the last to have done so.
LEMMA SettingsEnded ==
  ASSUME SettingsInv, history \in Seq(Processes), phase \in [Processes -> PhaseSet],
         NEW p \in Clients, NEW to \in Ended,
         phase' = [phase EXCEPT ![p] = to],
         to \in {"exited", "saved"} => phase[p] = "closing",
         to = "torn" => phase[p] = "storing",
         to \in {"killed", "cut"} => phase[p] \in BeforeSaving,
         history' = Append(history, p), UNCHANGED <<options, file, loaded>>
  PROVE  SettingsInv'
<1>1. /\ Len(history') = Len(history) + 1 /\ Len(history) \in Nat
      /\ history'[Len(history')] = p
      /\ \A i \in 1 .. Len(history) : history'[i] = history[i]
      /\ p \in Processes
  BY DEF Processes
<1>2. phase'[p] = to /\ \A q \in Clients \ {p} : phase'[q] = phase[q]
  BY DEF Processes
<1>3. ASSUME RanAlone(p)'
      PROVE  Over(p)'
  <2>1. Others(p)
    BY <1>2, <1>3 DEF RanAlone, Others, Ended
  <2>2. Len(history') >= 2 /\ history'[Len(history') - 1] = p
    BY <1>3 DEF RanAlone
  <2>3. Len(history) >= 1 /\ history[Len(history)] = p
    BY <1>1, <2>2
  <2>4. Alone(p)
    BY <2>1, <2>3 DEF SettingsInv, RunsAlone
  <2>5. HasLoaded(p)' = HasLoaded(p) /\ HasStored(p)' = HasStored(p)
    BY DEF HasLoaded, HasStored, Loaded
  <2>6. QED
    BY <1>2, <2>4, <2>5 DEF Alone, Over
<1>4. SUFFICES ASSUME NEW q \in Clients
               PROVE  (RunsAlone(q)' => Alone(q)') /\ (RanAlone(q)' => Over(q)')
  BY DEF SettingsInv
<1>5. CASE q = p
  <2>1. Alone(p)'
    BY <1>2 DEF Alone, BeforeSaving, Ended
  <2>2. QED
    BY <1>3, <1>5, <2>1
<1>6. CASE q # p
  BY <1>1, <1>6 DEF RanAlone, RunsAlone
<1>7. QED
  BY <1>5, <1>6

\* The steps of a server
LEMMA ServersKeepFiles ==
  ASSUME LifecycleInv, NEW p \in Servers,
         \/ StartServer(p) \/ OpenLog(p) \/ WrongArgument(p) \/ OpenLogFails(p) \/ LogStart(p)
         \/ (\E child \in Processes : Fork(p, child)) \/ DaemonStarts(p)
         \/ Log(p) \/ Exit(p) \/ Failed(p)
         \/ ServerTerminated(p) \/ CloseLog(p) \/ Kill(p)
  PROVE  FilesInv'
<1>1. phase \in [Processes -> PhaseSet] /\ options \in [Processes -> Options]
  BY DEF LifecycleInv, ProcessInv
<1>2. p \notin Clients /\ \A q \in Clients : q \in Processes /\ q # p /\ q \notin Servers
  BY ProcessesAssumption DEF Processes
<1>3. /\ UNCHANGED <<file, loaded, history>>
      /\ \A q \in Clients : phase'[q] = phase[q] /\ options'[q] = options[q]
  <2>1. CASE StartServer(p) \/ OpenLog(p) \/ WrongArgument(p) \/ OpenLogFails(p) \/ LogStart(p)
    BY <1>1, <1>2, <2>1
       DEF StartServer, OpenLog, WrongArgument, OpenLogFails, LogStart, Moves
  <2>2. CASE \E child \in Processes : Fork(p, child)
    BY <1>1, <1>2, <2>2 DEF Fork
  <2>3. CASE DaemonStarts(p) \/ Log(p) \/ Exit(p) \/ Failed(p)
    BY <1>1, <1>2, <2>3 DEF DaemonStarts, Log, Exit, Failed, Moves
  <2>4. CASE ServerTerminated(p) \/ CloseLog(p) \/ Kill(p)
    BY <1>1, <1>2, <2>4 DEF ServerTerminated, CloseLog, Kill, Ends, Moves
  <2>5. QED
    BY <2>1, <2>2, <2>3, <2>4
<1>4. SettingsInv'
  BY <1>3, SettingsAlone DEF LifecycleInv, FilesInv
<1>5. QED
  BY <1>3, <1>4 DEF LifecycleInv, FilesInv, FileHolds

\* The steps of a client up to cleanup()
LEMMA ClientsKeepFiles ==
  ASSUME LifecycleInv, NEW p \in Clients,
         \/ StartClient(p)
         \/ OpenLog(p) \/ WrongArgument(p) \/ OpenLogFails(p) \/ LogStart(p) \/ DaemonStarts(p)
         \/ Log(p) \/ SetText(p) \/ SetPort(p) \/ Exit(p) \/ Failed(p)
         \/ ClientTerminated(p)
  PROVE  FilesInv'
<1>1. /\ phase \in [Processes -> PhaseSet] /\ options \in [Processes -> Options]
      /\ loaded \in [Processes -> Options] /\ p \in Processes
      /\ history \in Seq(Processes) /\ FileHolds /\ SettingsInv
  BY DEF LifecycleInv, ProcessInv, FilesInv, Processes
<1>2. /\ phase'[p] \in {"started", "opened", "cleanup", "detaching", "running", "saving"}
      /\ file' = file
  <2>1. CASE StartClient(p) \/ OpenLog(p) \/ WrongArgument(p) \/ OpenLogFails(p) \/ LogStart(p)
    BY <1>1, <2>1 DEF StartClient, OpenLog, WrongArgument, OpenLogFails, LogStart, Moves
  <2>2. CASE \/ DaemonStarts(p) \/ Log(p) \/ SetText(p) \/ SetPort(p) \/ Exit(p) \/ Failed(p)
             \/ ClientTerminated(p)
    BY <1>1, <2>2
       DEF DaemonStarts, Log, SetText, SetPort, Exit, Failed, ClientTerminated, Moves
  <2>3. QED
    BY <2>1, <2>2
<1>3. CASE StartClient(p)
  <2>1. PICK o \in Loaded : loaded' = [loaded EXCEPT ![p] = o]
    BY <1>3 DEF StartClient
  <2>2. o \in Options /\ Loaded = {o}
    BY <1>1, LoadedOptions
  <2>3. HasLoaded(p)'
    BY <1>1, <1>2, <2>1, <2>2 DEF HasLoaded, Loaded
  <2>4. SettingsInv'
    BY <1>2, <2>3, SettingsActive DEF Ended, Alone
  <2>5. history' = Append(history, p)
    BY <1>3 DEF StartClient
  <2>6. QED
    BY <1>1, <1>2, <2>1, <2>2, <2>4, <2>5 DEF FilesInv, FileHolds
<1>4. CASE ~StartClient(p)
  <2>1. UNCHANGED <<loaded, history>> /\ phase[p] \in BeforeSaving
    <3>1. CASE OpenLog(p) \/ WrongArgument(p) \/ OpenLogFails(p) \/ LogStart(p)
      BY <3>1 DEF OpenLog, WrongArgument, OpenLogFails, LogStart, Moves,
                  BeforeSaving, PhaseSet, Ended
    <3>2. CASE \/ DaemonStarts(p) \/ Log(p) \/ SetText(p) \/ SetPort(p) \/ Exit(p) \/ Failed(p)
               \/ ClientTerminated(p)
      BY <3>2 DEF DaemonStarts, Log, SetText, SetPort, Exit, Failed, ClientTerminated, Moves,
                  BeforeSaving, PhaseSet, Ended
    <3>3. QED
      BY <1>4, <3>1, <3>2
  <2>2. \A q \in Clients \ {p} : phase'[q] = phase[q]
    <3>1. CASE OpenLog(p) \/ WrongArgument(p) \/ OpenLogFails(p) \/ LogStart(p)
      BY <1>1, <3>1 DEF OpenLog, WrongArgument, OpenLogFails, LogStart, Moves, Processes
    <3>2. CASE \/ DaemonStarts(p) \/ Log(p) \/ SetText(p) \/ SetPort(p) \/ Exit(p) \/ Failed(p)
               \/ ClientTerminated(p)
      BY <1>1, <3>2
         DEF DaemonStarts, Log, SetText, SetPort, Exit, Failed, ClientTerminated, Moves, Processes
    <3>3. QED
      BY <1>4, <3>1, <3>2
  <2>3. ASSUME RunsAlone(p)'
        PROVE  Alone(p)'
    <3>1. RunsAlone(p)
      BY <2>1, <2>2, <2>3 DEF RunsAlone, Others, Ended
    <3>2. HasLoaded(p)
      BY <1>1, <2>1, <3>1 DEF SettingsInv, Alone
    <3>3. HasLoaded(p)'
      BY <1>2, <2>1, <3>2 DEF HasLoaded, Loaded
    <3>4. QED
      BY <1>2, <3>3 DEF Alone
  <2>4. SettingsInv'
    BY <1>2, <2>3, SettingsActive DEF Ended
  <2>5. QED
    BY <1>1, <1>2, <2>1, <2>4 DEF FilesInv, FileHolds
<1>5. QED
  BY <1>3, <1>4

\* What the file gives to read are options of the same kind as those written.
LEMMA AsReadTyped ==
  ASSUME NEW o \in Options, NEW new \in AsRead(o)
  PROVE  new \in Options /\ new.daemon = o.daemon
  BY DEF AsRead

\* write_settings() and the end of a client
LEMMA SavingKeepsFiles ==
  ASSUME LifecycleInv, NEW p \in Clients,
         EraseSettings(p) \/ StoreSettings(p) \/ SaveFails(p) \/ CloseLog(p) \/ Kill(p)
  PROVE  FilesInv'
<1>1. /\ phase \in [Processes -> PhaseSet] /\ p \in Processes
      /\ loaded \in [Processes -> Options]
      /\ options[p] \in Options /\ ~options[p].daemon
      /\ history \in Seq(Processes) /\ FileHolds /\ SettingsInv
  BY DEF LifecycleInv, ProcessInv, Phases, FilesInv, Processes
<1>2. CASE EraseSettings(p)
  <2>1. phase'[p] = "storing" /\ file' = {} /\ history' = history /\ loaded' = loaded
    BY <1>1, <1>2 DEF EraseSettings, Moves
  <2>2. Alone(p)'
    BY <2>1 DEF Alone, BeforeSaving
  <2>3. SettingsInv'
    BY <2>1, <2>2, SettingsActive DEF Ended
  <2>4. QED
    BY <1>1, <2>1, <2>3 DEF FilesInv, FileHolds
<1>3. CASE StoreSettings(p)
  <2>1. /\ phase[p] = "storing" /\ phase'[p] = "closing"
        /\ \A q \in Clients \ {p} : phase'[q] = phase[q]
        /\ options' = options /\ history' = history /\ loaded' = loaded
    BY <1>1, <1>3 DEF StoreSettings, Moves, Processes
  <2>2. PICK new \in AsRead(options[p]) : \E x \in WrittenOver(new) : file' = {x}
    BY <1>3 DEF StoreSettings
  <2>3. PICK x \in WrittenOver(new) : file' = {x}
    BY <2>2
  <2>4. new \in Options /\ ~new.daemon
    BY <1>1, AsReadTyped
  <2>5. \/ x = new
        \/ \E o \in file : \/ x = o
                           \/ x = [new EXCEPT !.level = o.level]
                           \/ x = [new EXCEPT !.port = o.port, !.level = o.level]
    BY DEF WrittenOver
  <2>6. \A o \in file : o \in Options /\ ~o.daemon
    BY <1>1 DEF FileHolds
  <2>7. x \in Options /\ ~x.daemon
    <3>1. CASE x = new
      BY <2>4, <3>1
    <3>2. CASE x # new
      <4>1. PICK o \in file : \/ x = o
                              \/ x = [new EXCEPT !.level = o.level]
                              \/ x = [new EXCEPT !.port = o.port, !.level = o.level]
        BY <2>5, <3>2
      <4>2. QED
        BY <2>4, <2>6, <4>1 DEF Options
    <3>3. QED
      BY <3>1, <3>2
  <2>8. ASSUME RunsAlone(p)'
        PROVE  Alone(p)'
    <3>1. RunsAlone(p)
      BY <2>1, <2>8 DEF RunsAlone, Others, Ended
    <3>2. file = {}
      BY <1>1, <2>1, <3>1 DEF SettingsInv, Alone
    <3>3. file' = {new}
      BY <2>3, <2>5, <3>2
    <3>4. HasStored(p)'
      BY <2>1, <3>3 DEF HasStored
    <3>5. QED
      BY <2>1, <3>4 DEF Alone, BeforeSaving
  <2>9. SettingsInv'
    BY <2>1, <2>8, SettingsActive DEF Ended
  <2>10. QED
    BY <1>1, <2>1, <2>3, <2>7, <2>9 DEF FilesInv, FileHolds
<1>4. CASE SaveFails(p) \/ CloseLog(p) \/ Kill(p)
  <2>1. history' = Append(history, p) /\ UNCHANGED <<options, file, loaded>>
    BY <1>4 DEF SaveFails, CloseLog, Kill, Ends
  <2>2. PICK to \in Ended :
          /\ phase' = [phase EXCEPT ![p] = to]
          /\ to \in {"exited", "saved"} => phase[p] = "closing"
          /\ to = "torn" => phase[p] = "storing"
          /\ to \in {"killed", "cut"} => phase[p] \in BeforeSaving
    <3>1. CASE SaveFails(p) \/ CloseLog(p)
      BY <3>1 DEF SaveFails, CloseLog, Moves, Ended, BeforeSaving, PhaseSet
    <3>2. CASE Kill(p)
      <4>1. KilledIn(p) \in Ended /\ phase[p] \in PhaseSet
        BY <1>1 DEF KilledIn, Ended
      <4>2. /\ KilledIn(p) \in {"exited", "saved"} => phase[p] = "closing"
            /\ KilledIn(p) = "torn" => phase[p] = "storing"
            /\ KilledIn(p) \in {"killed", "cut"} => phase[p] \in BeforeSaving
        BY <3>2, <4>1 DEF KilledIn, Kill, BeforeSaving
      <4>3. QED
        BY <3>2, <4>1, <4>2 DEF Kill
    <3>3. QED
      BY <1>4, <3>1, <3>2
  <2>3. SettingsInv'
    BY <1>1, <2>1, <2>2, SettingsEnded
  <2>4. history' \in Seq(Processes)
    BY <1>1, <2>1
  <2>5. QED
    BY <1>1, <2>1, <2>3, <2>4 DEF FilesInv, FileHolds
<1>5. QED
  BY <1>2, <1>3, <1>4

------------------------------------------------------------------------------
(* Lifecycle: the theorems *)

\* No process has started, and nothing is in a file.
LEMMA InitLifecycleInv ==
  ASSUME LifecycleInit
  PROVE  LifecycleInv
<1>1. Defaults \in Options /\ ~Defaults.daemon
  BY ProcessesAssumption DEF Defaults, Options, Ports, Texts
<1>2. LinesInv(log, buffer, logged, Gone, Daemons)
  <2>1. BuffersTyped(log, buffer, logged)
    BY DEF LifecycleInit, BuffersTyped
  <2>2. /\ \A p \in Processes : DOMAIN buffer[p] = {} /\ logged[p] = 0
        /\ \A g \in Programs : DOMAIN log[g] = {}
    BY DEF LifecycleInit
  <2>3. BufferOrder(buffer, logged, Gone, Daemons)
    BY <2>2 DEF BufferOrder
  <2>4. LogLines(log, buffer, logged, Daemons) /\ LogOrder(log, Daemons)
    BY <2>2 DEF LogLines, LogOrder
  <2>5. NoneMissing(log, buffer, logged)
    <3>1. \A p \in Processes : OwnWritten(buffer, logged, p) = 0
      BY DEF LifecycleInit, OwnWritten, OwnUnwritten
    <3>2. QED
      BY <3>1 DEF NoneMissing
  <2>6. FewCopies(log, buffer)
    <3>1. \A q \in Processes : Places(log, q) = {} /\ Holders(buffer, q) = {}
      BY <2>2, OwnLog DEF Places, Holders
    <3>2. IsFiniteSet({}) /\ Cardinality({}) = 0
      BY FS_EmptySet
    <3>3. QED
      BY <3>1, <3>2 DEF FewCopies, Copies
  <2>7. QED
    BY <2>1, <2>3, <2>4, <2>5, <2>6 DEF LinesInv
<1>3. \A p \in Processes : FrequencyOf(p) >= 1 /\ buffer[p] = << >> /\ Len(buffer[p]) = 0
  BY Frequencies DEF LifecycleInit
<1>4. /\ RoomForForks /\ OneServerStarts
      /\ \A p \in Processes : Len(buffer[p]) < FrequencyOf(p)
  BY <1>3, OwnLog, Frequencies DEF LifecycleInit, RoomForForks, OneServerStarts, Starting
<1>5. Phases
  BY <1>1 DEF LifecycleInit, Phases, Processes
<1>6. ProcessInv
  <2>1. /\ phase \in [Processes -> PhaseSet] /\ options \in [Processes -> Options]
        /\ logger \in [Processes -> {"none", "open", "broken"}]
        /\ logged \in [Processes -> Nat] /\ forks \in [Processes -> 0 .. 2]
    BY <1>1 DEF LifecycleInit, PhaseSet
  <2>2. QED
    BY <1>2, <1>4, <1>5, <2>1 DEF ProcessInv, LinesInv, BuffersTyped
<1>7. FilesInv
  BY <1>1 DEF LifecycleInit, FilesInv, FileHolds, SettingsInv, RunsAlone, RanAlone
<1>8. QED
  BY <1>6, <1>7 DEF LifecycleInv

\* A step of something else.
LEMMA StutterKeepsLifecycleInv ==
  ASSUME LifecycleInv, UNCHANGED lifecycleVars
  PROVE  LifecycleInv'
<1>1. /\ UNCHANGED <<phase, options, logger, logged, forks>>
      /\ UNCHANGED <<buffer, log, file, loaded, history>>
  BY DEF lifecycleVars, process, logs
<1>2. Gone' = Gone /\ Daemons' = Daemons
  BY <1>1 DEF Gone, Daemons, Ended
<1>3. \A p \in Processes : FrequencyOf(p)' = FrequencyOf(p)
  BY <1>1 DEF FrequencyOf
<1>4. RoomForForks' /\ OneServerStarts' /\ Phases'
  BY <1>1 DEF LifecycleInv, ProcessInv, RoomForForks, OneServerStarts, Starting, Phases
<1>5. LinesInv(log', buffer', logged', Gone', Daemons')
  BY <1>1, <1>2 DEF LifecycleInv, ProcessInv
<1>6. ProcessInv'
  BY <1>1, <1>3, <1>4, <1>5 DEF LifecycleInv, ProcessInv
<1>7. SettingsInv'
  BY <1>1, SettingsAlone DEF LifecycleInv, FilesInv
<1>8. FilesInv'
  BY <1>1, <1>7 DEF LifecycleInv, FilesInv, FileHolds
<1>9. QED
  BY <1>6, <1>8 DEF LifecycleInv

\* Every step of a process keeps its lines and the settings in order.
LEMMA NextKeepsLifecycleInv ==
  ASSUME LifecycleInv, LifecycleNext
  PROVE  LifecycleInv'
<1>1. PICK p \in Processes :
        \/ StartClient(p) \/ StartServer(p)
        \/ OpenLog(p) \/ WrongArgument(p) \/ OpenLogFails(p) \/ LogStart(p)
        \/ \E child \in Processes : Fork(p, child)
        \/ DaemonStarts(p)
        \/ Log(p) \/ SetText(p) \/ SetPort(p) \/ Exit(p) \/ Failed(p)
        \/ Cleanup(p)
        \/ Kill(p)
  BY DEF LifecycleNext
<1>2. ProcessInv /\ FilesInv /\ FileHolds
  BY DEF LifecycleInv, FilesInv
<1>3. (p \in Clients \/ p \in Servers) /\ ~(p \in Clients /\ p \in Servers)
  BY ProcessesAssumption DEF Processes
<1>4. ProcessInv'
  <2>1. CASE StartClient(p)
    <3>1. PICK o \in Loaded : options' = [options EXCEPT ![p] = o]
      BY <2>1 DEF StartClient
    <3>2. o \in Options /\ ~o.daemon
      BY <1>2, LoadedOptions
    <3>3. p \notin Servers
      BY <1>3, <2>1 DEF StartClient
    <3>4. QED
      BY <1>2, <2>1, <3>1, <3>2, <3>3, StartKeepsProcesses DEF StartClient
  <2>2. CASE StartServer(p)
    <3>1. ServerDefaults \in Options /\ ~ServerDefaults.daemon
      BY ProcessesAssumption DEF ServerDefaults, Defaults, Options, Ports, Texts
    <3>2. QED
      BY <1>2, <2>2, <3>1, StartKeepsProcesses DEF StartServer
  <2>3. CASE OpenLog(p) \/ LogStart(p)
    BY <1>2, <2>3, OpenLogKeepsProcesses, LogStartKeepsProcesses
  <2>4. CASE WrongArgument(p) \/ OpenLogFails(p) \/ DaemonStarts(p)
    BY <1>2, <2>4, MainKeepsProcesses
  <2>5. CASE \E child \in Processes : Fork(p, child)
    BY <1>2, <2>5, ForkKeepsProcesses
  <2>6. CASE Log(p) \/ SetText(p) \/ SetPort(p) \/ Exit(p) \/ Failed(p)
    BY <1>2, <2>6, RunningKeepsProcesses
  <2>7. CASE Cleanup(p) \/ Kill(p)
    BY <1>2, <2>7, CleanupKeepsProcesses
  <2>8. QED
    BY <1>1, <2>1, <2>2, <2>3, <2>4, <2>5, <2>6, <2>7
<1>5. FilesInv'
  <2>1. CASE p \in Servers
    <3>1. phase[p] \notin {"saving", "storing", "cut"}
      BY <1>2, <2>1 DEF ProcessInv, Phases
    <3>2. /\ ~StartClient(p) /\ ~SetText(p) /\ ~SetPort(p) /\ ~ClientTerminated(p)
          /\ ~EraseSettings(p) /\ ~SaveFails(p) /\ ~StoreSettings(p)
      BY <1>3, <2>1, <3>1
         DEF StartClient, SetText, SetPort, ClientTerminated, EraseSettings, SaveFails,
             StoreSettings, Moves
    <3>3. QED
      BY <1>1, <2>1, <3>2, ServersKeepFiles DEF Cleanup
  <2>2. CASE p \in Clients
    <3>1. ~(forks[p] > 0)
      BY <1>2, <2>2 DEF ProcessInv, Phases
    <3>2. ~StartServer(p) /\ ~ServerTerminated(p) /\ ~(\E child \in Processes : Fork(p, child))
      BY <1>3, <2>2, <3>1 DEF StartServer, ServerTerminated, Fork
    <3>3. QED
      BY <1>1, <2>2, <3>2, ClientsKeepFiles, SavingKeepsFiles DEF Cleanup
  <2>3. QED
    BY <1>3, <2>1, <2>2
<1>6. QED
  BY <1>4, <1>5 DEF LifecycleInv

\* In every reachable state the lines that a process has logged are in its
\* buffer, in the log or in the buffer of its child, each in its place, and
\* the settings file holds what the last client has stored.
THEOREM LifecycleConsistent == LifecycleSpec => []LifecycleInv
<1>1. LifecycleInit => LifecycleInv
  BY InitLifecycleInv
<1>2. LifecycleInv /\ [LifecycleNext]_lifecycleVars => LifecycleInv'
  BY NextKeepsLifecycleInv, StutterKeepsLifecycleInv
<1>3. QED
  BY <1>1, <1>2, PTL DEF LifecycleSpec

\* The settings, the buffers and the logs have their types: the settings file
\* holds one set of options at most, and no buffer is ever full.
THEOREM LifecycleTypeCorrect == LifecycleSpec => []LifecycleTypeOK
<1>1. LifecycleInv => LifecycleTypeOK
  <2>1. SUFFICES ASSUME LifecycleInv PROVE LifecycleTypeOK
    OBVIOUS
  <2>2. file \subseteq Options /\ Cardinality(file) <= 1
    <3>1. CASE file = {}
      BY <3>1, FS_EmptySet
    <3>2. CASE \E o \in Options : ~o.daemon /\ file = {o}
      <4>1. PICK o \in Options : file = {o}
        BY <3>2
      <4>2. Cardinality({o}) = 1
        BY FS_Singleton
      <4>3. QED
        BY <4>1, <4>2
    <3>3. QED
      BY <2>1, <3>1, <3>2 DEF LifecycleInv, FilesInv, FileHolds
  <2>3. QED
    BY <2>1, <2>2 DEF LifecycleInv, ProcessInv, FilesInv, LifecycleTypeOK
<1>2. QED
  BY <1>1, LifecycleConsistent, PTL

\* The lines of a process reach its log in the order in which it logged them
\* and none is missing in between; what is missing at the end fits in the
\* buffer, and after a complete cleanup() nothing is missing.
THEOREM LogKeepsAllButTheTail == LifecycleSpec => []OnlyTailIsLost
<1>1. LifecycleInv => OnlyTailIsLost
  <2>1. SUFFICES ASSUME LifecycleInv, NEW p \in Processes
                 PROVE
        LET lines == log[ProgramOf(p)]
            own == {i \in DOMAIN lines : lines[i].by = p}
            written == {lines[i].n : i \in own}
        IN /\ \A i, j \in own : i < j => lines[i].n <= lines[j].n
           /\ written = 1 .. Cardinality(written)
           /\ logged[p] - Cardinality(written) < FrequencyOf(p)
           /\ phase[p] = "exited" => Cardinality(written) = logged[p]
    BY DEF OnlyTailIsLost
  <2> DEFINE lines == log[ProgramOf(p)]
             own == {i \in DOMAIN lines : lines[i].by = p}
             written == {lines[i].n : i \in own}
             w == OwnWritten(buffer, logged, p)
  <2>2. /\ LinesInv(log, buffer, logged, Gone, Daemons)
        /\ Len(buffer[p]) < FrequencyOf(p)
        /\ phase[p] = "exited" => buffer[p] = << >>
    BY <2>1 DEF LifecycleInv, ProcessInv, Phases
  <2>3. /\ ProgramOf(p) \in Programs /\ lines \in Seq(LineSet)
        /\ DOMAIN lines = 1 .. Len(lines) /\ Len(lines) \in Nat
    BY <2>2, OwnLog DEF LinesInv, BuffersTyped
  <2>4. /\ logged[p] \in Nat /\ w \in 0 .. logged[p] /\ Len(buffer[p]) \in Nat
        /\ logged[p] - w \in 0 .. Len(buffer[p])
    BY <2>2, OwnLines
  <2>5. \A i, j \in own : i < j => lines[i].n <= lines[j].n
    BY <2>2, <2>3 DEF LinesInv, LogOrder
  <2>6. 1 .. w \subseteq written
    <3>1. SUFFICES ASSUME NEW k \in 1 .. w PROVE k \in written
      OBVIOUS
    <3>2. PICK i \in DOMAIN lines : lines[i] = [by |-> p, n |-> k]
      BY <2>2, <3>1 DEF LinesInv, NoneMissing
    <3>3. i \in own /\ lines[i].n = k
      BY <3>2
    <3>4. QED
      BY <3>3
  <2>7. \A x \in written : x \in 1 .. logged[p] /\ (x <= w \/ x = 1)
    <3>1. SUFFICES ASSUME NEW i \in own
                   PROVE  lines[i].n \in 1 .. logged[p] /\ (lines[i].n <= w \/ lines[i].n = 1)
      OBVIOUS
    <3>2. i \in DOMAIN lines /\ lines[i].by = p
      OBVIOUS
    <3>3. QED
      BY <2>2, <2>3, <3>2 DEF LinesInv, LogLines
  <2> HIDE DEF lines, own, written, w
  <2>8. \E v \in w .. logged[p] : written = 1 .. v
    <3>1. CASE w >= 1 \/ 1 \notin written
      <4>1. \A x \in written : x \in 1 .. w
        BY <2>4, <2>7, <3>1
      <4>2. written = 1 .. w
        BY <2>6, <4>1
      <4>3. QED
        BY <2>4, <4>2
    <3>2. CASE w = 0 /\ 1 \in written
      <4>1. 1 \in w .. logged[p]
        BY <2>4, <2>7, <3>2
      <4>2. \A x \in written : x = 1
        BY <2>4, <2>7, <3>2
      <4>3. written = 1 .. 1
        BY <3>2, <4>2
      <4>4. QED
        BY <4>1, <4>3
    <3>3. QED
      BY <2>4, <3>1, <3>2
  <2>9. PICK v \in w .. logged[p] : written = 1 .. v
    BY <2>8
  <2>10. v \in Nat /\ Cardinality(written) = v
    <3>1. v \in Nat /\ v \in Int /\ 1 \in Int
      BY <2>4, <2>9
    <3>2. Cardinality(1 .. v) = IF 1 > v THEN 0 ELSE v - 1 + 1
      BY <3>1, FS_Interval
    <3>3. QED
      BY <2>9, <3>1, <3>2
  <2>11. logged[p] - Cardinality(written) < FrequencyOf(p)
    BY <2>2, <2>4, <2>9, <2>10, Frequencies
  <2>12. phase[p] = "exited" => Cardinality(written) = logged[p]
    <3>1. SUFFICES ASSUME buffer[p] = << >> PROVE v = logged[p]
      BY <2>2, <2>10
    <3>2. Len(buffer[p]) = 0
      BY <3>1
    <3>3. QED
      BY <2>4, <2>9, <3>2
  <2>13. written = 1 .. Cardinality(written)
    BY <2>9, <2>10
  <2>14. QED
    BY <2>5, <2>11, <2>12, <2>13 DEF lines, own, written
<1>2. QED
  BY <1>1, LifecycleConsistent, PTL

\* No line is written twice, but for the one that a server logs before it
\* becomes a daemon: that one is in the log three times at most.
THEOREM LogHoldsALineOnce == LifecycleSpec => []WrittenOnce
<1>1. LifecycleInv => WrittenOnce
  <2>1. SUFFICES ASSUME LifecycleInv, NEW g \in Programs,
                        NEW i \in DOMAIN log[g], NEW j \in DOMAIN log[g],
                        i < j, log[g][i] = log[g][j]
                 PROVE  /\ options[log[g][i].by].daemon
                        /\ log[g][i].n = 1
                        /\ Cardinality({k \in DOMAIN log[g] : log[g][k] = log[g][i]}) <= 3
    BY DEF WrittenOnce
  <2> DEFINE q == log[g][i].by
  <2>2. LinesInv(log, buffer, logged, Gone, Daemons)
    BY <2>1 DEF LifecycleInv, ProcessInv
  <2>3. log[g] \in Seq(LineSet) /\ i \in 1 .. Len(log[g])
    BY <2>1, <2>2 DEF LinesInv, BuffersTyped
  <2>4. q \in Processes /\ log[g][i] = [by |-> q, n |-> log[g][i].n]
    BY <2>3, LineItems
  <2>5. log[g][i].n = 1 /\ q \in Daemons
    BY <2>1, <2>2 DEF LinesInv, LogOrder
  <2>6. ProgramOf(q) = g
    BY <2>1, <2>2 DEF LinesInv, LogLines
  <2>7. {k \in DOMAIN log[g] : log[g][k] = log[g][i]} = Places(log, q)
    BY <2>4, <2>5, <2>6 DEF Places, FirstLine
  <2> HIDE DEF q
  <2>8. Cardinality(Places(log, q)) <= 3
    <3>1. /\ Cardinality(Places(log, q)) \in Nat /\ Cardinality(Holders(buffer, q)) \in Nat
          /\ Copies(log, buffer, q) <= 3
      BY <2>2, <2>4, CopiesCounted
    <3>2. QED
      BY <3>1 DEF Copies
  <2>9. options[q].daemon
    BY <2>5 DEF Daemons
  <2>10. QED
    BY <2>5, <2>7, <2>8, <2>9 DEF q
<1>2. QED
  BY <1>1, LifecycleConsistent, PTL

\* What a client that ran alone leaves to the next one: the settings that it wrote,
\* as they come back, if it exited or was killed after writing them; those that it
\* had started with if it ended before; and the defaults if it was killed between.
THEOREM SettingsSurvive == LifecycleSpec => SettingsReturn
<1>1. ASSUME LifecycleInv, NEW p \in Clients, NEW q \in Clients,
             StartClient(q), RanAlone(p)
      PROVE  /\ phase[p] \in {"exited", "saved"} => ComesBack(options[p], options'[q])
             /\ phase[p] \in {"killed", "cut"} => options'[q] = loaded[p]
             /\ phase[p] = "torn" => options'[q] = Defaults
  <2>1. Over(p) /\ options \in [Processes -> Options] /\ q \in Processes
    BY <1>1 DEF LifecycleInv, ProcessInv, FilesInv, SettingsInv, Processes
  <2>2. PICK o \in Loaded : options' = [options EXCEPT ![q] = o]
    BY <1>1 DEF StartClient
  <2>3. options'[q] = o
    BY <2>1, <2>2
  <2>4. ASSUME phase[p] \in {"exited", "saved"}
        PROVE  ComesBack(options[p], o)
    <3>1. PICK new \in AsRead(options[p]) : file = {new}
      BY <2>1, <2>4 DEF Over, HasStored
    <3>2. o \in AsRead(options[p])
      BY <3>1 DEF Loaded
    <3>3. /\ o.text \in StoredTexts(options[p].text)
          /\ o.port \in Reads(options[p].port) /\ o.level = options[p].level
      BY <3>2 DEF AsRead
    <3>4. options[p].text \in Plain => o.text = options[p].text
      BY <3>3, ProcessesAssumption DEF StoredTexts, Prints
    <3>5. options[p].text \in Overlong => o.text = Account
      BY <3>3 DEF StoredTexts
    <3>6. QED
      BY <3>3, <3>4, <3>5 DEF ComesBack
  <2>5. phase[p] \in {"killed", "cut"} => o = loaded[p]
    BY <2>1 DEF Over, HasLoaded
  <2>6. phase[p] = "torn" => o = Defaults
    BY <2>1 DEF Over, Loaded
  <2>7. QED
    BY <2>3, <2>4, <2>5, <2>6
<1>2. LifecycleInv =>
        [\A p, q \in Clients :
           StartClient(q) /\ RanAlone(p) =>
             /\ phase[p] \in {"exited", "saved"} => ComesBack(options[p], options'[q])
             /\ phase[p] \in {"killed", "cut"} => options'[q] = loaded[p]
             /\ phase[p] = "torn" => options'[q] = Defaults]_lifecycleVars
  BY <1>1
<1>3. QED
  BY <1>2, LifecycleConsistent, PTL DEF SettingsReturn
================================================================================
