--------------------------- MODULE DropOldestQueue ---------------------------
(***************************************************************************)
(* What the queue of libs/src/queue.c promises to its users: a first-in    *)
(* first-out queue of bounded length that never refuses an item.  Adding   *)
(* an item to a full queue silently discards the oldest one.  The event    *)
(* queue, the out-queues of users, channels and the server, and the        *)
(* client's message queue all rely on this contract.                       *)
(***************************************************************************)
EXTENDS Naturals, Sequences

CONSTANTS
  Capacity,   \* the largest number of items held
  Items,      \* the items a user of the queue may store
  NoItem      \* stands for the NULL pointer

VARIABLES
  contents,   \* the stored items, oldest first
  dequeued    \* what the last removal returned

qvars == <<contents, dequeued>>

Init ==
  /\ contents = <<>>
  /\ dequeued = NoItem

\* The items that stay when one more is about to be stored.
Kept == IF Len(contents) = Capacity THEN Tail(contents) ELSE contents

Put(x) ==
  /\ contents' = Append(Kept, x)
  /\ UNCHANGED dequeued

TakeOldest ==
  /\ contents # <<>>
  /\ contents' = Tail(contents)
  /\ dequeued' = Head(contents)

TakeNothing ==
  /\ contents = <<>>
  /\ dequeued' = NoItem
  /\ UNCHANGED contents

Next ==
  \/ \E x \in Items : Put(x)
  \/ TakeOldest
  \/ TakeNothing

Spec == Init /\ [][Next]_qvars
==============================================================================
