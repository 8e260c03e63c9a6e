--------------------------- MODULE ServerLoopProofs ---------------------------
(***************************************************************************)
(* Proofs about ServerLoop, for every number of slots, descriptors, events *)
(* and waiting connections: the three records of a connection, its slot,   *)
(* its socket and its entry of the poll set, stay together.                *)
(*                                                                         *)
(* They are changed by different events, so the inductive invariant speaks *)
(* of the events in the queue: of what an event "add" or "remove" finds    *)
(* when it is handled at last, and of the order of the two.                *)
(***************************************************************************)
EXTENDS ServerLoop, TLAPS, FiniteSetTheorems, WellFoundedInduction

EventSet == [type : EventTypes, fd : Numbers \cup {NoFd}]
InUse(pf) == {i \in Entries : pf[i].fd # NoFd}

\* An event "add" or "remove" names an open socket.  One to be closed is no
\* client any more, one to be added has no entry yet, neither is queued twice,
\* and a socket is not closed before it was added.
QueueSound(q, op, cl, pf) ==
  /\ \A i \in 1 .. Len(q) : q[i].type \in {"add", "remove"} => q[i].fd \in op
  /\ \A i \in 1 .. Len(q) : q[i].type = "remove" => q[i].fd \notin cl
  /\ \A i \in 1 .. Len(q) : q[i].type = "add" => \A e \in Entries : pf[e].fd # q[i].fd
  /\ \A i, j \in 1 .. Len(q) :
       i < j /\ q[i].type = "remove" /\ q[j].type \in {"add", "remove"} => q[i].fd # q[j].fd
  /\ \A i, j \in 1 .. Len(q) :
       i < j /\ q[i].type = "add" /\ q[j].type = "add" => q[i].fd # q[j].fd

\* At most one connection request is queued, and then one waits.
ConnectSound(q, waiting, stage) ==
  /\ \A i \in 1 .. Len(q) :
       q[i].type = "connect" => waiting >= 1 /\ stage \in {"scan", "dispatch"}
  /\ \A i, j \in 1 .. Len(q) : q[i].type = "connect" /\ q[j].type = "connect" => i = j

EntriesDistinct ==
  \A i, j \in Entries : pfds[i].fd # NoFd /\ pfds[i].fd = pfds[j].fd => i = j
EntriesOpen == \A i \in Entries : pfds[i].fd \in open \cup {NoFd}
EntriesCounted == pollCount = 2 + Cardinality(InUse(pfds))

\* Slots, sockets, poll set and the events in between.
Records ==
  /\ ClientsHoldOpenSockets
  /\ EntriesDistinct
  /\ EntriesOpen
  /\ EntriesCounted
  /\ QueueSound(events, open, clients, pfds)
  /\ NoSocketForgotten
  /\ ClientsArePolled

\* The scan starts behind the listening socket.
LoopInv ==
  /\ TypeOK
  /\ cursor > ListenFd
  /\ Records
  /\ ConnectSound(events, backlog, pc)
------------------------------------------------------------------------------
(* Numbers and sets *)

LEMMA NoFdIsNoSocket == NoFd \notin Fds /\ Fds \subseteq Nat /\ Fds \subseteq Numbers
BY SizesAssumption DEF NoFd, Fds, Numbers

\* A nonempty set of numbers has a least element.
LEMMA Least ==
  ASSUME NEW I \in SUBSET Nat, I # {}
  PROVE  Min(I) \in I
<1>1. PICK x \in I : \A y \in I : <<y, x>> \notin OpToRel(<, Nat)
  BY NatLessThanWellFounded, WFMin, Zenon
<1>2. ASSUME NEW y \in I, y < x PROVE FALSE
  <2>1. <<y, x>> \in {p \in Nat \X Nat : p[1] < p[2]}
    BY <1>2
  <2>2. <<y, x>> \in OpToRel(<, Nat)
    BY <2>1, Zenon DEF OpToRel
  <2> QED
    BY <1>1, <2>2
<1>3. \A y \in I : x <= y
  BY <1>2
<1> QED
  BY <1>3, Zenon DEF Min

\* The poll set has two entries less than there are slots.
LEMMA EntriesFinite ==
  /\ Entries \subseteq Nat
  /\ IsFiniteSet(Entries)
  /\ Cardinality(Entries) = Capacity - 2
<1>1. Capacity \in Nat /\ Capacity >= 2
  BY SizesAssumption
<1> QED
  BY <1>1, FS_Interval DEF Entries

\* What is counted of the poll set is at most the length of the array.
LEMMA InUseFinite ==
  ASSUME NEW pf
  PROVE  /\ IsFiniteSet(InUse(pf))
         /\ Cardinality(InUse(pf)) \in 0 .. Capacity - 2
<1>1. InUse(pf) \in SUBSET Entries
  BY DEF InUse
<1>2. IsFiniteSet(InUse(pf)) /\ Cardinality(InUse(pf)) <= Cardinality(Entries)
  BY <1>1, EntriesFinite, FS_Subset
<1> QED
  BY <1>2, EntriesFinite, FS_CardinalityType, SizesAssumption

LEMMA FdsFinite ==
  ASSUME NEW S \in SUBSET Fds
  PROVE  IsFiniteSet(S) /\ Cardinality(S) \in Nat /\ Cardinality(S) <= Cardinality(Fds)
<1>1. IsFiniteSet(Fds)
  BY FS_Interval, SizesAssumption DEF Fds
<1> QED
  BY <1>1, FS_Subset, FS_CardinalityType

------------------------------------------------------------------------------
(* The event queue *)

\* A full queue loses its oldest events: what is left is the end of it.
LEMMA NewestIsSuffix ==
  ASSUME NEW S, NEW q \in Seq(S)
  PROVE  /\ Newest(q) \in Seq(S)
         /\ Len(Newest(q)) <= EventCapacity
         /\ Len(q) <= EventCapacity => Newest(q) = q
         /\ \E d \in Nat :
              /\ Len(Newest(q)) = Len(q) - d
              /\ \A i \in 1 .. Len(Newest(q)) : Newest(q)[i] = q[i + d]
<1> EventCapacity \in Nat \ {0}
  BY SizesAssumption
<1>1. CASE Len(q) <= EventCapacity
  <2>1. Newest(q) = q
    BY <1>1 DEF Newest
  <2>2. /\ 0 \in Nat
        /\ Len(q) = Len(q) - 0
        /\ \A i \in 1 .. Len(q) : q[i] = q[i + 0]
    OBVIOUS
  <2> QED
    BY <1>1, <2>1, <2>2
<1>2. CASE Len(q) > EventCapacity
  <2> DEFINE d == Len(q) - EventCapacity
  <2>1. Newest(q) = SubSeq(q, d + 1, Len(q))
    BY <1>2 DEF Newest
  <2>2. d \in Nat /\ d < Len(q)
    BY <1>2
  <2>3. /\ SubSeq(q, d + 1, Len(q)) \in Seq(S)
        /\ Len(SubSeq(q, d + 1, Len(q))) = Len(q) - d
        /\ \A i \in 1 .. Len(q) - d : SubSeq(q, d + 1, Len(q))[i] = q[i + d]
    BY <2>2
  <2>4. Len(q) - d = EventCapacity /\ ~(Len(q) <= EventCapacity)
    BY <1>2
  <2> HIDE DEF d
  <2>5. /\ Newest(q) \in Seq(S)
        /\ Len(Newest(q)) = Len(q) - d
        /\ \A i \in 1 .. Len(q) - d : Newest(q)[i] = q[i + d]
    BY <2>1, <2>3, Zenon
  <2>6. Len(Newest(q)) <= EventCapacity
    BY <2>4, <2>5
  <2>7. \A i \in 1 .. Len(Newest(q)) : Newest(q)[i] = q[i + d]
    BY <2>5, Zenon
  <2> QED
    BY <2>2, <2>4, <2>5, <2>6, <2>7, Zenon
<1> QED
  BY <1>1, <1>2

\* Dropping events from the front disturbs neither part of the invariant.
LEMMA SuffixSound ==
  ASSUME NEW q \in Seq(EventSet), NEW r \in Seq(EventSet), NEW d \in Nat,
         Len(r) = Len(q) - d, \A i \in 1 .. Len(r) : r[i] = q[i + d],
         NEW op, NEW cl, NEW pf, NEW waiting, NEW stage
  PROVE  /\ QueueSound(q, op, cl, pf) => QueueSound(r, op, cl, pf)
         /\ ConnectSound(q, waiting, stage) => ConnectSound(r, waiting, stage)
<1>1. \A i \in 1 .. Len(r) : i + d \in 1 .. Len(q) /\ r[i] = q[i + d]
  OBVIOUS
<1>2. \A i, j \in 1 .. Len(r) : i < j => i + d < j + d
  OBVIOUS
<1>3. \A i, j \in 1 .. Len(r) : i + d = j + d => i = j
  OBVIOUS
<1>4. ASSUME QueueSound(q, op, cl, pf) PROVE QueueSound(r, op, cl, pf)
  <2>1. \A i \in 1 .. Len(r) : r[i].type \in {"add", "remove"} => r[i].fd \in op
    BY <1>1, <1>4 DEF QueueSound
  <2>2. \A i \in 1 .. Len(r) : r[i].type = "remove" => r[i].fd \notin cl
    BY <1>1, <1>4 DEF QueueSound
  <2>3. \A i \in 1 .. Len(r) : r[i].type = "add" => \A e \in Entries : pf[e].fd # r[i].fd
    BY <1>1, <1>4 DEF QueueSound
  <2>4. \A i, j \in 1 .. Len(r) :
          i < j /\ r[i].type = "remove" /\ r[j].type \in {"add", "remove"} => r[i].fd # r[j].fd
    <3> SUFFICES ASSUME NEW i \in 1 .. Len(r), NEW j \in 1 .. Len(r), i < j,
                        r[i].type = "remove", r[j].type \in {"add", "remove"}
                 PROVE  r[i].fd # r[j].fd
      OBVIOUS
    <3>1. /\ i + d \in 1 .. Len(q) /\ r[i] = q[i + d]
          /\ j + d \in 1 .. Len(q) /\ r[j] = q[j + d]
          /\ i + d < j + d
      BY <1>1, <1>2
    <3> QED
      BY <1>4, <3>1 DEF QueueSound
  <2>5. \A i, j \in 1 .. Len(r) :
          i < j /\ r[i].type = "add" /\ r[j].type = "add" => r[i].fd # r[j].fd
    <3> SUFFICES ASSUME NEW i \in 1 .. Len(r), NEW j \in 1 .. Len(r), i < j,
                        r[i].type = "add", r[j].type = "add"
                 PROVE  r[i].fd # r[j].fd
      OBVIOUS
    <3>1. /\ i + d \in 1 .. Len(q) /\ r[i] = q[i + d]
          /\ j + d \in 1 .. Len(q) /\ r[j] = q[j + d]
          /\ i + d < j + d
      BY <1>1, <1>2
    <3> QED
      BY <1>4, <3>1 DEF QueueSound
  <2> QED
    BY <2>1, <2>2, <2>3, <2>4, <2>5 DEF QueueSound
<1>5. ConnectSound(q, waiting, stage) => ConnectSound(r, waiting, stage)
  BY <1>1, <1>3 DEF ConnectSound
<1> QED
  BY <1>4, <1>5

LEMMA TailSound ==
  ASSUME NEW q \in Seq(EventSet), q # <<>>,
         NEW op, NEW cl, NEW pf, NEW waiting, NEW stage
  PROVE  /\ Tail(q) \in Seq(EventSet)
         /\ Len(Tail(q)) = Len(q) - 1
         /\ \A i \in 1 .. Len(Tail(q)) : Tail(q)[i] = q[i + 1]
         /\ QueueSound(q, op, cl, pf) => QueueSound(Tail(q), op, cl, pf)
         /\ ConnectSound(q, waiting, stage) => ConnectSound(Tail(q), waiting, stage)
<1>1. /\ Tail(q) \in Seq(EventSet)
      /\ Len(Tail(q)) = Len(q) - 1
      /\ \A i \in 1 .. Len(Tail(q)) : Tail(q)[i] = q[i + 1]
  OBVIOUS
<1>2. 1 \in Nat
  OBVIOUS
<1>3. QueueSound(q, op, cl, pf) => QueueSound(Tail(q), op, cl, pf)
  BY <1>1, <1>2, SuffixSound
<1>4. ConnectSound(q, waiting, stage) => ConnectSound(Tail(q), waiting, stage)
  BY <1>1, <1>2, SuffixSound
<1> QED
  BY <1>1, <1>3, <1>4

\* Events that neither add nor remove a descriptor change nothing.
LEMMA QuietSound ==
  ASSUME NEW q \in Seq(EventSet), NEW new \in Seq(EventSet),
         \A i \in 1 .. Len(new) : new[i].type \notin {"add", "remove"},
         NEW op, NEW cl, NEW pf, QueueSound(q, op, cl, pf)
  PROVE  QueueSound(q \o new, op, cl, pf)
<1> DEFINE r == q \o new
<1>1. \A i \in 1 .. Len(r) :
        r[i].type \in {"add", "remove"} => i \in 1 .. Len(q) /\ r[i] = q[i]
  <2> SUFFICES ASSUME NEW i \in 1 .. Len(r), r[i].type \in {"add", "remove"}
               PROVE  i \in 1 .. Len(q) /\ r[i] = q[i]
    OBVIOUS
  <2>1. CASE i \in 1 .. Len(q)
    BY <2>1
  <2>2. CASE i \notin 1 .. Len(q)
    <3>1. i - Len(q) \in 1 .. Len(new) /\ r[i] = new[i - Len(q)]
      BY <2>2
    <3> QED
      BY <3>1
  <2> QED
    BY <2>1, <2>2
<1> HIDE DEF r
<1>2. \A i \in 1 .. Len(r) : r[i].type = "add" => i \in 1 .. Len(q) /\ r[i] = q[i]
  BY <1>1
<1>3. \A i \in 1 .. Len(r) : r[i].type = "remove" => i \in 1 .. Len(q) /\ r[i] = q[i]
  BY <1>1
<1>4. \A i \in 1 .. Len(r) : r[i].type \in {"add", "remove"} => r[i].fd \in op
  BY <1>1, Zenon DEF QueueSound
<1>5. \A i \in 1 .. Len(r) : r[i].type = "remove" => r[i].fd \notin cl
  BY <1>3, Zenon DEF QueueSound
<1>6. \A i \in 1 .. Len(r) : r[i].type = "add" => \A e \in Entries : pf[e].fd # r[i].fd
  BY <1>2, Zenon DEF QueueSound
<1>7. \A i, j \in 1 .. Len(r) :
        i < j /\ r[i].type = "remove" /\ r[j].type \in {"add", "remove"} => r[i].fd # r[j].fd
  <2> SUFFICES ASSUME NEW i \in 1 .. Len(r), NEW j \in 1 .. Len(r), i < j,
                      r[i].type = "remove", r[j].type \in {"add", "remove"}
               PROVE  r[i].fd # r[j].fd
    OBVIOUS
  <2>1. i \in 1 .. Len(q) /\ r[i] = q[i] /\ j \in 1 .. Len(q) /\ r[j] = q[j]
    BY <1>1
  <2> QED
    BY <2>1 DEF QueueSound
<1>8. \A i, j \in 1 .. Len(r) :
        i < j /\ r[i].type = "add" /\ r[j].type = "add" => r[i].fd # r[j].fd
  <2> SUFFICES ASSUME NEW i \in 1 .. Len(r), NEW j \in 1 .. Len(r), i < j,
                      r[i].type = "add", r[j].type = "add"
               PROVE  r[i].fd # r[j].fd
    OBVIOUS
  <2>1. i \in 1 .. Len(q) /\ r[i] = q[i] /\ j \in 1 .. Len(q) /\ r[j] = q[j]
    BY <1>2
  <2> QED
    BY <2>1 DEF QueueSound
<1>9. QueueSound(r, op, cl, pf)
  BY <1>4, <1>5, <1>6, <1>7, <1>8, Zenon DEF QueueSound
<1> QED
  BY <1>9 DEF r

\* An event that is queued stays queued behind others and until it is handled.
LEMMA StaysQueued ==
  ASSUME NEW q \in Seq(EventSet), NEW new \in Seq(EventSet), NEW e, Contains(q, e)
  PROVE  /\ Contains(q \o new, e)
         /\ Head(q) # e => Contains(Tail(q), e)
<1>1. PICK i \in 1 .. Len(q) : q[i] = e
  BY DEF Contains
<1>2. i \in 1 .. Len(q \o new) /\ (q \o new)[i] = e
  BY <1>1
<1>3. ASSUME Head(q) # e PROVE Contains(Tail(q), e)
  <2>1. i # 1
    BY <1>1, <1>3
  <2>2. i - 1 \in 1 .. Len(Tail(q)) /\ Tail(q)[i - 1] = e
    BY <1>1, <2>1
  <2> QED
    BY <2>2 DEF Contains
<1>4. Contains(q \o new, e)
  BY <1>2 DEF Contains
<1> QED
  BY <1>3, <1>4

LEMMA Pushed ==
  ASSUME NEW q \in Seq(EventSet), NEW new \in Seq(EventSet), Push(q, new),
         dropped \in BOOLEAN
  PROVE  /\ events' \in Seq(EventSet)
         /\ Len(events') <= EventCapacity
         /\ dropped' \in BOOLEAN
         /\ ~dropped' => ~dropped /\ events' = q \o new
         /\ \A op, cl, pf :
              QueueSound(q \o new, op, cl, pf) => QueueSound(events', op, cl, pf)
         /\ \A waiting, stage :
              ConnectSound(q \o new, waiting, stage) => ConnectSound(events', waiting, stage)
<1> DEFINE r == q \o new
<1>1. r \in Seq(EventSet)
  OBVIOUS
<1>2. events' = Newest(r) /\ dropped' = (dropped \/ Len(r) > EventCapacity)
  BY DEF Push
<1> HIDE DEF r
<1>3. /\ Newest(r) \in Seq(EventSet)
      /\ Len(Newest(r)) <= EventCapacity
      /\ Len(r) <= EventCapacity => Newest(r) = r
  BY <1>1, NewestIsSuffix, Zenon
<1>4. PICK d \in Nat :
        /\ Len(Newest(r)) = Len(r) - d
        /\ \A i \in 1 .. Len(Newest(r)) : Newest(r)[i] = r[i + d]
  BY <1>1, NewestIsSuffix, Zenon
<1>5. ASSUME NEW op, NEW cl, NEW pf, QueueSound(r, op, cl, pf)
      PROVE  QueueSound(events', op, cl, pf)
  BY <1>1, <1>2, <1>3, <1>4, <1>5, SuffixSound
<1>6. ASSUME NEW waiting, NEW stage, ConnectSound(r, waiting, stage)
      PROVE  ConnectSound(events', waiting, stage)
  BY <1>1, <1>2, <1>3, <1>4, <1>6, SuffixSound
<1>7. Len(r) \in Nat /\ EventCapacity \in Nat
  BY <1>1, SizesAssumption
<1>8. ~(Len(r) > EventCapacity) => Len(r) <= EventCapacity
  BY <1>7
<1>9. ~dropped' => ~dropped /\ events' = r
  BY <1>2, <1>3, <1>8, Zenon
<1>10. dropped' \in BOOLEAN
  BY <1>2, Zenon
<1> QED
  BY <1>2, <1>3, <1>5, <1>6, <1>9, <1>10, Zenon DEF r

------------------------------------------------------------------------------
(* Steps that leave the records of connections alone *)

LEMMA SameEntries ==
  ASSUME \A e \in Entries : pfds'[e].fd = pfds[e].fd
  PROVE  /\ InUse(pfds') = InUse(pfds)
         /\ \A f : EntriesOf(f)' = EntriesOf(f)
         /\ \A q, op, cl : QueueSound(q, op, cl, pfds) => QueueSound(q, op, cl, pfds')
         /\ EntriesDistinct => EntriesDistinct'
<1>1. InUse(pfds') = InUse(pfds)
  BY DEF InUse
<1>2. \A f : EntriesOf(f)' = EntriesOf(f)
  BY DEF EntriesOf
<1>3. ASSUME NEW q, NEW op, NEW cl, QueueSound(q, op, cl, pfds)
      PROVE  QueueSound(q, op, cl, pfds')
  BY <1>3, Zenon DEF QueueSound
<1>4. EntriesDistinct => EntriesDistinct'
  BY Zenon DEF EntriesDistinct
<1> QED
  BY <1>1, <1>2, <1>3, <1>4, Zenon

\* Pushing quiet events.
LEMMA QuietPushKeeps ==
  ASSUME LoopInv, NEW new \in Seq(EventSet),
         \A i \in 1 .. Len(new) : new[i].type \notin {"add", "remove"},
         Push(events, new),
         \A e \in Entries : pfds'[e].fd = pfds[e].fd,
         UNCHANGED <<pollCount, clients, count, open>>
  PROVE  /\ Records'
         /\ events' \in Seq(EventSet)
         /\ Len(events') <= EventCapacity
         /\ dropped' \in BOOLEAN
<1>1. events \in Seq(EventSet) /\ dropped \in BOOLEAN
  BY DEF LoopInv, TypeOK, EventSet
<1>2. /\ events' \in Seq(EventSet)
      /\ Len(events') <= EventCapacity
      /\ dropped' \in BOOLEAN
      /\ ~dropped' => ~dropped /\ events' = events \o new
      /\ \A op, cl, pf :
           QueueSound(events \o new, op, cl, pf) => QueueSound(events', op, cl, pf)
  BY <1>1, Pushed, Zenon
<1>3. /\ InUse(pfds') = InUse(pfds)
      /\ \A f : EntriesOf(f)' = EntriesOf(f)
      /\ \A q, op, cl : QueueSound(q, op, cl, pfds) => QueueSound(q, op, cl, pfds')
      /\ EntriesDistinct => EntriesDistinct'
  BY SameEntries, Zenon
<1>4. QueueSound(events', open', clients', pfds')
  <2>1. QueueSound(events \o new, open, clients, pfds)
    BY <1>1, QuietSound DEF LoopInv, Records
  <2> QED
    BY <1>2, <1>3, <2>1, Zenon
<1>5. ClientsHoldOpenSockets'
  BY DEF LoopInv, Records, ClientsHoldOpenSockets
<1>6. EntriesDistinct' /\ EntriesOpen' /\ EntriesCounted'
  BY <1>3 DEF LoopInv, Records, EntriesOpen, EntriesCounted
<1>7. \A f, t : Queued(t, f) /\ ~dropped' => Queued(t, f)'
  BY <1>1, <1>2, StaysQueued DEF Queued, Event
<1>8. NoSocketForgotten'
  BY <1>2, <1>7, Zenon DEF LoopInv, Records, NoSocketForgotten
<1>9. ClientsArePolled'
  BY <1>2, <1>3, <1>7, Zenon DEF LoopInv, Records, ClientsArePolled
<1> QED
  BY <1>2, <1>4, <1>5, <1>6, <1>8, <1>9 DEF Records

\* Taking a quiet event out, or none.
LEMMA QuietPopKeeps ==
  ASSUME LoopInv,
         \/ events' = events
         \/ /\ events # <<>>
            /\ Head(events).type \notin {"add", "remove"}
            /\ events' = Tail(events),
         UNCHANGED <<pfds, pollCount, clients, count, open, dropped>>
  PROVE  /\ Records'
         /\ events' \in Seq(EventSet)
         /\ Len(events') <= EventCapacity
         /\ ConnectSound(events', backlog, pc)
<1>1. events \in Seq(EventSet) /\ Len(events) <= EventCapacity
  BY DEF LoopInv, TypeOK, EventSet
<1>2. /\ events' \in Seq(EventSet)
      /\ Len(events') <= EventCapacity
      /\ QueueSound(events', open, clients, pfds)
      /\ ConnectSound(events', backlog, pc)
  <2>1. CASE events' = events
    BY <1>1, <2>1 DEF LoopInv, Records
  <2>2. CASE events # <<>> /\ events' = Tail(events)
    <3>1. /\ Tail(events) \in Seq(EventSet)
          /\ Len(Tail(events)) = Len(events) - 1
          /\ QueueSound(Tail(events), open, clients, pfds)
          /\ ConnectSound(Tail(events), backlog, pc)
      BY <1>1, <2>2, TailSound DEF LoopInv, Records
    <3>2. Len(events) - 1 <= EventCapacity
      BY <1>1, SizesAssumption
    <3> QED
      BY <2>2, <3>1, <3>2
  <2> QED
    BY <2>1, <2>2
<1>3. \A f, t : Queued(t, f) /\ t \in {"add", "remove"} => Queued(t, f)'
  <2> SUFFICES ASSUME NEW f, NEW t, Contains(events, Event(t, f)), t \in {"add", "remove"}
               PROVE  Contains(events', Event(t, f))
    BY DEF Queued
  <2>1. Head(events).type \notin {"add", "remove"} => Head(events) # Event(t, f)
    BY DEF Event
  <2> QED
    BY <1>1, <2>1, StaysQueued
<1>4. ClientsHoldOpenSockets' /\ EntriesDistinct' /\ EntriesOpen' /\ EntriesCounted'
  BY DEF LoopInv, Records, ClientsHoldOpenSockets, EntriesDistinct, EntriesOpen, EntriesCounted
<1>5. NoSocketForgotten' /\ ClientsArePolled'
  BY <1>3 DEF LoopInv, Records, NoSocketForgotten, ClientsArePolled, EntriesOf
<1> QED
  BY <1>2, <1>4, <1>5 DEF Records

------------------------------------------------------------------------------
(* A connection begins and ends *)

\* A new socket has a number no queued event names.
LEMMA AddQueued ==
  ASSUME NEW q \in Seq(EventSet), NEW op, NEW cl, NEW pf, NEW f, f \notin op, f # NoFd,
         \A e \in Entries : pf[e].fd \in op \cup {NoFd},
         QueueSound(q, op, cl, pf)
  PROVE  QueueSound(q \o <<Event("add", f)>>, op \cup {f}, cl \cup {f}, pf)
<1> DEFINE r == q \o <<Event("add", f)>>
<1>1. /\ Len(r) = Len(q) + 1
      /\ \A i \in 1 .. Len(q) : r[i] = q[i]
      /\ r[Len(q) + 1].type = "add" /\ r[Len(q) + 1].fd = f
      /\ Len(q) \in Nat
  BY DEF Event
<1> HIDE DEF r
<1>2. \A i \in 1 .. Len(r) : (i \in 1 .. Len(q) /\ r[i] = q[i]) \/ i = Len(q) + 1
  BY <1>1
<1>3. \A i \in 1 .. Len(q) : q[i].type \in {"add", "remove"} => q[i].fd \in op /\ q[i].fd # f
  BY DEF QueueSound
<1>4. \A i \in 1 .. Len(r) : r[i].type \in {"add", "remove"} => r[i].fd \in op \cup {f}
  BY <1>1, <1>2, <1>3
<1>5. \A i \in 1 .. Len(r) : r[i].type = "remove" => r[i].fd \notin cl \cup {f}
  BY <1>1, <1>2, <1>3 DEF QueueSound
<1>6. \A i \in 1 .. Len(r) : r[i].type = "add" => \A e \in Entries : pf[e].fd # r[i].fd
  BY <1>1, <1>2 DEF QueueSound
<1>7. \A i, j \in 1 .. Len(r) :
        i < j /\ r[i].type = "remove" /\ r[j].type \in {"add", "remove"} => r[i].fd # r[j].fd
  BY <1>1, <1>2, <1>3 DEF QueueSound
<1>8. \A i, j \in 1 .. Len(r) :
        i < j /\ r[i].type = "add" /\ r[j].type = "add" => r[i].fd # r[j].fd
  BY <1>1, <1>2, <1>3 DEF QueueSound
<1>9. QueueSound(r, op \cup {f}, cl \cup {f}, pf)
  BY <1>4, <1>5, <1>6, <1>7, <1>8 DEF QueueSound
<1> QED
  BY <1>9 DEF r

\* A client has no event "remove" in the queue until it leaves its slot.
LEMMA RemoveQueued ==
  ASSUME NEW q \in Seq(EventSet), NEW op, NEW cl, NEW pf, NEW f, f \in op, f \in cl,
         QueueSound(q, op, cl, pf)
  PROVE  QueueSound(q \o <<Event("remove", f)>>, op, cl \ {f}, pf)
<1> DEFINE r == q \o <<Event("remove", f)>>
<1>1. /\ Len(r) = Len(q) + 1
      /\ \A i \in 1 .. Len(q) : r[i] = q[i]
      /\ r[Len(q) + 1].type = "remove" /\ r[Len(q) + 1].fd = f
      /\ Len(q) \in Nat
  BY DEF Event
<1> HIDE DEF r
<1>2. \A i \in 1 .. Len(r) : (i \in 1 .. Len(q) /\ r[i] = q[i]) \/ i = Len(q) + 1
  BY <1>1
<1>3. \A i \in 1 .. Len(q) : q[i].type = "remove" => q[i].fd # f
  BY DEF QueueSound
<1>4. \A i \in 1 .. Len(r) : r[i].type \in {"add", "remove"} => r[i].fd \in op
  BY <1>1, <1>2 DEF QueueSound
<1>5. \A i \in 1 .. Len(r) : r[i].type = "remove" => r[i].fd \notin cl \ {f}
  BY <1>1, <1>2 DEF QueueSound
<1>6. \A i \in 1 .. Len(r) : r[i].type = "add" => \A e \in Entries : pf[e].fd # r[i].fd
  BY <1>1, <1>2 DEF QueueSound
<1>7. \A i, j \in 1 .. Len(r) :
        i < j /\ r[i].type = "remove" /\ r[j].type \in {"add", "remove"} => r[i].fd # r[j].fd
  BY <1>1, <1>2, <1>3 DEF QueueSound
<1>8. \A i, j \in 1 .. Len(r) :
        i < j /\ r[i].type = "add" /\ r[j].type = "add" => r[i].fd # r[j].fd
  BY <1>1, <1>2, <1>3 DEF QueueSound
<1>9. QueueSound(r, op, cl \ {f}, pf)
  BY <1>4, <1>5, <1>6, <1>7, <1>8 DEF QueueSound
<1> QED
  BY <1>9 DEF r

\* The handler of "connect" accepts a socket and gives it a slot.
LEMMA AcceptKeeps ==
  ASSUME LoopInv, events # <<>>, Head(events).type \notin {"add", "remove"},
         NEW f \in Fds, f \notin open,
         open' = open \cup {f}, clients' = clients \cup {f}, count' = count + 1,
         Push(Rest, <<Event("add", f)>>),
         UNCHANGED pollSet
  PROVE  /\ Records'
         /\ events' \in Seq(EventSet)
         /\ Len(events') <= EventCapacity
         /\ dropped' \in BOOLEAN
<1> DEFINE new == <<Event("add", f)>>
<1>1. /\ events \in Seq(EventSet) /\ dropped \in BOOLEAN
      /\ clients \subseteq Fds /\ pfds' = pfds /\ pollCount' = pollCount
  BY DEF LoopInv, TypeOK, EventSet, pollSet
<1>2. /\ Rest \in Seq(EventSet)
      /\ QueueSound(Rest, open, clients, pfds)
  BY <1>1, TailSound, Zenon DEF Rest, LoopInv, Records
<1>3. new \in Seq(EventSet)
  BY NoFdIsNoSocket DEF EventSet, Event, EventTypes
<1>4. /\ events' \in Seq(EventSet)
      /\ Len(events') <= EventCapacity
      /\ dropped' \in BOOLEAN
      /\ ~dropped' => ~dropped /\ events' = Rest \o new
      /\ \A op, cl, pf :
           QueueSound(Rest \o new, op, cl, pf) => QueueSound(events', op, cl, pf)
  BY <1>1, <1>2, <1>3, Pushed, Zenon
<1>5. QueueSound(events', open', clients', pfds')
  <2>1. f # NoFd /\ \A e \in Entries : pfds[e].fd \in open \cup {NoFd}
    BY NoFdIsNoSocket DEF LoopInv, Records, EntriesOpen
  <2>2. QueueSound(Rest \o new, open \cup {f}, clients \cup {f}, pfds)
    BY <1>2, <2>1, AddQueued
  <2> QED
    BY <1>1, <1>4, <2>2, Zenon
<1>6. ClientsHoldOpenSockets'
  <2>1. f \notin clients /\ clients \subseteq open /\ count = Cardinality(clients)
    BY DEF LoopInv, Records, ClientsHoldOpenSockets
  <2>2. Cardinality(clients \cup {f}) = Cardinality(clients) + 1
    BY <1>1, <2>1, FdsFinite, FS_AddElement
  <2> QED
    BY <2>1, <2>2 DEF ClientsHoldOpenSockets
<1>7. EntriesDistinct' /\ EntriesOpen' /\ EntriesCounted'
  BY <1>1 DEF LoopInv, Records, EntriesDistinct, EntriesOpen, EntriesCounted
<1>8. \A g, t : t \in {"add", "remove"} /\ Queued(t, g) /\ ~dropped' => Queued(t, g)'
  <2> SUFFICES ASSUME NEW g, NEW t, t \in {"add", "remove"},
                      Contains(events, Event(t, g)), ~dropped'
               PROVE  Contains(events', Event(t, g))
    BY DEF Queued
  <2>1. Head(events) # Event(t, g)
    BY DEF Event
  <2>2. Contains(Rest, Event(t, g))
    BY <1>1, <1>3, <2>1, StaysQueued DEF Rest
  <2>3. Contains(Rest \o new, Event(t, g))
    BY <1>2, <1>3, <2>2, StaysQueued
  <2> QED
    BY <1>4, <2>3
<1>9. ~dropped' => Queued("add", f)'
  <2>1. Len(Rest \o new) \in 1 .. Len(Rest \o new) /\ (Rest \o new)[Len(Rest \o new)] = Event("add", f)
    BY <1>2
  <2> QED
    BY <1>4, <2>1 DEF Queued, Contains
<1>10. NoSocketForgotten'
  BY <1>4, <1>8 DEF LoopInv, Records, NoSocketForgotten
<1>11. ClientsArePolled'
  BY <1>1, <1>4, <1>8, <1>9 DEF LoopInv, Records, ClientsArePolled, EntriesOf
<1> QED
  BY <1>4, <1>5, <1>6, <1>7, <1>10, <1>11 DEF Records

\* remove_client(), on behalf of "disconnect" or of a message QUIT
LEMMA RemoveClientKeeps ==
  ASSUME LoopInv, events # <<>>, Head(events).type \notin {"add", "remove"},
         NEW f \in clients, RemoveClient(f),
         UNCHANGED <<pfds, pollCount, open>>
  PROVE  /\ Records'
         /\ events' \in Seq(EventSet)
         /\ Len(events') <= EventCapacity
         /\ dropped' \in BOOLEAN
<1> DEFINE new == <<Event("remove", f)>>
<1>1. /\ events \in Seq(EventSet) /\ dropped \in BOOLEAN
      /\ clients \subseteq Fds /\ clients \subseteq open /\ f \in Fds
  BY DEF LoopInv, TypeOK, EventSet, Records, ClientsHoldOpenSockets
<1>2. /\ Rest \in Seq(EventSet)
      /\ QueueSound(Rest, open, clients, pfds)
  BY <1>1, TailSound, Zenon DEF Rest, LoopInv, Records
<1>3. new \in Seq(EventSet)
  BY <1>1, NoFdIsNoSocket DEF EventSet, Event, EventTypes
<1>4. Push(Rest, new) /\ clients' = clients \ {f} /\ count' = count - 1
  BY DEF RemoveClient, FreedEvents, Vacated
<1>5. /\ events' \in Seq(EventSet)
      /\ Len(events') <= EventCapacity
      /\ dropped' \in BOOLEAN
      /\ ~dropped' => ~dropped /\ events' = Rest \o new
      /\ \A op, cl, pf :
           QueueSound(Rest \o new, op, cl, pf) => QueueSound(events', op, cl, pf)
  BY <1>1, <1>2, <1>3, <1>4, Pushed, Zenon
<1>6. QueueSound(events', open', clients', pfds')
  <2>1. QueueSound(Rest \o new, open, clients \ {f}, pfds)
    BY <1>1, <1>2, RemoveQueued
  <2> QED
    BY <1>4, <1>5, <2>1, Zenon
<1>7. ClientsHoldOpenSockets'
  <2>1. count = Cardinality(clients)
    BY DEF LoopInv, Records, ClientsHoldOpenSockets
  <2>2. Cardinality(clients \ {f}) = Cardinality(clients) - 1
    BY <1>1, FdsFinite, FS_RemoveElement
  <2> QED
    BY <1>1, <1>4, <2>1, <2>2 DEF ClientsHoldOpenSockets
<1>8. EntriesDistinct' /\ EntriesOpen' /\ EntriesCounted'
  BY DEF LoopInv, Records, EntriesDistinct, EntriesOpen, EntriesCounted
<1>9. \A g, t : t \in {"add", "remove"} /\ Queued(t, g) /\ ~dropped' => Queued(t, g)'
  <2> SUFFICES ASSUME NEW g, NEW t, t \in {"add", "remove"},
                      Contains(events, Event(t, g)), ~dropped'
               PROVE  Contains(events', Event(t, g))
    BY DEF Queued
  <2>1. Head(events) # Event(t, g)
    BY DEF Event
  <2>2. Contains(Rest, Event(t, g))
    BY <1>1, <1>3, <2>1, StaysQueued DEF Rest
  <2>3. Contains(Rest \o new, Event(t, g))
    BY <1>2, <1>3, <2>2, StaysQueued
  <2> QED
    BY <1>5, <2>3
<1>10. ~dropped' => Queued("remove", f)'
  <2>1. Len(Rest \o new) \in 1 .. Len(Rest \o new) /\ (Rest \o new)[Len(Rest \o new)] = Event("remove", f)
    BY <1>2
  <2> QED
    BY <1>5, <2>1 DEF Queued, Contains
<1>11. NoSocketForgotten'
  BY <1>4, <1>5, <1>9, <1>10 DEF LoopInv, Records, NoSocketForgotten
<1>12. ClientsArePolled'
  BY <1>4, <1>5, <1>9 DEF LoopInv, Records, ClientsArePolled, EntriesOf
<1> QED
  BY <1>5, <1>6, <1>7, <1>8, <1>11, <1>12 DEF Records

------------------------------------------------------------------------------
(* The poll set *)

\* With as many entries as there are descriptors besides the pipe and the
\* listening socket, one is free for each socket that has none.
LEMMA RoomInPollSet ==
  ASSUME EntriesDistinct, EntriesOpen, open \subseteq Fds,
         NEW f \in Fds, \A e \in Entries : pfds[e].fd # f,
         Cardinality(Fds) <= Capacity - 2
  PROVE  FreeEntries # {}
<1> SUFFICES ASSUME FreeEntries = {} PROVE FALSE
  OBVIOUS
<1> DEFINE g == [e \in Entries |-> pfds[e].fd]
<1>1. g \in [Entries -> Fds \ {f}]
  BY DEF FreeEntries, EntriesOf, EntriesOpen
<1>2. /\ IsFiniteSet(Fds \ {f})
      /\ Cardinality(Fds \ {f}) = Cardinality(Fds) - 1
  BY FdsFinite, FS_RemoveElement
<1>3. Cardinality(Fds \ {f}) < Cardinality(Entries)
  BY <1>2, EntriesFinite, FdsFinite, SizesAssumption
<1>4. \A x \in Entries : pfds[x].fd # NoFd /\ g[x] = pfds[x].fd
  BY <1>1, NoFdIsNoSocket
<1> HIDE DEF g
<1>5. \E x, y \in Entries : x # y /\ g[x] = g[y]
  <2>1. IsFiniteSet(Entries) /\ IsFiniteSet(Fds \ {f})
    BY <1>2, EntriesFinite
  <2>2. \A S, T : IsFiniteSet(S) /\ IsFiniteSet(T) /\ Cardinality(T) < Cardinality(S) =>
          \A h \in [S -> T] : \E x, y \in S : x # y /\ h[x] = h[y]
    BY FS_PigeonHole, Zenon
  <2>3. \A h \in [Entries -> Fds \ {f}] : \E x, y \in Entries : x # y /\ h[x] = h[y]
    BY <1>3, <2>1, <2>2, Zenon
  <2> QED
    BY <1>1, <2>3
<1> QED
  BY <1>4, <1>5 DEF EntriesDistinct

\* The first event names a socket that no later event adds or removes, except
\* that one to be added may be removed later.
LEMMA FirstNamed ==
  ASSUME NEW q \in Seq(EventSet), q # <<>>, NEW op, NEW cl, NEW pf, QueueSound(q, op, cl, pf)
  PROVE  /\ Head(q).type \in {"add", "remove"} => Head(q).fd \in op
         /\ Head(q).type = "remove" => Head(q).fd \notin cl
         /\ Head(q).type = "add" => \A e \in Entries : pf[e].fd # Head(q).fd
         /\ Head(q).type = "remove" =>
              \A i \in 1 .. Len(Tail(q)) :
                Tail(q)[i].type \in {"add", "remove"} => Tail(q)[i].fd # Head(q).fd
         /\ Head(q).type = "add" =>
              \A i \in 1 .. Len(Tail(q)) : Tail(q)[i].type = "add" => Tail(q)[i].fd # Head(q).fd
<1>1. 1 \in 1 .. Len(q) /\ Head(q) = q[1]
  OBVIOUS
<1>2. \A i \in 1 .. Len(Tail(q)) : i + 1 \in 1 .. Len(q) /\ Tail(q)[i] = q[i + 1] /\ 1 < i + 1
  OBVIOUS
<1> QED
  BY <1>1, <1>2 DEF QueueSound

LEMMA HandleAddKeeps ==
  ASSUME LoopInv, HandleAdd
  PROVE  /\ Records'
         /\ events' \in Seq(EventSet)
         /\ Len(events') <= EventCapacity
         /\ pfds' \in [Entries -> [fd : Fds \cup {NoFd}, revents : Revents]]
<1> DEFINE f == Subject
           m == Min(FreeEntries)
<1>1. /\ events \in Seq(EventSet) /\ Len(events) <= EventCapacity
      /\ events # <<>> /\ Head(events).type = "add" /\ events' = Tail(events)
      /\ open \subseteq Fds /\ clients \subseteq Fds
      /\ pfds \in [Entries -> [fd : Fds \cup {NoFd}, revents : Revents]]
      /\ clients' = clients /\ count' = count /\ open' = open /\ dropped' = dropped
  BY DEF LoopInv, TypeOK, EventSet, HandleAdd, Handling, Rest, table, kernel
<1>2. /\ Tail(events) \in Seq(EventSet)
      /\ Len(Tail(events)) = Len(events) - 1
      /\ QueueSound(Tail(events), open, clients, pfds)
  BY <1>1, TailSound, Zenon DEF LoopInv, Records
<1>3. /\ f \in open /\ f \in Fds /\ f # NoFd
      /\ \A e \in Entries : pfds[e].fd # f
      /\ \A i \in 1 .. Len(Tail(events)) :
           Tail(events)[i].type = "add" => Tail(events)[i].fd # f
  <2>1. QueueSound(events, open, clients, pfds)
    BY DEF LoopInv, Records
  <2> QED
    BY <1>1, <2>1, FirstNamed, NoFdIsNoSocket DEF Subject
<1> HIDE DEF f
<1>4. CASE FreeEntries = {}
  <2>1. pfds' = pfds /\ pollCount' = pollCount
    BY <1>4 DEF HandleAdd, CountWithOneMore
  <2>2. QueueSound(events', open', clients', pfds')
    BY <1>1, <1>2, <2>1
  <2>3. ClientsHoldOpenSockets' /\ EntriesDistinct' /\ EntriesOpen' /\ EntriesCounted'
    BY <1>1, <2>1
       DEF LoopInv, Records, ClientsHoldOpenSockets, EntriesDistinct, EntriesOpen, EntriesCounted
  <2>4. \A g : Queued("remove", g) => Queued("remove", g)'
    BY <1>1, StaysQueued DEF Queued, Event
  <2>5. NoSocketForgotten'
    BY <1>1, <2>4 DEF LoopInv, Records, NoSocketForgotten
  <2>6. ~(Cardinality(Fds) <= Capacity - 2)
    BY <1>1, <1>3, <1>4, RoomInPollSet DEF LoopInv, Records
  <2>7. ClientsArePolled'
    BY <2>6 DEF ClientsArePolled
  <2>8. Len(events') <= EventCapacity
    BY <1>1, <1>2, SizesAssumption
  <2> QED
    BY <1>1, <1>2, <2>1, <2>2, <2>3, <2>5, <2>7, <2>8 DEF Records
<1>5. CASE FreeEntries # {}
  <2>1. m \in FreeEntries
    <3>1. FreeEntries \in SUBSET Nat
      BY EntriesFinite DEF FreeEntries, EntriesOf
    <3> QED
      BY <1>5, <3>1, Least
  <2>2. m \in Entries /\ pfds[m].fd = NoFd
    BY <2>1 DEF FreeEntries, EntriesOf
  <2>3. pfds' = [pfds EXCEPT ![m].fd = f] /\ pollCount' = pollCount + 1
    BY <1>5 DEF HandleAdd, CountWithOneMore, f
  <2> HIDE DEF m
  <2>4. /\ \A e \in Entries : pfds'[e].fd = IF e = m THEN f ELSE pfds[e].fd
        /\ pfds' \in [Entries -> [fd : Fds \cup {NoFd}, revents : Revents]]
    BY <1>1, <1>3, <2>2, <2>3
  <2>5. QueueSound(events', open', clients', pfds')
    <3>1. \A i \in 1 .. Len(Tail(events)) : Tail(events)[i].type = "add" =>
            \A e \in Entries : pfds'[e].fd # Tail(events)[i].fd
      BY <1>2, <1>3, <2>4 DEF QueueSound
    <3>2. QueueSound(Tail(events), open, clients, pfds')
      BY <1>2, <3>1, Zenon DEF QueueSound
    <3> QED
      BY <1>1, <3>2
  <2>6. ClientsHoldOpenSockets'
    BY <1>1 DEF LoopInv, Records, ClientsHoldOpenSockets
  <2>7. EntriesDistinct'
    BY <1>3, <2>4 DEF LoopInv, Records, EntriesDistinct
  <2>8. EntriesOpen'
    BY <1>1, <1>3, <2>4 DEF LoopInv, Records, EntriesOpen
  <2>9. EntriesCounted'
    <3>1. InUse(pfds') = InUse(pfds) \cup {m} /\ m \notin InUse(pfds)
      BY <1>3, <2>2, <2>4 DEF InUse
    <3>2. Cardinality(InUse(pfds')) = Cardinality(InUse(pfds)) + 1
      BY <3>1, InUseFinite, FS_AddElement
    <3>3. Cardinality(InUse(pfds)) \in Nat
      BY InUseFinite, SizesAssumption
    <3> QED
      BY <2>3, <3>2, <3>3 DEF LoopInv, Records, EntriesCounted
  <2>10. \A g, t : Event(t, g) # Event("add", f) /\ Queued(t, g) => Queued(t, g)'
    <3>1. Head(events) = Event("add", f)
      <4>1. Head(events) \in EventSet
        BY <1>1
      <4> QED
        BY <1>1, <4>1 DEF EventSet, Event, Subject, f
    <3> QED
      BY <1>1, <3>1, StaysQueued DEF Queued
  <2>11. NoSocketForgotten'
    <3>1. \A g : Event("remove", g) # Event("add", f)
      BY DEF Event
    <3> QED
      BY <1>1, <2>10, <3>1 DEF LoopInv, Records, NoSocketForgotten
  <2>12. ClientsArePolled'
    <3> SUFFICES ASSUME ~dropped, Cardinality(Fds) <= Capacity - 2, NEW g \in clients
                 PROVE  EntriesOf(g)' # {} \/ Queued("add", g)'
      BY <1>1 DEF ClientsArePolled
    <3>1. CASE g = f
      BY <2>2, <2>4, <3>1 DEF EntriesOf
    <3>2. CASE g # f /\ EntriesOf(g) # {}
      <4>1. g # NoFd
        BY <1>1, NoFdIsNoSocket
      <4> QED
        BY <2>2, <2>4, <3>2, <4>1 DEF EntriesOf
    <3>3. CASE g # f /\ Queued("add", g)
      <4>1. Event("add", g) # Event("add", f)
        BY <3>3 DEF Event
      <4> QED
        BY <2>10, <3>3, <4>1
    <3> QED
      BY <3>1, <3>2, <3>3 DEF LoopInv, Records, ClientsArePolled
  <2>13. Len(events') <= EventCapacity
    BY <1>1, <1>2, SizesAssumption
  <2> QED
    BY <1>1, <1>2, <2>4, <2>5, <2>6, <2>7, <2>8, <2>9, <2>11, <2>12, <2>13 DEF Records
<1> QED
  BY <1>4, <1>5

LEMMA HandleRemoveKeeps ==
  ASSUME LoopInv, HandleRemove
  PROVE  /\ Records'
         /\ events' \in Seq(EventSet)
         /\ Len(events') <= EventCapacity
         /\ pfds' \in [Entries -> [fd : Fds \cup {NoFd}, revents : Revents]]
<1> DEFINE f == Subject
<1>1. /\ events \in Seq(EventSet) /\ Len(events) <= EventCapacity
      /\ events # <<>> /\ Head(events).type = "remove" /\ events' = Tail(events)
      /\ open \subseteq Fds /\ clients \subseteq Fds
      /\ pfds \in [Entries -> [fd : Fds \cup {NoFd}, revents : Revents]]
      /\ clients' = clients /\ count' = count /\ open' = open \ {f} /\ dropped' = dropped
      /\ pfds' = Unset(f) /\ pollCount' = pollCount - Cardinality(EntriesOf(f))
  BY DEF LoopInv, TypeOK, EventSet, HandleRemove, Handling, Rest, table
<1>2. /\ Tail(events) \in Seq(EventSet)
      /\ Len(Tail(events)) = Len(events) - 1
      /\ QueueSound(Tail(events), open, clients, pfds)
  BY <1>1, TailSound, Zenon DEF LoopInv, Records
<1>3. /\ f \in open /\ f \in Fds /\ f # NoFd /\ f \notin clients
      /\ \A i \in 1 .. Len(Tail(events)) :
           Tail(events)[i].type \in {"add", "remove"} => Tail(events)[i].fd # f
  <2>1. QueueSound(events, open, clients, pfds)
    BY DEF LoopInv, Records
  <2> QED
    BY <1>1, <2>1, FirstNamed, NoFdIsNoSocket DEF Subject
<1>4. Head(events) = Event("remove", f)
  <2>1. Head(events) \in EventSet
    BY <1>1
  <2> QED
    BY <1>1, <2>1 DEF EventSet, Event, Subject
<1> HIDE DEF f
<1>5. /\ \A e \in Entries : pfds'[e].fd = IF pfds[e].fd = f THEN NoFd ELSE pfds[e].fd
      /\ pfds' \in [Entries -> [fd : Fds \cup {NoFd}, revents : Revents]]
  BY <1>1 DEF Unset
<1>6. QueueSound(events', open', clients', pfds')
  <2> DEFINE r == Tail(events)
  <2> HIDE DEF r
  <2>1. QueueSound(r, open, clients, pfds) /\ events' = r
    BY <1>1, <1>2 DEF r
  <2>2. \A i \in 1 .. Len(r) : r[i].type \in {"add", "remove"} => r[i].fd \in open'
    BY <1>1, <1>3, <2>1 DEF QueueSound, r
  <2>3. \A i \in 1 .. Len(r) : r[i].type = "add" => \A e \in Entries : pfds'[e].fd # r[i].fd
    <3>1. \A i \in 1 .. Len(r) : r[i].type = "add" => r[i].fd # NoFd
      BY <1>1, <2>1, NoFdIsNoSocket DEF QueueSound
    <3> QED
      BY <1>5, <2>1, <3>1 DEF QueueSound
  <2>4. QueueSound(r, open', clients, pfds')
    BY <2>1, <2>2, <2>3, Zenon DEF QueueSound
  <2>5. clients' = clients
    BY <1>1
  <2> QED
    BY <2>1, <2>4, <2>5, Zenon
<1>7. ClientsHoldOpenSockets'
  BY <1>1, <1>3 DEF LoopInv, Records, ClientsHoldOpenSockets
<1>8. EntriesDistinct'
  BY <1>5 DEF LoopInv, Records, EntriesDistinct
<1>9. EntriesOpen'
  BY <1>1, <1>5 DEF LoopInv, Records, EntriesOpen
<1>10. EntriesCounted'
  <2>1. InUse(pfds') = InUse(pfds) \ EntriesOf(f)
    BY <1>3, <1>5 DEF InUse, EntriesOf
  <2>2. /\ IsFiniteSet(InUse(pfds))
        /\ Cardinality(InUse(pfds)) \in Nat
        /\ pollCount = 2 + Cardinality(InUse(pfds))
    BY InUseFinite, SizesAssumption DEF LoopInv, Records, EntriesCounted
  <2>3. CASE EntriesOf(f) = {}
    <3>1. InUse(pfds') = InUse(pfds) /\ Cardinality(EntriesOf(f)) = 0
      BY <2>1, <2>3, FS_EmptySet
    <3> QED
      BY <1>1, <2>2, <3>1 DEF EntriesCounted
  <2>4. CASE EntriesOf(f) # {}
    <3>1. PICK e \in EntriesOf(f) : TRUE
      BY <2>4
    <3>2. EntriesOf(f) = {e} /\ e \in InUse(pfds)
      BY <1>3, <3>1 DEF EntriesOf, InUse, LoopInv, Records, EntriesDistinct
    <3>3. Cardinality(EntriesOf(f)) = 1
      BY <3>2, FS_Singleton
    <3>4. Cardinality(InUse(pfds')) = Cardinality(InUse(pfds)) - 1
      BY <2>1, <2>2, <3>2, FS_RemoveElement
    <3> QED
      BY <1>1, <2>2, <3>3, <3>4 DEF EntriesCounted
  <2> QED
    BY <2>3, <2>4
<1>11. \A g, t : g # f /\ Queued(t, g) => Queued(t, g)'
  <2> SUFFICES ASSUME NEW g, NEW t, g # f, Contains(events, Event(t, g))
               PROVE  Contains(events', Event(t, g))
    BY DEF Queued
  <2>1. Head(events) # Event(t, g)
    BY <1>4 DEF Event
  <2> QED
    BY <1>1, <2>1, StaysQueued
<1>12. NoSocketForgotten'
  BY <1>1, <1>11 DEF LoopInv, Records, NoSocketForgotten
<1>13. ClientsArePolled'
  <2> SUFFICES ASSUME ~dropped, Cardinality(Fds) <= Capacity - 2, NEW g \in clients
               PROVE  EntriesOf(g)' # {} \/ Queued("add", g)'
    BY <1>1 DEF ClientsArePolled
  <2>1. g # f
    BY <1>3
  <2>2. EntriesOf(g) # {} => EntriesOf(g)' # {}
    BY <1>5, <2>1 DEF EntriesOf
  <2> QED
    BY <1>11, <2>1, <2>2 DEF LoopInv, Records, ClientsArePolled
<1>14. Len(events') <= EventCapacity
  BY <1>1, <1>2, SizesAssumption
<1> QED
  BY <1>1, <1>2, <1>5, <1>6, <1>7, <1>8, <1>9, <1>10, <1>12, <1>13, <1>14 DEF Records
------------------------------------------------------------------------------
(* Connection requests in the queue *)

LEMMA ConnectPushed ==
  ASSUME NEW q \in Seq(EventSet), NEW new \in Seq(EventSet),
         \A i \in 1 .. Len(new) : new[i].type # "connect",
         NEW waiting, NEW stage, ConnectSound(q, waiting, stage)
  PROVE  ConnectSound(q \o new, waiting, stage)
<1> DEFINE r == q \o new
<1>1. \A i \in 1 .. Len(r) : r[i].type = "connect" => i \in 1 .. Len(q) /\ r[i] = q[i]
  <2> SUFFICES ASSUME NEW i \in 1 .. Len(r), r[i].type = "connect"
               PROVE  i \in 1 .. Len(q) /\ r[i] = q[i]
    OBVIOUS
  <2>1. CASE i \in 1 .. Len(q)
    BY <2>1
  <2>2. CASE i \notin 1 .. Len(q)
    <3>1. i - Len(q) \in 1 .. Len(new) /\ r[i] = new[i - Len(q)]
      BY <2>2
    <3> QED
      BY <3>1
  <2> QED
    BY <2>1, <2>2
<1> HIDE DEF r
<1>2. ConnectSound(r, waiting, stage)
  BY <1>1 DEF ConnectSound
<1> QED
  BY <1>2 DEF r

\* A later stage before the queue is empty, with more connections waiting.
LEMMA ConnectLater ==
  ASSUME NEW q, NEW waiting \in Nat, NEW more \in Nat, waiting <= more,
         NEW stage, NEW next \in {"scan", "dispatch"}, ConnectSound(q, waiting, stage)
  PROVE  ConnectSound(q, more, next)
BY DEF ConnectSound

\* No request is in the queue when the server polls or sends.
LEMMA ConnectNone ==
  ASSUME NEW q, NEW waiting, NEW stage \in {"poll", "send"}, ConnectSound(q, waiting, stage)
  PROVE  /\ \A i \in 1 .. Len(q) : q[i].type # "connect"
         /\ \A any, next : ConnectSound(q, any, next)
BY DEF ConnectSound

\* When the request is taken out no other is left.
LEMMA ConnectTaken ==
  ASSUME NEW q \in Seq(EventSet), q # <<>>, Head(q).type = "connect",
         NEW waiting, NEW stage, ConnectSound(q, waiting, stage)
  PROVE  /\ waiting >= 1
         /\ \A any, next : ConnectSound(Tail(q), any, next)
<1>1. 1 \in 1 .. Len(q) /\ Head(q) = q[1]
  OBVIOUS
<1>2. \A i \in 1 .. Len(Tail(q)) : i + 1 \in 1 .. Len(q) /\ Tail(q)[i] = q[i + 1] /\ i + 1 # 1
  OBVIOUS
<1>3. \A i \in 1 .. Len(Tail(q)) : Tail(q)[i].type # "connect"
  BY <1>1, <1>2 DEF ConnectSound
<1> QED
  BY <1>1, <1>3 DEF ConnectSound

\* Pushing events of other types.
LEMMA ConnectKept ==
  ASSUME NEW q \in Seq(EventSet), NEW new \in Seq(EventSet), Push(q, new), dropped \in BOOLEAN,
         \A i \in 1 .. Len(new) : new[i].type # "connect",
         NEW waiting, NEW stage, ConnectSound(q, waiting, stage)
  PROVE  ConnectSound(events', waiting, stage)
<1>1. ConnectSound(q \o new, waiting, stage)
  BY ConnectPushed
<1> QED
  BY <1>1, Pushed, Zenon
------------------------------------------------------------------------------
(* Every step keeps the invariant *)

LEMMA PollCountType ==
  ASSUME EntriesCounted'
  PROVE  pollCount' \in 2 .. Capacity
<1>1. pollCount' = 2 + Cardinality(InUse(pfds'))
  BY DEF EntriesCounted
<1> QED
  BY <1>1, InUseFinite, SizesAssumption

\* Types in the form the steps use them.
LEMMA Types ==
  ASSUME LoopInv
  PROVE  /\ events \in Seq(EventSet) /\ Len(events) <= EventCapacity
         /\ dropped \in BOOLEAN
         /\ pfds \in [Entries -> [fd : Fds \cup {NoFd}, revents : Revents]]
         /\ clients \subseteq open /\ open \subseteq Fds
         /\ count = Cardinality(clients) /\ count \in 0 .. Capacity
         /\ backlog \in Nat
         /\ ConnectSound(events, backlog, pc)
<1>1. backlog \in Nat
  BY SizesAssumption DEF LoopInv, TypeOK
<1> QED
  BY <1>1 DEF LoopInv, TypeOK, EventSet, Records, ClientsHoldOpenSockets

LEMMA PollStep ==
  ASSUME LoopInv, status = "running", Poll
  PROVE  LoopInv'
<1> DEFINE hits == {i \in Watched : Readable(pfds[i].fd)}
           new == InputEvents
<1>1. /\ pc = "poll" /\ ready' = Cardinality(hits) /\ Push(events, new)
      /\ signalled' = FALSE /\ cursor' = ListenFd + 1 /\ pc' = "scan"
      /\ UNCHANGED <<status, pollCount, clients, count, pending, backlog, open, unread, gone>>
  BY DEF Poll, table
<1>2. PICK hungUp \in SUBSET {i \in hits : pfds[i].fd \notin unread} :
        pfds' = [i \in Entries |->
          IF i >= pollCount THEN pfds[i]
          ELSE [pfds[i] EXCEPT !.revents = IF i \in hungUp THEN "err"
                                           ELSE IF i \in hits THEN "in" ELSE "none"]]
  BY DEF Poll
<1>3. /\ \A e \in Entries : pfds'[e].fd = pfds[e].fd
      /\ pfds' \in [Entries -> [fd : Fds \cup {NoFd}, revents : Revents]]
  <2> HIDE DEF hits
  <2> QED
    BY <1>2, Types DEF Revents
<1>4. ready' \in 0 .. Capacity
  <2>1. hits \in SUBSET Entries
    BY DEF Watched
  <2>2. IsFiniteSet(hits) /\ Cardinality(hits) <= Cardinality(Entries)
    BY <2>1, EntriesFinite, FS_Subset
  <2> QED
    BY <1>1, <2>2, EntriesFinite, FS_CardinalityType, SizesAssumption
<1>5. /\ new \in Seq(EventSet)
      /\ \A i \in 1 .. Len(new) : new[i].type \notin {"add", "remove"}
      /\ \A i \in 1 .. Len(new) : new[i].type = "connect" => backlog > 0
      /\ \A i, j \in 1 .. Len(new) : new[i].type = "connect" /\ new[j].type = "connect" => i = j
  <2>1. Event("exit", NoFd) \in EventSet /\ Event("connect", NoFd) \in EventSet
    BY DEF Event, EventSet, EventTypes
  <2> DEFINE a == IF signalled THEN <<Event("exit", NoFd)>> ELSE <<>>
             b == IF backlog > 0 THEN <<Event("connect", NoFd)>> ELSE <<>>
  <2>2. /\ a \in Seq(EventSet)
        /\ \A i \in 1 .. Len(a) : a[i].type = "exit"
    BY <2>1 DEF Event
  <2>3. /\ b \in Seq(EventSet) /\ Len(b) <= 1
        /\ \A i \in 1 .. Len(b) : b[i].type = "connect" /\ backlog > 0
    BY <2>1 DEF Event
  <2>4. new = a \o b
    BY DEF InputEvents
  <2> HIDE DEF a, b, new
  <2>5. new \in Seq(EventSet) /\ Len(new) = Len(a) + Len(b)
    BY <2>2, <2>3, <2>4
  <2>6. \A i \in 1 .. Len(new) :
          \/ new[i].type = "exit"
          \/ new[i].type = "connect" /\ backlog > 0 /\ i = Len(a) + 1
    <3> SUFFICES ASSUME NEW i \in 1 .. Len(new)
                 PROVE  \/ new[i].type = "exit"
                        \/ new[i].type = "connect" /\ backlog > 0 /\ i = Len(a) + 1
      OBVIOUS
    <3>1. CASE i \in 1 .. Len(a)
      <4>1. new[i] = a[i]
        BY <2>2, <2>3, <2>4, <3>1
      <4> QED
        BY <2>2, <3>1, <4>1
    <3>2. CASE i \notin 1 .. Len(a)
      <4>1. i - Len(a) \in 1 .. Len(b) /\ i = Len(a) + 1
        BY <2>2, <2>3, <2>5, <3>2
      <4>2. new[i] = b[i - Len(a)]
        BY <2>2, <2>3, <2>4, <3>2, <4>1
      <4> QED
        BY <2>3, <4>1, <4>2
    <3> QED
      BY <3>1, <3>2
  <2> QED
    BY <2>5, <2>6
<1> HIDE DEF hits, new
<1>6. /\ Records' /\ events' \in Seq(EventSet)
      /\ Len(events') <= EventCapacity /\ dropped' \in BOOLEAN
  BY <1>1, <1>3, <1>5, QuietPushKeeps
<1>7. ConnectSound(events', backlog', pc')
  <2> DEFINE r == events \o new
  <2>1. \A i \in 1 .. Len(events) : events[i].type # "connect"
    BY <1>1, ConnectNone DEF LoopInv
  <2>2. \A i \in 1 .. Len(r) : r[i].type = "connect" =>
          i - Len(events) \in 1 .. Len(new) /\ r[i] = new[i - Len(events)]
    <3> SUFFICES ASSUME NEW i \in 1 .. Len(r), r[i].type = "connect"
                 PROVE  i - Len(events) \in 1 .. Len(new) /\ r[i] = new[i - Len(events)]
      OBVIOUS
    <3>1. CASE i \in 1 .. Len(events)
      BY <1>5, <2>1, <3>1, Types
    <3>2. CASE i \notin 1 .. Len(events)
      BY <1>5, <3>2, Types
    <3> QED
      BY <3>1, <3>2
  <2>3. Len(r) \in Nat /\ Len(events) \in Nat
    BY <1>5, Types
  <2> HIDE DEF r
  <2>4. \A i \in 1 .. Len(r) : r[i].type = "connect" => backlog >= 1
    <3>1. backlog > 0 => backlog >= 1
      BY Types
    <3>2. \A i \in 1 .. Len(r) : r[i].type = "connect" => backlog > 0
      BY <1>5, <2>2, Zenon
    <3> QED
      BY <3>1, <3>2, Zenon
  <2>5. \A i, j \in 1 .. Len(r) : r[i].type = "connect" /\ r[j].type = "connect" => i = j
    <3> SUFFICES ASSUME NEW i \in 1 .. Len(r), NEW j \in 1 .. Len(r),
                        r[i].type = "connect", r[j].type = "connect"
                 PROVE  i = j
      OBVIOUS
    <3>1. i - Len(events) = j - Len(events)
      BY <1>5, <2>2
    <3> QED
      BY <2>3, <3>1
  <2>6. ConnectSound(r, backlog, "scan")
    BY <2>4, <2>5 DEF ConnectSound
  <2> QED
    BY <1>1, <1>5, <2>6, Pushed, Types, Zenon DEF r
<1>8. pollCount' \in 2 .. Capacity
  BY <1>6, PollCountType DEF Records
<1>9. TypeOK'
  <2>1. cursor' \in Nat /\ signalled' \in BOOLEAN
    <3>1. cursor' \in Nat
      BY <1>1, SizesAssumption
    <3> QED
      BY <1>1, <3>1, Zenon
  <2> QED
    BY <1>1, <1>3, <1>4, <1>6, <1>8, <2>1, Zenon DEF LoopInv, TypeOK, EventSet
<1>10. cursor' > ListenFd'
  BY <1>1, SizesAssumption
<1> QED
  BY <1>6, <1>7, <1>9, <1>10 DEF LoopInv

\* Pushing events about data or the end of a connection.
LEMMA PushKeeps ==
  ASSUME LoopInv, NEW new \in Seq(EventSet),
         \A i \in 1 .. Len(new) : new[i].type \in {"msg", "disconnect"},
         Push(events, new), UNCHANGED <<pfds, pollCount, clients, count, open>>
  PROVE  /\ Records'
         /\ events' \in Seq(EventSet)
         /\ Len(events') <= EventCapacity
         /\ dropped' \in BOOLEAN
         /\ ConnectSound(events', backlog, pc)
<1>1. /\ \A i \in 1 .. Len(new) : new[i].type \notin {"add", "remove"}
      /\ \A i \in 1 .. Len(new) : new[i].type # "connect"
  OBVIOUS
<1>2. \A e \in Entries : pfds'[e].fd = pfds[e].fd
  OBVIOUS
<1>3. ConnectSound(events', backlog, pc)
  BY <1>1, ConnectKept, Types
<1> QED
  BY <1>1, <1>2, <1>3, QuietPushKeeps

LEMMA AdvanceType ==
  ASSUME LoopInv, Scanning, NEW found \in {0, 1}, Advance(found)
  PROVE  /\ cursor' \in Nat /\ cursor' > ListenFd
         /\ ready' \in 0 .. Capacity
         /\ UNCHANGED <<pc, pfds, pollCount, clients, count, pending, backlog, signalled, open, gone>>
         /\ cursor \in Numbers
<1>1. /\ cursor \in Nat /\ cursor > ListenFd /\ ready \in 0 .. Capacity
      /\ ready > 0 /\ cursor < Capacity
      /\ cursor' = cursor + 1 /\ ready' = ready - found
      /\ UNCHANGED <<pc, pfds, pollCount, clients, count, pending, backlog, signalled, open, gone>>
  BY DEF LoopInv, TypeOK, Scanning, Advance, pollSet, table
<1> QED
  BY <1>1, SizesAssumption DEF Numbers

\* A step of the scan that pushes events and reads a socket, or does not.
LEMMA ScanStep ==
  ASSUME LoopInv, Scanning, NEW found \in {0, 1}, Advance(found), UNCHANGED status,
         unread' \in {unread, unread \ {cursor}}, NEW new \in Seq(EventSet),
         \A i \in 1 .. Len(new) : new[i].type \in {"msg", "disconnect"},
         Push(events, new)
  PROVE  LoopInv'
<1>1. /\ cursor' \in Nat /\ cursor' > ListenFd
      /\ ready' \in 0 .. Capacity
      /\ UNCHANGED <<pc, pfds, pollCount, clients, count, pending, backlog, signalled, open, gone>>
  BY AdvanceType
<1>2. /\ Records' /\ events' \in Seq(EventSet)
      /\ Len(events') <= EventCapacity /\ dropped' \in BOOLEAN
      /\ ConnectSound(events', backlog, pc)
  BY <1>1, PushKeeps
<1>3. unread' \subseteq open'
  BY <1>1 DEF LoopInv, TypeOK
<1>4. TypeOK'
  BY <1>1, <1>2, <1>3, Zenon DEF LoopInv, TypeOK, EventSet
<1> QED
  BY <1>1, <1>2, <1>4, Zenon DEF LoopInv

\* Steps after which everything but the outcome is as before.
LEMMA OutcomeStep ==
  ASSUME LoopInv, status' \in {"running", "exited", "undefined"},
         UNCHANGED <<pc, scan, pollSet, table, queues, kernel>>
  PROVE  LoopInv'
<1>1. UNCHANGED <<pc, ready, cursor, pfds, pollCount, clients, count, events, dropped,
                  pending, backlog, signalled, open, unread, gone>>
  BY DEF scan, pollSet, table, queues, kernel
<1>2. Records' /\ ConnectSound(events', backlog', pc')
  BY <1>1, QuietPopKeeps
<1>3. TypeOK'
  BY <1>1, Zenon DEF LoopInv, TypeOK
<1> QED
  BY <1>1, <1>2, <1>3 DEF LoopInv

LEMMA ReadDataStep ==
  ASSUME LoopInv, status = "running", ReadData
  PROVE  LoopInv'
<1>1. CASE Undefined
  BY <1>1, OutcomeStep DEF Undefined
<1>2. CASE cursor \in clients
  <2>1. PICK k \in 0 .. MaxMessages :
          /\ Push(events, [i \in 1 .. k |-> Event("msg", cursor)])
          /\ unread' = unread \ {cursor}
          /\ Advance(1)
          /\ UNCHANGED status
    BY <1>2 DEF ReadData
  <2> DEFINE new == [i \in 1 .. k |-> Event("msg", cursor)]
  <2>2. Scanning /\ cursor \in Numbers
    BY <2>1, AdvanceType DEF ReadData
  <2>3. /\ new \in Seq(EventSet)
        /\ \A i \in 1 .. Len(new) : new[i].type \in {"msg", "disconnect"}
    <3>1. k \in Nat
      BY SizesAssumption
    <3>2. Event("msg", cursor) \in EventSet
      BY <2>2 DEF Event, EventSet, EventTypes
    <3> QED
      BY <3>1, <3>2 DEF Event
  <2> HIDE DEF new
  <2> QED
    BY <2>1, <2>2, <2>3, ScanStep DEF new
<1> QED
  BY <1>1, <1>2 DEF ReadData

LEMMA DisconnectFound ==
  ASSUME LoopInv, status = "running", ReadEnd \/ FindError
  PROVE  LoopInv'
<1> DEFINE new == <<Event("disconnect", cursor)>>
<1>1. Scanning /\ Advance(1) /\ Push(events, new) /\ UNCHANGED <<status, unread>>
  BY DEF ReadEnd, FindError
<1>2. /\ new \in Seq(EventSet)
      /\ \A i \in 1 .. Len(new) : new[i].type \in {"msg", "disconnect"}
  <2>1. Event("disconnect", cursor) \in EventSet
    BY <1>1, AdvanceType DEF Event, EventSet, EventTypes
  <2> QED
    BY <2>1 DEF Event
<1> HIDE DEF new
<1> QED
  BY <1>1, <1>2, ScanStep

LEMMA FindNothingStep ==
  ASSUME LoopInv, status = "running", FindNothing
  PROVE  LoopInv'
<1>1. Scanning /\ Advance(0) /\ UNCHANGED <<status, events, dropped, unread>>
  BY DEF FindNothing
<1>2. /\ cursor' \in Nat /\ cursor' > ListenFd
      /\ ready' \in 0 .. Capacity
      /\ UNCHANGED <<pc, pfds, pollCount, clients, count, pending, backlog, signalled, open, gone>>
  BY <1>1, AdvanceType
<1>3. Records' /\ ConnectSound(events', backlog, pc)
  BY <1>1, <1>2, QuietPopKeeps
<1>4. TypeOK'
  BY <1>1, <1>2, Zenon DEF LoopInv, TypeOK
<1> QED
  BY <1>2, <1>3, <1>4, Zenon DEF LoopInv

LEMMA SignalInReadStep ==
  ASSUME LoopInv, status = "running", SignalInRead
  PROVE  LoopInv'
<1>1. /\ UNCHANGED <<status, pc, pfds, pollCount, clients, count, events, dropped, pending,
                     backlog, open, unread, gone>>
      /\ signalled' \in BOOLEAN
      /\ Scanning /\ cursor' = cursor + 1 /\ ready' = ready - 1
  BY DEF SignalInRead, StuckInRead, pollSet, table, queues
<1>2. cursor' \in Nat /\ cursor' > ListenFd /\ ready' \in 0 .. Capacity
  <2>1. /\ cursor \in Nat /\ cursor > ListenFd /\ ready \in 0 .. Capacity
        /\ ready > 0
    BY <1>1 DEF LoopInv, TypeOK, Scanning
  <2> QED
    BY <1>1, <2>1, SizesAssumption
<1>3. Records' /\ ConnectSound(events', backlog', pc')
  BY <1>1, QuietPopKeeps
<1>4. TypeOK'
  BY <1>1, <1>2, Zenon DEF LoopInv, TypeOK
<1> QED
  BY <1>2, <1>3, <1>4, Zenon DEF LoopInv

LEMMA EndOfStage ==
  ASSUME LoopInv, status = "running", EndScan \/ EndDispatch
  PROVE  LoopInv'
<1>1. UNCHANGED <<status, ready, cursor, pfds, pollCount, clients, count, events, dropped,
                  pending, backlog, signalled, open, unread, gone>>
  BY DEF EndScan, EndDispatch, scan, pollSet, table, queues, kernel
<1>2. Records'
  BY <1>1, QuietPopKeeps
<1>3. ConnectSound(events', backlog', pc')
  <2>1. CASE EndScan
    <3>1. pc' \in {"scan", "dispatch"}
      BY <2>1 DEF EndScan
    <3>2. backlog <= backlog /\ backlog \in Nat /\ ConnectSound(events, backlog, pc)
      BY Types
    <3>3. ConnectSound(events, backlog, pc')
      BY <3>1, <3>2, ConnectLater
    <3> QED
      BY <1>1, <3>3, Zenon
  <2>2. CASE EndDispatch
    BY <1>1, <2>2 DEF EndDispatch, ConnectSound
  <2> QED
    BY <2>1, <2>2
<1>4. pc' \in {"poll", "scan", "dispatch", "send"}
  BY DEF EndScan, EndDispatch
<1>5. TypeOK'
  BY <1>1, <1>4, Zenon DEF LoopInv, TypeOK
<1> QED
  BY <1>1, <1>2, <1>3, <1>5, Zenon DEF LoopInv

LEMMA HandleConnectStep ==
  ASSUME LoopInv, status = "running", HandleConnect
  PROVE  LoopInv'
<1>1. /\ events # <<>> /\ Head(events).type = "connect"
      /\ UNCHANGED <<pc, ready, cursor, pfds, pollCount, pending, signalled, unread, gone>>
  BY DEF HandleConnect, Handling, scan, pollSet
<1>2. CASE IsServerFull
  <2>1. events' = Tail(events) /\ UNCHANGED <<status, clients, count, dropped, backlog, open>>
    BY <1>2 DEF HandleConnect, Rest, table
  <2>2. /\ Records' /\ events' \in Seq(EventSet) /\ Len(events') <= EventCapacity
        /\ ConnectSound(events', backlog, pc)
    BY <1>1, <2>1, QuietPopKeeps
  <2>3. TypeOK'
    BY <1>1, <2>1, <2>2, Zenon DEF LoopInv, TypeOK, EventSet
  <2> QED
    BY <1>1, <2>1, <2>2, <2>3, Zenon DEF LoopInv
<1>3. CASE ~IsServerFull /\ Fds \subseteq open
  <2>1. status' = "exited" /\ UNCHANGED <<clients, count, events, dropped, backlog, open>>
    BY <1>3 DEF HandleConnect, table
  <2>2. status' \in {"running", "exited", "undefined"}
    BY <2>1
  <2>3. UNCHANGED <<pc, scan, pollSet, table, queues, kernel>>
    BY <1>1, <2>1 DEF scan, pollSet, table, queues, kernel
  <2> QED
    BY <2>2, <2>3, OutcomeStep
<1>4. CASE ~IsServerFull /\ ~(Fds \subseteq open)
  <2> DEFINE f == Min(Fds \ open)
  <2>1. f \in Fds \ open
    BY <1>4, NoFdIsNoSocket, Least
  <2>2. /\ open' = open \cup {f} /\ backlog' = backlog - 1
        /\ clients' = clients \cup {f} /\ count' = count + 1
        /\ Push(Rest, <<Event("add", f)>>) /\ UNCHANGED status
    BY <1>4 DEF HandleConnect
  <2> HIDE DEF f
  <2>3. /\ Records' /\ events' \in Seq(EventSet)
        /\ Len(events') <= EventCapacity /\ dropped' \in BOOLEAN
    <3>1. Head(events).type \notin {"add", "remove"} /\ UNCHANGED pollSet
      BY <1>1 DEF pollSet
    <3> QED
      BY <1>1, <2>1, <2>2, <3>1, AcceptKeeps
  <2>4. /\ backlog >= 1
        /\ ConnectSound(Rest, backlog - 1, pc)
    BY <1>1, ConnectTaken, Types DEF Rest
  <2>5. ConnectSound(events', backlog', pc')
    <3>1. Rest \in Seq(EventSet) /\ <<Event("add", f)>> \in Seq(EventSet)
      BY <1>1, <2>1, Types, NoFdIsNoSocket DEF Rest, Event, EventSet, EventTypes
    <3>2. \A i \in 1 .. Len(<<Event("add", f)>>) : <<Event("add", f)>>[i].type # "connect"
      BY DEF Event
    <3> QED
      BY <1>1, <2>2, <2>4, <3>1, <3>2, ConnectKept, Types
  <2>6. count' \in 0 .. Capacity
    BY <1>4, <2>2, Types, SizesAssumption DEF IsServerFull
  <2>7. backlog' \in 0 .. MaxBacklog
    BY <2>2, <2>4, SizesAssumption DEF LoopInv, TypeOK
  <2>8. /\ clients' \subseteq Fds /\ open' \subseteq Fds
        /\ unread' \subseteq open' /\ gone' \subseteq open'
    BY <1>1, <2>1, <2>2 DEF LoopInv, TypeOK
  <2>9. TypeOK'
    BY <1>1, <2>2, <2>3, <2>6, <2>7, <2>8, Zenon DEF LoopInv, TypeOK, EventSet
  <2> QED
    BY <1>1, <2>3, <2>5, <2>9, Zenon DEF LoopInv
<1> QED
  BY <1>2, <1>3, <1>4

LEMMA HandleAddStep ==
  ASSUME LoopInv, status = "running", HandleAdd
  PROVE  LoopInv'
<1>1. /\ events # <<>> /\ events' = Tail(events)
      /\ UNCHANGED <<status, pc, ready, cursor, clients, count, dropped, pending,
                     backlog, signalled, open, unread, gone>>
  BY DEF HandleAdd, Handling, Rest, scan, table, kernel
<1>2. /\ Records' /\ events' \in Seq(EventSet) /\ Len(events') <= EventCapacity
      /\ pfds' \in [Entries -> [fd : Fds \cup {NoFd}, revents : Revents]]
  BY HandleAddKeeps
<1>3. ConnectSound(events', backlog', pc')
  BY <1>1, TailSound, Types
<1>4. pollCount' \in 2 .. Capacity
  BY <1>2, PollCountType DEF Records
<1>5. TypeOK'
  BY <1>1, <1>2, <1>4, Zenon DEF LoopInv, TypeOK, EventSet
<1> QED
  BY <1>1, <1>2, <1>3, <1>5, Zenon DEF LoopInv

LEMMA HandleRemoveStep ==
  ASSUME LoopInv, status = "running", HandleRemove
  PROVE  LoopInv'
<1>1. /\ events # <<>> /\ events' = Tail(events)
      /\ open' = open \ {Subject} /\ unread' = unread \ {Subject} /\ gone' = gone \ {Subject}
      /\ UNCHANGED <<status, pc, ready, cursor, clients, count, dropped, pending, backlog, signalled>>
  BY DEF HandleRemove, Handling, Rest, scan, table
<1>2. /\ Records' /\ events' \in Seq(EventSet) /\ Len(events') <= EventCapacity
      /\ pfds' \in [Entries -> [fd : Fds \cup {NoFd}, revents : Revents]]
  BY HandleRemoveKeeps
<1>3. ConnectSound(events', backlog', pc')
  BY <1>1, TailSound, Types
<1>4. pollCount' \in 2 .. Capacity
  BY <1>2, PollCountType DEF Records
<1>5. open' \subseteq Fds /\ unread' \subseteq open' /\ gone' \subseteq open'
  BY <1>1 DEF LoopInv, TypeOK
<1>6. TypeOK'
  BY <1>1, <1>2, <1>4, <1>5, Zenon DEF LoopInv, TypeOK, EventSet
<1> QED
  BY <1>1, <1>2, <1>3, <1>6, Zenon DEF LoopInv

\* A client that leaves, for its QUIT or because its connection ended.
LEMMA LeaveStep ==
  ASSUME LoopInv, events # <<>>, Head(events).type \notin {"add", "remove"},
         NEW f \in clients, RemoveClient(f), pending' \subseteq Fds,
         UNCHANGED <<status, pc, scan, pollSet, kernel>>
  PROVE  LoopInv'
<1>1. /\ UNCHANGED <<status, pc, ready, cursor, pfds, pollCount,
                     backlog, signalled, open, unread, gone>>
      /\ clients' = clients \ {f} /\ count' = count - 1
      /\ Push(Rest, <<Event("remove", f)>>)
  BY DEF scan, pollSet, kernel, RemoveClient, Vacated, FreedEvents
<1>2. /\ Records' /\ events' \in Seq(EventSet)
      /\ Len(events') <= EventCapacity /\ dropped' \in BOOLEAN
  BY <1>1, RemoveClientKeeps
<1>3. ConnectSound(events', backlog', pc')
  <2>1. f \in Fds
    BY DEF LoopInv, TypeOK
  <2>2. Rest \in Seq(EventSet) /\ <<Event("remove", f)>> \in Seq(EventSet)
    BY <2>1, Types, NoFdIsNoSocket DEF Rest, Event, EventSet, EventTypes
  <2>3. \A i \in 1 .. Len(<<Event("remove", f)>>) : <<Event("remove", f)>>[i].type # "connect"
    BY DEF Event
  <2>4. ConnectSound(Rest, backlog, pc)
    BY TailSound, Types DEF Rest
  <2>5. ConnectSound(events', backlog, pc)
    BY <1>1, <2>2, <2>3, <2>4, ConnectKept, Types
  <2> QED
    BY <1>1, <2>5, Zenon
<1>4. count' \in 0 .. Capacity
  <2>1. IsFiniteSet(clients) /\ clients # {}
    BY FdsFinite DEF LoopInv, TypeOK
  <2>2. count # 0
    BY <2>1, Types, FS_EmptySet
  <2> QED
    BY <1>1, <2>2, Types, SizesAssumption
<1>5. clients' \subseteq Fds
  BY <1>1 DEF LoopInv, TypeOK
<1>6. TypeOK'
  BY <1>1, <1>2, <1>4, <1>5, Zenon DEF LoopInv, TypeOK, EventSet
<1> QED
  BY <1>1, <1>2, <1>3, <1>6, Zenon DEF LoopInv

LEMMA HandleMessageStep ==
  ASSUME LoopInv, status = "running", HandleMessage
  PROVE  LoopInv'
<1>1. CASE Undefined
  BY <1>1, OutcomeStep DEF Undefined
<1>2. CASE Subject \in clients
  <2>1. /\ events # <<>> /\ Head(events).type \notin {"add", "remove"}
        /\ events' = Tail(events)
        /\ UNCHANGED <<status, pc, ready, cursor, pfds, pollCount, clients, count, dropped,
                       backlog, signalled, open, unread, gone>>
    BY <1>2 DEF HandleMessage, Handling, Rest, scan, pollSet, table, kernel
  <2>2. PICK to \in SUBSET clients : pending' = pending \cup to
    BY <1>2 DEF HandleMessage
  <2>3. /\ Records' /\ events' \in Seq(EventSet) /\ Len(events') <= EventCapacity
        /\ ConnectSound(events', backlog, pc)
    BY <2>1, QuietPopKeeps
  <2>4. pending' \subseteq Fds
    BY <2>2 DEF LoopInv, TypeOK
  <2>5. TypeOK'
    BY <2>1, <2>3, <2>4, Zenon DEF LoopInv, TypeOK, EventSet
  <2> QED
    BY <2>1, <2>3, <2>5, Zenon DEF LoopInv
<1> QED
  BY <1>1, <1>2 DEF HandleMessage

LEMMA ClientLeaves ==
  ASSUME LoopInv, status = "running", HandleQuit \/ HandleDisconnect
  PROVE  LoopInv'
<1>1. CASE Undefined
  BY <1>1, OutcomeStep DEF Undefined
<1>2. CASE ~Undefined
  <2>1. /\ events # <<>> /\ Head(events).type \notin {"add", "remove"}
        /\ Subject \in clients /\ RemoveClient(Subject)
        /\ UNCHANGED <<status, pc, scan, pollSet, kernel>>
    BY <1>2 DEF HandleQuit, HandleDisconnect, Handling
  <2>2. PICK to \in SUBSET (clients \ {Subject}), kept \in SUBSET {Subject} :
          pending' = (pending \ {Subject}) \cup to \cup (kept \cap pending)
    BY <1>2 DEF HandleQuit, HandleDisconnect
  <2>3. pending' \subseteq Fds
    BY <2>2 DEF LoopInv, TypeOK
  <2> QED
    BY <2>1, <2>3, LeaveStep
<1> QED
  BY <1>1, <1>2

LEMMA HandleExitStep ==
  ASSUME LoopInv, status = "running", HandleExit \/ HandlerFails
  PROVE  LoopInv'
<1>1. status' \in {"running", "exited", "undefined"}
  BY DEF HandleExit, HandlerFails
<1> QED
  BY <1>1, OutcomeStep DEF HandleExit, HandlerFails

LEMMA SendStep ==
  ASSUME LoopInv, status = "running", Send
  PROVE  LoopInv'
<1>1. /\ pc = "send" /\ pending' = {} /\ pc' = "poll"
      /\ UNCHANGED <<status, ready, cursor, pfds, pollCount, clients, count,
                     backlog, signalled, open, unread, gone>>
  BY DEF Send, scan, pollSet, table, kernel
<1>2. PICK lost \in SUBSET (pending \cap gone) :
      \E order \in Failing((pending \ open) \cup lost) :
        Push(events, [i \in DOMAIN order |-> Event("disconnect", order[i])])
  BY DEF Send
<1> DEFINE T == (pending \ open) \cup lost
<1>3. PICK order \in Failing(T) :
        Push(events, [i \in DOMAIN order |-> Event("disconnect", order[i])])
  BY <1>2
<1>4. T \in SUBSET Fds
  BY DEF LoopInv, TypeOK
<1> HIDE DEF T
<1> DEFINE new == [i \in DOMAIN order |-> Event("disconnect", order[i])]
<1>5. PICK n \in Nat : DOMAIN order = 1 .. n /\ \A i \in DOMAIN order : order[i] \in T
  <2>1. PICK n \in 0 .. MaxMessages * Cardinality(T) : order \in [1 .. n -> T]
    BY Zenon DEF Failing, SeqOf
  <2>2. n \in Nat
    BY <2>1
  <2> QED
    BY <2>1, <2>2
<1>6. /\ new \in Seq(EventSet)
      /\ \A i \in 1 .. Len(new) : new[i].type \in {"msg", "disconnect"}
  <2>1. \A i \in DOMAIN order : Event("disconnect", order[i]) \in EventSet
    BY <1>4, <1>5, NoFdIsNoSocket DEF Event, EventSet, EventTypes
  <2> QED
    BY <1>5, <2>1 DEF Event
<1>7. Push(events, new)
  BY <1>3
<1> HIDE DEF new
<1>8. /\ Records' /\ events' \in Seq(EventSet)
      /\ Len(events') <= EventCapacity /\ dropped' \in BOOLEAN
      /\ ConnectSound(events', backlog, pc)
  BY <1>1, <1>6, <1>7, PushKeeps
<1>9. ConnectSound(events', backlog', pc')
  BY <1>1, <1>8, ConnectNone
<1>10. pending' \subseteq Fds /\ pc' \in {"poll", "scan", "dispatch", "send"}
  BY <1>1
<1>11. TypeOK'
  BY <1>1, <1>8, <1>10, Zenon DEF LoopInv, TypeOK, EventSet
<1> QED
  BY <1>1, <1>8, <1>9, <1>11, Zenon DEF LoopInv

LEMMA EnvironmentStep ==
  ASSUME LoopInv, status = "running", Environment
  PROVE  LoopInv'
<1>1. UNCHANGED <<status, pc, ready, cursor, pfds, pollCount, clients, count, events, dropped, pending>>
  BY DEF Environment, scan, pollSet, table, queues
<1>2. open' = open
  BY DEF Environment, PeerConnects, PeerSends, PeerCloses, Signal
<1>3. backlog' \in 0 .. MaxBacklog /\ backlog <= backlog'
  <2>1. \/ backlog' = backlog
        \/ backlog' = backlog + 1 /\ backlog < MaxBacklog
    BY DEF Environment, PeerConnects, PeerSends, PeerCloses, Signal
  <2> QED
    BY <2>1, SizesAssumption DEF LoopInv, TypeOK
<1>4. signalled' \in BOOLEAN
  <2>1. signalled' = signalled \/ signalled' = TRUE
    BY Zenon DEF Environment, PeerConnects, PeerSends, PeerCloses, Signal
  <2> QED
    BY <2>1, Zenon DEF LoopInv, TypeOK
<1>5. unread' \subseteq open' /\ gone' \subseteq open'
  BY DEF Environment, PeerConnects, PeerSends, PeerCloses, Signal, LoopInv, TypeOK
<1>6. Records'
  BY <1>1, <1>2, QuietPopKeeps
<1>7. ConnectSound(events', backlog', pc')
  <2>1. ConnectSound(events, backlog, pc) /\ backlog \in Nat /\ backlog' \in Nat
    BY <1>3, Types, SizesAssumption
  <2>2. ConnectSound(events, backlog', pc)
    BY <1>3, <2>1 DEF ConnectSound
  <2> QED
    BY <1>1, <2>2, Zenon
<1>8. TypeOK'
  BY <1>1, <1>2, <1>3, <1>4, <1>5, Zenon DEF LoopInv, TypeOK
<1> QED
  BY <1>1, <1>6, <1>7, <1>8, Zenon DEF LoopInv

------------------------------------------------------------------------------
(* The theorems *)

LEMMA InitLoopInv == Init => LoopInv
<1> SUFFICES ASSUME Init PROVE LoopInv
  OBVIOUS
<1>1. /\ status = "running" /\ pc = "poll" /\ ready = 0 /\ cursor = ListenFd + 1
      /\ pfds = [i \in Entries |-> [fd |-> NoFd, revents |-> "garbage"]]
      /\ pollCount = 2 /\ clients = {} /\ count = 0 /\ events = <<>>
      /\ pending = {} /\ backlog = 0 /\ open = {} /\ unread = {} /\ gone = {}
  BY DEF Init
<1>2. dropped \in BOOLEAN /\ signalled \in BOOLEAN
  BY Zenon DEF Init
<1>3. TypeOK
  <2>1. /\ ready \in 0 .. Capacity /\ cursor \in Nat /\ pollCount \in 2 .. Capacity
        /\ count \in 0 .. Capacity /\ backlog \in 0 .. MaxBacklog
    BY <1>1, SizesAssumption
  <2>2. pfds \in [Entries -> [fd : Fds \cup {NoFd}, revents : Revents]]
    BY <1>1 DEF Revents
  <2>3. /\ events \in Seq([type : EventTypes, fd : Numbers \cup {NoFd}])
        /\ Len(events) <= EventCapacity
    BY <1>1, SizesAssumption
  <2>4. /\ status \in {"running", "exited", "undefined"}
        /\ pc \in {"poll", "scan", "dispatch", "send"}
        /\ clients \subseteq Fds /\ pending \subseteq Fds /\ open \subseteq Fds
        /\ unread \subseteq open /\ gone \subseteq open
    BY <1>1
  <2> QED
    BY <1>2, <2>1, <2>2, <2>3, <2>4, Zenon DEF TypeOK
<1>4. /\ EntriesDistinct /\ EntriesOpen /\ NoSocketForgotten /\ ClientsArePolled
      /\ QueueSound(events, open, clients, pfds) /\ ConnectSound(events, backlog, pc)
  BY <1>1 DEF EntriesDistinct, EntriesOpen, NoSocketForgotten, ClientsArePolled,
              QueueSound, ConnectSound
<1>5. ClientsHoldOpenSockets /\ EntriesCounted
  <2>1. clients = {} /\ InUse(pfds) = {}
    BY <1>1 DEF InUse
  <2> QED
    BY <1>1, <2>1, FS_EmptySet DEF ClientsHoldOpenSockets, EntriesCounted
<1>6. cursor > ListenFd
  BY <1>1, SizesAssumption
<1> QED
  BY <1>3, <1>4, <1>5, <1>6 DEF LoopInv, Records

\* Every step of the server, of a peer and of the operator keeps the invariant.
LEMMA NextLoopInv == LoopInv /\ [Next]_vars => LoopInv'
<1> SUFFICES ASSUME LoopInv, [Next]_vars PROVE LoopInv'
  OBVIOUS
<1>1. CASE UNCHANGED vars
  <2>1. status' \in {"running", "exited", "undefined"}
    BY <1>1 DEF vars, LoopInv, TypeOK
  <2> QED
    BY <1>1, <2>1, OutcomeStep DEF vars
<1>2. CASE status = "running" /\ Server
  <2>1. CASE Poll
    BY <1>2, <2>1, PollStep
  <2>2. CASE ReadData
    BY <1>2, <2>2, ReadDataStep
  <2>3. CASE ReadEnd \/ FindError
    BY <1>2, <2>3, DisconnectFound
  <2>4. CASE FindNothing
    BY <1>2, <2>4, FindNothingStep
  <2>5. CASE EndScan \/ EndDispatch
    BY <1>2, <2>5, EndOfStage
  <2>6. CASE HandleConnect
    BY <1>2, <2>6, HandleConnectStep
  <2>7. CASE HandleAdd
    BY <1>2, <2>7, HandleAddStep
  <2>8. CASE HandleRemove
    BY <1>2, <2>8, HandleRemoveStep
  <2>9. CASE HandleMessage
    BY <1>2, <2>9, HandleMessageStep
  <2>10. CASE HandleQuit \/ HandleDisconnect
    BY <1>2, <2>10, ClientLeaves
  <2>11. CASE HandleExit \/ HandlerFails
    BY <1>2, <2>11, HandleExitStep
  <2>12. CASE Send
    BY <1>2, <2>12, SendStep
  <2> QED
    BY <1>2, <2>1, <2>2, <2>3, <2>4, <2>5, <2>6, <2>7, <2>8, <2>9, <2>10, <2>11, <2>12
       DEF Server
<1>3. CASE status = "running" /\ Environment
  BY <1>3, EnvironmentStep
<1>4. CASE status = "running" /\ SignalInRead
  BY <1>4, SignalInReadStep
<1> QED
  BY <1>1, <1>2, <1>3, <1>4 DEF Next

LEMMA LoopInvariant == Spec => []LoopInv
BY InitLoopInv, NextLoopInv, PTL DEF Spec

\* The types of the loop's state hold for every size of its tables and queues:
\* the counters of clients and of poll entries stay within their arrays.
THEOREM TypeCorrect == Spec => []TypeOK
<1>1. LoopInv => TypeOK
  BY DEF LoopInv
<1> QED
  BY <1>1, LoopInvariant, PTL

\* The socket of a client is never closed while the client has its slot, and
\* the counter of clients is the number of occupied slots, although slot and
\* socket are given up by two events of their own.
THEOREM ClientsKeepSockets == Spec => []ClientsHoldOpenSockets
<1>1. LoopInv => ClientsHoldOpenSockets
  BY DEF LoopInv, Records
<1> QED
  BY <1>1, LoopInvariant, PTL

\* The poll set holds no descriptor twice and none that is closed, and counts
\* its entries right, even when the event queue lost events.
THEOREM PollSetStaysSound == Spec => []PollSetSound
<1>1. LoopInv => PollSetSound
  <2> SUFFICES ASSUME LoopInv PROVE PollSetSound
    OBVIOUS
  <2>1. \A f \in Fds : Cardinality(EntriesOf(f)) <= 1
    <3> SUFFICES ASSUME NEW f \in Fds PROVE Cardinality(EntriesOf(f)) <= 1
      OBVIOUS
    <3>1. CASE EntriesOf(f) = {}
      BY <3>1, FS_EmptySet
    <3>2. CASE EntriesOf(f) # {}
      <4>1. PICK e \in EntriesOf(f) : TRUE
        BY <3>2
      <4>2. EntriesOf(f) = {e}
        BY <4>1, NoFdIsNoSocket DEF EntriesOf, LoopInv, Records, EntriesDistinct
      <4>3. Cardinality({e}) = 1
        BY FS_Singleton
      <4> QED
        BY <4>2, <4>3
    <3> QED
      BY <3>1, <3>2
  <2> QED
    BY <2>1 DEF PollSetSound, LoopInv, Records, EntriesOpen, EntriesCounted, InUse
<1> QED
  BY <1>1, LoopInvariant, PTL

\* As long as the event queue has not overflowed, an open socket belongs to a
\* client or has its closing queued: none leaks.
THEOREM SocketsAreRemembered == Spec => []NoSocketForgotten
<1>1. LoopInv => NoSocketForgotten
  BY DEF LoopInv, Records
<1> QED
  BY <1>1, LoopInvariant, PTL

\* As long as the event queue has not overflowed, and with room for every
\* descriptor, a client is in the poll set or about to be.
THEOREM ClientsArePolledAlways == Spec => []ClientsArePolled
<1>1. LoopInv => ClientsArePolled
  BY DEF LoopInv, Records
<1> QED
  BY <1>1, LoopInvariant, PTL
===============================================================================
