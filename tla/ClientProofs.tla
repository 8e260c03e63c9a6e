------------------------------ MODULE ClientProofs ------------------------------
(***************************************************************************)
(* Proofs about the client: about ClientSession for every size of the      *)
(* queues, every number of sockets and every server, and about LineEditor  *)
(* for every alphabet, every length of a line and every size of the        *)
(* history.                                                                *)
(***************************************************************************)
EXTENDS ClientSession, LineEditor, FiniteSetTheorems, SequenceTheorems,
        WellFoundedInduction, TLAPS

------------------------------------------------------------------------------
(* The session of the client: the inductive invariant *)

\* At most one line of the user is in the event queue, there is room for the
\* connection it may ask for, and what it queues finds the queue empty.
KeyAt(i) == i \in DOMAIN events /\ events[i].kind = "KEY"
OneLineAtATime ==
  /\ \A i, j \in DOMAIN events : KeyAt(i) /\ KeyAt(j) => i = j
  /\ \A i \in DOMAIN events :
       KeyAt(i) => /\ phase # "poll"
                   /\ msgQueue = << >>
                   /\ events[i].line = "CONNECT" => Fds \ Open # {}
  /\ phase \in {"poll", "socket"} => msgQueue = << >>

\* So the queue holds what one line has put there.
OneLineQueued ==
  msgQueue \in {<< >>, <<"NICK", "USER">>} \cup {<<msg>> : msg \in Messages}

\* What the server has still to read from a connection, and will.
Pending(f) == IF f = fd THEN conn[f].wire \o msgQueue ELSE conn[f].wire

\* A refused step of the registration is never made up for: USER is under way
\* at most once, right behind the NICK that it needs or without one.
Registering(c, p) ==
  /\ c.refused => c.peer \in {"CONNECTED", "START_REGISTRATION"}
  /\ \A j \in DOMAIN p : p[j] = "USER" =>
       \/ c.peer = "CONNECTED" /\ ~c.refused /\ j = 2 /\ p[1] = "NICK"
       \/ c.peer = "CONNECTED" /\ j = 1
       \/ c.peer = "START_REGISTRATION" /\ ~c.refused /\ j = 1
RegistrationsOnce == \A f \in Live : Registering(conn[f], Pending(f))

\* How far the server is behind a client in session: by what is under way.
Behind(s, c, p) ==
  /\ s = "CONNECTED" => c.peer = "CONNECTED" /\ ~c.refused /\ p = << >>
  /\ s = "START_REGISTRATION" =>
       \/ c.peer = "CONNECTED" /\ ~c.refused /\ p = <<"NICK">>
       \/ c.peer = "CONNECTED" /\ (c.refused \/ c.lost) /\ p = << >>
       \/ c.peer = "START_REGISTRATION" /\ ~c.refused /\ p = << >>
  /\ s \in {"REGISTERED", "IN_CHANNEL"} /\ ~c.refused /\ ~c.lost =>
       \/ c.peer = "CONNECTED" /\ Len(p) >= 2 /\ p[1] = "NICK" /\ p[2] = "USER"
       \/ c.peer = "START_REGISTRATION" /\ Len(p) >= 1 /\ p[1] = "USER"
       \/ c.peer = "REGISTERED"
       \/ c.peer = "IN_CHANNEL" /\ s = "IN_CHANNEL"
  /\ s # "IN_CHANNEL" => c.peer # "IN_CHANNEL"
  /\ \A j \in DOMAIN p : p[j] = "JOIN" => s = "IN_CHANNEL"
ServerBehind == InSession => Behind(state, conn[fd], Pending(fd))

SessionInv ==
  /\ OneLineQueued
  /\ RegistrationsOnce
  /\ ServerBehind
  /\ QuitFirst

Inv ==
  /\ TypeOK
  /\ Cardinality(polled) <= SocketEntries
  /\ OneLineAtATime
  /\ SessionInv

------------------------------------------------------------------------------
(* Numbers, sets and sequences *)

\* The sizes are numbers.
LEMMA Bounds ==
  /\ EventCapacity \in Nat \ {0} /\ MaxMessages \in Nat /\ MaxMessages >= 2
  /\ MaxFd \in Nat \ {0} /\ MaxWire \in Nat \ {0} /\ MaxReplies \in Nat
  BY BoundsAssumption

\* A set of numbers has a least one.
LEMMA LeastNumber ==
  ASSUME NEW S \in SUBSET Nat, S # {}
  PROVE  Min(S) \in S /\ \A y \in S : Min(S) <= y
<1>1. IsWellFoundedOn(OpToRel(<, Nat), Nat)
  BY NatLessThanWellFounded, Zenon
<1>2. PICK x \in S : \A y \in S : ~(<<y, x>> \in OpToRel(<, Nat))
  BY <1>1, WFMin, Zenon
<1>3. \A y \in S : ~(y < x)
  BY <1>2 DEF OpToRel
<1>4. \A y \in S : x <= y
  BY <1>3
<1>5. QED
  BY <1>4, Zenon DEF Min

\* A free descriptor is found when there is one.
LEMMA FreeFd ==
  ASSUME Fds \ Open # {}
  PROVE  LowestFree \in Fds /\ LowestFree \notin Open
<1>1. Fds \ Open \in SUBSET Nat
  BY Bounds DEF Fds
<1>2. Min(Fds \ Open) \in Fds \ Open
  BY <1>1, LeastNumber
<1>3. QED
  BY <1>2 DEF LowestFree

\* All places of a sequence in order, or none of them.
LEMMA AllItems ==
  ASSUME NEW S, NEW q \in Seq(S), Len(q) \in 1 .. 2
  PROVE  ItemsAt(q, 1 .. Len(q)) = q /\ Cardinality(1 .. Len(q)) = Len(q)
<1> DEFINE n == Len(q)
           IsOrder(c) == \A i, j \in 1 .. n : i < j => c[i] < c[j]
<1>0. n \in Int /\ 1 \in Int
  OBVIOUS
<1>1. Cardinality(1 .. n) = n
  <2>1. Cardinality(1 .. n) = IF 1 > n THEN 0 ELSE n - 1 + 1
    BY <1>0, FS_Interval, Zenon
  <2>2. QED
    BY <1>0, <2>1
<1>2. [i \in 1 .. n |-> i] \in [1 .. n -> 1 .. n] /\ IsOrder([i \in 1 .. n |-> i])
  OBVIOUS
<1>3. Ascending(1 .. n) = CHOOSE c \in [1 .. n -> 1 .. n] : IsOrder(c)
  BY <1>1 DEF Ascending
<1> DEFINE order == Ascending(1 .. n)
<1>4. order \in [1 .. n -> 1 .. n] /\ IsOrder(order)
  <2> HIDE DEF IsOrder
  <2>1. QED
    BY <1>2, <1>3, Zenon
<1> HIDE DEF order
<1>5. \A i \in 1 .. n : order[i] = i
  <2>1. CASE n = 1
    BY <1>4, <2>1
  <2>2. CASE n = 2
    <3>1. order[1] \in 1 .. 2 /\ order[2] \in 1 .. 2 /\ order[1] < order[2]
      BY <1>4, <2>2
    <3>2. QED
      BY <2>2, <3>1
  <2>3. QED
    BY <2>1, <2>2
<1>6. ItemsAt(q, 1 .. n) = [i \in 1 .. n |-> q[order[i]]]
  BY <1>1 DEF ItemsAt, order
<1>7. [i \in 1 .. n |-> q[order[i]]] = [i \in 1 .. n |-> q[i]]
  BY <1>5
<1>8. QED
  BY <1>1, <1>6, <1>7

LEMMA NoItems ==
  ASSUME NEW q
  PROVE  ItemsAt(q, {}) = << >> /\ Cardinality({}) = 0
<1>1. Cardinality({}) = 0
  BY FS_EmptySet
<1>2. QED
  BY <1>1 DEF ItemsAt

LEMMA OneItem ==
  ASSUME NEW q, NEW n \in Nat
  PROVE  ItemsAt(q, {n}) = <<q[n]>> /\ Cardinality({n}) = 1
<1> DEFINE IsOrder(c) == \A i, j \in 1 .. 1 : i < j => c[i] < c[j]
<1>1. Cardinality({n}) = 1
  BY FS_Singleton
<1>2. [i \in 1 .. 1 |-> n] \in [1 .. 1 -> {n}] /\ IsOrder([i \in 1 .. 1 |-> n])
  OBVIOUS
<1>3. Ascending({n}) = CHOOSE c \in [1 .. 1 -> {n}] : IsOrder(c)
  BY <1>1 DEF Ascending
<1> DEFINE order == Ascending({n})
<1>4. order \in [1 .. 1 -> {n}]
  <2> HIDE DEF IsOrder
  <2>1. QED
    BY <1>2, <1>3, Zenon
<1> HIDE DEF order
<1>5. order[1] = n
  BY <1>4
<1>6. ItemsAt(q, {n}) = [i \in 1 .. 1 |-> q[order[i]]]
  BY <1>1 DEF ItemsAt, order
<1>7. [i \in 1 .. 1 |-> q[order[i]]] = <<q[n]>>
  BY <1>5
<1>8. QED
  BY <1>1, <1>6, <1>7

\* A push keeps a last part of what was there and of what is added.
PartOf(r, all) == \E d \in Nat : \A k \in DOMAIN r : k + d \in DOMAIN all /\ r[k] = all[k + d]
LEMMA PushedPart ==
  ASSUME NEW S, NEW q \in Seq(S), NEW items \in Seq(S), NEW size \in Nat \ {0}
  PROVE  /\ Pushed(q, items, size) \in Seq(S)
         /\ Len(Pushed(q, items, size)) <= size
         /\ Len(q \o items) <= size => Pushed(q, items, size) = q \o items
         /\ PartOf(Pushed(q, items, size), q \o items)
<1> DEFINE all == q \o items
           n == Len(all)
<1>1. all \in Seq(S) /\ n \in Nat
  BY ConcatProperties
<1> HIDE DEF all
<1>2. CASE n <= size
  <2>1. Pushed(q, items, size) = all
    BY <1>2 DEF Pushed, all
  <2>2. \A k \in DOMAIN all : k + 0 \in DOMAIN all /\ all[k] = all[k + 0]
    BY <1>1
  <2>3. PartOf(all, all)
    BY <2>2 DEF PartOf
  <2>4. QED
    BY <1>1, <1>2, <2>1, <2>3 DEF all
<1>3. CASE ~(n <= size)
  <2> DEFINE r == SubSeq(all, n - size + 1, n)
  <2>1. Pushed(q, items, size) = r
    BY <1>3 DEF Pushed, all
  <2>2. r \in Seq(S) /\ Len(r) = size
    BY <1>1, <1>3, SMTT(30)
  <2>3. \A k \in 1 .. size : r[k] = all[k + (n - size)]
    BY <1>1, <1>3, SMTT(30)
  <2>4. DOMAIN r = 1 .. size /\ DOMAIN all = 1 .. n
    BY <1>1, <2>2
  <2> HIDE DEF r
  <2>5. \A k \in DOMAIN r : k + (n - size) \in DOMAIN all /\ r[k] = all[k + (n - size)]
    BY <1>1, <1>3, <2>3, <2>4
  <2>6. n - size \in Nat
    BY <1>1, <1>3
  <2>7. PartOf(r, all)
    BY <2>5, <2>6 DEF PartOf
  <2>8. /\ Pushed(q, items, size) \in Seq(S)
        /\ Len(Pushed(q, items, size)) <= size
        /\ PartOf(Pushed(q, items, size), all)
    BY <2>1, <2>2, <2>7
  <2>9. ~(Len(q \o items) <= size)
    BY <1>3 DEF all
  <2>10. QED
    BY <2>8, <2>9, Zenon DEF all
<1>4. QED
  BY <1>1, <1>2, <1>3

------------------------------------------------------------------------------
(* Lines of the user in the event queue *)

IsKey(event) == event.kind = "KEY"
NoKeys(q) == \A i \in DOMAIN q : ~IsKey(q[i])
OneKey(q) == \A i, j \in DOMAIN q : IsKey(q[i]) /\ IsKey(q[j]) => i = j
KeysOf(r, q) == \A k \in DOMAIN r : IsKey(r[k]) => \E i \in DOMAIN q : r[k] = q[i]

\* Other events bring no line, and the lines that stay are those that were there.
LEMMA PushWithoutKeys ==
  ASSUME NEW q \in Seq(Events), NEW items \in Seq(Events), NoKeys(items),
         NEW r, r = Pushed(q, items, EventCapacity)
  PROVE  /\ r \in Seq(Events) /\ Len(r) <= EventCapacity
         /\ OneKey(q) => OneKey(r)
         /\ KeysOf(r, q)
         /\ NoKeys(q) => NoKeys(r)
<1> DEFINE all == q \o items
<1>1. /\ r \in Seq(Events) /\ Len(r) <= EventCapacity
      /\ PartOf(r, all)
  BY PushedPart, Bounds, Zenon
<1>2. PICK d \in Nat : \A k \in DOMAIN r : k + d \in DOMAIN all /\ r[k] = all[k + d]
  BY <1>1 DEF PartOf
<1>3. \A i \in DOMAIN all : IsKey(all[i]) => i \in DOMAIN q /\ all[i] = q[i]
  <2> SUFFICES ASSUME NEW i \in DOMAIN all, IsKey(all[i])
               PROVE  i \in DOMAIN q /\ all[i] = q[i]
    OBVIOUS
  <2>1. /\ DOMAIN all = 1 .. Len(q) + Len(items) /\ DOMAIN q = 1 .. Len(q)
        /\ DOMAIN items = 1 .. Len(items) /\ Len(q) \in Nat /\ Len(items) \in Nat
        /\ all[i] = IF i <= Len(q) THEN q[i] ELSE items[i - Len(q)]
    BY ConcatProperties
  <2>2. i > Len(q) => i - Len(q) \in DOMAIN items
    BY <2>1
  <2>3. ~(i > Len(q))
    BY <2>1, <2>2 DEF NoKeys
  <2>4. QED
    BY <2>1, <2>3
<1> HIDE DEF all
<1>4. DOMAIN r \subseteq Nat
  BY <1>1
<1>5. OneKey(q) => OneKey(r)
  <2> SUFFICES ASSUME OneKey(q), NEW i \in DOMAIN r, NEW j \in DOMAIN r,
                      IsKey(r[i]), IsKey(r[j])
               PROVE  i = j
    BY DEF OneKey
  <2>1. i + d = j + d
    BY <1>2, <1>3 DEF OneKey
  <2>2. QED
    BY <1>4, <2>1
<1>6. KeysOf(r, q)
  BY <1>2, <1>3 DEF KeysOf
<1>7. NoKeys(q) => NoKeys(r)
  BY <1>6 DEF NoKeys, KeysOf
<1>8. QED
  BY <1>1, <1>5, <1>6, <1>7

\* What the handlers add to the event queue.
LEMMA EventItems ==
  ASSUME NEW f \in Fds \cup {Unassigned}
  PROVE  /\ \A kind \in {"CD", "MSG", "PC", "TIMER", "EXIT"} :
              Ev(kind) \in Events /\ ~IsKey(Ev(kind))
         /\ Disconnecting(f) \in Seq(Events) /\ NoKeys(Disconnecting(f))
         /\ Len(Disconnecting(f)) = 2
<1>1. \A kind \in {"CD", "MSG", "PC", "TIMER", "EXIT"} : Ev(kind) \in Events /\ ~IsKey(Ev(kind))
  BY DEF Ev, Events, IsKey
<1>2. [kind |-> "RM", fd |-> f] \in Events /\ ~IsKey([kind |-> "RM", fd |-> f])
  BY DEF Events, IsKey
<1>3. QED
  BY <1>1, <1>2 DEF Disconnecting, NoKeys

\* The event queue without its first event.
LEMMA WithoutHead ==
  ASSUME NEW q \in Seq(Events), q # << >>, OneKey(q)
  PROVE  /\ Tail(q) \in Seq(Events) /\ Head(q) \in Events /\ Head(q) = q[1] /\ 1 \in DOMAIN q
         /\ OneKey(Tail(q)) /\ KeysOf(Tail(q), q)
         /\ IsKey(Head(q)) => NoKeys(Tail(q))
<1>1. /\ Tail(q) \in Seq(Events) /\ Head(q) \in Events /\ Head(q) = q[1] /\ 1 \in DOMAIN q
      /\ \A k \in DOMAIN Tail(q) : k \in Nat /\ k >= 1 /\ k + 1 \in DOMAIN q /\ Tail(q)[k] = q[k + 1]
  OBVIOUS
<1>2. OneKey(Tail(q))
  <2> SUFFICES ASSUME NEW i \in DOMAIN Tail(q), NEW j \in DOMAIN Tail(q),
                      IsKey(Tail(q)[i]), IsKey(Tail(q)[j])
               PROVE  i = j
    BY DEF OneKey
  <2>1. i + 1 = j + 1
    BY <1>1 DEF OneKey
  <2>2. QED
    BY <1>1, <2>1
<1>3. KeysOf(Tail(q), q)
  BY <1>1 DEF KeysOf
<1>4. ASSUME IsKey(Head(q)), NEW k \in DOMAIN Tail(q), IsKey(Tail(q)[k])
      PROVE  FALSE
  <2>1. k + 1 = 1
    BY <1>1, <1>4 DEF OneKey
  <2>2. QED
    BY <1>1, <2>1
<1>5. QED
  BY <1>1, <1>2, <1>3, <1>4 DEF NoKeys

\* The event queue after a step that brings no line.
EventsKept ==
  events' \in Seq(Events) /\ Len(events') <= EventCapacity /\ OneKey(events') /\ KeysOf(events', events)

LEMMA AddedEvents ==
  ASSUME TypeOK, OneLineAtATime, NEW items \in Seq(Events), NoKeys(items),
         events' = Pushed(events, items, EventCapacity)
  PROVE  EventsKept
<1>1. OneKey(events)
  BY DEF OneLineAtATime, KeyAt, OneKey, IsKey
<1>2. QED
  BY <1>1, PushWithoutKeys DEF TypeOK, EventsKept

LEMMA LaterEvents ==
  ASSUME TypeOK, OneLineAtATime, events # << >>, NEW items \in Seq(Events), NoKeys(items),
         NEW r, r = Pushed(Tail(events), items, EventCapacity)
  PROVE  /\ r \in Seq(Events) /\ Len(r) <= EventCapacity /\ OneKey(r) /\ KeysOf(r, events)
         /\ IsKey(Head(events)) => NoKeys(r)
<1>1. OneKey(events)
  BY DEF OneLineAtATime, KeyAt, OneKey, IsKey
<1>2. events \in Seq(Events)
  BY DEF TypeOK
<1>3. /\ Tail(events) \in Seq(Events) /\ OneKey(Tail(events)) /\ KeysOf(Tail(events), events)
      /\ IsKey(Head(events)) => NoKeys(Tail(events))
  BY <1>1, <1>2, WithoutHead
<1>4. /\ r \in Seq(Events) /\ Len(r) <= EventCapacity /\ OneKey(r)
      /\ KeysOf(r, Tail(events))
      /\ NoKeys(Tail(events)) => NoKeys(r)
  BY <1>3, PushWithoutKeys
<1>5. KeysOf(r, events)
  <2> SUFFICES ASSUME NEW k \in DOMAIN r, IsKey(r[k])
               PROVE  \E i \in DOMAIN events : r[k] = events[i]
    BY DEF KeysOf
  <2>1. PICK j \in DOMAIN Tail(events) : r[k] = Tail(events)[j]
    BY <1>4, Zenon DEF KeysOf
  <2>2. IsKey(Tail(events)[j])
    BY <2>1, Zenon
  <2>3. PICK i \in DOMAIN events : Tail(events)[j] = events[i]
    BY <1>3, <2>2, Zenon DEF KeysOf
  <2>4. QED
    BY <2>1, <2>3, Zenon
<1>6. QED
  BY <1>3, <1>4, <1>5

\* A line is handled before the iteration ends, and until then nothing that a
\* step does takes away what the line relies on.
LEMMA LinesKept ==
  ASSUME OneLineAtATime, EventsKept,
         phase' \in {"poll", "socket"} => msgQueue' = << >>,
         \/ NoKeys(events')
         \/ /\ phase' # "poll" /\ msgQueue' \in {<< >>, msgQueue}
            /\ Fds \ Open # {} => Fds \ Open' # {}
  PROVE  OneLineAtATime'
<1>1. \A i, j \in DOMAIN events' : KeyAt(i)' /\ KeyAt(j)' => i = j
  BY DEF EventsKept, OneKey, KeyAt, IsKey
<1>2. ASSUME NEW k \in DOMAIN events', KeyAt(k)'
      PROVE  /\ phase' # "poll" /\ msgQueue' = << >>
             /\ events'[k].line = "CONNECT" => Fds \ Open' # {}
  <2>1. IsKey(events'[k])
    BY <1>2 DEF KeyAt, IsKey
  <2>2. PICK i \in DOMAIN events : events'[k] = events[i]
    BY <2>1 DEF EventsKept, KeysOf
  <2>3. KeyAt(i)
    BY <2>1, <2>2 DEF KeyAt, IsKey
  <2>4. /\ msgQueue = << >>
        /\ events[i].line = "CONNECT" => Fds \ Open # {}
    BY <2>3 DEF OneLineAtATime
  <2>5. ~NoKeys(events')
    BY <2>1 DEF NoKeys
  <2>6. QED
    BY <2>2, <2>4, <2>5
<1>3. QED
  BY <1>1, <1>2, Zenon DEF OneLineAtATime

\* Items that bring no lines, in a row.
LEMMA NoKeysConcat ==
  ASSUME NEW p \in Seq(Events), NEW q \in Seq(Events), NoKeys(p), NoKeys(q)
  PROVE  p \o q \in Seq(Events) /\ NoKeys(p \o q)
<1> DEFINE all == p \o q
<1>1. /\ all \in Seq(Events) /\ Len(p) \in Nat /\ Len(q) \in Nat /\ Len(all) = Len(p) + Len(q)
      /\ \A i \in 1 .. Len(all) : all[i] = IF i <= Len(p) THEN p[i] ELSE q[i - Len(p)]
  BY ConcatProperties
<1> HIDE DEF all
<1>2. \A i \in DOMAIN all : IF i <= Len(p) THEN i \in DOMAIN p ELSE i - Len(p) \in DOMAIN q
  BY <1>1
<1>3. NoKeys(all)
  BY <1>1, <1>2 DEF NoKeys
<1>4. QED
  BY <1>1, <1>3 DEF all

------------------------------------------------------------------------------
(* Sending *)

\* The messages that are written, of the first k.
Written(k) == {i \in 1 .. k : NotEmpty(msgQueue[i])}

\* What is written and what fails can be counted.
LEMMA WrittenCount ==
  ASSUME TypeOK, NEW k \in Successes
  PROVE  /\ k \in 0 .. Len(msgQueue)
         /\ Len(msgQueue) - Cardinality(Written(k)) \in Nat
<1>1. Len(msgQueue) \in Nat
  BY DEF TypeOK
<1>2. k \in 0 .. Len(msgQueue)
  BY <1>1 DEF Successes
<1>3. IsFiniteSet(1 .. Len(msgQueue)) /\ Cardinality(1 .. Len(msgQueue)) = Len(msgQueue)
  <2>1. 1 \in Int /\ Len(msgQueue) \in Int
    BY <1>1
  <2>2. /\ IsFiniteSet(1 .. Len(msgQueue))
        /\ Cardinality(1 .. Len(msgQueue)) = IF 1 > Len(msgQueue) THEN 0 ELSE Len(msgQueue) - 1 + 1
    BY <2>1, FS_Interval, Zenon
  <2>3. QED
    BY <1>1, <2>2
<1>4. Written(k) \subseteq 1 .. Len(msgQueue)
  BY <1>1, <1>2 DEF Written
<1>5. IsFiniteSet(Written(k)) /\ Cardinality(Written(k)) <= Cardinality(1 .. Len(msgQueue))
  BY <1>3, <1>4, FS_Subset, Zenon
<1>6. Cardinality(Written(k)) \in Nat
  BY <1>5, FS_CardinalityType, Zenon
<1>7. QED
  BY <1>1, <1>2, <1>3, <1>5, <1>6

\* What the server gets of the queue: an empty message is alone in it and fails,
\* a queue without one is sent whole, or less of it when writes are interrupted.
SentOf(sent, failed, lost) ==
  /\ failed <=> msgQueue = <<"EMPTY">>
  /\ \/ sent = msgQueue /\ ~failed /\ ~lost
     \/ sent = << >> /\ (failed \/ lost)
     \/ msgQueue = <<"NICK", "USER">> /\ sent \in {<<"NICK">>, <<"USER">>} /\ lost

LEMMA WrittenItems ==
  ASSUME TypeOK, OneLineQueued, NEW gone \in SUBSET Written(Len(msgQueue))
  PROVE  LET written == Written(Len(msgQueue))
         IN /\ Len(msgQueue) - Cardinality(written) > 0 <=> msgQueue = <<"EMPTY">>
            /\ ItemsAt(msgQueue, written \ gone) \in Seq(Messages)
            /\ SentOf(ItemsAt(msgQueue, written \ gone), msgQueue = <<"EMPTY">>, gone # {})
<1> DEFINE written == Written(Len(msgQueue))
<1>1. msgQueue \in Seq(Messages) /\ << >> \in Seq(Messages)
  BY DEF TypeOK
<1>2. CASE msgQueue \in {<< >>, <<"EMPTY">>}
  <2>1. \A i \in 1 .. Len(msgQueue) : msgQueue[i] = "EMPTY"
    BY <1>2
  <2>2. written = {} /\ gone = {} /\ written \ gone = {}
    BY <2>1 DEF Written, NotEmpty
  <2>3. ItemsAt(msgQueue, written \ gone) = << >> /\ Cardinality(written) = 0
    BY <2>2, NoItems
  <2>4. Len(msgQueue) - Cardinality(written) > 0 <=> msgQueue = <<"EMPTY">>
    BY <1>2, <2>3
  <2>5. SentOf(<< >>, msgQueue = <<"EMPTY">>, gone # {})
    BY <1>2, <2>2 DEF SentOf
  <2>6. QED
    BY <1>1, <2>3, <2>4, <2>5
<1>3. CASE msgQueue \notin {<< >>, <<"EMPTY">>}
  <2>1. written = 1 .. Len(msgQueue) /\ Len(msgQueue) \in 1 .. 2
    <3>1. Len(msgQueue) \in 1 .. 2
      BY <1>3 DEF OneLineQueued
    <3>2. \A i \in 1 .. Len(msgQueue) : NotEmpty(msgQueue[i])
      BY <1>3 DEF NotEmpty, OneLineQueued
    <3>3. QED
      BY <3>1, <3>2 DEF Written
  <2>2. ItemsAt(msgQueue, 1 .. Len(msgQueue)) = msgQueue /\ Cardinality(written) = Len(msgQueue)
    BY <1>1, <2>1, AllItems
  <2>3. ~(Len(msgQueue) - Len(msgQueue) > 0)
    BY <2>1
  <2> DEFINE sent == ItemsAt(msgQueue, written \ gone)
  <2>4. CASE gone = {}
    <3>1. written \ gone = 1 .. Len(msgQueue)
      BY <2>1, <2>4
    <3>2. sent = msgQueue
      BY <2>2, <3>1
    <3>3. QED
      BY <1>1, <1>3, <2>2, <2>3, <2>4, <3>2 DEF SentOf
  <2>5. CASE gone # {} /\ gone = written
    <3>1. written \ gone = {}
      BY <2>5
    <3>2. sent = << >>
      BY <3>1, NoItems
    <3>3. QED
      BY <1>1, <1>3, <2>2, <2>3, <2>5, <3>2 DEF SentOf
  <2>6. CASE gone # {} /\ gone # written
    <3>0. PICK n \in written, m \in gone : n \notin gone
      BY <2>6
    <3> HIDE DEF written
    <3>1. written \ gone = {n} /\ Len(msgQueue) = 2 /\ n \in {1, 2}
      <4>1. m \in 1 .. Len(msgQueue) /\ n \in 1 .. Len(msgQueue) /\ m # n
        BY <2>1, <3>0 DEF written
      <4>0. \A l \in 1 .. 2 : \A a, b \in 1 .. l : a # b => l = 2 /\ b \in {1, 2}
        OBVIOUS
      <4>2. Len(msgQueue) = 2 /\ n \in {1, 2}
        BY <2>1, <4>0, <4>1, Zenon
      <4>3. \A i \in written : i = m \/ i = n
        BY <2>1, <4>1, <4>2
      <4>4. written \ gone = {n}
        BY <3>0, <4>3
      <4>5. QED
        BY <4>2, <4>4
    <3>2. sent = <<msgQueue[n]>>
      BY <3>1, OneItem
    <3>3. msgQueue = <<"NICK", "USER">>
      BY <1>3, <3>1 DEF OneLineQueued
    <3>4. sent \in {<<"NICK">>, <<"USER">>}
      <4>1. msgQueue[n] \in {"NICK", "USER"}
        BY <3>1, <3>3
      <4>2. QED
        BY <3>2, <4>1
    <3>5. sent \in Seq(Messages)
      <4>1. <<"NICK">> \in Seq(Messages) /\ <<"USER">> \in Seq(Messages)
        BY DEF Messages
      <4>2. QED
        BY <3>4, <4>1, Zenon
    <3>6. QED
      BY <1>3, <2>2, <2>3, <2>6, <3>3, <3>4, <3>5 DEF SentOf, written
  <2>7. QED
    BY <2>4, <2>5, <2>6
<1>4. QED
  BY <1>2, <1>3

\* Sending to a server that is there.
FlushesTo(sent, failed, lost) ==
  /\ conn' \in [Open -> Connections]
  /\ \A f \in Open \ {fd} : conn'[f] = conn[f]
  /\ conn'[fd].peer = conn[fd].peer /\ conn'[fd].refused = conn[fd].refused
  /\ conn'[fd].wire = conn[fd].wire \o sent
  /\ conn'[fd].cut = (conn[fd].cut \/ failed)
  /\ conn'[fd].lost = (conn[fd].lost \/ lost)
  /\ state' = IF failed THEN "DISCONNECTED" ELSE state
Flushed ==
  \E sent \in Seq(Messages), failed \in BOOLEAN, lost \in BOOLEAN :
    SentOf(sent, failed, lost) /\ FlushesTo(sent, failed, lost)

LEMMA ServerFlushed ==
  ASSUME TypeOK, fd \in Live, NEW sent \in Seq(Messages), NEW failed \in BOOLEAN,
         NEW lost \in BOOLEAN, Reaches(sent, failed, lost),
         state' = IF failed THEN "DISCONNECTED" ELSE state
  PROVE  FlushesTo(sent, failed, lost)
<1> DEFINE cut == conn[fd].cut \/ failed
           less == conn[fd].lost \/ lost
           c == Told(conn[fd], sent, failed, lost)
<1>1. conn \in [Open -> Connections] /\ conn[fd] \in Connections /\ fd \in Open
  BY DEF TypeOK, Live
<1>2. cut \in BOOLEAN /\ less \in BOOLEAN
  BY <1>1 DEF Connections
<1>3. conn' = [conn EXCEPT ![fd] = c]
  BY DEF Reaches
<1>4. conn[fd].wire \o sent \in Seq(Messages)
  BY <1>1 DEF Connections
<1>5. /\ c \in Connections
      /\ c.peer = conn[fd].peer /\ c.refused = conn[fd].refused
      /\ c.wire = conn[fd].wire \o sent
      /\ c.cut = cut /\ c.lost = less
  BY <1>1, <1>2, <1>4 DEF Connections, Told
<1> HIDE DEF c, cut, less
<1>6. /\ conn' \in [Open -> Connections] /\ conn'[fd] = c
      /\ \A f \in Open \ {fd} : conn'[f] = conn[f]
  BY <1>1, <1>3, <1>5
<1>7. QED
  BY <1>5, <1>6 DEF FlushesTo, cut, less

\* The queue is emptied in any case, whatever a server that is there gets of it;
\* what fails brings no line.
LEMMA SendEffect ==
  ASSUME TypeOK, OneLineQueued, NEW pending \in Seq(Events), Send(pending)
  PROVE  /\ msgQueue' = << >>
         /\ state' \in {state, "DISCONNECTED"}
         /\ \E lost \in Seq(Events) :
              NoKeys(lost) /\ events' = Pushed(pending, lost, EventCapacity)
         /\ fd \notin Live => conn' = conn
         /\ fd \in Live => Flushed
<1> DEFINE failures(k) == Len(msgQueue) - Cardinality(Written(k))
           lost(k) == [i \in 1 .. 2 * failures(k) |-> Disconnecting(fd)[IF i % 2 = 1 THEN 1 ELSE 2]]
<1>0. PICK k \in Successes : \E gone \in SUBSET Written(k) :
        /\ IF fd \in Live
           THEN Reaches(ItemsAt(msgQueue, Written(k) \ gone), failures(k) > 0, gone # {})
           ELSE UNCHANGED conn
        /\ events' = Pushed(pending, lost(k), EventCapacity)
        /\ IF failures(k) > 0 THEN ToDisconnected ELSE UNCHANGED state
        /\ msgQueue' = << >>
  BY DEF Send, Written, Interrupted
<1>1. PICK gone \in SUBSET Written(k) :
        /\ IF fd \in Live
           THEN Reaches(ItemsAt(msgQueue, Written(k) \ gone), failures(k) > 0, gone # {})
           ELSE UNCHANGED conn
        /\ events' = Pushed(pending, lost(k), EventCapacity)
        /\ IF failures(k) > 0 THEN ToDisconnected ELSE UNCHANGED state
        /\ msgQueue' = << >>
  BY <1>0, Zenon
<1>2. failures(k) \in Nat
  BY WrittenCount
<1>3. lost(k) \in Seq(Events) /\ NoKeys(lost(k))
  <2>1. fd \in Fds \cup {Unassigned}
    BY DEF TypeOK
  <2>2. \A i \in {1, 2} : Disconnecting(fd)[i] \in Events /\ ~IsKey(Disconnecting(fd)[i])
    BY <2>1, EventItems DEF NoKeys
  <2> DEFINE item(i) == Disconnecting(fd)[IF i % 2 = 1 THEN 1 ELSE 2]
             m == 2 * failures(k)
  <2>3. \A i \in 1 .. m : item(i) \in Events /\ ~IsKey(item(i))
    BY <2>2
  <2>4. m \in Nat
    BY <1>2
  <2> HIDE DEF item, m
  <2>5. [i \in 1 .. m |-> item(i)] \in Seq(Events) /\ NoKeys([i \in 1 .. m |-> item(i)])
    BY <2>3, <2>4 DEF NoKeys
  <2>6. QED
    BY <2>5 DEF item, m
<1>4. /\ msgQueue' = << >>
      /\ fd \notin Live => conn' = conn
  BY <1>1
<1>5. state' \in {state, "DISCONNECTED"}
  BY <1>1 DEF ToDisconnected
<1>6. \E q \in Seq(Events) : NoKeys(q) /\ events' = Pushed(pending, q, EventCapacity)
  BY <1>1, <1>3
<1>7. ASSUME fd \in Live
      PROVE  Flushed
  <2>1. k = Len(msgQueue) /\ Len(msgQueue) \in Nat
    <3>1. k = Len(msgQueue)
      BY <1>7 DEF Successes, Live
    <3>2. QED
      BY <3>1 DEF TypeOK
  <2>2. Reaches(ItemsAt(msgQueue, Written(k) \ gone), failures(k) > 0, gone # {})
    BY <1>1, <1>7, Zenon
  <2> DEFINE sent == ItemsAt(msgQueue, Written(k) \ gone)
             failed == failures(k) > 0
             less == gone # {}
  <2>3. /\ failed <=> msgQueue = <<"EMPTY">>
        /\ sent \in Seq(Messages)
        /\ SentOf(sent, msgQueue = <<"EMPTY">>, less)
    BY <2>1, WrittenItems
  <2>4. state' = IF failed THEN "DISCONNECTED" ELSE state
    BY <1>1 DEF ToDisconnected
  <2>5. failed \in BOOLEAN /\ less \in BOOLEAN
    OBVIOUS
  <2>6. Reaches(sent, failed, less)
    BY <2>2
  <2> HIDE DEF sent, failed, less
  <2>7. FlushesTo(sent, failed, less)
    BY <1>7, <2>3, <2>4, <2>5, <2>6, ServerFlushed
  <2>8. SentOf(sent, failed, less)
    BY <2>3, <2>5 DEF SentOf
  <2>9. QED
    BY <2>3, <2>5, <2>7, <2>8 DEF Flushed
<1> HIDE DEF failures, lost
<1>8. QED
  BY <1>4, <1>5, <1>6, <1>7, Zenon

------------------------------------------------------------------------------
(* What steps leave of the session *)

\* The client starts without connections, queued messages or events.
LEMMA InitInv == Init => Inv
<1> SUFFICES ASSUME Init PROVE Inv
  OBVIOUS
<1>1. Open = {} /\ Live = {}
  BY DEF Init, Open, Live
<1>2. TypeOK
  BY <1>1, Bounds DEF Init, TypeOK, States, SocketEntries
<1>3. Cardinality(polled) <= SocketEntries
  BY FS_EmptySet DEF Init, SocketEntries
<1>4. OneLineAtATime
  BY DEF Init, OneLineAtATime, KeyAt
<1>5. SessionInv
  BY <1>1 DEF Init, SessionInv, OneLineQueued, RegistrationsOnce, ServerBehind, InSession, QuitFirst
<1>6. QED
  BY <1>2, <1>3, <1>4, <1>5 DEF Inv

\* Nothing that matters of the connections changes, but some may be gone.
SameEnds ==
  /\ Live' \subseteq Live
  /\ \A f \in Live' : /\ conn'[f].peer = conn[f].peer /\ conn'[f].wire = conn[f].wire
                      /\ conn'[f].refused = conn[f].refused /\ conn'[f].cut = conn[f].cut
                      /\ conn'[f].lost = conn[f].lost

LEMMA EndsUnchanged == conn' = conn => SameEnds /\ Open' = Open /\ Live' = Live
  BY DEF SameEnds, Open, Live

\* Steps that leave the session alone, or end one whose server has gone.
LEMMA SessionKept ==
  ASSUME SessionInv, SameEnds, msgQueue' = msgQueue, fd' = fd,
         state' = state \/ (state' = "DISCONNECTED" /\ fd \notin Live)
  PROVE  SessionInv'
<1>1. OneLineQueued'
  BY DEF SessionInv, OneLineQueued
<1>2. \A f \in Live' : Pending(f)' = Pending(f)
  BY DEF Pending, SameEnds
<1>3. RegistrationsOnce'
  <2> SUFFICES ASSUME NEW f \in Live' PROVE Registering(conn[f], Pending(f))'
    BY DEF RegistrationsOnce
  <2>1. f \in Live /\ Registering(conn[f], Pending(f))
    BY DEF SameEnds, SessionInv, RegistrationsOnce
  <2>2. QED
    BY <1>2, <2>1 DEF Registering, SameEnds
<1>4. ServerBehind'
  <2> SUFFICES ASSUME InSession' PROVE Behind(state, conn[fd], Pending(fd))'
    BY DEF ServerBehind
  <2>1. InSession /\ state' = state /\ fd \in Live'
    BY DEF InSession, SameEnds
  <2>2. Behind(state, conn[fd], Pending(fd))
    BY <2>1 DEF SessionInv, ServerBehind
  <2>3. Pending(fd') = Pending(fd) /\ Pending(fd)' = Pending(fd)
    BY <1>2, <2>1
  <2>4. /\ conn'[fd].peer = conn[fd].peer /\ conn'[fd].refused = conn[fd].refused
        /\ conn'[fd].lost = conn[fd].lost
    BY <2>1 DEF SameEnds
  <2>5. QED
    BY <2>1, <2>2, <2>3, <2>4 DEF Behind
<1>5. QuitFirst'
  <2> SUFFICES ASSUME state' = "DISCONNECTED", fd' \in Live', ~Session.cut', ~Session.lost'
               PROVE  Contains(msgQueue', "QUIT") \/ Contains(Session.wire', "QUIT")
    BY DEF QuitFirst
  <2>1. /\ fd \in Live /\ state = "DISCONNECTED"
        /\ Session'.cut = Session.cut /\ Session'.lost = Session.lost /\ Session'.wire = Session.wire
    BY DEF SameEnds, Session
  <2>2. QED
    BY <2>1 DEF SessionInv, QuitFirst
<1>6. QED
  BY <1>1, <1>3, <1>4, <1>5 DEF SessionInv

\* A line finds the queue empty, and what it appends is behind what is under way.
LEMMA QueuedBehind ==
  ASSUME TypeOK, msgQueue = << >>, conn' = conn, fd' = fd, NEW f \in Live
  PROVE  /\ Pending(f) = conn[f].wire /\ conn[f].wire \in Seq(Messages)
         /\ Pending(f)' = IF f = fd THEN conn[f].wire \o msgQueue' ELSE conn[f].wire
<1>1. conn[f].wire \in Seq(Messages)
  BY DEF TypeOK, Live, Connections
<1>2. conn[f].wire \o << >> = conn[f].wire
  BY <1>1
<1>3. QED
  BY <1>1, <1>2 DEF Pending

\* A message that is no part of the registration.
LEMMA OtherMessage ==
  ASSUME NEW p \in Seq(Messages), NEW msg \in Messages \ {"USER"}, NEW c, NEW s, NEW t
  PROVE  /\ Registering(c, p) => Registering(c, p \o <<msg>>)
         /\ /\ Behind(s, c, p) /\ s \in {"REGISTERED", "IN_CHANNEL"} /\ t \in {s, "IN_CHANNEL"}
            /\ msg = "JOIN" => t = "IN_CHANNEL"
            => Behind(t, c, p \o <<msg>>)
<1> DEFINE q == p \o <<msg>>
<1>1. /\ Len(p) \in Nat /\ Len(q) = Len(p) + 1 /\ DOMAIN q = 1 .. Len(p) + 1 /\ DOMAIN p = 1 .. Len(p)
      /\ q[Len(p) + 1] = msg
      /\ \A j \in 1 .. Len(p) : q[j] = p[j]
  OBVIOUS
<1>2. \A j \in DOMAIN q : (j \in DOMAIN p /\ q[j] = p[j]) \/ q[j] = msg
  BY <1>1
<1> HIDE DEF q
<1>3. ASSUME Registering(c, p) PROVE Registering(c, q)
  <2>1. \A j \in DOMAIN q : q[j] = "USER" => j \in DOMAIN p /\ p[j] = "USER"
    BY <1>2
  <2>2. \A j \in DOMAIN p : j = 2 => 1 \in DOMAIN p
    BY <1>1
  <2>3. \A j \in DOMAIN p : q[j] = p[j]
    BY <1>1
  <2>4. QED
    BY <1>3, <2>1, <2>2, <2>3 DEF Registering
<1>4. ASSUME Behind(s, c, p), s \in {"REGISTERED", "IN_CHANNEL"}, t \in {s, "IN_CHANNEL"},
             msg = "JOIN" => t = "IN_CHANNEL"
      PROVE  Behind(t, c, q)
  <2>1. \A j \in DOMAIN q : q[j] = "JOIN" => t = "IN_CHANNEL"
    BY <1>2, <1>4 DEF Behind
  <2>2. Len(p) >= 1 => q[1] = p[1] /\ Len(q) >= 1
    BY <1>1
  <2>3. Len(p) >= 2 => q[2] = p[2] /\ Len(q) >= 2
    BY <1>1
  <2>4. QED
    BY <1>1, <1>4, <2>1, <2>2, <2>3 DEF Behind
<1>5. QED
  BY <1>3, <1>4 DEF q

------------------------------------------------------------------------------
(* Commands and the session *)

\* What a command queues is all that is queued then.
LEMMA QueueAlone ==
  ASSUME msgQueue = << >>, NEW msgs \in Seq(Messages), Len(msgs) <= 2, Queue(msgs)
  PROVE  msgQueue' = msgs
<1>1. << >> \o msgs = msgs /\ Len(msgs) <= MaxMessages /\ << >> \in Seq(Messages)
  BY Bounds
<1>2. QED
  BY <1>1, Bounds DEF Queue, Pushed

\* Commands that queue messages, by what they add to the session's connection.
LEMMA QueuedKeeps ==
  ASSUME TypeOK, SessionInv, msgQueue = << >>, conn' = conn, fd' = fd, OneLineQueued',
         fd \in Live => Registering(conn[fd], conn[fd].wire \o msgQueue'),
         fd \in Live /\ state' # "DISCONNECTED" =>
           Behind(state', conn[fd], conn[fd].wire \o msgQueue'),
         state' # "DISCONNECTED" \/ msgQueue' = <<"QUIT">>
  PROVE  SessionInv'
<1>1. Live' = Live
  BY EndsUnchanged
<1>2. RegistrationsOnce'
  <2> SUFFICES ASSUME NEW f \in Live PROVE Registering(conn[f], Pending(f)')
    BY <1>1 DEF RegistrationsOnce
  <2>1. Registering(conn[f], Pending(f))
    BY DEF SessionInv, RegistrationsOnce
  <2>2. QED
    BY <2>1, QueuedBehind
<1>3. ServerBehind'
  <2> SUFFICES ASSUME fd \in Live, state' # "DISCONNECTED"
               PROVE  Behind(state', conn[fd], Pending(fd)')
    BY <1>1 DEF ServerBehind, InSession
  <2>1. QED
    BY QueuedBehind
<1>4. QuitFirst'
  <2>1. msgQueue' = <<"QUIT">> => Contains(msgQueue', "QUIT")
    BY DEF Contains
  <2>2. QED
    BY <2>1 DEF QuitFirst
<1>5. QED
  BY <1>2, <1>3, <1>4 DEF SessionInv

\* What is under way on the session's connection before a line is handled.
LEMMA SessionBefore ==
  ASSUME TypeOK, SessionInv, msgQueue = << >>, fd \in Live
  PROVE  /\ conn[fd].wire \in Seq(Messages)
         /\ Registering(conn[fd], conn[fd].wire)
         /\ state # "DISCONNECTED" => Behind(state, conn[fd], conn[fd].wire)
<1>1. Pending(fd) = conn[fd].wire /\ conn[fd].wire \in Seq(Messages)
  <2>1. conn[fd].wire \in Seq(Messages)
    BY DEF TypeOK, Live, Connections
  <2>2. QED
    BY <2>1 DEF Pending
<1>2. QED
  BY <1>1 DEF SessionInv, RegistrationsOnce, ServerBehind, InSession

\* NICK of a user who is registered, JOIN, PART and PRIVMSG.
LEMMA OtherQueued ==
  ASSUME TypeOK, SessionInv, msgQueue = << >>, conn' = conn, fd' = fd,
         NEW msg \in Messages \ {"USER"}, msgQueue' = <<msg>>,
         state \in {"REGISTERED", "IN_CHANNEL"}, state' \in {state, "IN_CHANNEL"},
         msg = "JOIN" => state' = "IN_CHANNEL"
  PROVE  SessionInv'
<1>1. OneLineQueued'
  BY DEF OneLineQueued
<1>2. ASSUME fd \in Live
      PROVE  /\ Registering(conn[fd], conn[fd].wire \o msgQueue')
             /\ Behind(state', conn[fd], conn[fd].wire \o msgQueue')
  <2>1. /\ conn[fd].wire \in Seq(Messages) /\ Registering(conn[fd], conn[fd].wire)
        /\ Behind(state, conn[fd], conn[fd].wire)
    BY <1>2, SessionBefore
  <2>2. QED
    BY <2>1, OtherMessage
<1>3. state' # "DISCONNECTED"
  OBVIOUS
<1>4. QED
  BY <1>1, <1>2, <1>3, QueuedKeeps

\* DISCONNECT and QUIT: the farewell is queued.
LEMMA QuitQueued ==
  ASSUME TypeOK, SessionInv, msgQueue = << >>, conn' = conn, fd' = fd,
         msgQueue' = <<"QUIT">>, state' = "DISCONNECTED"
  PROVE  SessionInv'
<1>1. OneLineQueued'
  BY DEF OneLineQueued, Messages
<1>2. ASSUME fd \in Live
      PROVE  Registering(conn[fd], conn[fd].wire \o msgQueue')
  <2>1. conn[fd].wire \in Seq(Messages) /\ Registering(conn[fd], conn[fd].wire)
    BY <1>2, SessionBefore
  <2>2. "QUIT" \in Messages \ {"USER"}
    BY DEF Messages
  <2>3. QED
    BY <2>1, <2>2, OtherMessage
<1>3. QED
  BY <1>1, <1>2, QueuedKeeps

\* The NICK that begins a registration.
LEMMA NickQueued ==
  ASSUME TypeOK, SessionInv, msgQueue = << >>, conn' = conn, fd' = fd,
         state = "CONNECTED", msgQueue' = <<"NICK">>, state' = "START_REGISTRATION"
  PROVE  SessionInv'
<1>1. OneLineQueued'
  BY DEF OneLineQueued, Messages
<1>2. ASSUME fd \in Live
      PROVE  /\ Registering(conn[fd], conn[fd].wire \o msgQueue')
             /\ Behind(state', conn[fd], conn[fd].wire \o msgQueue')
  <2>1. Behind("CONNECTED", conn[fd], conn[fd].wire)
    BY <1>2, SessionBefore
  <2>2. conn[fd].peer = "CONNECTED" /\ ~conn[fd].refused /\ conn[fd].wire \o msgQueue' = <<"NICK">>
    <3>1. conn[fd].peer = "CONNECTED" /\ ~conn[fd].refused /\ conn[fd].wire = << >>
      BY <2>1 DEF Behind
    <3>2. << >> \o <<"NICK">> = <<"NICK">>
      OBVIOUS
    <3>3. QED
      BY <3>1, <3>2, Zenon
  <2>3. \A j \in DOMAIN <<"NICK">> : <<"NICK">>[j] = "NICK"
    OBVIOUS
  <2>4. QED
    BY <2>2, <2>3 DEF Registering, Behind
<1>3. QED
  BY <1>1, <1>2, QueuedKeeps

\* The USER that ends one.
LEMMA UserQueued ==
  ASSUME TypeOK, SessionInv, msgQueue = << >>, conn' = conn, fd' = fd,
         state = "START_REGISTRATION", msgQueue' = <<"USER">>, state' = "REGISTERED"
  PROVE  SessionInv'
<1>1. OneLineQueued'
  BY DEF OneLineQueued, Messages
<1>2. ASSUME fd \in Live
      PROVE  /\ Registering(conn[fd], conn[fd].wire \o msgQueue')
             /\ Behind(state', conn[fd], conn[fd].wire \o msgQueue')
  <2> DEFINE c == conn[fd]
  <2>1. Behind("START_REGISTRATION", c, c.wire)
    BY <1>2, SessionBefore
  <2>2. CASE c.peer = "CONNECTED" /\ ~c.refused /\ c.wire = <<"NICK">>
    <3> DEFINE p == c.wire \o msgQueue'
    <3>1. Len(p) = 2 /\ DOMAIN p = 1 .. 2 /\ p[1] = "NICK" /\ p[2] = "USER"
      BY <2>2
    <3> HIDE DEF p
    <3>2. Registering(c, p) /\ Behind("REGISTERED", c, p)
      BY <2>2, <3>1 DEF Registering, Behind
    <3>3. QED
      BY <3>2 DEF p
  <2>3. CASE /\ c.wire = << >>
             /\ \/ c.peer = "CONNECTED" /\ (c.refused \/ c.lost)
                \/ c.peer = "START_REGISTRATION" /\ ~c.refused
    <3>0. << >> \o <<"USER">> = <<"USER">>
      OBVIOUS
    <3>1. c.wire \o msgQueue' = <<"USER">>
      BY <2>3, <3>0, Zenon
    <3>2. QED
      BY <2>3, <3>1 DEF Registering, Behind
  <2>4. QED
    BY <2>1, <2>2, <2>3 DEF Behind
<1>3. QED
  BY <1>1, <1>2, QueuedKeeps

\* A new connection, with the registration of the settings or without.
LEMMA ConnectedKeeps ==
  ASSUME TypeOK, SessionInv, msgQueue = << >>, NEW new, new \notin Open,
         DOMAIN conn' = Open \cup {new},
         conn'[new] = NewConnection, \A f \in Open : conn'[f] = conn[f],
         fd' = new,
         \/ state' = "REGISTERED" /\ msgQueue' = <<"NICK", "USER">>
         \/ state' = "CONNECTED" /\ msgQueue' = << >>
  PROVE  SessionInv'
<1>1. OneLineQueued'
  BY DEF OneLineQueued
<1>2. /\ conn'[new].peer = "CONNECTED" /\ conn'[new].wire = << >>
      /\ conn'[new].refused = FALSE
  BY DEF NewConnection
<1>3. Live' = Live \cup {new}
  BY <1>2 DEF Live, Open
<1>4. Pending(new)' = msgQueue'
  <2>0. "NICK" \in Messages /\ "USER" \in Messages
    BY DEF Messages
  <2>1. msgQueue' \in Seq(Messages)
    <3>1. <<"NICK", "USER">> \in Seq(Messages) /\ << >> \in Seq(Messages)
      BY <2>0
    <3>2. QED
      BY <3>1, Zenon
  <2>2. << >> \o msgQueue' = msgQueue'
    BY <2>1
  <2>3. QED
    BY <1>2, <2>2 DEF Pending
<1>5. RegistrationsOnce'
  <2>1. ASSUME NEW f \in Live PROVE Registering(conn'[f], Pending(f)')
    <3>1. f \in Open /\ f # new /\ conn'[f] = conn[f]
      BY DEF Live
    <3>2. Pending(f)' = conn[f].wire
      BY <3>1 DEF Pending
    <3>3. conn[f].wire \in Seq(Messages)
      BY <3>1 DEF TypeOK, Connections
    <3>4. Pending(f) = conn[f].wire
      BY <3>3 DEF Pending
    <3>5. QED
      BY <3>1, <3>2, <3>4 DEF SessionInv, RegistrationsOnce
  <2>2. Registering(conn'[new], Pending(new)')
    BY <1>2, <1>4 DEF Registering
  <2>3. QED
    BY <1>3, <2>1, <2>2 DEF RegistrationsOnce
<1>6. ServerBehind'
  <2>1. Behind(state', conn'[new], msgQueue')
    BY <1>2 DEF Behind
  <2>2. QED
    BY <1>4, <2>1 DEF ServerBehind
<1>7. QuitFirst'
  BY DEF QuitFirst
<1>8. QED
  BY <1>1, <1>5, <1>6, <1>7 DEF SessionInv

------------------------------------------------------------------------------
(* Sending and the session *)

\* A message of either part is in the whole.
LEMMA ContainsConcat ==
  ASSUME NEW S, NEW p \in Seq(S), NEW q \in Seq(S), NEW x, Contains(p, x) \/ Contains(q, x)
  PROVE  Contains(p \o q, x)
<1> DEFINE r == p \o q
<1>1. /\ Len(r) = Len(p) + Len(q) /\ Len(p) \in Nat /\ Len(q) \in Nat
      /\ \A i \in 1 .. Len(p) : r[i] = p[i]
      /\ \A i \in 1 .. Len(q) : r[Len(p) + i] = q[i]
  OBVIOUS
<1> HIDE DEF r
<1>2. CASE Contains(p, x)
  <2>1. PICK i \in 1 .. Len(p) : p[i] = x
    BY <1>2 DEF Contains
  <2>2. i \in 1 .. Len(r) /\ r[i] = x
    BY <1>1, <2>1
  <2>3. QED
    BY <2>2 DEF Contains, r
<1>3. CASE Contains(q, x)
  <2>1. PICK i \in 1 .. Len(q) : q[i] = x
    BY <1>3 DEF Contains
  <2>2. Len(p) + i \in 1 .. Len(r) /\ r[Len(p) + i] = x
    BY <1>1, <2>1
  <2>3. QED
    BY <2>2 DEF Contains, r
<1>4. QED
  BY <1>2, <1>3

\* What an interrupted write takes away does no harm to the registration.
LEMMA SentRegistering ==
  ASSUME NEW w \in Seq(Messages), msgQueue \in Seq(Messages), NEW c,
         NEW sent, NEW failed, NEW lost, SentOf(sent, failed, lost),
         Registering(c, w \o msgQueue)
  PROVE  Registering(c, w \o sent)
<1> DEFINE p == w \o msgQueue
           q == w \o sent
<1>1. /\ Len(p) = Len(w) + Len(msgQueue) /\ Len(w) \in Nat /\ Len(msgQueue) \in Nat
      /\ DOMAIN p = 1 .. Len(p) /\ DOMAIN w = 1 .. Len(w)
      /\ \A j \in 1 .. Len(w) : p[j] = w[j]
      /\ \A j \in 1 .. Len(msgQueue) : p[Len(w) + j] = msgQueue[j]
  OBVIOUS
<1>2. CASE sent = msgQueue
  BY <1>2
<1>3. CASE sent = << >>
  <2>1. q = w
    BY <1>3
  <2> HIDE DEF p, q
  <2>2. \A j \in DOMAIN q : j \in DOMAIN p /\ q[j] = p[j] /\ 1 \in DOMAIN q
    BY <1>1, <2>1
  <2>3. QED
    BY <2>2 DEF Registering, p, q
<1>4. CASE msgQueue = <<"NICK", "USER">> /\ sent = <<"NICK">>
  <2>1. /\ DOMAIN q = 1 .. Len(w) + 1
        /\ \A j \in 1 .. Len(w) : q[j] = w[j]
        /\ q[Len(w) + 1] = "NICK"
    BY <1>4
  <2> HIDE DEF p, q
  <2>2. \A j \in DOMAIN q : q[j] = "USER" =>
          j \in DOMAIN p /\ q[j] = p[j] /\ 1 \in DOMAIN q /\ q[1] = p[1]
    BY <1>1, <2>1
  <2>3. QED
    BY <2>2 DEF Registering, p, q
<1>5. CASE msgQueue = <<"NICK", "USER">> /\ sent = <<"USER">>
  <2>1. p[Len(w) + 2] = "USER" /\ Len(w) + 2 \in DOMAIN p
    BY <1>1, <1>5
  <2> HIDE DEF p
  <2>2. c.peer = "CONNECTED" /\ Len(w) = 0 /\ (c.refused => c.peer \in {"CONNECTED", "START_REGISTRATION"})
    BY <1>1, <2>1 DEF Registering, p
  <2>3. w = << >>
    BY <2>2
  <2>4. w \o sent = <<"USER">>
    BY <1>5, <2>3
  <2> HIDE DEF q
  <2>5. QED
    BY <2>2, <2>4 DEF Registering
<1>6. QED
  BY <1>2, <1>3, <1>4, <1>5 DEF SentOf

\* Nor to how far the server may be behind.
LEMMA SentBehind ==
  ASSUME NEW w \in Seq(Messages), msgQueue \in Seq(Messages), NEW c, NEW d, NEW s \in States,
         NEW sent, NEW lost \in BOOLEAN, SentOf(sent, FALSE, lost),
         d.peer = c.peer, d.refused = c.refused, d.lost = (c.lost \/ lost),
         s # "DISCONNECTED", Behind(s, c, w \o msgQueue)
  PROVE  Behind(s, d, w \o sent)
<1> DEFINE p == w \o msgQueue
           q == w \o sent
<1>1. CASE sent = msgQueue /\ ~lost
  <2> HIDE DEF p, q
  <2>1. q = p
    BY <1>1 DEF p, q
  <2>2. d.lost <=> c.lost
    BY <1>1
  <2>3. Behind(s, c, p)
    BY DEF p
  <2>4. Behind(s, d, p)
    BY <2>2, <2>3 DEF Behind
  <2>5. QED
    BY <2>1, <2>4 DEF q
<1>2. CASE lost
  <2>1. /\ Len(p) = Len(w) + Len(msgQueue) /\ Len(w) \in Nat /\ Len(msgQueue) \in Nat
        /\ DOMAIN p = 1 .. Len(p)
        /\ \A j \in 1 .. Len(w) : p[j] = w[j]
    OBVIOUS
  <2>2. sent = << >> \/ (msgQueue = <<"NICK", "USER">> /\ sent \in {<<"NICK">>, <<"USER">>})
    BY <1>2 DEF SentOf
  <2>3. \A j \in DOMAIN q : q[j] = "JOIN" => j \in DOMAIN p /\ p[j] = "JOIN"
    <3>1. CASE sent = << >>
      <4>1. q = w
        BY <3>1
      <4> HIDE DEF p, q
      <4>2. QED
        BY <2>1, <4>1
    <3>2. CASE sent \in {<<"NICK">>, <<"USER">>}
      <4>1. /\ DOMAIN q = 1 .. Len(w) + 1
            /\ \A j \in 1 .. Len(w) : q[j] = w[j]
            /\ q[Len(w) + 1] # "JOIN"
        <5>1. PICK m \in {"NICK", "USER"} : sent = <<m>>
          BY <3>2
        <5>2. QED
          BY <5>1
      <4> HIDE DEF p, q
      <4>2. QED
        BY <2>1, <4>1
    <3>3. QED
      BY <2>2, <3>1, <3>2
  <2>4. p = << >> => q = << >>
    <3>1. p = << >> => Len(w) = 0 /\ Len(msgQueue) = 0
      BY <2>1
    <3>2. Len(msgQueue) = 0 => sent = << >>
      BY <2>2
    <3>3. Len(w) = 0 => w = << >>
      OBVIOUS
    <3>4. QED
      BY <3>1, <3>2, <3>3
  <2>5. p = <<"NICK">> => q \in {<< >>, <<"NICK">>}
    <3> SUFFICES ASSUME p = <<"NICK">> PROVE q \in {<< >>, <<"NICK">>}
      OBVIOUS
    <3>1. Len(w) + Len(msgQueue) = 1 /\ (Len(w) >= 1 => w[1] = "NICK")
      BY <2>1
    <3>2. sent = << >>
      <4>1. msgQueue = <<"NICK", "USER">> => Len(msgQueue) = 2
        OBVIOUS
      <4>2. \A a, b \in Nat : a + b = 1 => b # 2
        OBVIOUS
      <4>3. Len(w) + Len(msgQueue) = 1 /\ Len(w) \in Nat /\ Len(msgQueue) \in Nat
        BY <2>1, <3>1
      <4>4. Len(msgQueue) # 2
        BY <4>2, <4>3, Zenon
      <4>5. QED
        BY <2>2, <4>1, <4>4, Zenon
    <3>3. q = w
      BY <3>2
    <3>4. w \in {<< >>, <<"NICK">>}
      BY <2>1, <3>1
    <3>5. QED
      BY <3>3, <3>4
  <2> HIDE DEF p, q
  <2>6. d.lost
    BY <1>2
  <2>7. Behind(s, c, p)
    BY DEF p
  <2>8. CASE s = "CONNECTED"
    BY <2>3, <2>4, <2>7, <2>8 DEF Behind, q
  <2>9. CASE s = "START_REGISTRATION"
    BY <2>3, <2>4, <2>5, <2>6, <2>7, <2>9 DEF Behind, q
  <2>10. CASE s \in {"REGISTERED", "IN_CHANNEL"}
    BY <2>3, <2>6, <2>7, <2>10 DEF Behind, q
  <2>11. QED
    BY <2>8, <2>9, <2>10 DEF States
<1>3. QED
  BY <1>1, <1>2 DEF SentOf

\* What is sent stays under way; it only is no longer queued.
LEMMA FlushedKeeps ==
  ASSUME TypeOK, SessionInv, msgQueue' = << >>,
         fd' = fd \/ fd' = Unassigned,
         state' \in {state, "DISCONNECTED"},
         fd \notin Live => conn' = conn,
         fd \in Live => Flushed
  PROVE  SessionInv'
<1>1. OneLineQueued'
  BY DEF OneLineQueued
<1>2. Unassigned \notin Open
  BY DEF TypeOK, Unassigned, Fds
<1>3. \A f \in Open : conn[f] \in Connections /\ conn[f].wire \in Seq(Messages)
  BY DEF TypeOK, Connections
<1>4. CASE fd \notin Live
  <2>1. conn' = conn /\ Live' = Live /\ Open' = Open
    BY <1>4, EndsUnchanged
  <2>2. fd' \notin Live
    BY <1>2, <1>4 DEF Live
  <2>3. \A f \in Live : Pending(f) = conn[f].wire /\ Pending(f)' = conn[f].wire
    BY <1>4, <2>1, <2>2 DEF Pending
  <2>4. RegistrationsOnce'
    BY <2>1, <2>3 DEF SessionInv, RegistrationsOnce
  <2>5. QED
    BY <1>1, <2>1, <2>2, <2>4 DEF SessionInv, ServerBehind, InSession, QuitFirst
<1>5. CASE fd \in Live
  <2>0. PICK sent \in Seq(Messages), failed \in BOOLEAN, lost \in BOOLEAN :
          SentOf(sent, failed, lost) /\ FlushesTo(sent, failed, lost)
    BY <1>5 DEF Flushed
  <2> DEFINE c == conn[fd]
             d == conn'[fd]
  <2>1. fd \in Open /\ msgQueue \in Seq(Messages) /\ c.wire \in Seq(Messages)
    BY <1>3, <1>5 DEF Live, TypeOK
  <2>2. /\ Open' = Open /\ d.peer = c.peer /\ d.refused = c.refused /\ d.wire = c.wire \o sent
        /\ \A f \in Open \ {fd} : conn'[f] = conn[f]
        /\ d.cut = (c.cut \/ failed) /\ d.lost = (c.lost \/ lost)
        /\ state' = IF failed THEN "DISCONNECTED" ELSE state
    BY <2>0 DEF FlushesTo, Open
  <2>3. Live' = Live
    BY <1>5, <2>1, <2>2 DEF Live
  <2>4. \A f \in Live : Pending(f)' = conn'[f].wire
    <3>1. ASSUME NEW f \in Live PROVE conn'[f].wire \in Seq(Messages)
      <4>2. d.wire \in Seq(Messages)
        BY <2>1, <2>2
      <4>3. f # fd => conn'[f] = conn[f] /\ f \in Open
        BY <2>2 DEF Live
      <4>4. QED
        BY <1>3, <4>2, <4>3
    <3>2. QED
      BY <3>1 DEF Pending
  <2>6. Registering(c, c.wire \o sent)
    <3>1. Registering(c, c.wire \o msgQueue)
      BY <1>5 DEF SessionInv, RegistrationsOnce, Pending
    <3>2. QED
      BY <2>0, <2>1, <3>1, SentRegistering
  <2>7. RegistrationsOnce'
    <3> SUFFICES ASSUME NEW f \in Live PROVE Registering(conn'[f], conn'[f].wire)
      BY <2>3, <2>4 DEF RegistrationsOnce
    <3>1. CASE f = fd
      BY <2>2, <2>6, <3>1 DEF Registering
    <3>2. CASE f # fd
      <4>1. conn'[f] = conn[f] /\ Pending(f) = conn[f].wire
        BY <2>2, <3>2 DEF Pending, Live
      <4>2. QED
        BY <4>1 DEF SessionInv, RegistrationsOnce
    <3>3. QED
      BY <3>1, <3>2
  <2>8. ServerBehind'
    <3> SUFFICES ASSUME fd' = fd, state' # "DISCONNECTED"
                 PROVE  Behind(state', conn'[fd], conn'[fd].wire)
      <4>1. fd' = fd => Pending(fd)' = conn'[fd].wire
        BY <1>5, <2>4
      <4>2. QED
        BY <1>2, <2>3, <4>1 DEF ServerBehind, InSession, Live
    <3>1. ~failed /\ state' = state /\ state \in States
      BY <2>2 DEF TypeOK
    <3>2. Behind(state, c, c.wire \o msgQueue)
      BY <1>5, <3>1 DEF SessionInv, ServerBehind, InSession, Pending
    <3>3. SentOf(sent, FALSE, lost)
      BY <2>0, <3>1
    <3>4. Behind(state, d, c.wire \o sent)
      BY <2>1, <2>2, <3>1, <3>2, <3>3, SentBehind
    <3>5. QED
      BY <2>2, <3>1, <3>4
  <2>9. QuitFirst'
    <3> SUFFICES ASSUME fd' = fd, state' = "DISCONNECTED", ~d.cut, ~d.lost
                 PROVE  Contains(d.wire, "QUIT")
      BY <1>2, <2>3 DEF QuitFirst, Session, Live
    <3>0. ~failed /\ ~lost /\ ~c.cut /\ ~c.lost
      BY <2>2
    <3>1. state = "DISCONNECTED" /\ d.wire = c.wire \o msgQueue
      BY <2>0, <2>2, <3>0 DEF SentOf
    <3>2. Contains(msgQueue, "QUIT") \/ Contains(c.wire, "QUIT")
      BY <1>5, <3>0, <3>1 DEF SessionInv, QuitFirst, Session
    <3>3. QED
      BY <2>1, <3>1, <3>2, ContainsConcat
  <2>10. QED
    BY <1>1, <2>7, <2>8, <2>9 DEF SessionInv
<1>6. QED
  BY <1>4, <1>5

------------------------------------------------------------------------------
(* The server and the session *)

\* A message the server reads, as seen from the end of the connection: what is
\* under way loses its head, and the server moves on or takes it as refused.
NextPeers(c, msg) ==
  CASE c.peer = "CONNECTED"          -> {"START_REGISTRATION"}
    [] c.peer = "START_REGISTRATION" -> {"REGISTERED"}
    [] msg = "JOIN"                  -> {"IN_CHANNEL"}
    [] msg = "PART"                  -> {"REGISTERED", "IN_CHANNEL"}
    [] OTHER                         -> {c.peer}
Accepted(c, msg, d) ==
  /\ msg # "QUIT" /\ ServerAllows(c.peer, msg)
  /\ d.peer \in NextPeers(c, msg) /\ d.refused = c.refused /\ d.lost = c.lost
Refused(c, msg, d) ==
  /\ msg # "QUIT"
  /\ d.peer = c.peer /\ d.lost = c.lost
  /\ d.refused = (c.refused \/ (ServerAllows(c.peer, msg) /\ c.peer \in {"CONNECTED", "START_REGISTRATION"}))

\* What is left of a sequence without its first item.
LEMMA WithoutFirst ==
  ASSUME NEW S, NEW p \in Seq(S), p # << >>
  PROVE  /\ Len(p) \in Nat \ {0} /\ Len(Tail(p)) = Len(p) - 1
         /\ DOMAIN p = 1 .. Len(p) /\ DOMAIN Tail(p) = 1 .. Len(p) - 1
         /\ Head(p) = p[1] /\ 1 \in DOMAIN p
         /\ \A j \in DOMAIN Tail(p) : Tail(p)[j] = p[j + 1] /\ j + 1 \in DOMAIN p
         /\ Len(p) = 1 => Tail(p) = << >>
<1>1. /\ Len(p) \in Nat \ {0} /\ Tail(p) \in Seq(S) /\ Len(Tail(p)) = Len(p) - 1
      /\ DOMAIN p = 1 .. Len(p) /\ Head(p) = p[1] /\ 1 \in DOMAIN p
  OBVIOUS
<1>2. DOMAIN Tail(p) = 1 .. Len(p) - 1
  BY <1>1
<1>3. \A j \in DOMAIN Tail(p) : Tail(p)[j] = p[j + 1] /\ j + 1 \in DOMAIN p
  BY <1>1, <1>2
<1>4. Len(p) = 1 => Tail(p) = << >>
  <2> DEFINE t == Tail(p)
  <2>1. t \in Seq(S) /\ Len(t) = Len(p) - 1
    BY <1>1
  <2> HIDE DEF t
  <2>2. Len(p) = 1 => t = << >>
    BY <1>1, <2>1
  <2>3. QED
    BY <2>2 DEF t
<1>5. QED
  BY <1>1, <1>2, <1>3, <1>4

\* A message that the server takes.
LEMMA AcceptedBehind ==
  ASSUME NEW p \in Seq(Messages), p # << >>, NEW c \in Connections, NEW d, NEW s \in States,
         c.peer # "DISCONNECTED", Accepted(c, Head(p), d)
  PROVE  /\ Registering(c, p) => Registering(d, Tail(p))
         /\ s # "DISCONNECTED" /\ Registering(c, p) /\ Behind(s, c, p) => Behind(s, d, Tail(p))
         /\ d.peer # "DISCONNECTED" /\ d.peer \in States
<1> DEFINE q == Tail(p)
           msg == Head(p)
<1>1. /\ Len(p) \in Nat \ {0} /\ Len(q) = Len(p) - 1 /\ DOMAIN p = 1 .. Len(p) /\ DOMAIN q = 1 .. Len(p) - 1
      /\ msg = p[1] /\ 1 \in DOMAIN p
      /\ \A j \in DOMAIN q : q[j] = p[j + 1] /\ j + 1 \in DOMAIN p
      /\ Len(p) = 1 => q = << >>
  BY WithoutFirst
<1>2. c.peer \in States \ {"DISCONNECTED"} /\ msg \in Messages
  BY <1>1 DEF Connections
<1> HIDE DEF q, msg
<1>3. /\ msg # "QUIT" /\ d.refused = c.refused /\ d.lost = c.lost
      /\ c.peer = "CONNECTED" => msg = "NICK" /\ d.peer = "START_REGISTRATION"
      /\ c.peer = "START_REGISTRATION" => msg = "USER" /\ d.peer = "REGISTERED"
      /\ c.peer = "REGISTERED" => IF msg = "JOIN" THEN d.peer = "IN_CHANNEL" ELSE d.peer = "REGISTERED"
      /\ c.peer = "IN_CHANNEL" => d.peer \in {"REGISTERED", "IN_CHANNEL"}
  BY <1>2 DEF Accepted, ServerAllows, NextPeers, States, msg
<1>4. d.peer # "DISCONNECTED" /\ d.peer \in States
  BY <1>2, <1>3 DEF States
<1>5. ASSUME Registering(c, p)
      PROVE  Registering(d, q)
  <2>1. d.refused => d.peer \in {"CONNECTED", "START_REGISTRATION"}
    BY <1>1, <1>3, <1>5 DEF Registering
  <2>2. ASSUME NEW j \in DOMAIN q, q[j] = "USER"
        PROVE  d.peer = "START_REGISTRATION" /\ ~d.refused /\ j = 1
    <3>1. p[j + 1] = "USER" /\ j + 1 \in DOMAIN p /\ j \in Nat /\ j > 0
      BY <1>1, <2>2
    <3>2. p[1] = msg
      BY <1>1
    <3>3. c.peer = "CONNECTED" /\ ~c.refused /\ j + 1 = 2
      BY <1>5, <3>1 DEF Registering
    <3>4. QED
      BY <1>3, <3>1, <3>3
  <2>3. QED
    BY <2>1, <2>2 DEF Registering
<1>6. ASSUME s # "DISCONNECTED", Registering(c, p), Behind(s, c, p)
      PROVE  Behind(s, d, q)
  <2>1. \A j \in DOMAIN q : q[j] = "JOIN" => s = "IN_CHANNEL"
    BY <1>1, <1>6 DEF Behind
  <2>2. s # "CONNECTED"
    BY <1>6 DEF Behind
  <2>0. s # "IN_CHANNEL" => d.peer # "IN_CHANNEL"
    <3>1. msg = "JOIN" => s = "IN_CHANNEL"
      BY <1>1, <1>6 DEF Behind
    <3>2. c.peer = "IN_CHANNEL" => s = "IN_CHANNEL"
      BY <1>6 DEF Behind
    <3>3. QED
      BY <1>2, <1>3, <3>1, <3>2 DEF States
  <2>3. CASE s = "START_REGISTRATION"
    <3>1. c.peer = "CONNECTED" /\ ~c.refused /\ Len(p) = 1
      BY <1>3, <1>1, <1>6, <2>3 DEF Behind
    <3>2. QED
      BY <1>1, <1>3, <2>0, <2>1, <2>3, <3>1 DEF Behind
  <2>4. CASE s \in {"REGISTERED", "IN_CHANNEL"}
    <3>1. CASE c.refused \/ c.lost
      BY <1>3, <2>0, <2>1, <2>4, <3>1 DEF Behind
    <3>2. CASE ~c.refused /\ ~c.lost /\ c.peer = "CONNECTED"
      <4>1. Len(p) >= 2 /\ p[2] = "USER"
        BY <1>6, <2>4, <3>2 DEF Behind
      <4>2. Len(q) >= 1 /\ q[1] = "USER"
        BY <1>1, <4>1
      <4>3. QED
        BY <1>3, <2>0, <2>1, <2>4, <3>2, <4>2 DEF Behind
    <3>3. CASE ~c.refused /\ ~c.lost /\ c.peer # "CONNECTED"
      <4>1. msg = "JOIN" => s = "IN_CHANNEL"
        BY <1>1, <1>6 DEF Behind
      <4>2. c.peer = "IN_CHANNEL" => s = "IN_CHANNEL"
        BY <1>6, <2>4, <3>3 DEF Behind
      <4>3. d.peer = "REGISTERED" \/ (d.peer = "IN_CHANNEL" /\ s = "IN_CHANNEL")
        BY <1>2, <1>3, <3>3, <4>1, <4>2 DEF States
      <4>4. QED
        BY <2>0, <2>1, <2>4, <4>3 DEF Behind
    <3>4. QED
      BY <3>1, <3>2, <3>3
  <2>5. QED
    BY <1>6, <2>2, <2>3, <2>4 DEF States
<1>7. QED
  BY <1>4, <1>5, <1>6 DEF q

\* A message that the server refuses.
LEMMA RefusedBehind ==
  ASSUME NEW p \in Seq(Messages), p # << >>, NEW c \in Connections, NEW d, NEW s \in States,
         c.peer # "DISCONNECTED", Refused(c, Head(p), d)
  PROVE  /\ Registering(c, p) => Registering(d, Tail(p))
         /\ s # "DISCONNECTED" /\ Behind(s, c, p) => Behind(s, d, Tail(p))
<1> DEFINE q == Tail(p)
           msg == Head(p)
<1>1. /\ Len(p) \in Nat \ {0} /\ Len(q) = Len(p) - 1 /\ DOMAIN p = 1 .. Len(p) /\ DOMAIN q = 1 .. Len(p) - 1
      /\ msg = p[1] /\ 1 \in DOMAIN p
      /\ \A j \in DOMAIN q : q[j] = p[j + 1] /\ j + 1 \in DOMAIN p
      /\ Len(p) = 1 => q = << >>
  BY WithoutFirst
<1> HIDE DEF q, msg
<1>2. /\ d.peer = c.peer /\ d.lost = c.lost
      /\ c.peer = "CONNECTED" /\ msg = "NICK" => d.refused
      /\ c.peer = "START_REGISTRATION" /\ msg = "USER" => d.refused
      /\ c.refused => d.refused
      /\ d.refused => c.refused \/ c.peer \in {"CONNECTED", "START_REGISTRATION"}
  BY DEF Refused, ServerAllows, msg
<1>3. ASSUME Registering(c, p)
      PROVE  Registering(d, q)
  <2>1. d.refused => d.peer \in {"CONNECTED", "START_REGISTRATION"}
    BY <1>2, <1>3 DEF Registering
  <2>2. ASSUME NEW j \in DOMAIN q, q[j] = "USER"
        PROVE  d.peer = "CONNECTED" /\ j = 1
    <3>1. p[j + 1] = "USER" /\ j + 1 \in DOMAIN p /\ j \in Nat /\ j > 0
      BY <1>1, <2>2
    <3>2. p[1] = msg
      BY <1>1
    <3>3. c.peer = "CONNECTED" /\ ~c.refused /\ j + 1 = 2 /\ p[1] = "NICK"
      BY <1>3, <3>1 DEF Registering
    <3>4. QED
      BY <1>2, <3>1, <3>3
  <2>3. QED
    BY <2>1, <2>2 DEF Registering
<1>4. ASSUME s # "DISCONNECTED", Behind(s, c, p)
      PROVE  Behind(s, d, q)
  <2>1. \A j \in DOMAIN q : q[j] = "JOIN" => s = "IN_CHANNEL"
    BY <1>1, <1>4 DEF Behind
  <2>2. s # "CONNECTED"
    BY <1>4 DEF Behind
  <2>3. CASE s = "START_REGISTRATION"
    <3>1. c.peer = "CONNECTED" /\ ~c.refused /\ Len(p) = 1 /\ p[1] = "NICK"
      BY <1>1, <1>4, <2>3 DEF Behind
    <3>2. QED
      BY <1>1, <1>2, <2>1, <2>3, <3>1 DEF Behind
  <2>4. CASE s \in {"REGISTERED", "IN_CHANNEL"}
    <3>1. CASE d.refused \/ d.lost
      BY <1>2, <1>4, <2>1, <2>4, <3>1 DEF Behind
    <3>2. CASE ~d.refused /\ ~d.lost
      BY <1>1, <1>2, <1>4, <2>1, <2>4, <3>2 DEF Behind
    <3>3. QED
      BY <3>1, <3>2
  <2>5. QED
    BY <1>4, <2>2, <2>3, <2>4 DEF States
<1>5. QED
  BY <1>3, <1>4 DEF q

\* The first item of two sequences in a row.
LEMMA FirstOfTwo ==
  ASSUME NEW S, NEW p \in Seq(S), p # << >>, NEW q \in Seq(S)
  PROVE  /\ p \o q \in Seq(S) /\ p \o q # << >>
         /\ Head(p \o q) = Head(p) /\ Tail(p \o q) = Tail(p) \o q
<1> DEFINE all == p \o q
           t == Tail(p)
           r == t \o q
<1>1. /\ Len(p) \in Nat \ {0} /\ t \in Seq(S) /\ Len(t) = Len(p) - 1 /\ Head(p) = p[1]
      /\ \A i \in 1 .. Len(t) : t[i] = p[i + 1]
  BY WithoutFirst
<1>2. /\ all \in Seq(S) /\ Len(q) \in Nat /\ Len(all) = Len(p) + Len(q)
      /\ \A i \in 1 .. Len(all) : all[i] = IF i <= Len(p) THEN p[i] ELSE q[i - Len(p)]
  BY ConcatProperties
<1> HIDE DEF t
<1>3. /\ r \in Seq(S) /\ Len(r) = Len(t) + Len(q)
      /\ \A i \in 1 .. Len(r) : r[i] = IF i <= Len(t) THEN t[i] ELSE q[i - Len(t)]
  <2>1. t \in Seq(S) /\ Len(q) \in Nat /\ Len(t) \in Nat
    BY <1>1
  <2>2. /\ r \in Seq(S) /\ Len(r) = Len(t) + Len(q)
        /\ \A i \in 1 .. Len(t) + Len(q) : r[i] = IF i <= Len(t) THEN t[i] ELSE q[i - Len(t)]
    BY <2>1, ConcatProperties
  <2>3. QED
    BY <2>2
<1> HIDE DEF all, r
<1>4. all # << >> /\ Head(all) = Head(p)
  BY <1>1, <1>2
<1>5. Tail(all) \in Seq(S) /\ Len(Tail(all)) = Len(r) /\ \A i \in 1 .. Len(r) : Tail(all)[i] = all[i + 1]
  BY <1>1, <1>2, <1>3, <1>4
<1>6. \A i \in 1 .. Len(r) : all[i + 1] = r[i]
  <2> SUFFICES ASSUME NEW i \in 1 .. Len(r) PROVE all[i + 1] = r[i]
    OBVIOUS
  <2>1. CASE i <= Len(t)
    BY <1>1, <1>2, <1>3, <2>1
  <2>2. CASE ~(i <= Len(t))
    <3>1. i + 1 - Len(p) = i - Len(t)
      BY <1>1
    <3>2. QED
      BY <1>1, <1>2, <1>3, <2>2, <3>1
  <2>3. QED
    BY <2>1, <2>2
<1>7. Tail(all) = r
  BY <1>3, <1>5, <1>6, SeqEqual
<1>8. QED
  BY <1>2, <1>4, <1>7 DEF all, r, t

\* QUIT is only read by a server that closes the connection over it.
LEMMA KeepsQuit ==
  ASSUME NEW p \in Seq(Messages), p # << >>, Head(p) # "QUIT", Contains(p, "QUIT")
  PROVE  Contains(Tail(p), "QUIT")
<1>1. PICK i \in 1 .. Len(p) : p[i] = "QUIT"
  BY DEF Contains
<1>2. /\ Len(p) \in Nat \ {0} /\ Len(Tail(p)) = Len(p) - 1 /\ Head(p) = p[1]
      /\ \A j \in 1 .. Len(p) - 1 : Tail(p)[j] = p[j + 1]
  BY WithoutFirst
<1>3. i - 1 \in 1 .. Len(Tail(p)) /\ Tail(p)[i - 1] = "QUIT"
  BY <1>1, <1>2
<1>4. QED
  BY <1>3 DEF Contains

\* The server reads a message of one connection.
LEMMA ServerReadsKeeps ==
  ASSUME TypeOK, SessionInv, UNCHANGED client, NEW f \in Live, conn[f].wire # << >>,
         NEW d \in Connections, conn' = [conn EXCEPT ![f] = d],
         d.wire = Tail(conn[f].wire), d.cut = conn[f].cut,
         LET msg == Head(conn[f].wire) IN Accepted(conn[f], msg, d) \/ Refused(conn[f], msg, d)
  PROVE  SessionInv'
<1> DEFINE c == conn[f]
           p == Pending(f)
<1>1. /\ state' = state /\ fd' = fd /\ msgQueue' = msgQueue
      /\ c \in Connections /\ c.wire \in Seq(Messages) /\ msgQueue \in Seq(Messages)
      /\ c.peer # "DISCONNECTED" /\ f \in Open /\ state \in States
  BY DEF client, TypeOK, Live, Connections
<1>2. conn'[f] = d /\ Open' = Open /\ \A g \in Open \ {f} : conn'[g] = conn[g]
  BY <1>1 DEF TypeOK, Open
<1>3. p \in Seq(Messages) /\ p # << >> /\ Head(p) = Head(c.wire) /\ Pending(f)' = Tail(p)
  <2>1. CASE f = fd
    <3>1. p = c.wire \o msgQueue /\ Pending(f)' = Tail(c.wire) \o msgQueue
      BY <1>1, <1>2, <2>1 DEF Pending
    <3>2. /\ c.wire \o msgQueue \in Seq(Messages) /\ c.wire \o msgQueue # << >>
          /\ Head(c.wire \o msgQueue) = Head(c.wire)
          /\ Tail(c.wire \o msgQueue) = Tail(c.wire) \o msgQueue
      BY <1>1, FirstOfTwo
    <3>3. QED
      BY <3>1, <3>2, Zenon
  <2>2. CASE f # fd
    <3>1. p = c.wire /\ Pending(f)' = Tail(c.wire)
      BY <1>1, <1>2, <2>2 DEF Pending
    <3>2. QED
      BY <1>1, <3>1
  <2>3. QED
    BY <2>1, <2>2
<1>4. Accepted(c, Head(p), d) \/ Refused(c, Head(p), d)
  BY <1>3
<1>5. Registering(c, p)
  BY DEF SessionInv, RegistrationsOnce
<1>6. f = fd /\ state # "DISCONNECTED" => Behind(state, c, p)
  BY DEF SessionInv, ServerBehind, InSession
<1> HIDE DEF p
<1>7. /\ Registering(d, Tail(p))
      /\ f = fd /\ state # "DISCONNECTED" => Behind(state, d, Tail(p))
      /\ d.peer # "DISCONNECTED"
  <2>1. CASE Accepted(c, Head(p), d)
    BY <1>1, <1>3, <1>5, <1>6, <2>1, AcceptedBehind
  <2>2. CASE Refused(c, Head(p), d)
    <3>1. d.peer # "DISCONNECTED"
      BY <1>1, <2>2 DEF Refused
    <3>2. QED
      BY <1>1, <1>3, <1>5, <1>6, <2>2, <3>1, RefusedBehind
  <2>3. QED
    BY <1>4, <2>1, <2>2
<1>8. Live' = Live
  BY <1>1, <1>2, <1>7 DEF Live
<1>9. \A g \in Live \ {f} : Pending(g)' = Pending(g) /\ conn'[g] = conn[g]
  BY <1>1, <1>2 DEF Pending, Live
<1>10. OneLineQueued'
  BY <1>1 DEF SessionInv, OneLineQueued
<1>11. RegistrationsOnce'
  BY <1>2, <1>3, <1>7, <1>8, <1>9 DEF SessionInv, RegistrationsOnce
<1>12. ServerBehind'
  <2> SUFFICES ASSUME fd \in Live, state # "DISCONNECTED"
               PROVE  Behind(state, conn'[fd], Pending(fd)')
    BY <1>1, <1>8 DEF ServerBehind, InSession
  <2>1. CASE fd = f
    <3>1. Pending(fd)' = Pending(f)'
      BY <1>1, <2>1 DEF Pending
    <3>2. QED
      BY <1>2, <1>3, <1>7, <2>1, <3>1
  <2>2. CASE fd # f
    <3>1. Pending(fd)' = Pending(fd) /\ conn'[fd] = conn[fd]
      BY <1>1, <1>2, <2>2 DEF Pending, Live
    <3>2. QED
      BY <3>1 DEF SessionInv, ServerBehind, InSession
  <2>3. QED
    BY <2>1, <2>2
<1>13. QuitFirst'
  <2> SUFFICES ASSUME state = "DISCONNECTED", fd \in Live, ~conn'[fd].cut, ~conn'[fd].lost
               PROVE  Contains(msgQueue, "QUIT") \/ Contains(conn'[fd].wire, "QUIT")
    BY <1>1, <1>8 DEF QuitFirst, Session
  <2>1. CASE fd = f
    <3>0. ~c.cut /\ ~c.lost
      BY <1>2, <2>1 DEF Accepted, Refused
    <3>1. Contains(msgQueue, "QUIT") \/ Contains(c.wire, "QUIT")
      BY <2>1, <3>0 DEF SessionInv, QuitFirst, Session
    <3>2. Head(c.wire) # "QUIT"
      BY DEF Accepted, Refused
    <3>3. QED
      BY <1>1, <1>2, <2>1, <3>1, <3>2, KeepsQuit
  <2>2. CASE fd # f
    BY <1>9, <2>2 DEF SessionInv, QuitFirst, Session
  <2>3. QED
    BY <2>1, <2>2
<1>14. QED
  BY <1>10, <1>11, <1>12, <1>13 DEF SessionInv

\* What the server does to one connection.
ServerAt(f) == ServerAccepts(f) \/ ServerRefuses(f) \/ ServerRelays(f) \/ ServerCloses(f)

LEMMA ServerSession ==
  ASSUME TypeOK, SessionInv, UNCHANGED client, NEW f \in Live, ServerAt(f)
  PROVE  /\ SessionInv'
         /\ Open' = Open /\ conn' \in [Open -> Connections]
<1> DEFINE c == conn[f]
<1>1. /\ state' = state /\ fd' = fd /\ msgQueue' = msgQueue /\ f \in Open
      /\ conn \in [Open -> Connections] /\ c \in Connections
      /\ c.peer \in States \ {"DISCONNECTED"} /\ c.wire \in Seq(Messages)
      /\ c.replies \in 0 .. MaxReplies /\ c.refused \in BOOLEAN /\ c.cut \in BOOLEAN
      /\ c.lost \in BOOLEAN
  BY DEF client, TypeOK, Live, Connections
<1>2. \A n \in 0 .. MaxReplies : Replied(n) \in 0 .. MaxReplies
  BY Bounds DEF Replied
<1>3. c.wire # << >> => Tail(c.wire) \in Seq(Messages) /\ Head(c.wire) \in Messages
  BY <1>1
<1>4. ASSUME NEW d \in Connections, conn' = [conn EXCEPT ![f] = d]
      PROVE  /\ Open' = Open /\ conn' \in [Open -> Connections]
             /\ conn'[f] = d /\ \A g \in Open \ {f} : conn'[g] = conn[g]
  BY <1>1, <1>4 DEF Open
<1>5. CASE ServerAccepts(f)
  <2>1. PICK s \in NextPeers(c, Head(c.wire)) :
          conn' = [conn EXCEPT ![f] = [c EXCEPT !.peer = s, !.wire = Tail(@), !.replies = Replied(@)]]
    BY <1>5, ZenonT(30) DEF ServerAccepts, NextPeers
  <2>2. c.wire # << >> /\ Head(c.wire) # "QUIT" /\ ServerAllows(c.peer, Head(c.wire))
    BY <1>5 DEF ServerAccepts
  <2> DEFINE d == [c EXCEPT !.peer = s, !.wire = Tail(@), !.replies = Replied(@)]
  <2>3. s \in States
    BY <1>1 DEF NextPeers, States
  <2>4. /\ d \in Connections /\ d.peer = s /\ d.wire = Tail(c.wire)
        /\ d.refused = c.refused /\ d.cut = c.cut /\ d.lost = c.lost
    BY <1>1, <1>2, <1>3, <2>2, <2>3 DEF Connections
  <2> HIDE DEF d
  <2>5. conn' = [conn EXCEPT ![f] = d]
    BY <2>1 DEF d
  <2>6. Accepted(c, Head(c.wire), d)
    BY <2>2, <2>4 DEF Accepted
  <2>7. SessionInv'
    BY <2>2, <2>4, <2>5, <2>6, ServerReadsKeeps
  <2>8. QED
    BY <1>4, <2>4, <2>5, <2>7
<1>6. CASE ServerRefuses(f)
  <2> DEFINE refused == c.refused \/ (/\ ServerAllows(c.peer, Head(c.wire))
                                      /\ c.peer \in {"CONNECTED", "START_REGISTRATION"})
             d == [c EXCEPT !.wire = Tail(c.wire), !.replies = Replied(c.replies), !.refused = refused]
  <2>1. c.wire # << >> /\ Head(c.wire) # "QUIT" /\ conn' = [conn EXCEPT ![f] = d]
    BY <1>6 DEF ServerRefuses
  <2>2. refused \in BOOLEAN
    BY <1>1, Zenon
  <2>3. refused = (c.refused \/ (ServerAllows(c.peer, Head(c.wire)) /\ c.peer \in {"CONNECTED", "START_REGISTRATION"}))
    OBVIOUS
  <2> HIDE DEF refused
  <2>4. /\ d \in Connections /\ d.peer = c.peer /\ d.wire = Tail(c.wire)
        /\ d.refused = refused /\ d.cut = c.cut /\ d.lost = c.lost
    BY <1>1, <1>2, <1>3, <2>1, <2>2 DEF Connections
  <2> HIDE DEF d
  <2>5. Refused(c, Head(c.wire), d)
    BY <2>1, <2>3, <2>4, Zenon DEF Refused
  <2>6. SessionInv'
    BY <2>1, <2>4, <2>5, ServerReadsKeeps
  <2>7. QED
    BY <1>4, <2>1, <2>4, <2>6
<1>7. CASE ServerRelays(f)
  <2> DEFINE d == [c EXCEPT !.replies = @ + 1]
  <2>1. conn' = [conn EXCEPT ![f] = d] /\ c.replies < MaxReplies
    BY <1>1, <1>7 DEF ServerRelays
  <2>2. /\ d \in Connections /\ d.peer = c.peer /\ d.wire = c.wire
        /\ d.refused = c.refused /\ d.cut = c.cut /\ d.lost = c.lost
    <3>1. c.replies + 1 \in 0 .. MaxReplies
      BY <1>1, <2>1, Bounds
    <3>2. QED
      BY <1>1, <3>1 DEF Connections
  <2> HIDE DEF d
  <2>3. /\ Open' = Open /\ conn' \in [Open -> Connections]
        /\ conn'[f] = d /\ \A g \in Open \ {f} : conn'[g] = conn[g]
    BY <1>4, <2>1, <2>2
  <2>4. SameEnds
    BY <2>2, <2>3 DEF SameEnds, Live
  <2>5. QED
    BY <1>1, <2>3, <2>4, SessionKept
<1>8. CASE ServerCloses(f)
  <2> DEFINE d == [c EXCEPT !.peer = "DISCONNECTED", !.wire = << >>]
  <2>1. conn' = [conn EXCEPT ![f] = d]
    BY <1>1, <1>8 DEF ServerCloses
  <2>2. d \in Connections /\ d.peer = "DISCONNECTED"
    <3>1. << >> \in Seq(Messages) /\ "DISCONNECTED" \in States
      BY DEF States
    <3>2. QED
      BY <1>1, <3>1 DEF Connections
  <2> HIDE DEF d
  <2>3. /\ Open' = Open /\ conn' \in [Open -> Connections]
        /\ conn'[f] = d /\ \A g \in Open \ {f} : conn'[g] = conn[g]
    BY <1>4, <2>1, <2>2
  <2>4. SameEnds
    BY <2>2, <2>3 DEF SameEnds, Live
  <2>5. QED
    BY <1>1, <2>3, <2>4, SessionKept
<1>9. QED
  BY <1>5, <1>6, <1>7, <1>8 DEF ServerAt

------------------------------------------------------------------------------
(* The steps *)

\* The queue after poll(): at most one line, the one that was read.
LEMMA PollEvents ==
  ASSUME NEW q \in Seq(Events), NoKeys(q), NEW line \in Lines \cup {"NONE"},
         NEW signal \in {"NONE", "TIMER", "EXIT"},
         NEW r, r = Pushed(q, KeyEvents(line) \o PipeEvents(signal), EventCapacity)
  PROVE  /\ r \in Seq(Events) /\ Len(r) <= EventCapacity /\ OneKey(r)
         /\ \A k \in DOMAIN r : IsKey(r[k]) => r[k].line = line
<1> DEFINE a == KeyEvents(line)
           b == PipeEvents(signal)
           all == q \o (a \o b)
<1>1. a \in Seq(Events) /\ Len(a) <= 1 /\ \A i \in DOMAIN a : a[i].line = line
  <2>1. line # "NONE" => KeyEv(line) \in Events /\ KeyEv(line).line = line
    BY DEF KeyEv, Events
  <2>2. QED
    BY <2>1 DEF KeyEvents
<1>2. b \in Seq(Events) /\ NoKeys(b)
  <2>1. signal # "NONE" => Ev(signal) \in Events /\ ~IsKey(Ev(signal))
    BY DEF Ev, Events, IsKey
  <2>2. QED
    BY <2>1 DEF PipeEvents, NoKeys
<1> HIDE DEF a, b
<1>3. /\ a \o b \in Seq(Events) /\ Len(a) \in Nat /\ Len(b) \in Nat /\ Len(q) \in Nat
      /\ DOMAIN a = 1 .. Len(a) /\ DOMAIN b = 1 .. Len(b) /\ DOMAIN q = 1 .. Len(q)
      /\ DOMAIN all = 1 .. Len(q) + Len(a) + Len(b)
  BY <1>1, <1>2
<1>4. \A i \in DOMAIN all :
        all[i] = IF i <= Len(q) THEN q[i]
                 ELSE IF i - Len(q) <= Len(a) THEN a[i - Len(q)] ELSE b[i - Len(q) - Len(a)]
  BY <1>1, <1>2, <1>3
<1> HIDE DEF all
<1>5. ASSUME NEW i \in DOMAIN all, IsKey(all[i])
      PROVE  i = Len(q) + 1 /\ all[i].line = line
  <2>1. ~(i <= Len(q))
    BY <1>3, <1>4, <1>5 DEF NoKeys
  <2>2. i - Len(q) <= Len(a)
    <3> SUFFICES ASSUME ~(i - Len(q) <= Len(a)) PROVE FALSE
      OBVIOUS
    <3>1. i - Len(q) - Len(a) \in DOMAIN b /\ all[i] = b[i - Len(q) - Len(a)]
      BY <1>3, <1>4, <2>1
    <3>2. QED
      BY <1>2, <1>5, <3>1 DEF NoKeys
  <2>3. QED
    BY <1>1, <1>3, <1>4, <2>1, <2>2
<1>6. r \in Seq(Events) /\ Len(r) <= EventCapacity /\ PartOf(r, all)
  BY <1>3, PushedPart, Bounds DEF all, a, b
<1>7. PICK d \in Nat : \A k \in DOMAIN r : k + d \in DOMAIN all /\ r[k] = all[k + d]
  BY <1>6 DEF PartOf
<1>8. OneKey(r)
  <2> SUFFICES ASSUME NEW i \in DOMAIN r, NEW j \in DOMAIN r, IsKey(r[i]), IsKey(r[j])
               PROVE  i = j
    BY DEF OneKey
  <2>1. i + d = j + d /\ i \in Nat /\ j \in Nat
    BY <1>5, <1>6, <1>7
  <2>2. QED
    BY <2>1
<1>9. QED
  BY <1>5, <1>6, <1>7, <1>8

\* The descriptors are finitely many.
LEMMA FiniteFds ==
  ASSUME NEW S \in SUBSET Fds
  PROVE  IsFiniteSet(S)
<1>1. 1 \in Int /\ MaxFd \in Int
  BY Bounds
<1>2. IsFiniteSet(1 .. MaxFd)
  BY <1>1, FS_Interval, Zenon
<1>3. S \subseteq 1 .. MaxFd
  BY DEF Fds
<1>4. QED
  BY <1>2, <1>3, FS_Subset, Zenon

\* What is counted and reported are sockets of the poll set.
LEMMA PolledSockets ==
  ASSUME TypeOK, Cardinality(polled) <= SocketEntries
  PROVE  Cardinality(Counted) \in 0 .. SocketEntries /\ Readable \subseteq Fds
<1>1. IsFiniteSet(polled)
  BY FiniteFds DEF TypeOK
<1>2. Counted \subseteq polled
  BY DEF Counted, Readable
<1>3. IsFiniteSet(Counted) /\ Cardinality(Counted) <= Cardinality(polled)
  BY <1>1, <1>2, FS_Subset, Zenon
<1>4. Cardinality(Counted) \in Nat /\ Cardinality(polled) \in Nat
  BY <1>1, <1>3, FS_CardinalityType, Zenon
<1>5. QED
  BY <1>3, <1>4 DEF SocketEntries, TypeOK, Readable

LEMMA PollInv == Inv /\ Poll => Inv'
<1> SUFFICES ASSUME Inv, Poll PROVE Inv'
  OBVIOUS
<1> USE DEF Inv
<1>1. PICK line \in Lines \cup {"NONE"}, signal \in {"NONE", "TIMER", "EXIT"} :
        /\ WithinBounds(line)
        /\ events' = Pushed(events, KeyEvents(line) \o PipeEvents(signal), EventCapacity)
  BY DEF Poll
<1>2. /\ phase = "poll" /\ phase' = "socket" /\ ready' = Cardinality(Counted) /\ reported' = Readable
      /\ UNCHANGED <<state, fd, nickValid, msgQueue, polled, conn>>
  BY DEF Poll
<1>3. NoKeys(events) /\ events \in Seq(Events) /\ msgQueue = << >>
  BY <1>2 DEF OneLineAtATime, KeyAt, NoKeys, IsKey, TypeOK
<1>4. /\ events' \in Seq(Events) /\ Len(events') <= EventCapacity /\ OneKey(events')
      /\ \A k \in DOMAIN events' : IsKey(events'[k]) => events'[k].line = line
  BY <1>1, <1>3, PollEvents
<1>5. SameEnds /\ Open' = Open
  BY <1>2, EndsUnchanged
<1>6. TypeOK'
  BY <1>2, <1>4, <1>5, PolledSockets DEF TypeOK
<1>7. Cardinality(polled') <= SocketEntries
  BY <1>2
<1>8. OneLineAtATime'
  <2>1. line = "CONNECT" => Fds \ Open # {}
    BY <1>1 DEF WithinBounds, TypeOK
  <2>2. \A i, j \in DOMAIN events' : KeyAt(i)' /\ KeyAt(j)' => i = j
    BY <1>4 DEF OneKey, KeyAt, IsKey
  <2>3. \A i \in DOMAIN events' : KeyAt(i)' => events'[i].line = line
    BY <1>4 DEF KeyAt, IsKey
  <2>4. QED
    BY <1>2, <1>3, <1>5, <2>1, <2>2, <2>3 DEF OneLineAtATime
<1>9. SessionInv'
  BY <1>2, <1>5, SessionKept
<1>10. QED
  BY <1>6, <1>7, <1>8, <1>9

\* A step that changes neither the session nor the lines.
LEMMA ServerInv == Inv /\ Server => Inv'
<1> SUFFICES ASSUME Inv, Server PROVE Inv'
  OBVIOUS
<1> USE DEF Inv
<1>1. PICK f \in Live : ServerAt(f)
  BY DEF Server, ServerAt
<1>2. UNCHANGED <<phase, ready, reported, client>>
  BY DEF Server
<1>3. SessionInv' /\ Open' = Open /\ conn' \in [Open -> Connections]
  BY <1>1, <1>2, ServerSession
<1>4. TypeOK'
  BY <1>2, <1>3 DEF TypeOK, client
<1>5. OneLineAtATime'
  BY <1>2, <1>3 DEF OneLineAtATime, KeyAt, client
<1>6. Cardinality(polled') <= SocketEntries
  BY <1>2 DEF client
<1>7. QED
  BY <1>3, <1>4, <1>5, <1>6

\* A step that adds events which are no lines, and changes nothing else of the
\* session than that it may be over because its server has gone.
LEMMA ReadSocketInv == Inv /\ ReadSocket => Inv'
<1> SUFFICES ASSUME Inv, ReadSocket PROVE Inv'
  OBVIOUS
<1> USE DEF Inv
<1>1. /\ phase = "socket" /\ phase' = "dispatch"
      /\ UNCHANGED <<ready, reported, fd, nickValid, msgQueue, polled>>
  BY DEF ReadSocket
<1>2. fd \in Fds \cup {Unassigned} /\ msgQueue = << >>
  BY <1>1 DEF TypeOK, OneLineAtATime
<1>3. Disconnecting(fd) \in Seq(Events) /\ NoKeys(Disconnecting(fd))
  BY <1>2, EventItems
<1>4. ASSUME EventsKept, SameEnds, Open' = Open, conn' \in [Open -> Connections],
             state' = state \/ (state' = "DISCONNECTED" /\ fd \notin Live)
      PROVE  Inv'
  <2>1. TypeOK'
    BY <1>1, <1>4 DEF TypeOK, EventsKept, States
  <2>2. OneLineAtATime'
    BY <1>1, <1>4, LinesKept
  <2>3. SessionInv'
    BY <1>1, <1>4, SessionKept
  <2>4. QED
    BY <1>1, <2>1, <2>2, <2>3
<1>5. conn \in [Open -> Connections]
  BY DEF TypeOK
<1>6. conn' = conn => SameEnds /\ Open' = Open /\ conn' \in [Open -> Connections]
  BY <1>5, EndsUnchanged
<1>7. events' = events => EventsKept
  BY DEF EventsKept, TypeOK, OneLineAtATime, KeyAt, OneKey, KeysOf, IsKey
<1>8. CASE UNCHANGED <<state, events, conn>>
  BY <1>4, <1>6, <1>7, <1>8
<1>9. CASE /\ fd \notin Open /\ ToDisconnected /\ UNCHANGED conn
           /\ events' = Pushed(events, Disconnecting(fd), EventCapacity)
  <2>1. EventsKept
    BY <1>3, <1>9, AddedEvents
  <2>2. fd \notin Live
    BY <1>9 DEF Live
  <2>3. QED
    BY <1>4, <1>6, <1>9, <2>1, <2>2 DEF ToDisconnected
<1>10. CASE /\ fd \in Open /\ state' = state
            /\ \E k \in 1 .. conn[fd].replies :
                 /\ events' = Pushed(events, [i \in 1 .. k |-> Ev("MSG")], EventCapacity)
                 /\ conn' = [conn EXCEPT ![fd].replies = @ - k]
  <2>1. PICK k \in 1 .. conn[fd].replies :
          /\ events' = Pushed(events, [i \in 1 .. k |-> Ev("MSG")], EventCapacity)
          /\ conn' = [conn EXCEPT ![fd].replies = @ - k]
    BY <1>10
  <2> DEFINE c == conn[fd]
             d == [c EXCEPT !.replies = c.replies - k]
  <2>2. c \in Connections /\ c.replies \in 0 .. MaxReplies
    BY <1>5, <1>10 DEF Connections
  <2>3. c.replies - k \in 0 .. MaxReplies
    BY <2>2, Bounds
  <2>4. /\ d \in Connections /\ d.peer = c.peer /\ d.wire = c.wire
        /\ d.refused = c.refused /\ d.cut = c.cut /\ d.lost = c.lost
    BY <2>2, <2>3 DEF Connections
  <2>5. conn' = [conn EXCEPT ![fd] = d]
    BY <2>1
  <2> HIDE DEF d
  <2>6. /\ conn' \in [Open -> Connections] /\ Open' = Open /\ conn'[fd] = d
        /\ \A f \in Open \ {fd} : conn'[f] = conn[f]
    BY <1>5, <1>10, <2>4, <2>5 DEF Open
  <2>7. SameEnds
    BY <2>4, <2>6 DEF SameEnds, Live
  <2>8. Ev("MSG") \in Events /\ ~IsKey(Ev("MSG"))
    BY <1>2, EventItems
  <2>9. [i \in 1 .. k |-> Ev("MSG")] \in Seq(Events) /\ NoKeys([i \in 1 .. k |-> Ev("MSG")])
    BY <2>8 DEF NoKeys
  <2>10. EventsKept
    BY <2>1, <2>9, AddedEvents
  <2>11. QED
    BY <1>4, <1>10, <2>6, <2>7, <2>10
<1>11. CASE /\ fd \in Open \ Live /\ ToDisconnected /\ UNCHANGED conn
            /\ \E closing \in {<< >>, <<Ev("PC")>>} :
                 events' = Pushed(events, Disconnecting(fd) \o closing, EventCapacity)
  <2>1. PICK closing \in {<< >>, <<Ev("PC")>>} :
          events' = Pushed(events, Disconnecting(fd) \o closing, EventCapacity)
    BY <1>11
  <2>2. closing \in Seq(Events) /\ NoKeys(closing)
    <3>1. Ev("PC") \in Events /\ ~IsKey(Ev("PC"))
      BY <1>2, EventItems
    <3>2. <<Ev("PC")>> \in Seq(Events) /\ NoKeys(<<Ev("PC")>>)
      BY <3>1 DEF NoKeys
    <3>3. << >> \in Seq(Events) /\ NoKeys(<< >>)
      BY DEF NoKeys
    <3>4. QED
      BY <3>2, <3>3
  <2>3. Disconnecting(fd) \o closing \in Seq(Events) /\ NoKeys(Disconnecting(fd) \o closing)
    BY <1>3, <2>2, NoKeysConcat
  <2>4. EventsKept
    BY <2>1, <2>3, AddedEvents
  <2>5. QED
    BY <1>4, <1>6, <1>11, <2>4 DEF ToDisconnected
<1>12. QED
  BY <1>8, <1>9, <1>10, <1>11 DEF ReadSocket

LEMMA EndIterationInv == Inv /\ EndIteration => Inv'
<1> SUFFICES ASSUME Inv, EndIteration PROVE Inv'
  OBVIOUS
<1> USE DEF Inv
<1>1. /\ events = << >> /\ phase' = "poll" /\ Send(<< >>)
      /\ UNCHANGED <<ready, reported, fd, nickValid, polled>>
  BY DEF EndIteration
<1>2. << >> \in Seq(Events) /\ OneKey(<< >>) /\ NoKeys(<< >>) /\ OneLineQueued
  BY DEF OneKey, NoKeys, SessionInv
<1>3. /\ msgQueue' = << >>
      /\ state' \in {state, "DISCONNECTED"}
      /\ \E lost \in Seq(Events) : NoKeys(lost) /\ events' = Pushed(<< >>, lost, EventCapacity)
      /\ fd \notin Live => conn' = conn
      /\ fd \in Live => Flushed
  BY <1>1, <1>2, SendEffect
<1>4. SessionInv'
  BY <1>1, <1>3, FlushedKeeps
<1>5. EventsKept /\ NoKeys(events')
  BY <1>1, <1>2, <1>3, PushWithoutKeys DEF EventsKept
<1>6. OneLineAtATime'
  BY <1>1, <1>3, <1>5, LinesKept
<1>7. conn' \in [Open' -> Connections] /\ Open' = Open
  <2>1. conn \in [Open -> Connections]
    BY DEF TypeOK
  <2>2. conn' \in [Open -> Connections]
    BY <1>3, <2>1 DEF Flushed, FlushesTo
  <2>3. QED
    BY <2>2 DEF Open
<1>8. TypeOK'
  BY <1>1, <1>3, <1>5, <1>7, Bounds DEF TypeOK, EventsKept, States
<1>9. QED
  BY <1>1, <1>4, <1>6, <1>8

\* What every handled event leaves as it was.
LEMMA DispatchKeeps ==
  ASSUME Inv, phase' = "dispatch", UNCHANGED <<ready, reported>>, EventsKept,
         NoKeys(events') \/ (msgQueue' \in {<< >>, msgQueue} /\ (Fds \ Open # {} => Fds \ Open' # {})),
         polled' \subseteq Fds, Cardinality(polled') <= SocketEntries,
         Open' \subseteq Fds, conn' \in [Open' -> Connections],
         fd' \in Fds \cup {Unassigned}, state' \in States, nickValid' \in BOOLEAN, SessionInv'
  PROVE  Inv'
<1>1. msgQueue' \in Seq(Messages) /\ Len(msgQueue') <= MaxMessages
  <2>1. msgQueue' \in {<< >>, <<"NICK", "USER">>} \/ \E msg \in Messages : msgQueue' = <<msg>>
    BY DEF SessionInv, OneLineQueued
  <2>2. "NICK" \in Messages /\ "USER" \in Messages
    BY DEF Messages
  <2>3. <<"NICK", "USER">> \in Seq(Messages) /\ Len(<<"NICK", "USER">>) = 2
    BY <2>2
  <2>4. CASE msgQueue' \in {<< >>, <<"NICK", "USER">>}
    <3>1. << >> \in Seq(Messages) /\ Len(<< >>) = 0
      OBVIOUS
    <3>2. msgQueue' \in Seq(Messages) /\ (Len(msgQueue') = 0 \/ Len(msgQueue') = 2)
      BY <2>3, <2>4, <3>1, Zenon
    <3>3. QED
      BY <3>2, Bounds
  <2>5. CASE \E msg \in Messages : msgQueue' = <<msg>>
    BY <2>5, Bounds
  <2>6. QED
    BY <2>1, <2>4, <2>5
<1>2. TypeOK'
  BY <1>1 DEF TypeOK, EventsKept, Inv
<1>3. OneLineAtATime'
  BY LinesKept DEF Inv
<1>4. QED
  BY <1>2, <1>3 DEF Inv

\* The parts of the state that a handler may be given.
LEMMA DispatchBefore ==
  ASSUME Inv, events # << >>
  PROVE  /\ events \in Seq(Events) /\ Head(events) \in Events /\ Head(events) = events[1]
         /\ Tail(events) \in Seq(Events) /\ KeyAt(1) <=> IsKey(Head(events))
         /\ polled \subseteq Fds /\ Open \subseteq Fds /\ conn \in [Open -> Connections]
         /\ fd \in Fds \cup {Unassigned} /\ state \in States /\ nickValid \in BOOLEAN
         /\ TypeOK /\ OneLineAtATime /\ SessionInv /\ Cardinality(polled) <= SocketEntries
<1>1. events \in Seq(Events)
  BY DEF Inv, TypeOK
<1>2. 1 \in DOMAIN events /\ Head(events) = events[1] /\ Head(events) \in Events /\ Tail(events) \in Seq(Events)
  BY <1>1
<1>3. KeyAt(1) <=> IsKey(Head(events))
  BY <1>2 DEF KeyAt, IsKey
<1>4. QED
  BY <1>1, <1>2, <1>3 DEF Inv, TypeOK

LEMMA FlushAndTerminateInv ==
  ASSUME Inv, events # << >>, phase' = "dispatch", UNCHANGED <<ready, reported>>, FlushAndTerminate
  PROVE  Inv'
<1>1. /\ TypeOK /\ SessionInv /\ OneLineAtATime /\ OneLineQueued /\ Tail(events) \in Seq(Events)
  BY DispatchBefore DEF SessionInv
<1>2. Send(Tail(events)) /\ fd' = Unassigned /\ UNCHANGED <<nickValid, polled>>
  BY DEF FlushAndTerminate
<1>3. /\ msgQueue' = << >>
      /\ state' \in {state, "DISCONNECTED"}
      /\ \E lost \in Seq(Events) :
           NoKeys(lost) /\ events' = Pushed(Tail(events), lost, EventCapacity)
      /\ fd \notin Live => conn' = conn
      /\ fd \in Live => Flushed
  BY <1>1, <1>2, SendEffect
<1>4. SessionInv'
  BY <1>1, <1>2, <1>3, FlushedKeeps
<1>5. EventsKept
  BY <1>1, <1>3, LaterEvents DEF EventsKept
<1>6. conn' \in [Open' -> Connections] /\ Open' = Open
  <2>1. conn \in [Open -> Connections]
    BY <1>1 DEF TypeOK
  <2>2. conn' \in [Open -> Connections]
    BY <1>3, <2>1 DEF Flushed, FlushesTo
  <2>3. QED
    BY <2>2 DEF Open
<1>7. state' \in States
  BY <1>1, <1>3 DEF TypeOK, States
<1>8. QED
  BY <1>2, <1>3, <1>4, <1>5, <1>6, <1>7, DispatchBefore, DispatchKeeps

LEMMA RemovePollFdInv ==
  ASSUME Inv, events # << >>, phase' = "dispatch", UNCHANGED <<ready, reported>>,
         NEW f, RemovePollFd(f)
  PROVE  Inv'
<1>1. /\ polled' = polled \ {f} /\ conn' = [g \in Open \ {f} |-> conn[g]]
      /\ events' = Pushed(Tail(events), << >>, EventCapacity)
      /\ UNCHANGED <<state, fd, nickValid, msgQueue>>
  BY DEF RemovePollFd, Later
<1>2. EventsKept
  <2>1. << >> \in Seq(Events) /\ NoKeys(<< >>)
    BY DEF NoKeys
  <2>2. QED
    BY <1>1, <2>1, LaterEvents DEF EventsKept, Inv
<1>3. Open' = Open \ {f} /\ conn' \in [Open' -> Connections] /\ \A g \in Open' : conn'[g] = conn[g]
  BY <1>1 DEF Open, Inv, TypeOK
<1>4. SameEnds
  BY <1>3 DEF SameEnds, Live
<1>5. SessionInv'
  BY <1>1, <1>4, SessionKept DEF Inv
<1>6. polled' \subseteq Fds /\ Cardinality(polled') <= SocketEntries
  <2>1. IsFiniteSet(polled)
    BY FiniteFds DEF Inv, TypeOK
  <2>2. polled' \subseteq polled
    BY <1>1
  <2>3. IsFiniteSet(polled') /\ Cardinality(polled') <= Cardinality(polled)
    BY <2>1, <2>2, FS_Subset, Zenon
  <2>4. Cardinality(polled') \in Nat /\ Cardinality(polled) \in Nat
    BY <2>1, <2>3, FS_CardinalityType, Zenon
  <2>5. QED
    BY <2>2, <2>3, <2>4 DEF Inv, TypeOK, SocketEntries
<1>7. Fds \ Open # {} => Fds \ Open' # {}
  BY <1>3
<1>8. QED
  BY <1>1, <1>2, <1>3, <1>5, <1>6, <1>7, DispatchBefore, DispatchKeeps

LEMMA AddPollFdInv ==
  ASSUME Inv, events # << >>, phase' = "dispatch", UNCHANGED <<ready, reported>>,
         NEW f \in Fds, AddPollFd(f)
  PROVE  Inv'
<1>1. /\ polled' = IF Cardinality(polled) < SocketEntries THEN polled \cup {f} ELSE polled
      /\ events' = Pushed(Tail(events), << >>, EventCapacity)
      /\ UNCHANGED <<state, fd, nickValid, msgQueue, conn>>
  BY DEF AddPollFd, Later
<1>2. EventsKept
  <2>1. << >> \in Seq(Events) /\ NoKeys(<< >>)
    BY DEF NoKeys
  <2>2. QED
    BY <1>1, <2>1, LaterEvents DEF EventsKept, Inv
<1>3. SameEnds /\ Open' = Open
  BY <1>1, EndsUnchanged
<1>4. SessionInv'
  BY <1>1, <1>3, SessionKept DEF Inv
<1>5. polled' \subseteq Fds /\ Cardinality(polled') <= SocketEntries
  <2>1. IsFiniteSet(polled)
    BY FiniteFds DEF Inv, TypeOK
  <2>2. Cardinality(polled) \in Nat
    BY <2>1, FS_CardinalityType, Zenon
  <2>3. Cardinality(polled \cup {f}) = IF f \in polled THEN Cardinality(polled) ELSE Cardinality(polled) + 1
    BY <2>1, FS_AddElement, Zenon
  <2>4. QED
    BY <1>1, <2>2, <2>3 DEF Inv, TypeOK, SocketEntries
<1>6. QED
  BY <1>1, <1>2, <1>3, <1>4, <1>5, DispatchBefore, DispatchKeeps

\* Events that only show something.
LEMMA IgnoredInv ==
  ASSUME Inv, events # << >>, phase' = "dispatch", UNCHANGED <<ready, reported>>,
         NEW items \in Seq(Events), NoKeys(items), Later(items),
         UNCHANGED <<state, fd, nickValid, msgQueue, polled, conn>>
  PROVE  Inv'
<1>1. EventsKept
  BY LaterEvents DEF EventsKept, Inv, Later
<1>2. SameEnds /\ Open' = Open
  BY EndsUnchanged
<1>3. SessionInv'
  BY <1>2, SessionKept DEF Inv
<1>4. QED
  BY <1>1, <1>2, <1>3, DispatchBefore, DispatchKeeps

\* What is known when a line of the user is handled.
LEMMA KeyBefore ==
  ASSUME Inv, events # << >>, IsKey(Head(events))
  PROVE  /\ msgQueue = << >> /\ Head(events).line \in Lines
         /\ Head(events).line = "CONNECT" => Fds \ Open # {}
<1>1. /\ Head(events) \in Events /\ Head(events) = events[1] /\ KeyAt(1)
      /\ OneLineAtATime /\ 1 \in DOMAIN events
  BY DispatchBefore DEF KeyAt
<1>2. msgQueue = << >> /\ (Head(events).line = "CONNECT" => Fds \ Open # {})
  BY <1>1 DEF OneLineAtATime
<1>3. Head(events).line \in Lines
  BY <1>1 DEF Events, IsKey
<1>4. QED
  BY <1>2, <1>3

\* The events after a line has been handled: no line is left.
LEMMA KeyLater ==
  ASSUME Inv, events # << >>, IsKey(Head(events)), NEW items \in Seq(Events), NoKeys(items),
         Later(items)
  PROVE  EventsKept /\ NoKeys(events')
<1>1. TypeOK /\ OneLineAtATime
  BY DEF Inv
<1>2. QED
  BY <1>1, LaterEvents DEF EventsKept, Later

LEMMA ConnectInv ==
  ASSUME Inv, events # << >>, IsKey(Head(events)), Head(events).line = "CONNECT",
         phase' = "dispatch", UNCHANGED <<ready, reported, polled>>, Connect
  PROVE  Inv'
<1> DEFINE new == LowestFree
<1>1. msgQueue = << >> /\ new \in Fds /\ new \notin Open
  BY KeyBefore, FreeFd
<1>2. /\ polled' \subseteq Fds /\ Cardinality(polled') <= SocketEntries
      /\ conn \in [Open -> Connections] /\ Open \subseteq Fds /\ TypeOK /\ SessionInv
      /\ fd \in Fds \cup {Unassigned} /\ state \in States /\ nickValid \in BOOLEAN
  BY DispatchBefore
<1> HIDE DEF new
<1>3. ASSUME NEW peer \in States, Opens(peer)
      PROVE  /\ Open' = Open \cup {new} /\ conn' \in [Open' -> Connections]
             /\ DOMAIN conn' = Open \cup {new}
             /\ conn'[new] = [NewConnection EXCEPT !.peer = peer]
             /\ \A f \in Open : conn'[f] = conn[f]
  <2>1. conn' = [f \in Open \cup {new} |->
                  IF f = new THEN [NewConnection EXCEPT !.peer = peer] ELSE conn[f]]
    BY <1>3 DEF Opens, new
  <2>2. [NewConnection EXCEPT !.peer = peer] \in Connections
    <3>1. << >> \in Seq(Messages) /\ 0 \in 0 .. MaxReplies
      BY Bounds
    <3>2. QED
      BY <3>1 DEF NewConnection, Connections
  <2> DEFINE c == [NewConnection EXCEPT !.peer = peer]
  <2> HIDE DEF c
  <2>3. Open' = Open \cup {new} /\ DOMAIN conn' = Open \cup {new}
    BY <2>1 DEF Open
  <2>4. conn'[new] = c /\ \A f \in Open : conn'[f] = conn[f]
    BY <1>1, <2>1 DEF c
  <2>5. conn' \in [Open \cup {new} -> Connections]
    BY <1>2, <2>1, <2>2
  <2>6. QED
    BY <2>3, <2>4, <2>5 DEF c
<1>4. CASE /\ Opens("CONNECTED") /\ fd' = new /\ RegisterConnection
           /\ Later(<<[kind |-> "ADD", fd |-> fd']>>) /\ UNCHANGED nickValid
  <2>1. "CONNECTED" \in States /\ "REGISTERED" \in States
    BY DEF States
  <2>2. /\ Open' = Open \cup {new} /\ conn' \in [Open' -> Connections]
        /\ DOMAIN conn' = Open \cup {new}
        /\ conn'[new] = NewConnection
        /\ \A f \in Open : conn'[f] = conn[f]
    <3>1. [NewConnection EXCEPT !.peer = "CONNECTED"] = NewConnection
      BY DEF NewConnection
    <3>2. QED
      BY <1>3, <1>4, <2>1, <3>1
  <2>3. \/ state' = "REGISTERED" /\ msgQueue' = <<"NICK", "USER">>
        \/ state' = "CONNECTED" /\ msgQueue' = << >>
    <3>1. "NICK" \in Messages /\ "USER" \in Messages
      BY DEF Messages
    <3>2. <<"NICK", "USER">> \in Seq(Messages) /\ Len(<<"NICK", "USER">>) <= 2
      BY <3>1
    <3>3. Queue(<<"NICK", "USER">>) => msgQueue' = <<"NICK", "USER">>
      BY <1>1, <3>2, QueueAlone
    <3>4. QED
      BY <1>1, <1>4, <3>3 DEF RegisterConnection
  <2>4. SessionInv'
    BY <1>1, <1>2, <1>4, <2>2, <2>3, ConnectedKeeps
  <2>5. EventsKept /\ NoKeys(events')
    <3>1. [kind |-> "ADD", fd |-> new] \in Events /\ ~IsKey([kind |-> "ADD", fd |-> new])
      BY <1>1 DEF Events, IsKey
    <3>2. <<[kind |-> "ADD", fd |-> new]>> \in Seq(Events) /\ NoKeys(<<[kind |-> "ADD", fd |-> new]>>)
      BY <3>1 DEF NoKeys
    <3>3. Later(<<[kind |-> "ADD", fd |-> new]>>)
      BY <1>4
    <3>4. QED
      BY <3>2, <3>3, KeyLater
  <2>6. state' \in States /\ nickValid' \in BOOLEAN /\ fd' \in Fds \cup {Unassigned} /\ Open' \subseteq Fds
    BY <1>1, <1>2, <1>4, <2>1, <2>2, <2>3
  <2>7. QED
    BY <1>2, <2>2, <2>4, <2>5, <2>6, DispatchKeeps
<1>5. CASE /\ Opens("DISCONNECTED") /\ Later(<< >>) /\ UNCHANGED <<state, fd, nickValid, msgQueue>>
  <2>1. "DISCONNECTED" \in States
    BY DEF States
  <2>2. /\ Open' = Open \cup {new} /\ conn' \in [Open' -> Connections]
        /\ conn'[new].peer = "DISCONNECTED"
        /\ \A f \in Open : conn'[f] = conn[f]
    <3>1. [NewConnection EXCEPT !.peer = "DISCONNECTED"].peer = "DISCONNECTED"
      BY DEF NewConnection
    <3>2. QED
      BY <1>3, <1>5, <2>1, <3>1
  <2>3. SameEnds
    BY <2>2 DEF SameEnds, Live
  <2>4. SessionInv'
    BY <1>2, <1>5, <2>3, SessionKept
  <2>5. EventsKept /\ NoKeys(events')
    <3>1. << >> \in Seq(Events) /\ NoKeys(<< >>)
      BY DEF NoKeys
    <3>2. QED
      BY <1>5, <3>1, KeyLater
  <2>6. Open' \subseteq Fds
    BY <1>1, <1>2, <2>2
  <2>7. QED
    BY <1>2, <1>5, <2>2, <2>4, <2>5, <2>6, DispatchKeeps
<1>6. QED
  BY <1>4, <1>5 DEF Connect, new

LEMMA DisconnectInv ==
  ASSUME Inv, events # << >>, IsKey(Head(events)), phase' = "dispatch",
         UNCHANGED <<ready, reported, polled>>, NEW more \in Seq(Events), NoKeys(more),
         Disconnect(more)
  PROVE  Inv'
<1>1. msgQueue = << >>
  BY KeyBefore
<1>2. /\ polled' \subseteq Fds /\ Cardinality(polled') <= SocketEntries
      /\ conn \in [Open -> Connections] /\ Open \subseteq Fds /\ TypeOK /\ SessionInv
      /\ fd \in Fds \cup {Unassigned} /\ nickValid \in BOOLEAN
  BY DispatchBefore
<1>3. /\ Queue(<<"QUIT">>) /\ Later(Disconnecting(fd) \o more) /\ state' = "DISCONNECTED"
      /\ UNCHANGED <<fd, nickValid, conn>>
  BY DEF Disconnect, ToDisconnected
<1>4. msgQueue' = <<"QUIT">>
  <2>1. "QUIT" \in Messages
    BY DEF Messages
  <2>2. <<"QUIT">> \in Seq(Messages) /\ Len(<<"QUIT">>) <= 2
    BY <2>1
  <2>3. QED
    BY <1>1, <1>3, <2>2, QueueAlone
<1>5. SessionInv'
  BY <1>1, <1>2, <1>3, <1>4, QuitQueued
<1>6. EventsKept /\ NoKeys(events')
  <2>1. Disconnecting(fd) \in Seq(Events) /\ NoKeys(Disconnecting(fd))
    BY <1>2, EventItems
  <2>2. Disconnecting(fd) \o more \in Seq(Events) /\ NoKeys(Disconnecting(fd) \o more)
    BY <2>1, NoKeysConcat
  <2>3. QED
    BY <1>3, <2>2, KeyLater
<1>7. Open' = Open
  BY <1>3, EndsUnchanged
<1>8. state' \in States
  BY <1>3 DEF States
<1>9. QED
  BY <1>2, <1>3, <1>5, <1>6, <1>7, <1>8, DispatchKeeps

\* NICK, USER, JOIN, PART and PRIVMSG, as far as they change the session.
LEMMA CommandSession ==
  ASSUME TypeOK, SessionInv, msgQueue = << >>, fd' = fd, conn' = conn,
         NEW line \in Lines \ {"TYPE", "CONNECT", "DISCONNECT", "QUIT"}, Allowed(state, line),
         CASE line = "NICK" -> Nick
           [] line = "USER" -> User
           [] line = "JOIN" -> Join
           [] line = "PART" -> Part
           [] OTHER -> Privmsg(line)
  PROVE  SessionInv' /\ state' \in States /\ nickValid' \in BOOLEAN
<1>1. state \in States /\ nickValid \in BOOLEAN
  BY DEF TypeOK
<1>2. ASSUME NEW msg \in Messages, Queue(<<msg>>)
      PROVE  msgQueue' = <<msg>>
  <2>1. <<msg>> \in Seq(Messages) /\ Len(<<msg>>) <= 2
    OBVIOUS
  <2>2. QED
    BY <1>2, <2>1, QueueAlone
<1>3. {"NICK", "USER", "JOIN", "PART", "PRIVMSG", "EMPTY"} \subseteq Messages
  BY DEF Messages
<1>4. SameEnds
  BY EndsUnchanged
<1>5. CASE line = "NICK"
  <2>1. /\ nickValid' = TRUE
        /\ IF state = "DISCONNECTED" THEN UNCHANGED msgQueue ELSE Queue(<<"NICK">>)
        /\ state' = IF state = "CONNECTED" THEN "START_REGISTRATION" ELSE state
    BY <1>5 DEF Nick
  <2>2. state \in {"DISCONNECTED", "CONNECTED", "REGISTERED", "IN_CHANNEL"}
    BY <1>1, <1>5 DEF Allowed, States
  <2>3. state # "DISCONNECTED" => msgQueue' = <<"NICK">>
    BY <1>2, <1>3, <2>1
  <2>4. CASE state = "DISCONNECTED"
    BY <1>1, <1>4, <2>1, <2>4, SessionKept
  <2>5. CASE state = "CONNECTED"
    <3>1. SessionInv'
      BY <2>1, <2>3, <2>5, NickQueued
    <3>2. QED
      BY <2>1, <2>5, <3>1 DEF States
  <2>6. CASE state \in {"REGISTERED", "IN_CHANNEL"}
    <3>1. "NICK" \in Messages \ {"USER"}
      BY <1>3
    <3>2. SessionInv'
      BY <2>1, <2>3, <2>6, <3>1, OtherQueued
    <3>3. QED
      BY <1>1, <2>1, <2>6, <3>2
  <2>7. QED
    BY <2>2, <2>4, <2>5, <2>6
<1>6. CASE line = "USER"
  <2>1. /\ IF state = "START_REGISTRATION"
           THEN Queue(<<"USER">>) /\ state' = "REGISTERED"
           ELSE UNCHANGED <<msgQueue, state>>
        /\ UNCHANGED nickValid
    BY <1>6 DEF User
  <2>2. CASE state = "START_REGISTRATION"
    <3>1. msgQueue' = <<"USER">>
      BY <1>2, <1>3, <2>1, <2>2
    <3>2. SessionInv'
      BY <2>1, <2>2, <3>1, UserQueued
    <3>3. QED
      BY <1>1, <2>1, <2>2, <3>2 DEF States
  <2>3. CASE state # "START_REGISTRATION"
    BY <1>1, <1>4, <2>1, <2>3, SessionKept
  <2>4. QED
    BY <2>2, <2>3
<1>7. CASE line \notin {"NICK", "USER"}
  <2>1. state \in {"REGISTERED", "IN_CHANNEL"}
    BY <1>1, <1>7 DEF Allowed, States, Lines
  <2>2. PICK msg \in Messages \ {"USER"} :
          /\ Queue(<<msg>>) /\ state' \in {state, "IN_CHANNEL"} /\ UNCHANGED nickValid
          /\ msg = "JOIN" => state' = "IN_CHANNEL"
    <3>1. {"JOIN", "PART", "PRIVMSG", "EMPTY"} \subseteq Messages \ {"USER"}
      BY <1>3
    <3>2. CASE line = "JOIN"
      BY <3>1, <3>2 DEF Join
    <3>3. CASE line = "PART"
      BY <3>1, <3>3 DEF Part
    <3>4. CASE line \notin {"JOIN", "PART"}
      <4>1. Privmsg(line)
        BY <1>7, <3>4
      <4>2. QED
        BY <3>1, <4>1 DEF Privmsg
    <3>5. QED
      BY <3>2, <3>3, <3>4
  <2>3. msgQueue' = <<msg>>
    BY <1>2, <2>2
  <2>4. SessionInv'
    BY <2>1, <2>2, <2>3, OtherQueued
  <2>5. QED
    BY <1>1, <2>2, <2>4 DEF States
<1>8. QED
  BY <1>5, <1>6, <1>7

LEMMA ExecuteInv ==
  ASSUME Inv, events # << >>, IsKey(Head(events)), phase' = "dispatch",
         UNCHANGED <<ready, reported, polled>>, Execute(Head(events).line)
  PROVE  Inv'
<1> DEFINE line == Head(events).line
<1>1. msgQueue = << >> /\ line \in Lines
  BY KeyBefore
<1>2. fd \in Fds \cup {Unassigned} /\ TypeOK /\ SessionInv
  BY DispatchBefore
<1>3. << >> \in Seq(Events) /\ NoKeys(<< >>)
  BY DEF NoKeys
<1> DEFINE ending == <<Ev("CD"), Ev("EXIT")>>
<1>4. ending \in Seq(Events) /\ NoKeys(ending)
  <2>1. Ev("CD") \in Events /\ ~IsKey(Ev("CD")) /\ Ev("EXIT") \in Events /\ ~IsKey(Ev("EXIT"))
    BY <1>2, EventItems
  <2>2. QED
    BY <2>1 DEF NoKeys
<1>5. CASE line = "TYPE" \/ ~Allowed(state, line)
  <2>1. Later(<< >>) /\ UNCHANGED <<state, fd, nickValid, msgQueue, conn>>
    BY <1>5 DEF Execute
  <2>2. QED
    BY <1>3, <2>1, IgnoredInv
<1>6. CASE line # "TYPE" /\ Allowed(state, line) /\ line = "CONNECT"
  <2>1. Connect
    BY <1>6 DEF Execute
  <2>2. QED
    BY <1>6, <2>1, ConnectInv
<1>7. CASE line # "TYPE" /\ Allowed(state, line) /\ line = "DISCONNECT"
  <2>1. Disconnect(<< >>)
    BY <1>7 DEF Execute
  <2>2. QED
    BY <1>3, <2>1, DisconnectInv
<1>8. CASE line # "TYPE" /\ Allowed(state, line) /\ line = "QUIT"
  <2>1. Quit
    BY <1>8 DEF Execute
  <2>2. CASE Allowed(state, "DISCONNECT")
    <3>1. Disconnect(ending)
      BY <2>1, <2>2 DEF Quit
    <3>2. QED
      BY <1>4, <3>1, DisconnectInv
  <2>3. CASE ~Allowed(state, "DISCONNECT")
    <3>1. Later(ending) /\ UNCHANGED <<state, fd, nickValid, msgQueue, conn>>
      BY <2>1, <2>3 DEF Quit
    <3>2. QED
      BY <1>4, <3>1, IgnoredInv
  <2>4. QED
    BY <2>2, <2>3
<1>9. CASE /\ Allowed(state, line)
           /\ line \notin {"TYPE", "CONNECT", "DISCONNECT", "QUIT"}
  <2>1. /\ CASE line = "NICK" -> Nick
             [] line = "USER" -> User
             [] line = "JOIN" -> Join
             [] line = "PART" -> Part
             [] OTHER -> Privmsg(line)
        /\ Later(<< >>) /\ UNCHANGED <<fd, conn>>
    BY <1>9, Zenon DEF Execute
  <2>2. line \in Lines \ {"TYPE", "CONNECT", "DISCONNECT", "QUIT"}
    BY <1>1, <1>9
  <2>3. SessionInv' /\ state' \in States /\ nickValid' \in BOOLEAN
    BY <1>1, <1>2, <1>9, <2>1, <2>2, CommandSession
  <2>4. EventsKept /\ NoKeys(events')
    BY <1>3, <2>1, KeyLater
  <2>5. Open' = Open /\ conn' \in [Open' -> Connections]
    <3>1. Open' = Open
      BY <2>1, EndsUnchanged
    <3>2. QED
      BY <2>1, <3>1, DispatchBefore
  <2>6. QED
    BY <2>1, <2>3, <2>4, <2>5, DispatchBefore, DispatchKeeps
<1>10. QED
  BY <1>5, <1>6, <1>7, <1>8, <1>9

LEMMA DispatchSessionInv ==
  ASSUME Inv, events # << >>, phase' = "dispatch", UNCHANGED <<ready, reported>>, DispatchSession
  PROVE  Inv'
<1> DEFINE event == Head(events)
<1>1. event \in Events
  BY DispatchBefore
<1>2. CASE event.kind = "CD"
  BY <1>2, FlushAndTerminateInv DEF DispatchSession
<1>3. CASE event.kind = "RM"
  BY <1>3, RemovePollFdInv DEF DispatchSession
<1>4. CASE event.kind = "ADD"
  <2>1. event.fd \in Fds
    BY <1>1, <1>4 DEF Events
  <2>2. QED
    BY <1>4, <2>1, AddPollFdInv DEF DispatchSession
<1>5. CASE event.kind \in {"MSG", "PC", "TIMER"}
  <2>1. << >> \in Seq(Events) /\ NoKeys(<< >>)
    BY DEF NoKeys
  <2>2. Later(<< >>) /\ UNCHANGED <<state, fd, nickValid, msgQueue, polled, conn>>
    BY <1>5 DEF DispatchSession
  <2>3. QED
    BY <2>1, <2>2, IgnoredInv
<1>6. CASE event.kind \notin {"CD", "RM", "ADD", "MSG", "PC", "TIMER"}
  BY <1>6 DEF DispatchSession
<1>7. QED
  BY <1>2, <1>3, <1>4, <1>5, <1>6

LEMMA DispatchInv == Inv /\ Dispatch => Inv'
<1> SUFFICES ASSUME Inv, Dispatch PROVE Inv'
  OBVIOUS
<1>1. events # << >> /\ phase = "dispatch" /\ UNCHANGED <<ready, reported>>
  BY DEF Dispatch
<1>2. CASE phase' = "dispatch" /\ DispatchKey
  <2>1. IsKey(Head(events)) /\ Execute(Head(events).line) /\ UNCHANGED polled
    BY <1>2 DEF DispatchKey, IsKey
  <2>2. QED
    BY <1>1, <1>2, <2>1, ExecuteInv
<1>3. CASE phase' = "dispatch" /\ DispatchSession
  BY <1>1, <1>3, DispatchSessionInv
<1>4. CASE Exit
  <2>1. phase' = "exited" /\ UNCHANGED <<client, conn>>
    BY <1>4 DEF Exit
  <2>2. UNCHANGED <<state, fd, nickValid, msgQueue, events, polled, conn>>
    BY <2>1 DEF client
  <2>3. SameEnds /\ Open' = Open
    BY <2>2, EndsUnchanged
  <2>4. SessionInv'
    BY <2>2, <2>3, SessionKept DEF Inv
  <2>5. TypeOK' /\ OneLineAtATime' /\ Cardinality(polled') <= SocketEntries
    BY <1>1, <2>1, <2>2, <2>3 DEF Inv, TypeOK, OneLineAtATime, KeyAt
  <2>6. QED
    BY <2>4, <2>5 DEF Inv
<1>5. QED
  BY <1>2, <1>3, <1>4 DEF Dispatch

LEMMA NextInv == Inv /\ [Next]_vars => Inv'
<1> SUFFICES ASSUME Inv, [Next]_vars PROVE Inv'
  OBVIOUS
<1>1. CASE UNCHANGED vars
  <2>1. /\ UNCHANGED <<phase, ready, reported, state, fd, nickValid, msgQueue, events, polled, conn>>
    BY <1>1 DEF vars, client
  <2>2. SameEnds /\ Open' = Open
    BY <2>1, EndsUnchanged
  <2>3. SessionInv'
    BY <2>1, <2>2, SessionKept DEF Inv
  <2>4. TypeOK' /\ OneLineAtATime' /\ Cardinality(polled') <= SocketEntries
    BY <2>1, <2>2 DEF Inv, TypeOK, OneLineAtATime, KeyAt
  <2>5. QED
    BY <2>3, <2>4 DEF Inv
<1>2. QED
  BY <1>1, PollInv, ReadSocketInv, DispatchInv, EndIterationInv, ServerInv DEF Next, Step

\* The inductive invariant holds throughout.
LEMMA SpecInv == Spec => []Inv
  BY InitInv, NextInv, PTL DEF Spec

------------------------------------------------------------------------------
(* Results *)

\* The queues of the client stay within their slots, one socket at most is
\* polled, and what the loop, the handlers and the server write stays in range.
THEOREM TypeCorrect == Spec => []TypeOK
<1>1. Inv => TypeOK
  BY DEF Inv
<1>2. QED
  BY <1>1, SpecInv, PTL

\* The server never has a later state of the session than the client: a
\* command that the server would take is never refused to the user.
THEOREM NeverAhead == Spec => []ServerNeverAhead
<1>1. Inv => ServerNeverAhead
  <2> SUFFICES ASSUME Inv, InSession PROVE Rank(Session.peer) <= Rank(state)
    BY DEF ServerNeverAhead
  <2>1. state \in States /\ state # "DISCONNECTED" /\ Behind(state, conn[fd], Pending(fd))
    BY DEF Inv, TypeOK, SessionInv, ServerBehind, InSession
  <2>2. fd \in Live /\ Registering(conn[fd], Pending(fd)) /\ conn[fd].peer \in States
    <3>1. fd \in Live
      BY DEF InSession
    <3>2. QED
      BY <3>1 DEF Inv, TypeOK, SessionInv, RegistrationsOnce, Live, Connections
  <2>3. QED
    BY <2>1, <2>2 DEF Behind, Registering, Rank, Session, States
<1>2. QED
  BY <1>1, SpecInv, PTL

\* When everything is answered, nothing of the registration was refused and no
\* interrupted write lost a message, the client's table of states and the
\* server's agree.
THEOREM TablesAgree == Spec => []StatesAgree
<1>1. Inv => StatesAgree
  <2> SUFFICES ASSUME Inv, InSession, msgQueue = << >>, Session.wire = << >>, ~Session.refused,
                      ~Session.lost
               PROVE  state = Session.peer \/ (state = "IN_CHANNEL" /\ Session.peer = "REGISTERED")
    BY DEF StatesAgree
  <2>1. state \in States /\ state # "DISCONNECTED" /\ Behind(state, conn[fd], Pending(fd))
    BY DEF Inv, TypeOK, SessionInv, ServerBehind, InSession
  <2>2. Pending(fd) = << >>
    <3>1. << >> \o << >> = << >>
      OBVIOUS
    <3>2. QED
      BY <3>1 DEF Pending, Session
  <2>3. Len(<< >>) = 0
    OBVIOUS
  <2>4. QED
    BY <2>1, <2>2, <2>3 DEF Behind, Session, States
<1>2. QED
  BY <1>1, SpecInv, PTL

\* A user whose registration was refused is never registered on that connection.
THEOREM RefusalIsFinal == Spec => []RefusedIsFinal
<1>1. Inv => RefusedIsFinal
  BY DEF Inv, SessionInv, RegistrationsOnce, Registering, RefusedIsFinal, Live
<1>2. QED
  BY <1>1, SpecInv, PTL

\* A client that leaves a session tells the server, or has been cut off by a
\* message that it could not write, or lost one to an interrupted write.
THEOREM QuitToldFirst == Spec => []QuitFirst
<1>1. Inv => QuitFirst
  BY DEF Inv, SessionInv
<1>2. QED
  BY <1>1, SpecInv, PTL

------------------------------------------------------------------------------
(* The line editor: strings *)

\* strlen() stops at the first NUL or at the end of the message.
LEMMA StringEnds ==
  ASSUME NEW bytes \in Contents
  PROVE  /\ StrLen(bytes) \in 0 .. MaxChars
         /\ \A i \in 1 .. MaxChars : i <= StrLen(bytes) <=> \A j \in 1 .. i : bytes[j] # NUL
<1> DEFINE Stops == {n \in 0 .. MaxChars : n < MaxChars => bytes[n + 1] = NUL}
<1> DEFINE m == Min(Stops)
<1>1. MaxChars \in Nat \ {0}
  BY ConstantsAssumption
<1>2. m \in Stops /\ \A n \in Stops : m <= n
  <2>1. MaxChars \in Stops
    BY <1>1
  <2>2. Stops \in SUBSET Nat /\ Stops # {}
    BY <2>1
  <2>3. QED
    BY <2>2, LeastNumber
<1>3. m \in 0 .. MaxChars
  BY <1>1, <1>2
<1>4. \A j \in 1 .. m : bytes[j] # NUL
  <2>1. SUFFICES ASSUME NEW j \in 1 .. m, bytes[j] = NUL PROVE FALSE
    OBVIOUS
  <2>2. j - 1 \in Stops
    BY <1>1, <1>3, <2>1
  <2>3. QED
    BY <1>2, <1>3, <2>2
<1>5. \A i \in 1 .. MaxChars : i <= m <=> \A j \in 1 .. i : bytes[j] # NUL
  <2>1. SUFFICES ASSUME NEW i \in 1 .. MaxChars
                 PROVE  i <= m <=> \A j \in 1 .. i : bytes[j] # NUL
    OBVIOUS
  <2>2. CASE i <= m
    BY <1>3, <1>4, <2>2
  <2>3. CASE ~(i <= m)
    <3>1. m < MaxChars /\ m + 1 \in 1 .. i /\ bytes[m + 1] = NUL
      BY <1>1, <1>2, <1>3, <2>3
    <3>2. QED
      BY <2>3, <3>1
  <2>4. QED
    BY <2>2, <2>3
<1>6. {i \in 1 .. MaxChars : \A j \in 1 .. i : bytes[j] # NUL} = 1 .. m
  <2>1. \A i \in 1 .. m : i \in 1 .. MaxChars /\ i <= m
    BY <1>1, <1>3
  <2>2. \A i \in 1 .. MaxChars : i <= m => i \in 1 .. m
    BY <1>1, <1>3
  <2> HIDE DEF m
  <2>3. QED
    BY <1>5, <2>1, <2>2
<1>7. StrLen(bytes) = m
  <2>1. Cardinality(1 .. m) = m
    BY <1>3, FS_Interval
  <2>2. QED
    BY <1>6, <2>1 DEF StrLen
<1>8. QED
  BY <1>3, <1>5, <1>7, Zenon

\* What a string of C holds.
LEMMA TextItems ==
  ASSUME NEW bytes \in Contents
  PROVE  /\ Text(bytes) \in Seq(Chars) /\ Len(Text(bytes)) = StrLen(bytes)
         /\ StrLen(bytes) \in 0 .. MaxChars
         /\ \A i \in 1 .. StrLen(bytes) : Text(bytes)[i] = bytes[i] /\ bytes[i] \in Chars
<1>1. StrLen(bytes) \in 0 .. MaxChars /\ MaxChars \in Nat
  BY StringEnds, ConstantsAssumption
<1>2. \A i \in 1 .. StrLen(bytes) : bytes[i] \in Chars
  <2>1. SUFFICES ASSUME NEW i \in 1 .. StrLen(bytes) PROVE bytes[i] \in Chars
    OBVIOUS
  <2>2. i \in 1 .. MaxChars /\ i <= StrLen(bytes)
    BY <1>1
  <2>3. bytes[i] # NUL
    <3>1. \A j \in 1 .. i : bytes[j] # NUL
      BY <2>2, StringEnds
    <3>2. QED
      BY <2>2, <3>1
  <2>4. QED
    BY <2>2, <2>3 DEF Contents
<1>3. QED
  BY <1>1, <1>2 DEF Text

\* The texts of a message are the sequences of at most MaxChars characters.
LEMMA ShortText ==
  ASSUME NEW s
  PROVE  s \in SeqOf(Chars, MaxChars) <=> s \in Seq(Chars) /\ Len(s) <= MaxChars
<1>1. MaxChars \in Nat
  BY ConstantsAssumption
<1>2. ASSUME s \in SeqOf(Chars, MaxChars) PROVE s \in Seq(Chars) /\ Len(s) <= MaxChars
  <2>1. PICK n \in 0 .. MaxChars : s \in [1 .. n -> Chars]
    BY <1>2 DEF SeqOf
  <2>2. QED
    BY <1>1, <2>1
<1>3. ASSUME s \in Seq(Chars), Len(s) <= MaxChars PROVE s \in SeqOf(Chars, MaxChars)
  <2>1. Len(s) \in 0 .. MaxChars /\ s \in [1 .. Len(s) -> Chars]
    BY <1>1, <1>3
  <2>2. QED
    BY <2>1 DEF SeqOf
<1>4. QED
  BY <1>2, <1>3

\* Where the bytes say that the string ends.
LEMMA LengthIs ==
  ASSUME NEW bytes \in Contents, NEW n \in 0 .. MaxChars,
         \A i \in 1 .. n : bytes[i] # NUL,
         n < MaxChars => bytes[n + 1] = NUL
  PROVE  StrLen(bytes) = n
<1>1. StrLen(bytes) \in 0 .. MaxChars /\ MaxChars \in Nat
  BY StringEnds, ConstantsAssumption
<1>2. ASSUME StrLen(bytes) < n PROVE FALSE
  <2>1. n \in 1 .. MaxChars /\ ~(n <= StrLen(bytes))
    BY <1>1, <1>2
  <2>2. \A j \in 1 .. n : bytes[j] # NUL
    OBVIOUS
  <2>3. QED
    BY <2>1, <2>2, StringEnds
<1>3. ASSUME n < StrLen(bytes) PROVE FALSE
  <2>1. n + 1 \in 1 .. MaxChars /\ n + 1 <= StrLen(bytes) /\ n + 1 \in 1 .. n + 1
    BY <1>1, <1>3
  <2>2. bytes[n + 1] # NUL
    BY <2>1, StringEnds
  <2>3. QED
    BY <1>1, <1>3, <2>2
<1>4. QED
  BY <1>1, <1>2, <1>3

\* safe_copy() makes a message hold the text, whatever was there before.
LEMMA CopiedText ==
  ASSUME NEW bytes \in Contents, NEW s \in Seq(Chars), Len(s) <= MaxChars
  PROVE  Copied(bytes, s) \in Contents /\ Text(Copied(bytes, s)) = s
<1> PICK copy : copy = Copied(bytes, s)
  OBVIOUS
<1>1. MaxChars \in Nat /\ Len(s) \in 0 .. MaxChars
  BY ConstantsAssumption
<1>2. copy \in Contents
  BY <1>1 DEF Copied, Contents
<1>3. /\ \A i \in 1 .. Len(s) : copy[i] = s[i] /\ copy[i] # NUL
      /\ Len(s) < MaxChars => copy[Len(s) + 1] = NUL
  BY <1>1, NulAssumption DEF Copied
<1>4. StrLen(copy) \in 0 .. MaxChars
  BY <1>2, StringEnds
<1>5. Len(s) <= StrLen(copy)
  <2>1. CASE Len(s) = 0
    BY <1>4, <2>1
  <2>2. CASE Len(s) # 0
    <3>1. Len(s) \in 1 .. MaxChars
      BY <1>1, <2>2
    <3>2. QED
      BY <1>2, <1>3, <3>1, StringEnds
  <2>3. QED
    BY <2>1, <2>2
<1>6. ~(Len(s) < StrLen(copy))
  <2>1. SUFFICES ASSUME Len(s) < StrLen(copy) PROVE FALSE
    OBVIOUS
  <2>2. Len(s) + 1 \in 1 .. MaxChars /\ Len(s) + 1 <= StrLen(copy)
    BY <1>1, <1>4, <2>1
  <2>3. \A j \in 1 .. Len(s) + 1 : copy[j] # NUL
    BY <1>2, <2>2, StringEnds
  <2>4. QED
    BY <1>1, <1>3, <2>2, <2>3
<1>7. Len(Text(copy)) = Len(s) /\ Text(copy) \in Seq(Chars)
  BY <1>1, <1>2, <1>4, <1>5, <1>6, TextItems
<1>8. \A i \in 1 .. Len(s) : Text(copy)[i] = s[i]
  BY <1>2, <1>3, <1>7, TextItems
<1>9. Text(copy) = s
  BY <1>7, <1>8, SeqEqual
<1>10. QED
  BY <1>2, <1>9

\* A character taken out.
LEMMA RemovedItems ==
  ASSUME NEW s \in Seq(Chars), NEW k \in 1 .. Len(s)
  PROVE  /\ RemoveAt(s, k) \in Seq(Chars)
         /\ Len(RemoveAt(s, k)) = Len(s) - 1
         /\ \A i \in 1 .. Len(s) - 1 : RemoveAt(s, k)[i] = IF i < k THEN s[i] ELSE s[i + 1]
<1> DEFINE a == SubSeq(s, 1, k - 1)
           b == SubSeq(s, k + 1, Len(s))
<1>1. /\ a \in Seq(Chars) /\ Len(a) = k - 1 /\ \A i \in 1 .. k - 1 : a[i] = s[i]
      /\ b \in Seq(Chars) /\ Len(b) = Len(s) - k
      /\ \A i \in 1 .. Len(s) - k : b[i] = s[k + i]
  OBVIOUS
<1>2. RemoveAt(s, k) = a \o b
  BY Zenon DEF RemoveAt
<1> HIDE DEF a, b
<1>3. /\ a \o b \in Seq(Chars) /\ Len(a \o b) = Len(s) - 1
      /\ \A i \in 1 .. Len(s) - 1 : (a \o b)[i] = IF i <= k - 1 THEN a[i] ELSE b[i - (k - 1)]
  BY <1>1, ConcatProperties
<1> DEFINE e == a \o b
<1>4. \A i \in 1 .. Len(s) - 1 : e[i] = IF i <= k - 1 THEN a[i] ELSE b[i - (k - 1)]
  BY <1>3
<1> HIDE DEF e
<1>5. \A i \in 1 .. Len(s) - 1 : e[i] = IF i < k THEN s[i] ELSE s[i + 1]
  <2>1. TAKE i \in 1 .. Len(s) - 1
  <2>2. CASE i < k
    <3>1. i <= k - 1 /\ i \in 1 .. k - 1
      BY <2>2
    <3>2. e[i] = a[i]
      BY <1>4, <3>1
    <3>3. a[i] = s[i]
      BY <1>1, <3>1
    <3>4. QED
      BY <2>2, <3>2, <3>3
  <2>3. CASE i >= k
    <3>1. i - (k - 1) \in 1 .. Len(s) - k /\ k + (i - (k - 1)) = i + 1
      BY <2>3
    <3>2. e[i] = b[i - (k - 1)]
      BY <1>4, <2>3
    <3>3. b[i - (k - 1)] = s[k + (i - (k - 1))]
      BY <1>1, <3>1
    <3>4. e[i] = s[i + 1]
      BY <3>1, <3>2, <3>3, Zenon
    <3>5. QED
      BY <2>3, <3>4
  <2>4. QED
    BY <2>2, <2>3
<1>6. QED
  BY <1>2, <1>3, <1>5, Zenon DEF e

------------------------------------------------------------------------------
(* The line editor: the inductive invariant *)

\* The next command goes behind the last one of the history.
RearBehindHistory == rear = (first + count) % Capacity

\* While the history has room and no saved command was edited, there is nothing
\* behind the text of any command: the slots behind the new one are empty, the new
\* one is the only that is written to, and both queues hold the same saved commands.
RoomLeft == cleared /\ count < Capacity /\ ~everEdited
NothingLeftBehind ==
  RoomLeft =>
    /\ first = 0 /\ currentIdx <= rear
    /\ \A s \in Slots : \A i \in 1 .. MaxChars : StrLen(frontCmd[s]) < i => frontCmd[s][i] = NUL
    /\ \A s \in Slots : s # rear => Text(frontCmd[s]) = Text(backCmd[s])
    /\ \A s \in Slots : rear < s => frontCmd[s] = Empty
    /\ StrLen(current) = charCount

EditorInv ==
  /\ EditorTypeOK
  /\ RearBehindHistory
  /\ ShownIsRun
  /\ HistoryReadsBack
  /\ NothingLeftBehind

\* The sizes are positive.
LEMMA EditorSizes ==
  /\ Capacity \in Nat \ {0} /\ MaxChars \in Nat \ {0}
  /\ Widths \subseteq Nat \ {0} /\ InputWidth \in Widths
  BY ConstantsAssumption

\* The slot that lies a number of places after another one.
LEMMA SlotAhead ==
  ASSUME NEW f \in Slots, NEW k \in 0 .. Capacity
  PROVE  /\ (f + k) % Capacity \in Slots
         /\ (f + k) % Capacity = IF f + k < Capacity THEN f + k ELSE f + k - Capacity
  BY EditorSizes DEF Slots

\* Nothing is shown and nothing was run, whatever the memory of the queues holds.
LEMMA EditorStarts == EditorInit => EditorInv
<1> SUFFICES ASSUME EditorInit PROVE EditorInv
  OBVIOUS
<1>1. {MaxChars, Capacity} \cup Widths \subseteq Nat \ {0} /\ InputWidth \in Widths
  BY ConstantsAssumption
<1>2. PICK bytes \in {Empty} \union Junk : frontCmd = [s \in Slots |-> bytes] /\ cleared = (bytes = Empty)
  BY DEF EditorInit
<1>3. bytes \in Contents
  BY <1>1 DEF Empty, Blank, Junk, Contents
<1>4. 0 \in Slots
  BY <1>1 DEF Slots
<1>5. width \in Widths /\ screen \in [1 .. width -> Chars \union {NUL}] /\ windowCursor \in 0 .. width - 1
  BY <1>1 DEF EditorInit, Blank
<1>6. entered \in Seq(SeqOf(Chars, MaxChars)) /\ Len(entered) = 0
  BY DEF EditorInit
<1>7. EditorTypeOK
  BY <1>1, <1>2, <1>3, <1>4, <1>5, <1>6 DEF EditorInit, EditorTypeOK
<1>8. RearBehindHistory
  BY <1>4, SlotAhead, <1>1 DEF EditorInit, RearBehindHistory
<1>9. ShownIsRun
  <2>1. charCount = 0 /\ cursor = 0 /\ windowCursor = 0 /\ width \in Nat \ {0}
    BY <1>1, <1>5 DEF EditorInit
  <2>2. screen = Blank(width)
    BY DEF EditorInit
  <2>3. screen = Shown(current, charCount, width)
    <3>1. \A i \in 1 .. width : ~(i <= charCount)
      BY <2>1
    <3>2. QED
      BY <2>2, <3>1 DEF Shown, Blank
  <2>4. QED
    BY <2>1, <2>3 DEF ShownIsRun
<1>10. HistoryReadsBack
  BY DEF HistoryReadsBack, EditorInit
<1>11. NothingLeftBehind
  <2>1. SUFFICES ASSUME cleared PROVE NothingLeftBehind
    BY DEF NothingLeftBehind, RoomLeft
  <2>2. \A s \in Slots : frontCmd[s] = Empty /\ backCmd[s] = Empty
    BY <1>2, <2>1 DEF EditorInit
  <2>3. \A i \in 1 .. MaxChars : Empty[i] = NUL
    BY DEF Empty, Blank
  <2>4. StrLen(Empty) = 0
    <3>1. Empty \in Contents /\ 0 \in 0 .. MaxChars /\ 1 \in 1 .. MaxChars
      BY <1>1 DEF Empty, Blank, Contents
    <3>2. QED
      BY <2>3, <3>1, LengthIs
  <2>5. current = Empty /\ charCount = 0 /\ first = 0 /\ currentIdx = 0 /\ rear = 0
    BY <1>4, <2>2 DEF EditorInit, current
  <2>6. QED
    BY <2>2, <2>3, <2>4, <2>5 DEF NothingLeftBehind
<1>12. QED
  BY <1>7, <1>8, <1>9, <1>10, <1>11 DEF EditorInv

\* What the invariant says of the line that is edited.
LEMMA LineShown ==
  ASSUME EditorInv
  PROVE  /\ current \in Contents /\ currentIdx \in Slots /\ current = frontCmd[currentIdx]
         /\ charCount \in 0 .. MaxChars /\ cursor \in 0 .. charCount /\ MaxChars \in Nat \ {0}
         /\ width \in Nat \ {0} /\ width \in Widths /\ torn \in BOOLEAN
         /\ screen \in [1 .. width -> Chars \union {NUL}] /\ windowCursor \in 0 .. width - 1
         /\ \A i \in 1 .. charCount : current[i] \in Chars
         /\ charCount <= StrLen(current)
         /\ cursor < width => windowCursor = cursor
         /\ ~torn => \A i \in 1 .. width : screen[i] = IF i <= charCount THEN current[i] ELSE NUL
<1>1. /\ current \in Contents /\ currentIdx \in Slots /\ current = frontCmd[currentIdx]
      /\ charCount \in 0 .. MaxChars /\ cursor \in 0 .. charCount /\ MaxChars \in Nat \ {0}
      /\ width \in Nat \ {0} /\ width \in Widths /\ torn \in BOOLEAN
      /\ screen \in [1 .. width -> Chars \union {NUL}] /\ windowCursor \in 0 .. width - 1
  BY ConstantsAssumption DEF EditorInv, EditorTypeOK, current
<1>2. /\ \A i \in 1 .. charCount : current[i] # NUL
      /\ cursor < width => windowCursor = cursor
      /\ ~torn => screen = Shown(current, charCount, width)
  BY DEF EditorInv, ShownIsRun
<1>3. \A i \in 1 .. charCount : current[i] \in Chars
  BY <1>1, <1>2 DEF Contents
<1>4. charCount <= StrLen(current)
  <2>1. StrLen(current) \in 0 .. MaxChars
    BY <1>1, StringEnds
  <2>2. CASE charCount = 0
    BY <2>1, <2>2
  <2>3. CASE charCount # 0
    <3>1. charCount \in 1 .. MaxChars
      BY <1>1, <2>3
    <3>2. QED
      BY <1>1, <1>2, <3>1, StringEnds
  <2>4. QED
    BY <2>2, <2>3
<1>5. ~torn => \A i \in 1 .. width : screen[i] = IF i <= charCount THEN current[i] ELSE NUL
  BY <1>2 DEF Shown
<1>6. QED
  BY <1>1, <1>2, <1>3, <1>4, <1>5

\* Behind the line there is nothing as long as the history has room.
LEMMA NoTail ==
  ASSUME EditorInv, RoomLeft
  PROVE  /\ StrLen(current) = charCount
         /\ \A i \in 1 .. MaxChars : charCount < i => current[i] = NUL
  BY LineShown DEF EditorInv, NothingLeftBehind

\* A change of the line leaves the history as it is, except for the slot that is
\* noted as edited.
LEMMA HistoryEdited ==
  ASSUME EditorInv, NEW bytes \in Contents, Edit(bytes)
  PROVE  RearBehindHistory' /\ HistoryReadsBack'
<1>1. EditorTypeOK
  BY DEF EditorInv
<1>2. RearBehindHistory'
  BY DEF EditorInv, RearBehindHistory, Edit
<1>3. HistoryReadsBack'
  <2>1. SUFFICES ASSUME NEW i \in 1 .. count
                 PROVE  LET s == (first + i - 1) % Capacity
                        IN /\ Text(backCmd[s]) = entered[i]
                           /\ s \notin edited' => Text(frontCmd'[s]) = entered[i]
    BY DEF HistoryReadsBack, Edit
  <2> DEFINE s == (first + i - 1) % Capacity
  <2>2. Text(backCmd[s]) = entered[i] /\ (s \notin edited => Text(frontCmd[s]) = entered[i])
    BY DEF EditorInv, HistoryReadsBack
  <2>3. count \in 0 .. Capacity /\ first \in Slots /\ Capacity \in Nat \ {0}
    BY <1>1, ConstantsAssumption DEF EditorTypeOK
  <2>4. i - 1 \in 0 .. count - 1 /\ i - 1 \in 0 .. Capacity /\ first + i - 1 = first + (i - 1)
    BY <2>3 DEF Slots
  <2>5. s \in Slots /\ IsSaved(s)
    BY <2>3, <2>4, SlotAhead DEF IsSaved
  <2>6. CASE s = currentIdx
    <3>1. s \in edited'
      BY <2>5, <2>6 DEF Edit
    <3>2. QED
      BY <2>2, <3>1
  <2>7. CASE s # currentIdx
    <3>1. frontCmd'[s] = frontCmd[s] /\ (s \notin edited' => s \notin edited)
      BY <1>1, <2>5, <2>7 DEF Edit, EditorTypeOK
    <3>2. QED
      BY <2>2, <3>1
  <2>8. QED
    BY <2>6, <2>7
<1>4. QED
  BY <1>2, <1>3

\* A change of a line that is not saved leaves nothing behind it, if the bytes
\* written do not.
LEMMA TailEdited ==
  ASSUME EditorInv, NEW bytes \in Contents, Edit(bytes), charCount' \in 0 .. MaxChars,
         \A i \in 1 .. charCount' : bytes[i] # NUL,
         RoomLeft => \A i \in 1 .. MaxChars : charCount' < i => bytes[i] = NUL
  PROVE  NothingLeftBehind'
<1>1. SUFFICES ASSUME RoomLeft' PROVE NothingLeftBehind'
  BY DEF NothingLeftBehind
<1>2. RoomLeft /\ ~IsSaved(currentIdx)
  BY <1>1 DEF RoomLeft, Edit
<1>3. /\ first = 0 /\ currentIdx <= rear
      /\ \A s \in Slots : \A i \in 1 .. MaxChars : StrLen(frontCmd[s]) < i => frontCmd[s][i] = NUL
      /\ \A s \in Slots : s # rear => Text(frontCmd[s]) = Text(backCmd[s])
      /\ \A s \in Slots : rear < s => frontCmd[s] = Empty
  BY <1>2 DEF EditorInv, NothingLeftBehind
<1>4. /\ count \in 0 .. Capacity - 1 /\ Capacity \in Nat \ {0} /\ currentIdx \in Slots /\ rear \in Slots
      /\ frontCmd \in [Slots -> Contents] /\ MaxChars \in Nat
  <2>1. EditorTypeOK /\ count < Capacity
    BY <1>2 DEF EditorInv, RoomLeft
  <2>2. QED
    BY <2>1, EditorSizes DEF EditorTypeOK
<1>5. rear = count
  <2>1. rear = (first + count) % Capacity /\ 0 \in Slots /\ count \in 0 .. Capacity
    BY <1>4 DEF EditorInv, RearBehindHistory, Slots
  <2>2. (0 + count) % Capacity = IF 0 + count < Capacity THEN 0 + count ELSE 0 + count - Capacity
    BY <2>1, SlotAhead
  <2>3. QED
    BY <1>3, <1>4, <2>1, <2>2
<1>6. currentIdx = rear
  <2>1. SUFFICES ASSUME currentIdx < rear PROVE FALSE
    BY <1>3, <1>4 DEF Slots
  <2>2. currentIdx \in 0 .. count - 1 /\ currentIdx \in 0 .. Capacity /\ 0 \in Slots
    BY <1>4, <1>5, <2>1 DEF Slots
  <2>3. currentIdx = (0 + currentIdx) % Capacity
    <3>1. (0 + currentIdx) % Capacity =
            IF 0 + currentIdx < Capacity THEN 0 + currentIdx ELSE 0 + currentIdx - Capacity
      BY <2>2, SlotAhead
    <3>2. QED
      BY <1>4, <3>1 DEF Slots
  <2>4. IsSaved(currentIdx)
    BY <1>3, <2>2, <2>3 DEF IsSaved
  <2>5. QED
    BY <1>2, <2>4
<1>7. /\ frontCmd' = [frontCmd EXCEPT ![currentIdx] = bytes] /\ backCmd' = backCmd
      /\ first' = first /\ rear' = rear /\ currentIdx' = currentIdx
  BY DEF Edit
<1>8. \A s \in Slots : frontCmd'[s] = IF s = rear THEN bytes ELSE frontCmd[s]
  BY <1>4, <1>6, <1>7
<1>9. StrLen(bytes) = charCount' /\ \A i \in 1 .. MaxChars : StrLen(bytes) < i => bytes[i] = NUL
  <2>1. \A i \in 1 .. MaxChars : charCount' < i => bytes[i] = NUL
    BY <1>2
  <2>2. charCount' < MaxChars => bytes[charCount' + 1] = NUL
    BY <1>4, <2>1
  <2>3. QED
    BY <2>1, <2>2, LengthIs
<1>10. current' = bytes
  BY <1>4, <1>6, <1>7, <1>8 DEF current
<1>11. \A s \in Slots : \A i \in 1 .. MaxChars : StrLen(frontCmd'[s]) < i => frontCmd'[s][i] = NUL
  BY <1>3, <1>8, <1>9
<1>12. \A s \in Slots : s # rear => Text(frontCmd'[s]) = Text(backCmd'[s])
  BY <1>3, <1>7, <1>8
<1>13. \A s \in Slots : rear < s => frontCmd'[s] = Empty
  BY <1>3, <1>4, <1>8 DEF Slots
<1>14. QED
  BY <1>3, <1>7, <1>9, <1>10, <1>11, <1>12, <1>13 DEF NothingLeftBehind

\* What a key has to do to the line and to the window, put together.
LEMMA EditKeeps ==
  ASSUME EditorInv, NEW bytes \in Contents, Edit(bytes),
         charCount' \in 0 .. MaxChars, cursor' \in 0 .. charCount', width' = width,
         screen' \in [1 .. width -> Chars \union {NUL}], windowCursor' \in 0 .. width - 1,
         torn' \in BOOLEAN,
         \A i \in 1 .. charCount' : bytes[i] # NUL,
         cursor' < width => windowCursor' = cursor',
         ~torn' => \A i \in 1 .. width : screen'[i] = IF i <= charCount' THEN bytes[i] ELSE NUL,
         RoomLeft => \A i \in 1 .. MaxChars : charCount' < i => bytes[i] = NUL
  PROVE  EditorInv'
<1>1. EditorTypeOK
  BY DEF EditorInv
<1>2. current' = bytes
  BY <1>1 DEF Edit, EditorTypeOK, current
<1>3. EditorTypeOK'
  <2>1. frontCmd' \in [Slots -> Contents] /\ edited' \subseteq Slots /\ everEdited' \in BOOLEAN
    BY <1>1 DEF Edit, EditorTypeOK
  <2>2. QED
    BY <1>1, <2>1 DEF Edit, EditorTypeOK
<1>4. ShownIsRun'
  <2>1. ~torn' => screen' = Shown(bytes, charCount', width)
    BY DEF Shown
  <2>2. QED
    BY <1>2, <2>1 DEF ShownIsRun
<1>5. RearBehindHistory' /\ HistoryReadsBack'
  BY HistoryEdited
<1>6. NothingLeftBehind'
  BY TailEdited
<1>7. QED
  BY <1>3, <1>4, <1>5, <1>6 DEF EditorInv

\* The history stays as it is when no queue and no slot changes.
LEMMA HistoryKept ==
  ASSUME EditorInv, UNCHANGED <<frontCmd, backCmd, first, rear, count, ghosts>>
  PROVE  RearBehindHistory' /\ HistoryReadsBack'
  BY DEF EditorInv, RearBehindHistory, HistoryReadsBack, ghosts

------------------------------------------------------------------------------
(* The line editor: each key keeps the invariant *)

\* A character typed at the cursor goes to the same place of the slot and of the
\* window, or is beyond the window.
LEMMA AddCharInv ==
  ASSUME EditorInv, NEW ch \in Chars, AddChar(ch)
  PROVE  EditorInv'
<1> DEFINE bytes == Inserted(current, ch)
<1>1. /\ current \in Contents
      /\ charCount \in 0 .. MaxChars /\ cursor \in 0 .. charCount /\ MaxChars \in Nat \ {0}
      /\ width \in Nat \ {0} /\ torn \in BOOLEAN
      /\ screen \in [1 .. width -> Chars \union {NUL}] /\ windowCursor \in 0 .. width - 1
      /\ \A i \in 1 .. charCount : current[i] \in Chars
      /\ cursor < width => windowCursor = cursor
      /\ ~torn => \A i \in 1 .. width : screen[i] = IF i <= charCount THEN current[i] ELSE NUL
  BY LineShown
<1>2. /\ charCount < MaxChars /\ Edit(bytes)
      /\ charCount' = charCount + 1 /\ cursor' = cursor + 1
      /\ screen' = Inserted(screen, ch) /\ width' = width /\ torn' = torn
      /\ windowCursor' = IF cursor < width THEN AfterWriting(cursor', width) ELSE windowCursor
  BY DEF AddChar, CanAddChar
<1>3. \A i \in 1 .. MaxChars : bytes[i] =
        IF i = cursor + 1 THEN ch
        ELSE IF i \in cursor + 2 .. charCount + 1 THEN current[i - 1] ELSE current[i]
  BY <1>1 DEF Inserted, Contents
<1>4. bytes \in Contents
  BY <1>1, <1>2 DEF Inserted, Contents
<1>5. \A i \in 1 .. width : screen'[i] =
        IF i = cursor + 1 THEN ch
        ELSE IF i \in cursor + 2 .. charCount + 1 THEN screen[i - 1] ELSE screen[i]
  BY <1>1, <1>2 DEF Inserted
<1>6. screen' \in [1 .. width -> Chars \union {NUL}]
  BY <1>1, <1>2 DEF Inserted
<1>7. charCount' \in 0 .. MaxChars /\ cursor' \in 0 .. charCount'
  BY <1>1, <1>2
<1>8. windowCursor' \in 0 .. width - 1 /\ (cursor' < width => windowCursor' = cursor')
  BY <1>1, <1>2 DEF AfterWriting
<1> HIDE DEF bytes
<1>9. \A i \in 1 .. charCount' : bytes[i] # NUL
  <2>1. SUFFICES ASSUME NEW i \in 1 .. charCount + 1 PROVE bytes[i] \in Chars
    BY <1>2, NulAssumption
  <2>2. i \in 1 .. MaxChars
    BY <1>1, <1>2
  <2>3. CASE i = cursor + 1
    BY <1>3, <2>2, <2>3
  <2>4. CASE i > cursor + 1
    <3>1. i \in cursor + 2 .. charCount + 1 /\ i - 1 \in 1 .. charCount /\ i # cursor + 1
      BY <1>1, <2>4
    <3>2. QED
      BY <1>1, <1>3, <2>2, <3>1
  <2>5. CASE i < cursor + 1
    <3>1. i \notin cursor + 2 .. charCount + 1 /\ i \in 1 .. charCount /\ i # cursor + 1
      BY <1>1, <2>5
    <3>2. QED
      BY <1>1, <1>3, <2>2, <3>1
  <2>6. QED
    BY <1>1, <2>3, <2>4, <2>5
<1>10. ~torn' => \A i \in 1 .. width : screen'[i] = IF i <= charCount' THEN bytes[i] ELSE NUL
  <2>1. SUFFICES ASSUME ~torn, NEW i \in 1 .. width
                 PROVE  screen'[i] = IF i <= charCount + 1 THEN bytes[i] ELSE NUL
    BY <1>2
  <2>2. \A k \in 1 .. width : screen[k] = IF k <= charCount THEN current[k] ELSE NUL
    BY <1>1, <2>1
  <2>3. CASE i = cursor + 1
    <3>1. i \in 1 .. MaxChars /\ i <= charCount + 1
      BY <1>1, <1>2, <2>3
    <3>2. QED
      BY <1>3, <1>5, <2>3, <3>1
  <2>4. CASE i \in cursor + 2 .. charCount + 1
    <3>1. i \in 1 .. MaxChars /\ i <= charCount + 1 /\ i - 1 \in 1 .. width /\ i - 1 <= charCount /\ i # cursor + 1
      BY <1>1, <1>2, <2>4
    <3>2. screen'[i] = screen[i - 1] /\ bytes[i] = current[i - 1]
      BY <1>3, <1>5, <2>4, <3>1
    <3>3. QED
      BY <2>2, <3>1, <3>2
  <2>5. CASE i # cursor + 1 /\ i \notin cursor + 2 .. charCount + 1
    <3>1. screen'[i] = screen[i]
      BY <1>5, <2>5
    <3>2. CASE i <= charCount
      <4>1. i \in 1 .. MaxChars /\ i <= charCount + 1
        BY <1>1, <3>2
      <4>2. bytes[i] = current[i]
        BY <1>3, <2>5, <4>1
      <4>3. QED
        BY <2>2, <3>1, <3>2, <4>1, <4>2
    <3>3. CASE ~(i <= charCount)
      <4>1. ~(i <= charCount + 1)
        BY <1>1, <2>5, <3>3
      <4>2. QED
        BY <2>2, <3>1, <3>3, <4>1
    <3>4. QED
      BY <3>2, <3>3
  <2>6. QED
    BY <2>3, <2>4, <2>5
<1>11. RoomLeft => \A i \in 1 .. MaxChars : charCount' < i => bytes[i] = NUL
  <2>1. SUFFICES ASSUME RoomLeft, NEW i \in 1 .. MaxChars, charCount + 1 < i
                 PROVE  bytes[i] = NUL
    BY <1>2
  <2>2. current[i] = NUL
    BY <1>1, <2>1, NoTail
  <2>3. i # cursor + 1 /\ i \notin cursor + 2 .. charCount + 1
    BY <1>1, <2>1
  <2>4. QED
    BY <1>3, <2>2, <2>3
<1>12. QED
  BY <1>1, <1>2, <1>4, <1>6, <1>7, <1>8, <1>9, <1>10, <1>11, EditKeeps

\* A deletion at a column in front of the end of the line.  In a line that fits into
\* the window the window's cursor is at that column.
LEMMA DeleteKeeps ==
  ASSUME EditorInv, NEW c \in 0 .. charCount - 1, DeleteAt(c), cursor' = c,
         windowCursor' \in 0 .. width - 1, c < width => windowCursor' = c
  PROVE  EditorInv'
<1> DEFINE t == Text(current)
<1>1. /\ current \in Contents
      /\ charCount \in 0 .. MaxChars /\ MaxChars \in Nat \ {0}
      /\ width \in Nat \ {0} /\ torn \in BOOLEAN
      /\ screen \in [1 .. width -> Chars \union {NUL}]
      /\ \A i \in 1 .. charCount : current[i] \in Chars
      /\ charCount <= StrLen(current)
      /\ ~torn => \A i \in 1 .. width : screen[i] = IF i <= charCount THEN current[i] ELSE NUL
  BY LineShown
<1>2. /\ Edit(Copied(current, Shifted(Text(current), c)))
      /\ charCount' = charCount - 1 /\ width' = width
      /\ screen' = WithoutCell(windowCursor')
      /\ torn' = (torn \/ charCount > width)
  BY DEF DeleteAt
<1>3. /\ t \in Seq(Chars) /\ Len(t) = StrLen(current) /\ Len(t) \in 0 .. MaxChars
      /\ \A i \in 1 .. Len(t) : t[i] = current[i]
  BY <1>1, TextItems
<1>4. PICK k \in 1 .. charCount : k = c + 1
  BY <1>1
<1>5. c < Len(t) /\ k \in 1 .. Len(t)
  BY <1>1, <1>3, <1>4
<1> HIDE DEF t
<1>6. PICK u : u = RemoveAt(t, k)
  OBVIOUS
<1>7. /\ u \in Seq(Chars) /\ Len(u) = Len(t) - 1
      /\ \A i \in 1 .. Len(t) - 1 : u[i] = IF i < k THEN t[i] ELSE t[i + 1]
  BY <1>3, <1>5, <1>6, RemovedItems
<1>8. PICK bytes : bytes = Copied(current, u)
  OBVIOUS
<1>9. Edit(bytes)
  BY <1>2, <1>4, <1>5, <1>6, <1>8 DEF Shifted, t
<1>10. bytes \in Contents
  BY <1>1, <1>3, <1>7, <1>8, CopiedText
<1>11. \A i \in 1 .. charCount - 1 : bytes[i] = IF i < k THEN current[i] ELSE current[i + 1]
  <2>1. TAKE i \in 1 .. charCount - 1
  <2>2. i \in 1 .. MaxChars /\ i <= Len(u) /\ i \in 1 .. Len(t) - 1 /\ i \in 1 .. Len(t) /\ i + 1 \in 1 .. Len(t)
    BY <1>1, <1>3, <1>7
  <2>3. bytes[i] = u[i]
    BY <1>8, <2>2 DEF Copied
  <2>4. QED
    BY <1>3, <1>7, <2>2, <2>3
<1>12. \A i \in 1 .. charCount' : bytes[i] # NUL
  <2>1. SUFFICES ASSUME NEW i \in 1 .. charCount - 1 PROVE bytes[i] \in Chars
    BY <1>2, NulAssumption
  <2>2. i \in 1 .. charCount /\ i + 1 \in 1 .. charCount
    BY <1>1
  <2>3. QED
    BY <1>1, <1>11, <2>2
<1>13. screen' \in [1 .. width -> Chars \union {NUL}]
  <2>1. \A i \in 1 .. width : i < width => i + 1 \in 1 .. width
    BY <1>1
  <2>2. QED
    BY <1>1, <1>2, <2>1 DEF WithoutCell
<1>14. ~torn' => \A i \in 1 .. width : screen'[i] = IF i <= charCount' THEN bytes[i] ELSE NUL
  <2> SUFFICES ASSUME ~torn', NEW i \in 1 .. width
               PROVE  screen'[i] = IF i <= charCount' THEN bytes[i] ELSE NUL
    OBVIOUS
  <2>1. ~torn /\ charCount <= width /\ charCount' = charCount - 1
    <3>1. torn' = (torn \/ charCount > width) /\ charCount' = charCount - 1
      BY <1>2, Zenon
    <3>2. ~torn /\ ~(charCount > width)
      BY <3>1, Zenon
    <3>3. QED
      BY <1>1, <3>1, <3>2
  <2>2. windowCursor' = c /\ c + 1 = k
    BY <1>1, <1>4, <2>1
  <2>3. screen'[i] = IF i <= c THEN screen[i] ELSE IF i < width THEN screen[i + 1] ELSE NUL
    BY <1>2, <2>2 DEF WithoutCell
  <2>4. \A j \in 1 .. width : screen[j] = IF j <= charCount THEN current[j] ELSE NUL
    BY <1>1, <2>1
  <2>5. CASE i <= c
    <3>1. i <= charCount /\ i <= charCount - 1 /\ i \in 1 .. charCount - 1 /\ i < k
      BY <1>1, <2>2, <2>5
    <3>2. QED
      BY <1>11, <2>1, <2>3, <2>4, <2>5, <3>1
  <2>6. CASE ~(i <= c) /\ i <= charCount - 1
    <3>1. i < width /\ i + 1 \in 1 .. width /\ i + 1 <= charCount /\ i \in 1 .. charCount - 1 /\ ~(i < k)
      BY <1>1, <2>1, <2>2, <2>6
    <3>2. screen'[i] = current[i + 1]
      BY <2>3, <2>4, <2>6, <3>1
    <3>3. bytes[i] = current[i + 1]
      BY <1>11, <3>1
    <3>4. QED
      BY <2>1, <2>6, <3>2, <3>3
  <2>7. CASE ~(i <= c) /\ ~(i <= charCount - 1)
    <3>1. ASSUME i < width PROVE screen[i + 1] = NUL
      <4>1. i + 1 \in 1 .. width /\ ~(i + 1 <= charCount)
        BY <1>1, <2>7, <3>1
      <4>2. QED
        BY <2>4, <4>1
    <3>2. QED
      BY <2>1, <2>3, <2>7, <3>1
  <2>8. QED
    BY <2>1, <2>5, <2>6, <2>7
<1>15. RoomLeft => \A i \in 1 .. MaxChars : charCount' < i => bytes[i] = NUL
  <2>1. SUFFICES ASSUME RoomLeft, NEW i \in 1 .. MaxChars, charCount - 1 < i
                 PROVE  bytes[i] = NUL
    BY <1>2
  <2>2. Len(u) = charCount - 1 /\ \A j \in 1 .. MaxChars : charCount < j => current[j] = NUL
    BY <1>3, <1>7, <2>1, NoTail
  <2>3. bytes[i] = IF i = charCount THEN NUL ELSE current[i]
    BY <1>1, <1>8, <2>1, <2>2 DEF Copied
  <2>4. QED
    BY <1>1, <2>1, <2>2, <2>3
<1>16. charCount' \in 0 .. MaxChars /\ cursor' \in 0 .. charCount' /\ torn' \in BOOLEAN
  BY <1>1, <1>2
<1>17. QED
  BY <1>2, <1>9, <1>10, <1>12, <1>13, <1>14, <1>15, <1>16, EditKeeps

\* Backspace and delete take the same character out of both.
LEMMA DeletionInv ==
  ASSUME EditorInv, UseBackspace \/ UseDelete
  PROVE  EditorInv'
<1>1. /\ charCount \in Nat /\ cursor \in 0 .. charCount
      /\ width \in Nat \ {0} /\ windowCursor \in 0 .. width - 1
      /\ cursor < width => windowCursor = cursor
  BY LineShown
<1>2. CASE UseBackspace
  <2>1. /\ DeleteAt(cursor') /\ cursor' = cursor - 1 /\ cursor > 0
        /\ windowCursor' = CursorAt(cursor')
    BY <1>2 DEF UseBackspace, BehindPrompt
  <2>2. /\ cursor' \in 0 .. charCount - 1 /\ windowCursor' \in 0 .. width - 1
        /\ cursor' < width => windowCursor' = cursor'
    BY <1>1, <2>1 DEF CursorAt
  <2>3. QED
    BY <2>1, <2>2, DeleteKeeps
<1>3. CASE UseDelete
  <2>1. DeleteAt(cursor) /\ cursor' = cursor /\ windowCursor' = windowCursor /\ cursor < charCount
    BY <1>3 DEF UseDelete, CanDelete
  <2>2. cursor \in 0 .. charCount - 1
    BY <1>1, <2>1
  <2>3. QED
    BY <1>1, <2>1, <2>2, DeleteKeeps
<1>4. QED
  BY <1>2, <1>3

\* The keys that move the cursor keep it within the line.
LEMMA MoveInv ==
  ASSUME EditorInv, MoveCursorLeft \/ MoveCursorRight \/ UseHome \/ UseEnd
  PROVE  EditorInv'
<1>1. /\ charCount \in Nat /\ cursor \in 0 .. charCount /\ charCount <= MaxChars /\ MaxChars \in Nat
      /\ width \in Nat \ {0} /\ windowCursor \in 0 .. width - 1
  BY LineShown
<1>2. /\ cursor' \in 0 .. charCount /\ windowCursor' = CursorAt(cursor')
      /\ UNCHANGED <<queues, charCount, width, screen, torn, ghosts>>
  BY <1>1 DEF MoveCursorLeft, MoveCursorRight, UseHome, UseEnd, MoveTo, BehindPrompt, InText,
              AwayFromHome, AwayFromEnd
<1>3. windowCursor' \in 0 .. width - 1 /\ (cursor' < width => windowCursor' = cursor')
  BY <1>1, <1>2 DEF CursorAt
<1>4. RearBehindHistory' /\ HistoryReadsBack'
  BY <1>2, HistoryKept DEF queues
<1>5. EditorTypeOK'
  BY <1>2, <1>3 DEF EditorInv, EditorTypeOK, queues, ghosts
<1>6. ShownIsRun'
  BY <1>2, <1>3 DEF EditorInv, ShownIsRun, Shown, queues, current
<1>7. NothingLeftBehind'
  BY <1>2 DEF EditorInv, NothingLeftBehind, RoomLeft, queues, ghosts, current
<1>8. QED
  BY <1>4, <1>5, <1>6, <1>7 DEF EditorInv

\* A command that is displayed becomes the line that is edited.
LEMMA DisplayKeeps ==
  ASSUME EditorInv, currentIdx' \in Slots, NEW w \in Widths, Display(currentIdx', w),
         UNCHANGED <<frontCmd, backCmd, first, rear, count, ghosts>>,
         RoomLeft => currentIdx' <= rear
  PROVE  EditorInv'
<1> DEFINE bytes == frontCmd[currentIdx']
<1>1. bytes \in Contents /\ current' = bytes
  BY DEF EditorInv, EditorTypeOK, current
<1>2. /\ width' = w /\ charCount' = StrLen(bytes) /\ cursor' = charCount'
      /\ screen' = Shown(bytes, charCount', w) /\ windowCursor' = AfterWriting(cursor', w)
      /\ torn' = FALSE
  BY DEF Display
<1>3. w \in Nat \ {0} /\ MaxChars \in Nat /\ charCount' \in 0 .. MaxChars
  BY <1>1, <1>2, StringEnds, ConstantsAssumption
<1> HIDE DEF bytes
<1>4. \A i \in 1 .. charCount' : bytes[i] \in Chars /\ bytes[i] # NUL
  BY <1>1, <1>2, TextItems, NulAssumption
<1>5. RearBehindHistory' /\ HistoryReadsBack'
  BY HistoryKept
<1>6. windowCursor' \in 0 .. w - 1 /\ (cursor' < w => windowCursor' = cursor')
  BY <1>2, <1>3 DEF AfterWriting
<1>7. EditorTypeOK'
  <2>1. screen' \in [1 .. w -> Chars \union {NUL}]
    <3>1. \A i \in 1 .. w : i <= charCount' => i \in 1 .. charCount'
      BY <1>3
    <3>2. QED
      BY <1>2, <1>4, <3>1 DEF Shown
  <2>2. cursor' \in 0 .. charCount'
    BY <1>2, <1>3
  <2>3. QED
    BY <1>2, <1>3, <1>6, <2>1, <2>2 DEF EditorInv, EditorTypeOK, ghosts
<1>8. ShownIsRun'
  BY <1>1, <1>2, <1>4, <1>6 DEF ShownIsRun
<1>9. NothingLeftBehind'
  <2>1. SUFFICES ASSUME RoomLeft' PROVE NothingLeftBehind'
    BY DEF NothingLeftBehind
  <2>2. RoomLeft
    BY <2>1 DEF RoomLeft, ghosts
  <2>3. QED
    BY <1>1, <1>2, <2>2 DEF EditorInv, NothingLeftBehind
<1>10. QED
  BY <1>5, <1>7, <1>8, <1>9 DEF EditorInv

\* The arrow keys and the redraw show the text of a slot, and never go beyond the
\* new command.
LEMMA RecallInv ==
  ASSUME EditorInv, PreviousCommand \/ NextCommand \/ Resize
  PROVE  EditorInv'
<1>1. /\ currentIdx \in Slots /\ first \in Slots /\ rear \in Slots /\ Capacity \in Nat \ {0}
      /\ width \in Widths /\ (RoomLeft => currentIdx <= rear)
  BY ConstantsAssumption DEF EditorInv, EditorTypeOK, NothingLeftBehind
<1>2. CASE PreviousCommand
  <2>1. currentIdx > first /\ currentIdx' = (currentIdx - 1) % Capacity /\ Display(currentIdx', width)
        /\ UNCHANGED <<frontCmd, backCmd, first, rear, count, ghosts>>
    BY <1>2 DEF PreviousCommand, CurrentMoves
  <2>2. currentIdx' = currentIdx - 1
    <3>1. currentIdx - 1 \in 0 .. Capacity - 1
      BY <1>1, <2>1 DEF Slots
    <3>2. QED
      BY <1>1, <2>1, <3>1
  <2>3. currentIdx' \in Slots /\ (RoomLeft => currentIdx' <= rear)
    BY <1>1, <2>1, <2>2 DEF Slots
  <2>4. QED
    BY <1>1, <2>1, <2>3, DisplayKeeps
<1>3. CASE NextCommand
  <2>1. currentIdx < rear /\ currentIdx' = (currentIdx + 1) % Capacity /\ Display(currentIdx', width)
        /\ UNCHANGED <<frontCmd, backCmd, first, rear, count, ghosts>>
    BY <1>3 DEF NextCommand, CurrentMoves
  <2>2. currentIdx' = currentIdx + 1
    <3>1. currentIdx + 1 \in 0 .. Capacity - 1
      BY <1>1, <2>1 DEF Slots
    <3>2. QED
      BY <1>1, <2>1, <3>1
  <2>3. currentIdx' \in Slots /\ (RoomLeft => currentIdx' <= rear)
    BY <1>1, <2>1, <2>2 DEF Slots
  <2>4. QED
    BY <1>1, <2>1, <2>3, DisplayKeeps
<1>4. CASE Resize
  <2>1. PICK w \in Widths : Display(currentIdx, w)
    BY <1>4 DEF Resize
  <2>2. currentIdx' = currentIdx /\ UNCHANGED <<frontCmd, backCmd, first, rear, count, ghosts>>
    BY <1>4 DEF Resize, queues
  <2>3. QED
    BY <1>1, <2>1, <2>2, DisplayKeeps
<1>5. QED
  BY <1>2, <1>3, <1>4

\* Enter restores every slot of the front queue to the command in the history.
LEMMA SlotsReloaded ==
  ASSUME EditorInv, Enter
  PROVE  /\ backCmd' \in [Slots -> Contents] /\ frontCmd' \in [Slots -> Contents]
         /\ \A s \in Slots : Text(frontCmd'[s]) = Text(backCmd'[s])
         /\ \A s \in Slots : backCmd'[s] = IF s = rear THEN current ELSE backCmd[s]
<1> DEFINE old == [frontCmd EXCEPT ![rear] = current]
<1>1. /\ frontCmd \in [Slots -> Contents] /\ backCmd \in [Slots -> Contents]
      /\ rear \in Slots /\ current \in Contents
  BY LineShown DEF EditorInv, EditorTypeOK
<1>2. backCmd' = [backCmd EXCEPT ![rear] = current] /\ frontCmd' = Reload(old)
  BY DEF Enter
<1>3. old \in [Slots -> Contents] /\ backCmd' \in [Slots -> Contents]
  BY <1>1, <1>2
<1>4. \A s \in Slots : backCmd'[s] = IF s = rear THEN current ELSE backCmd[s]
  BY <1>1, <1>2
<1> HIDE DEF old
<1>5. /\ frontCmd' = [s \in Slots |-> frontCmd'[s]]
      /\ \A s \in Slots : frontCmd'[s] =
           IF Text(old[s]) # Text(backCmd'[s]) THEN Copied(old[s], Text(backCmd'[s])) ELSE old[s]
  BY <1>2 DEF Reload
<1>6. ASSUME NEW s \in Slots
      PROVE  frontCmd'[s] \in Contents /\ Text(frontCmd'[s]) = Text(backCmd'[s])
  <2>1. old[s] \in Contents /\ backCmd'[s] \in Contents
    BY <1>3
  <2>2. Text(backCmd'[s]) \in Seq(Chars) /\ Len(Text(backCmd'[s])) <= MaxChars
    BY <2>1, TextItems, ConstantsAssumption
  <2>3. CASE Text(old[s]) # Text(backCmd'[s])
    <3>1. frontCmd'[s] = Copied(old[s], Text(backCmd'[s]))
      BY <1>5, <2>3
    <3>2. QED
      BY <2>1, <2>2, <3>1, CopiedText
  <2>4. CASE Text(old[s]) = Text(backCmd'[s])
    BY <1>5, <2>1, <2>4
  <2>5. QED
    BY <2>3, <2>4
<1>7. frontCmd' \in [Slots -> Contents]
  BY <1>5, <1>6
<1>8. QED
  BY <1>3, <1>4, <1>6, <1>7

\* The texts that were run, the oldest one given up when the history is full.
LEMMA EnteredItems ==
  ASSUME EditorInv, Enter
  PROVE  /\ entered' \in Seq(SeqOf(Chars, MaxChars)) /\ Len(entered') = count'
         /\ count' = IF count = Capacity THEN count ELSE count + 1
         /\ \A i \in 1 .. count' : entered'[i] =
              IF i = count' THEN Text(current)
              ELSE IF count = Capacity THEN entered[i + 1] ELSE entered[i]
<1> DEFINE Texts == SeqOf(Chars, MaxChars)
           t == Text(current)
<1>1. t \in Texts
  <2>1. t \in Seq(Chars) /\ Len(t) <= MaxChars
    BY LineShown, TextItems, ConstantsAssumption
  <2>2. QED
    BY <2>1, ShortText
<1>2. /\ entered \in Seq(Texts) /\ Len(entered) = count /\ count \in 0 .. Capacity
      /\ Capacity \in Nat \ {0}
  BY ConstantsAssumption DEF EditorInv, EditorTypeOK
<1>3. entered' = (IF count = Capacity THEN Tail(entered) ELSE entered) \o <<t>>
      /\ count' = IF count = Capacity THEN count ELSE count + 1
  BY DEF Enter
<1> HIDE DEF Texts, t
<1>4. CASE count = Capacity
  <2>1. PICK rest : rest = Tail(entered)
    OBVIOUS
  <2>2. /\ rest \in Seq(Texts) /\ Len(rest) = count - 1
        /\ \A i \in 1 .. count - 1 : rest[i] = entered[i + 1]
    BY <1>2, <1>4, <2>1
  <2>3. entered' = rest \o <<t>> /\ count' = count
    BY <1>3, <1>4, <2>1
  <2>4. QED
    BY <1>1, <1>2, <1>4, <2>2, <2>3 DEF Texts, t
<1>5. CASE count # Capacity
  <2>1. entered' = entered \o <<t>> /\ count' = count + 1
    BY <1>3, <1>5
  <2>2. QED
    BY <1>1, <1>2, <1>5, <2>1 DEF Texts, t
<1>6. QED
  BY <1>4, <1>5

\* Enter leaves nothing behind the commands while the history has room: the saved
\* ones are not copied again, and the new one is an empty slot.
LEMMA EnterTail ==
  ASSUME EditorInv, Enter
  PROVE  NothingLeftBehind'
<1>1. SUFFICES ASSUME RoomLeft' PROVE NothingLeftBehind'
  BY DEF NothingLeftBehind
<1>2. /\ Capacity \in Nat \ {0} /\ MaxChars \in Nat \ {0} /\ count \in 0 .. Capacity
      /\ rear \in Slots /\ first \in Slots /\ current \in Contents
      /\ frontCmd \in [Slots -> Contents] /\ backCmd \in [Slots -> Contents]
  BY ConstantsAssumption, LineShown DEF EditorInv, EditorTypeOK
<1>3. /\ count' = IF count = Capacity THEN count ELSE count + 1
      /\ first' = IF count = Capacity THEN (first + 1) % Capacity ELSE first
      /\ rear' = (rear + 1) % Capacity /\ currentIdx' = rear' /\ charCount' = 0
      /\ cleared' = cleared /\ everEdited' = everEdited
      /\ backCmd' = [backCmd EXCEPT ![rear] = current]
      /\ frontCmd' = Reload([frontCmd EXCEPT ![rear] = current])
  BY DEF Enter
<1>4. RoomLeft /\ count' = count + 1 /\ first' = first /\ count + 1 < Capacity
  BY <1>1, <1>2, <1>3 DEF RoomLeft
<1>5. /\ first = 0
      /\ \A s \in Slots : \A i \in 1 .. MaxChars : StrLen(frontCmd[s]) < i => frontCmd[s][i] = NUL
      /\ \A s \in Slots : s # rear => Text(frontCmd[s]) = Text(backCmd[s])
      /\ \A s \in Slots : rear < s => frontCmd[s] = Empty
  BY <1>4 DEF EditorInv, NothingLeftBehind
<1>6. rear = count /\ rear' = rear + 1 /\ rear + 1 \in Slots
  <2>1. rear = (first + count) % Capacity /\ 0 \in Slots /\ count \in 0 .. Capacity
    BY <1>2 DEF EditorInv, RearBehindHistory, Slots
  <2>2. (0 + count) % Capacity = IF 0 + count < Capacity THEN 0 + count ELSE 0 + count - Capacity
    BY <2>1, SlotAhead
  <2>3. rear = count /\ 1 \in 0 .. Capacity
    BY <1>2, <1>4, <1>5, <2>1, <2>2
  <2>4. (rear + 1) % Capacity = IF rear + 1 < Capacity THEN rear + 1 ELSE rear + 1 - Capacity
    BY <1>2, <2>3, SlotAhead
  <2>5. QED
    BY <1>2, <1>3, <1>4, <2>3, <2>4 DEF Slots
<1>7. \A s \in Slots : frontCmd'[s] = IF s = rear THEN current ELSE frontCmd[s]
  <2> DEFINE old == [frontCmd EXCEPT ![rear] = current]
  <2>1. SUFFICES ASSUME NEW s \in Slots
                 PROVE  frontCmd'[s] = IF s = rear THEN current ELSE frontCmd[s]
    OBVIOUS
  <2>2. old[s] = (IF s = rear THEN current ELSE frontCmd[s])
        /\ backCmd'[s] = (IF s = rear THEN current ELSE backCmd[s])
    BY <1>2, <1>3
  <2>3. Text(old[s]) = Text(backCmd'[s])
    BY <1>5, <2>2
  <2> HIDE DEF old
  <2>4. frontCmd'[s] = IF Text(old[s]) # Text(backCmd'[s])
                       THEN Copied(old[s], Text(backCmd'[s])) ELSE old[s]
    BY <1>3 DEF Reload, old
  <2>5. QED
    BY <2>2, <2>3, <2>4
<1>8. \A i \in 1 .. MaxChars : StrLen(current) < i => current[i] = NUL
  BY <1>4, NoTail
<1>9. \A s \in Slots : \A i \in 1 .. MaxChars : StrLen(frontCmd'[s]) < i => frontCmd'[s][i] = NUL
  BY <1>5, <1>7, <1>8
<1>10. \A s \in Slots : Text(frontCmd'[s]) = Text(backCmd'[s])
  BY SlotsReloaded
<1>11. \A s \in Slots : rear < s => frontCmd'[s] = Empty
  BY <1>2, <1>5, <1>7 DEF Slots
<1>12. current' = Empty
  <2>1. rear < rear + 1 /\ currentIdx' = rear + 1
    BY <1>2, <1>3, <1>6
  <2>2. frontCmd'[rear + 1] = Empty
    BY <1>6, <1>11, <2>1
  <2>3. QED
    BY <2>1, <2>2 DEF current
<1>13. StrLen(Empty) = 0
  <2>1. Empty \in Contents /\ 0 \in 0 .. MaxChars /\ Empty[1] = NUL
    BY <1>2 DEF Empty, Blank, Contents
  <2>2. QED
    BY <2>1, LengthIs
<1>14. \A s \in Slots : rear' < s => frontCmd'[s] = Empty
  BY <1>2, <1>6, <1>11 DEF Slots
<1>15. first' = 0 /\ currentIdx' <= rear' /\ StrLen(current') = charCount'
  BY <1>2, <1>3, <1>4, <1>5, <1>6, <1>12, <1>13 DEF Slots
<1>16. QED
  BY <1>9, <1>10, <1>14, <1>15 DEF NothingLeftBehind

\* Enter moves the line into the history and starts an empty line over the bytes
\* of an older one.
LEMMA EnterInv ==
  ASSUME EditorInv, Enter
  PROVE  EditorInv'
<1>1. /\ Capacity \in Nat \ {0} /\ MaxChars \in Nat \ {0} /\ width \in Nat \ {0} /\ width \in Widths
      /\ first \in Slots /\ count \in 0 .. Capacity /\ rear \in Slots
      /\ rear = IF first + count < Capacity THEN first + count ELSE first + count - Capacity
  BY ConstantsAssumption, SlotAhead, LineShown DEF EditorInv, EditorTypeOK, RearBehindHistory
<1>2. /\ first' = IF count = Capacity THEN (first + 1) % Capacity ELSE first
      /\ rear' = (rear + 1) % Capacity /\ currentIdx' = rear'
      /\ cursor' = 0 /\ charCount' = 0 /\ width' = width /\ screen' = Blank(width)
      /\ windowCursor' = 0 /\ torn' = FALSE
      /\ edited' = {} /\ cleared' = cleared /\ everEdited' = everEdited
  BY DEF Enter
<1>3. /\ entered' \in Seq(SeqOf(Chars, MaxChars)) /\ Len(entered') = count'
      /\ count' = IF count = Capacity THEN count ELSE count + 1
      /\ \A i \in 1 .. count' : entered'[i] =
           IF i = count' THEN Text(current)
           ELSE IF count = Capacity THEN entered[i + 1] ELSE entered[i]
  BY EnteredItems
<1>4. /\ backCmd' \in [Slots -> Contents] /\ frontCmd' \in [Slots -> Contents]
      /\ \A s \in Slots : Text(frontCmd'[s]) = Text(backCmd'[s])
      /\ \A s \in Slots : backCmd'[s] = IF s = rear THEN current ELSE backCmd[s]
  BY SlotsReloaded
<1>5. 1 \in 0 .. Capacity
  BY <1>1
<1>6. /\ rear' \in Slots
      /\ rear' = IF rear + 1 < Capacity THEN rear + 1 ELSE rear + 1 - Capacity
  BY <1>1, <1>2, <1>5, SlotAhead
<1>7. /\ first' \in Slots
      /\ first' = IF count = Capacity
                  THEN IF first + 1 < Capacity THEN first + 1 ELSE first + 1 - Capacity
                  ELSE first
  BY <1>1, <1>2, <1>5, SlotAhead
<1>8. count' \in 0 .. Capacity
  BY <1>1, <1>3
<1>9. EditorTypeOK'
  <2>1. screen' \in [1 .. width -> Chars \union {NUL}] /\ windowCursor' \in 0 .. width - 1
    BY <1>1, <1>2 DEF Blank
  <2>2. cleared' \in BOOLEAN /\ everEdited' \in BOOLEAN /\ edited' \subseteq Slots
    BY <1>2 DEF EditorInv, EditorTypeOK
  <2>3. cursor' \in 0 .. charCount' /\ charCount' \in 0 .. MaxChars
    BY <1>1, <1>2
  <2>4. {first', rear', currentIdx'} \subseteq Slots
    BY <1>2, <1>6, <1>7
  <2>5. QED
    BY <1>1, <1>2, <1>3, <1>4, <1>8, <2>1, <2>2, <2>3, <2>4 DEF EditorTypeOK
<1>10. RearBehindHistory'
  <2>1. (first' + count') % Capacity =
          IF first' + count' < Capacity THEN first' + count' ELSE first' + count' - Capacity
    BY <1>7, <1>8, SlotAhead
  <2>2. rear' = (first' + count') % Capacity
    BY <1>1, <1>3, <1>6, <1>7, <2>1 DEF Slots
  <2>3. QED
    BY <2>2 DEF RearBehindHistory
<1>11. ShownIsRun'
  <2>1. \A i \in 1 .. width : ~(i <= charCount')
    BY <1>1, <1>2
  <2>2. screen' = Shown(current', charCount', width)
    BY <1>2, <2>1 DEF Shown, Blank
  <2>3. QED
    BY <1>2, <2>2 DEF ShownIsRun
<1>12. HistoryReadsBack'
  <2>1. SUFFICES ASSUME NEW i \in 1 .. count'
                 PROVE  /\ (first' + i - 1) % Capacity \in Slots
                        /\ Text(backCmd'[(first' + i - 1) % Capacity]) = entered'[i]
    BY <1>4 DEF HistoryReadsBack
  <2> DEFINE s == (first' + i - 1) % Capacity
  <2>2. i - 1 \in 0 .. Capacity /\ first' + i - 1 = first' + (i - 1)
    BY <1>1, <1>7, <1>8 DEF Slots
  <2>3. s \in Slots /\ s = IF first' + (i - 1) < Capacity THEN first' + (i - 1)
                                                        ELSE first' + (i - 1) - Capacity
    BY <1>7, <2>2, SlotAhead
  <2> HIDE DEF s
  <2>4. CASE i = count'
    <3>1. s = rear
      BY <1>1, <1>3, <1>7, <2>3, <2>4 DEF Slots
    <3>2. QED
      BY <1>3, <1>4, <2>3, <2>4, <3>1 DEF s
  <2>5. CASE i # count'
    <3>1. PICK j \in 1 .. count : j = IF count = Capacity THEN i + 1 ELSE i
      BY <1>1, <1>3, <1>8, <2>5
    <3>2. entered'[i] = entered[j]
      BY <1>3, <2>5, <3>1
    <3>3. j - 1 \in 0 .. Capacity /\ first + j - 1 = first + (j - 1)
      BY <1>1 DEF Slots
    <3>4. (first + j - 1) % Capacity =
            IF first + (j - 1) < Capacity THEN first + (j - 1) ELSE first + (j - 1) - Capacity
      BY <1>1, <3>3, SlotAhead
    <3>5. s = (first + j - 1) % Capacity /\ s # rear
      BY <1>1, <1>3, <1>7, <2>3, <2>5, <3>1, <3>4 DEF Slots
    <3>6. Text(backCmd[s]) = entered[j]
      BY <3>5 DEF EditorInv, HistoryReadsBack
    <3>7. QED
      BY <1>4, <2>3, <3>2, <3>5, <3>6 DEF s
  <2>6. QED
    BY <2>4, <2>5
<1>13. NothingLeftBehind'
  BY EnterTail
<1>14. QED
  BY <1>9, <1>10, <1>11, <1>12, <1>13 DEF EditorInv

\* Every step of the line editor keeps the invariant.
LEMMA EditorNextInv == EditorInv /\ [EditorNext]_editorVars => EditorInv'
<1> SUFFICES ASSUME EditorInv, [EditorNext]_editorVars PROVE EditorInv'
  OBVIOUS
<1>1. CASE EditorNext
  BY <1>1, AddCharInv, DeletionInv, MoveInv, RecallInv, EnterInv DEF EditorNext
<1>2. CASE UNCHANGED editorVars
  <2>1. UNCHANGED <<queues, cursor, charCount, windowVars, ghosts>>
    BY <1>2 DEF editorVars
  <2>2. RearBehindHistory' /\ HistoryReadsBack'
    BY <2>1, HistoryKept DEF queues
  <2>3. EditorTypeOK'
    BY <2>1 DEF EditorInv, EditorTypeOK, queues, ghosts, windowVars
  <2>4. ShownIsRun'
    BY <2>1 DEF EditorInv, ShownIsRun, Shown, queues, current, windowVars
  <2>5. NothingLeftBehind'
    BY <2>1 DEF EditorInv, NothingLeftBehind, RoomLeft, queues, ghosts, current
  <2>6. QED
    BY <2>2, <2>3, <2>4, <2>5 DEF EditorInv
<1>3. QED
  BY <1>1, <1>2

\* So it holds in every state.
LEMMA EditorInvHolds == EditorSpec => []EditorInv
  BY EditorStarts, EditorNextInv, PTL DEF EditorSpec

------------------------------------------------------------------------------
(* The line editor: results *)

\* Cursor, counters and indices stay within the line and the queues, whatever is
\* typed and whatever the memory of the queues held (can_add_char, use_le_backspace,
\* use_le_delete, parse_cli_input).
THEOREM EditorTypeCorrect == EditorSpec => []EditorTypeOK
<1>1. EditorInv => EditorTypeOK
  BY DEF EditorInv
<1>2. QED
  BY <1>1, EditorInvHolds, PTL

\* The window shows the beginning of the line that Enter will run, and the cursor
\* stands where the next key acts, for every width the terminal takes, until a
\* character is deleted from a line longer than the window (add_char, use_backspace,
\* use_delete, use_end, resize_ui).
THEOREM ShownWillRun == EditorSpec => []ShownIsRun
<1>1. EditorInv => ShownIsRun
  BY DEF EditorInv
<1>2. QED
  BY <1>1, EditorInvHolds, PTL

\* Enter runs nothing behind the line, as long as the history has room and no saved
\* command was edited (add_le_char, delete_le_char, parse_cli_input,
\* reload_saved_commands).
THEOREM NothingElseRuns == EditorSpec => []RunsOnlyWhatIsShown
<1>1. EditorInv => RunsOnlyWhatIsShown
  BY DEF EditorInv, NothingLeftBehind, RoomLeft, RunsOnlyWhatIsShown
<1>2. QED
  BY <1>1, EditorInvHolds, PTL

\* The history holds the last commands as they were run, also after it has wrapped
\* and after saved commands were edited (parse_cli_input, reload_saved_commands).
THEOREM HistoryIsTrue == EditorSpec => []HistoryReadsBack
<1>1. EditorInv => HistoryReadsBack
  BY DEF EditorInv
<1>2. QED
  BY <1>1, EditorInvHolds, PTL
=================================================================================
