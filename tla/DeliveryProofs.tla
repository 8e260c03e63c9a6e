----------------------------- MODULE DeliveryProofs ----------------------------
(***************************************************************************)
(* Proofs about Delivery for any users and channels and every size of the  *)
(* queues: what waits where is in the order in which it was composed, and  *)
(* each handler keeps it so.  A round of writing hands every user its      *)
(* messages in one order that is the same for all of them.                 *)
(***************************************************************************)
EXTENDS Delivery, FiniteSetTheorems, SequenceTheorems, WellFoundedInduction, TLAPS

------------------------------------------------------------------------------
(* The inductive invariant *)

\* Where messages wait.
Sources == {"server"} \cup Users \cup Channels
Queue(a) ==
  IF a = "server" THEN serverQueue ELSE IF a \in Users THEN userQueue[a] ELSE channelQueue[a]

\* A queue holds what was put there, in the order in which it was composed.
Rising(q) == \A i, j \in DOMAIN q : i < j => q[i] < q[j]
QueuesRise ==
  \A a \in Sources :
    /\ Rising(Queue(a))
    /\ \A i \in DOMAIN Queue(a) : history[Queue(a)[i]].via = a

\* Nobody is twice on a list of channels.
ListsAreSets ==
  /\ IsInjective(readyChannels)
  /\ \A u \in Users : IsInjective(joined[u])

\* Nobody is in a channel before it has registered.
NewAreNowhere == \A u \in Users : phase[u] = "new" => joined[u] = << >>

\* What a user has got from a queue is older than all that waits there, and what
\* came from the server's or a user's own queue was for this user.
CameEarlier(u, m, a) ==
  /\ \A i \in DOMAIN Queue(a) : m < Queue(a)[i]
  /\ a \in Users => a = u
  /\ a = "server" => history[m].about = u
ReceivedEarlier == \A u \in Users : \A m \in Got(u) : CameEarlier(u, m, history[m].via)

\* A user's own queue is used only after it has registered, when the server's
\* queue is used for it no more; once the own queue has been written, nothing
\* for the user is left in the other.
ServerQueueFirst ==
  /\ \A n \in Ids : \A u \in Users : history[n].via = u =>
       /\ phase[u] # "new"
       /\ \A m \in Ids : history[m].via = "server" /\ history[m].about = u => m < n
  /\ \A u \in Users : \A m \in Got(u) : history[m].via = u =>
       \A i \in DOMAIN serverQueue : history[serverQueue[i]].about # u
AnswersPrivate == \A m \in Ids : history[m].kind = "answer" => history[m].via \notin Channels

\* A message of a channel waits only for its members: whoever else should get it
\* has got it, has missed it in a full queue, or has left.
HasLeft(u, m, c) ==
  \/ phase[u] = "gone"
  \/ \E k \in Ids : k > m /\ history[k].from = u /\ history[k].kind = "part" /\ history[k].about = c
MembersAreServed ==
  \A m \in Ids : \A u \in history[m].audience :
    LET c == history[m].via
    IN c \in Channels =>
         \/ m \in Got(u) \cup dropped
         \/ m \in ToSet(channelQueue[c]) /\ u \in Members(c)
         \/ HasLeft(u, m, c)

OrderInv ==
  /\ QueuesRise
  /\ ReceivedEarlier
  /\ ServerQueueFirst
  /\ AnswersPrivate
  /\ SameOrder /\ InOrder

Inv ==
  /\ TypeOK
  /\ ListsAreSets /\ NewAreNowhere
  /\ OrderInv
  /\ MembersAreServed
  /\ QueuedIsReady
------------------------------------------------------------------------------
(* Numbers in ascending order *)

\* A set of numbers has a least one.
LEMMA LeastNumber ==
  ASSUME NEW S \in SUBSET Nat, S # {}
  PROVE  \E x \in S : \A y \in S : x <= y
<1>1. IsWellFoundedOn(OpToRel(<, Nat), Nat)
  BY NatLessThanWellFounded, Zenon
<1>2. PICK x \in S : \A y \in S : ~(<<y, x>> \in OpToRel(<, Nat))
  BY <1>1, WFMin, Zenon
<1>3. \A y \in S : ~(y < x)
  BY <1>2 DEF OpToRel
<1>4. \A y \in S : x <= y
  BY <1>3
<1>5. QED
  BY <1>4, Zenon

IsOrder(c, places) ==
  /\ c \in [1 .. Cardinality(places) -> places]
  /\ \A i, j \in 1 .. Cardinality(places) : i < j => c[i] < c[j]

\* A finite set of numbers can be put in order: its least number comes first.
LEMMA OrderExists ==
  ASSUME NEW S \in SUBSET Nat, IsFiniteSet(S)
  PROVE  \E c : IsOrder(c, S)
<1> DEFINE Ordered(T) == \E c : IsOrder(c, T)
           Bad == {n \in Nat : \E T \in SUBSET Nat : /\ IsFiniteSet(T) /\ Cardinality(T) = n
                                                     /\ ~Ordered(T)}
<1>1. ASSUME Bad # {}
      PROVE  FALSE
  <2>1. PICK n \in Bad : \A m \in Bad : n <= m
    BY <1>1, LeastNumber
  <2>2. PICK T \in SUBSET Nat : IsFiniteSet(T) /\ Cardinality(T) = n /\ ~Ordered(T)
    BY <2>1
  <2>3. CASE n = 0
    <3>1. IsOrder(<< >>, T)
      BY <2>2, <2>3 DEF IsOrder
    <3>2. QED
      BY <2>2, <3>1
  <2>4. CASE n # 0
    <3>1. T # {}
      BY <2>2, <2>4, FS_EmptySet
    <3>2. PICK x \in T : \A y \in T : x <= y
      BY <3>1, LeastNumber
    <3>3. IsFiniteSet(T \ {x}) /\ Cardinality(T \ {x}) = n - 1
      BY <2>2, FS_RemoveElement
    <3>4. n \in Nat /\ n - 1 \in Nat /\ T \ {x} \in SUBSET Nat
      BY <2>1, <2>4
    <3>5. Ordered(T \ {x})
      <4>1. n - 1 \notin Bad
        BY <2>1, <3>4
      <4>2. QED
        BY <3>3, <3>4, <4>1
    <3>6. PICK c : /\ c \in [1 .. n - 1 -> T \ {x}]
                   /\ \A i, j \in 1 .. n - 1 : i < j => c[i] < c[j]
      BY <3>3, <3>5 DEF IsOrder
    <3> DEFINE d == [i \in 1 .. n |-> IF i = 1 THEN x ELSE c[i - 1]]
    <3>7. d \in [1 .. n -> T]
      <4>1. ASSUME NEW i \in 1 .. n, i # 1 PROVE c[i - 1] \in T
        BY <3>4, <3>6, <4>1
      <4>2. QED
        BY <4>1
    <3>8. ASSUME NEW i \in 1 .. n, NEW j \in 1 .. n, i < j PROVE d[i] < d[j]
      <4>1. j - 1 \in 1 .. n - 1 /\ d[j] = c[j - 1] /\ c[j - 1] \in T \ {x}
        BY <3>4, <3>6, <3>8
      <4>2. CASE i = 1
        <5>1. d[i] = x /\ x <= c[j - 1] /\ x # c[j - 1] /\ x \in Nat /\ c[j - 1] \in Nat
          BY <2>2, <3>2, <4>1, <4>2
        <5>2. QED
          BY <4>1, <5>1
      <4>3. CASE i # 1
        BY <3>4, <3>6, <3>8, <4>1, <4>3
      <4>4. QED
        BY <4>2, <4>3
    <3>9. IsOrder(d, T)
      BY <2>2, <3>7, <3>8 DEF IsOrder
    <3>10. QED
      BY <2>2, <3>9
  <2>5. QED
    BY <2>3, <2>4
<1>2. Cardinality(S) \in Nat
  BY FS_CardinalityType
<1>3. QED
  BY <1>1, <1>2

\* The numbers in order are all the numbers, in order.
LEMMA AscendingOrder ==
  ASSUME NEW S \in SUBSET Nat, IsFiniteSet(S)
  PROVE  IsOrder(Ascending(S), S)
<1>1. \E c : IsOrder(c, S)
  BY OrderExists
<1>2. QED
  BY <1>1, Zenon DEF IsOrder, Ascending

------------------------------------------------------------------------------
(* Sequences *)

\* The items of a sequence are those at its places.
LEMMA ItemsOf ==
  ASSUME NEW T, NEW q \in Seq(T)
  PROVE  /\ Len(q) \in Nat /\ DOMAIN q = 1 .. Len(q)
         /\ \A i \in 1 .. Len(q) : q[i] \in T /\ q[i] \in ToSet(q)
         /\ \A x \in ToSet(q) : x \in T /\ \E i \in 1 .. Len(q) : q[i] = x
         /\ \A x : Contains(q, x) <=> x \in ToSet(q)
<1>1. Len(q) \in Nat /\ DOMAIN q = 1 .. Len(q)
  OBVIOUS
<1>2. \A i \in 1 .. Len(q) : q[i] \in T
  OBVIOUS
<1>3. QED
  BY <1>1, <1>2 DEF ToSet, Contains

\* The items at some places of a sequence, in order, are all of them.
LEMMA ItemsAtPlaces ==
  ASSUME NEW T, NEW q \in Seq(T), NEW P \in SUBSET (1 .. Len(q))
  PROVE  LET s == ItemsAt(q, P)
         IN /\ s \in Seq(T)
            /\ \E c \in [1 .. Len(s) -> P] :
                 /\ \A i, j \in 1 .. Len(s) : i < j => c[i] < c[j]
                 /\ \A i \in 1 .. Len(s) : s[i] = q[c[i]]
                 /\ \A p \in P : \E i \in 1 .. Len(s) : c[i] = p
<1> DEFINE n == Cardinality(P)
           c == Ascending(P)
           s == ItemsAt(q, P)
<1>1. IsFiniteSet(P) /\ n \in Nat /\ P \in SUBSET Nat
  <2>1. IsFiniteSet(1 .. Len(q))
    <3>1. Len(q) \in Int /\ 1 \in Int
      OBVIOUS
    <3>2. QED
      BY <3>1, FS_Interval, Zenon
  <2>2. IsFiniteSet(P)
    BY <2>1, FS_Subset
  <2>3. P \in SUBSET Nat
    OBVIOUS
  <2>4. QED
    BY <2>2, <2>3, FS_CardinalityType
<1>2. c \in [1 .. n -> P] /\ \A i, j \in 1 .. n : i < j => c[i] < c[j]
  BY <1>1, AscendingOrder DEF IsOrder
<1>3. s = [i \in 1 .. n |-> q[c[i]]]
  BY DEF ItemsAt
<1> HIDE DEF n, c, s
<1>4. \A i \in 1 .. n : c[i] \in P /\ c[i] \in Nat /\ q[c[i]] \in T
  <2>1. \A p \in P : p \in Nat /\ q[p] \in T
    OBVIOUS
  <2>2. QED
    BY <1>2, <2>1
<1>5. s \in Seq(T) /\ Len(s) = n /\ \A i \in 1 .. n : s[i] = q[c[i]]
  BY <1>1, <1>3, <1>4
<1>6. \A p \in P : \E i \in 1 .. n : c[i] = p
  <2>1. \A i, j \in 1 .. n : c[i] = c[j] => i = j
    <3> SUFFICES ASSUME NEW i \in 1 .. n, NEW j \in 1 .. n, i # j PROVE c[i] # c[j]
      OBVIOUS
    <3>1. (i < j \/ j < i) /\ c[i] \in Nat /\ c[j] \in Nat
      BY <1>1, <1>4
    <3>2. QED
      BY <1>2, <3>1
  <2>2. c \in Injection(1 .. n, P)
    BY <1>2, <2>1 DEF Injection, IsInjective
  <2>3. Cardinality(1 .. n) = n
    <3>1. n \in Int /\ 1 \in Int
      BY <1>1
    <3>2. Cardinality(1 .. n) = IF 1 > n THEN 0 ELSE n - 1 + 1
      BY <3>1, FS_Interval, Zenon
    <3>3. QED
      BY <1>1, <3>2
  <2>4. c \in Surjection(1 .. n, P)
    <3>1. Cardinality(1 .. n) = Cardinality(P)
      BY <2>3 DEF n
    <3>2. QED
      BY <1>1, <2>2, <3>1, FS_Injection
  <2>5. QED
    BY <2>4 DEF Surjection
<1>7. QED
  BY <1>2, <1>5, <1>6 DEF s

\* The items that are in a set, in their order.
LEMMA OnlyThose ==
  ASSUME NEW T, NEW q \in Seq(T), NEW S
  PROVE  LET s == Only(q, S)
         IN /\ s \in Seq(T) /\ ToSet(s) = ToSet(q) \cap S
            /\ \E c \in [1 .. Len(s) -> 1 .. Len(q)] :
                 /\ \A i, j \in 1 .. Len(s) : i < j => c[i] < c[j]
                 /\ \A i \in 1 .. Len(s) : s[i] = q[c[i]]
            /\ IsInjective(q) => IsInjective(s)
<1> DEFINE P == {i \in DOMAIN q : q[i] \in S}
           s == Only(q, S)
<1>1. P \in SUBSET (1 .. Len(q)) /\ s = ItemsAt(q, P)
  BY DEF Only
<1> HIDE DEF s
<1>2. /\ s \in Seq(T)
      /\ \E c \in [1 .. Len(s) -> P] :
           /\ \A i, j \in 1 .. Len(s) : i < j => c[i] < c[j]
           /\ \A i \in 1 .. Len(s) : s[i] = q[c[i]]
           /\ \A p \in P : \E i \in 1 .. Len(s) : c[i] = p
  <2> HIDE DEF P
  <2>1. QED
    BY <1>1, ItemsAtPlaces
<1>3. PICK c \in [1 .. Len(s) -> P] :
           /\ \A i, j \in 1 .. Len(s) : i < j => c[i] < c[j]
           /\ \A i \in 1 .. Len(s) : s[i] = q[c[i]]
           /\ \A p \in P : \E i \in 1 .. Len(s) : c[i] = p
  BY <1>2
<1>4. ToSet(s) = ToSet(q) \cap S
  <2>1. ASSUME NEW x \in ToSet(s)
        PROVE  x \in ToSet(q) \cap S
    <3>1. PICK i \in 1 .. Len(s) : s[i] = x
      BY <1>2, ItemsOf
    <3>2. c[i] \in P /\ q[c[i]] = x
      BY <1>3, <3>1
    <3>3. QED
      BY <3>2 DEF ToSet
  <2>2. ASSUME NEW x \in ToSet(q) \cap S
        PROVE  x \in ToSet(s)
    <3>1. PICK p \in P : q[p] = x
      BY DEF ToSet
    <3>2. PICK i \in 1 .. Len(s) : c[i] = p
      BY <1>3
    <3>3. s[i] = x
      BY <1>3, <3>1, <3>2
    <3>4. QED
      BY <1>2, <3>3, ItemsOf
  <2>3. QED
    BY <2>1, <2>2
<1>5. c \in [1 .. Len(s) -> 1 .. Len(q)]
  BY <1>1, <1>3
<1>6. IsInjective(q) => IsInjective(s)
  <2>0. DOMAIN s = 1 .. Len(s) /\ Len(s) \in Nat
    BY <1>2, LenProperties
  <2> SUFFICES ASSUME IsInjective(q), NEW i \in 1 .. Len(s), NEW j \in 1 .. Len(s), i # j
               PROVE  s[i] # s[j]
    BY <2>0 DEF IsInjective
  <2>1. i < j \/ j < i
    BY <2>0
  <2>2. c[i] # c[j] /\ c[i] \in DOMAIN q /\ c[j] \in DOMAIN q
    BY <1>3, <1>5, <2>1
  <2>3. QED
    BY <1>3, <2>2 DEF IsInjective
<1>7. QED
  BY <1>2, <1>3, <1>4, <1>5, <1>6 DEF s

\* The larger one of two numbers.
LEMMA MaxOfTwo ==
  ASSUME NEW a \in Int, NEW b \in Int
  PROVE  Max({a, b}) = IF a >= b THEN a ELSE b
<1> DEFINE m == IF a >= b THEN a ELSE b
           IsMax(x) == x \in {a, b} /\ \A y \in {a, b} : x >= y
<1>1. IsMax(m)
  OBVIOUS
<1>2. \A x : IsMax(x) => x = m
  OBVIOUS
<1>3. Max({a, b}) = CHOOSE x : IsMax(x)
  BY DEF Max
<1> HIDE DEF IsMax, m
<1>4. Max({a, b}) = m
  BY <1>1, <1>2, <1>3
<1>5. QED
  BY <1>4 DEF m

\* The last items of a sequence.
IsEndOf(e, all) ==
  \E d \in Nat : Len(e) + d = Len(all) /\ \A i \in 1 .. Len(e) : e[i] = all[i + d]

\* A queue holds the last of its items and the new ones, the others are overwritten.
LEMMA EnqueuedItems ==
  ASSUME NEW T, NEW q \in Seq(T), NEW ids \in Seq(T), NEW size \in Nat
  PROVE  LET e == Enqueued(q, size, ids)
         IN /\ e \in Seq(T) /\ Len(e) <= size
            /\ IsEndOf(e, q \o ids)
            /\ ToSet(e) \subseteq ToSet(q) \cup ToSet(ids)
            /\ ToSet(q) \cup ToSet(ids) \subseteq ToSet(e) \cup Overwritten(q, size, ids)
            /\ Overwritten(q, size, ids) \subseteq ToSet(q) \cup ToSet(ids)
<1> DEFINE all == q \o ids
           e == Enqueued(q, size, ids)
           d == IF Len(all) >= size THEN Len(all) - size ELSE 0
<1>1. /\ Len(q) \in Nat /\ Len(ids) \in Nat
      /\ all \in Seq(T) /\ Len(all) = Len(q) + Len(ids)
      /\ \A i \in 1 .. Len(all) : all[i] = IF i <= Len(q) THEN q[i] ELSE ids[i - Len(q)]
  OBVIOUS
<1>2. Max({0, Len(all) - size}) = d
  <2>1. Len(all) - size \in Int
    BY <1>1
  <2>2. QED
    BY <1>1, <2>1, MaxOfTwo
<1>3. e = SubSeq(all, d + 1, Len(all))
  BY <1>2 DEF Enqueued
<1> HIDE DEF all, e
<1>4. d \in Nat /\ d <= Len(all) /\ Len(all) - d <= size
  BY <1>1
<1> HIDE DEF d
<1>5. /\ e \in Seq(T) /\ Len(e) = Len(all) - d
      /\ \A i \in 1 .. Len(e) : e[i] = all[i + d]
  <2>1. d + 1 \in Int /\ Len(all) \in Int /\ \A i \in d + 1 .. Len(all) : all[i] \in T
    BY <1>1, <1>4
  <2>2. /\ e \in Seq(T) /\ Len(e) = IF d + 1 <= Len(all) THEN Len(all) - (d + 1) + 1 ELSE 0
        /\ \A i \in 1 .. Len(all) - (d + 1) + 1 : e[i] = all[d + 1 + i - 1]
    BY <1>3, <2>1, SubSeqProperties
  <2>3. Len(e) = Len(all) - d
    <3>1. Len(all) \in Nat
      BY <1>1
    <3>2. QED
      BY <1>4, <2>2, <3>1
  <2>4. \A i \in 1 .. Len(e) : e[i] = all[i + d]
    <3> SUFFICES ASSUME NEW i \in 1 .. Len(e) PROVE e[i] = all[i + d]
      OBVIOUS
    <3>1. i \in 1 .. Len(all) - (d + 1) + 1 /\ d + 1 + i - 1 = i + d
      BY <1>1, <1>4, <2>3
    <3>2. QED
      BY <2>2, <3>1
  <2>5. QED
    BY <2>2, <2>3, <2>4
<1>6. ToSet(all) = ToSet(q) \cup ToSet(ids)
  <2>1. ASSUME NEW x \in ToSet(all)
        PROVE  x \in ToSet(q) \cup ToSet(ids)
    <3>1. PICK i \in 1 .. Len(all) : all[i] = x
      <4>1. DOMAIN all = 1 .. Len(all)
        BY <1>1
      <4>2. QED
        BY <4>1 DEF ToSet
    <3>2. CASE i <= Len(q)
      BY <1>1, <3>1, <3>2, ItemsOf
    <3>3. CASE ~(i <= Len(q))
      <4>1. i - Len(q) \in 1 .. Len(ids) /\ ids[i - Len(q)] = x
        BY <1>1, <3>1, <3>3
      <4>2. QED
        BY <4>1, ItemsOf
    <3>4. QED
      BY <3>2, <3>3
  <2>2. ASSUME NEW x \in ToSet(q)
        PROVE  x \in ToSet(all)
    <3>1. PICK i \in 1 .. Len(q) : q[i] = x
      BY ItemsOf
    <3>2. i \in 1 .. Len(all) /\ all[i] = x
      BY <1>1, <3>1
    <3>3. QED
      BY <1>1, <3>2, ItemsOf
  <2>3. ASSUME NEW x \in ToSet(ids)
        PROVE  x \in ToSet(all)
    <3>1. PICK i \in 1 .. Len(ids) : ids[i] = x
      BY ItemsOf
    <3>2. i + Len(q) \in 1 .. Len(all) /\ ~(i + Len(q) <= Len(q)) /\ (i + Len(q)) - Len(q) = i
      BY <1>1
    <3>3. all[i + Len(q)] = x
      BY <1>1, <3>1, <3>2
    <3>4. QED
      BY <1>1, <3>2, <3>3, ItemsOf
  <2>4. QED
    BY <2>1, <2>2, <2>3
<1>7. ToSet(e) \subseteq ToSet(all)
  <2>1. ASSUME NEW x \in ToSet(e)
        PROVE  x \in ToSet(all)
    <3>1. PICK i \in 1 .. Len(e) : e[i] = x
      BY <1>5, ItemsOf
    <3>2. i + d \in 1 .. Len(all) /\ all[i + d] = x
      BY <1>1, <1>4, <1>5, <3>1
    <3>3. QED
      BY <1>1, <3>2, ItemsOf
  <2>2. QED
    BY <2>1
<1>8. Overwritten(q, size, ids) = ToSet(all) \ ToSet(e)
  BY DEF Overwritten, all, e
<1>9. IsEndOf(e, all)
  <2>1. Len(e) + d = Len(all)
    <3>1. Len(all) \in Nat /\ Len(e) = Len(all) - d
      BY <1>1, <1>5
    <3>2. QED
      BY <1>4, <3>1
  <2>2. QED
    BY <1>4, <1>5, <2>1 DEF IsEndOf
<1>10. Len(e) <= size
  BY <1>4, <1>5
<1>11. ToSet(q) \cup ToSet(ids) \subseteq ToSet(e) \cup Overwritten(q, size, ids)
  BY <1>6, <1>8
<1>12. Overwritten(q, size, ids) \subseteq ToSet(q) \cup ToSet(ids)
  BY <1>6, <1>8
<1>13. QED
  BY <1>5, <1>6, <1>7, <1>9, <1>10, <1>11, <1>12, Zenon DEF all, e

\* What is in two sequences is in the one they make.
LEMMA ConcatItems ==
  ASSUME NEW T, NEW a \in Seq(T), NEW b \in Seq(T)
  PROVE  /\ a \o b \in Seq(T)
         /\ \A x : x \in ToSet(a \o b) <=> x \in ToSet(a) \/ x \in ToSet(b)
<1> DEFINE s == a \o b
<1>1. /\ Len(a) \in Nat /\ Len(b) \in Nat /\ s \in Seq(T) /\ Len(s) = Len(a) + Len(b)
      /\ DOMAIN a = 1 .. Len(a) /\ DOMAIN b = 1 .. Len(b) /\ DOMAIN s = 1 .. Len(a) + Len(b)
      /\ \A i \in 1 .. Len(a) + Len(b) : s[i] = IF i <= Len(a) THEN a[i] ELSE b[i - Len(a)]
  OBVIOUS
<1> HIDE DEF s
<1>2. ASSUME NEW x \in ToSet(s)
      PROVE  x \in ToSet(a) \/ x \in ToSet(b)
  <2>1. PICK i \in 1 .. Len(a) + Len(b) : s[i] = x
    BY <1>1 DEF ToSet
  <2>2. CASE i <= Len(a)
    <3>1. i \in DOMAIN a /\ a[i] = x
      BY <1>1, <2>1, <2>2
    <3>2. QED
      BY <3>1 DEF ToSet
  <2>3. CASE ~(i <= Len(a))
    <3>1. i - Len(a) \in DOMAIN b /\ b[i - Len(a)] = x
      BY <1>1, <2>1, <2>3
    <3>2. QED
      BY <3>1 DEF ToSet
  <2>4. QED
    BY <2>2, <2>3
<1>3. ASSUME NEW x \in ToSet(a)
      PROVE  x \in ToSet(s)
  <2>1. PICK i \in 1 .. Len(a) : a[i] = x
    BY <1>1 DEF ToSet
  <2>2. i \in DOMAIN s /\ s[i] = x
    BY <1>1, <2>1
  <2>3. QED
    BY <2>2 DEF ToSet
<1>4. ASSUME NEW x \in ToSet(b)
      PROVE  x \in ToSet(s)
  <2>1. PICK i \in 1 .. Len(b) : b[i] = x
    BY <1>1 DEF ToSet
  <2>2. /\ i + Len(a) \in 1 .. Len(a) + Len(b) /\ ~(i + Len(a) <= Len(a))
        /\ (i + Len(a)) - Len(a) = i
    BY <1>1
  <2>3. i + Len(a) \in DOMAIN s /\ s[i + Len(a)] = x
    BY <1>1, <2>1, <2>2
  <2>4. QED
    BY <2>3 DEF ToSet
<1>5. QED
  BY <1>1, <1>2, <1>3, <1>4 DEF s
------------------------------------------------------------------------------
(* What a handler does to the messages and the queues *)

\* Messages are numbers, and what waits or was written are such numbers.
LEMMA Numbered ==
  ASSUME TypeOK
  PROVE  /\ Len(history) \in Nat /\ Ids = 1 .. Len(history) /\ Ids \in SUBSET Nat
         /\ \A m \in Ids : history[m] \in Messages
         /\ \A a \in Sources : Queue(a) \in Seq(Ids)
         /\ \A u \in Users : received[u] \in Seq(Ids) /\ Got(u) \in SUBSET Ids
<1>1. Len(history) \in Nat /\ Ids = 1 .. Len(history) /\ \A m \in Ids : history[m] \in Messages
  BY DEF TypeOK, Ids
<1>2. Ids \in SUBSET Nat
  BY <1>1
<1>3. \A a \in Sources : Queue(a) \in Seq(Ids)
  BY DEF TypeOK, Sources, Queue
<1>4. \A u \in Users : received[u] \in Seq(Ids)
  BY DEF TypeOK
<1>5. \A u \in Users : Got(u) \in SUBSET Ids
  <2>1. \A s \in Seq(Ids) : ToSet(s) \in SUBSET Ids
    BY ItemsOf
  <2>2. QED
    BY <1>4, <2>1 DEF Got
<1>6. QED
  BY <1>1, <1>2, <1>3, <1>4, <1>5

\* The messages are recorded, behind the ones before.
Recorded ==
  /\ Ids \subseteq Ids'
  /\ \A m \in Ids : history'[m] = history[m]
  /\ \A m \in Ids : \A n \in Ids' \ Ids : m < n

\* The names of users, channels and the server's queue are different.
LEMMA Names ==
  /\ "server" \in Sources /\ "server" \notin Users /\ "server" \notin Channels
  /\ Users \subseteq Sources /\ Channels \subseteq Sources
  /\ \A a \in Users : a \notin Channels
  BY NamesAssumption DEF Sources

\* What a handler composes are messages, and their numbers are the new ones.
LEMMA Composed ==
  ASSUME TypeOK, NEW ms \in Seq(Messages), Composes(ms)
  PROVE  /\ history' \in Seq(Messages) /\ Len(history') <= MaxMessages
         /\ Len(history') = Len(history) + Len(ms)
         /\ Len(history) \in Nat /\ Len(ms) \in Nat
         /\ Ids' = 1 .. Len(history) + Len(ms)
         /\ Recorded
         /\ Len(NewIds) = Len(ms) /\ NewIds \in Seq(Ids') /\ NewIds \in Seq(Nat)
         /\ \A i \in 1 .. Len(ms) : /\ NewIds[i] = Len(history) + i
                                    /\ NewIds[i] \in Ids' \ Ids
                                    /\ history'[NewIds[i]] = ms[i]
         /\ \A m \in Ids' \ Ids : \E i \in 1 .. Len(ms) : m = NewIds[i]
         /\ Rising(NewIds)
<1>1. /\ Len(history) \in Nat /\ Ids = 1 .. Len(history) /\ history \in Seq(Messages)
  BY Numbered DEF TypeOK
<1>2. history' = history \o ms /\ Len(history) + Len(ms) <= MaxMessages
  BY DEF Composes
<1>3. /\ Len(ms) \in Nat
      /\ history' \in Seq(Messages) /\ Len(history') = Len(history) + Len(ms)
      /\ \A i \in 1 .. Len(history) + Len(ms) :
           history'[i] = IF i <= Len(history) THEN history[i] ELSE ms[i - Len(history)]
  BY <1>1, <1>2
<1>4. Ids' = 1 .. Len(history) + Len(ms)
  BY <1>3 DEF Ids
<1>5. Recorded
  BY <1>1, <1>3, <1>4 DEF Recorded
<1>6. NewIds = [i \in 1 .. Len(ms) |-> Len(history) + i]
  <2>1. Len(history') - Len(history) = Len(ms)
    BY <1>1, <1>3
  <2>2. QED
    BY <2>1 DEF NewIds
<1>7. \A i \in 1 .. Len(ms) : Len(history) + i \in Ids' /\ Len(history) + i \in Nat
  BY <1>1, <1>3, <1>4
<1>8. /\ Len(NewIds) = Len(ms) /\ NewIds \in Seq(Ids') /\ NewIds \in Seq(Nat)
      /\ DOMAIN NewIds = 1 .. Len(ms)
  BY <1>3, <1>6, <1>7
<1>9. \A i \in 1 .. Len(ms) : /\ NewIds[i] = Len(history) + i
                              /\ NewIds[i] \in Ids' \ Ids
                              /\ history'[NewIds[i]] = ms[i]
  <2> SUFFICES ASSUME NEW i \in 1 .. Len(ms)
               PROVE  /\ NewIds[i] = Len(history) + i
                      /\ NewIds[i] \in Ids' \ Ids
                      /\ history'[NewIds[i]] = ms[i]
    OBVIOUS
  <2>1. NewIds[i] = Len(history) + i
    BY <1>6
  <2>2. /\ Len(history) + i \in 1 .. Len(history) + Len(ms) /\ ~(Len(history) + i <= Len(history))
        /\ (Len(history) + i) - Len(history) = i
    BY <1>1, <1>3
  <2>3. QED
    BY <1>1, <1>3, <1>4, <2>1, <2>2
<1>10. \A m \in Ids' \ Ids : \E i \in 1 .. Len(ms) : m = NewIds[i]
  <2> SUFFICES ASSUME NEW m \in Ids' \ Ids
               PROVE  \E i \in 1 .. Len(ms) : m = NewIds[i]
    OBVIOUS
  <2>1. m - Len(history) \in 1 .. Len(ms) /\ Len(history) + (m - Len(history)) = m
    BY <1>1, <1>3, <1>4
  <2>2. QED
    BY <1>9, <2>1
<1>11. Rising(NewIds)
  BY <1>1, <1>6, <1>8 DEF Rising
<1>12. QED
  BY <1>1, <1>2, <1>3, <1>4, <1>5, <1>8, <1>9, <1>10, <1>11

\* An entry is what the model calls a message.
LEMMA EntryIsMessage ==
  ASSUME NEW u \in Users, NEW kind \in {"answer", "join", "part", "quit", "talk"},
         NEW via \in Sources, NEW about \in Users \cup Channels, NEW audience \in SUBSET Users
  PROVE  /\ Entry(u, kind, via, about, audience) \in Messages
         /\ Entry(u, kind, via, about, audience).from = u
         /\ Entry(u, kind, via, about, audience).kind = kind
         /\ Entry(u, kind, via, about, audience).via = via
         /\ Entry(u, kind, via, about, audience).about = about
         /\ Entry(u, kind, via, about, audience).audience = audience
  BY DEF Entry, Messages, Sources

\* A queue that rises still does when newer messages are put behind its items.
LEMMA EnqueuedRises ==
  ASSUME NEW q \in Seq(Nat), NEW ids \in Seq(Nat), NEW size \in Nat,
         Rising(q), Rising(ids),
         \A i \in 1 .. Len(q) : \A j \in 1 .. Len(ids) : q[i] < ids[j]
  PROVE  Rising(Enqueued(q, size, ids))
<1> DEFINE e == Enqueued(q, size, ids)
           all == q \o ids
<1>1. e \in Seq(Nat) /\ IsEndOf(e, q \o ids)
  BY EnqueuedItems
<1> HIDE DEF e
<1>2. PICK d \in Nat : /\ Len(e) + d = Len(q) + Len(ids)
                       /\ \A i \in 1 .. Len(e) : e[i] = all[i + d]
  <2>1. Len(all) = Len(q) + Len(ids)
    OBVIOUS
  <2> HIDE DEF all
  <2>2. IsEndOf(e, all)
    BY <1>1 DEF all
  <2>3. QED
    BY <2>1, <2>2 DEF IsEndOf
<1>3. /\ Len(q) \in Nat /\ Len(ids) \in Nat
      /\ \A i \in 1 .. Len(q) + Len(ids) : all[i] = IF i <= Len(q) THEN q[i] ELSE ids[i - Len(q)]
  OBVIOUS
<1> HIDE DEF all
<1>4. ASSUME NEW i \in 1 .. Len(q) + Len(ids), NEW j \in 1 .. Len(q) + Len(ids), i < j
      PROVE  all[i] < all[j]
  <2>1. DOMAIN q = 1 .. Len(q) /\ DOMAIN ids = 1 .. Len(ids)
    OBVIOUS
  <2>2. CASE j <= Len(q)
    <3>1. i \in 1 .. Len(q) /\ j \in 1 .. Len(q) /\ i <= Len(q)
      BY <1>3, <1>4, <2>2
    <3>2. q[i] < q[j]
      BY <1>4, <2>1, <3>1 DEF Rising
    <3>3. QED
      BY <1>3, <2>2, <3>1, <3>2
  <2>3. CASE ~(j <= Len(q)) /\ i <= Len(q)
    <3>1. j - Len(q) \in 1 .. Len(ids) /\ i \in 1 .. Len(q)
      BY <1>3, <2>3
    <3>2. QED
      BY <1>3, <2>3, <3>1
  <2>4. CASE ~(j <= Len(q)) /\ ~(i <= Len(q))
    <3>1. /\ j - Len(q) \in 1 .. Len(ids) /\ i - Len(q) \in 1 .. Len(ids)
          /\ i - Len(q) < j - Len(q)
      BY <1>3, <1>4, <2>4
    <3>2. ids[i - Len(q)] < ids[j - Len(q)]
      BY <2>1, <3>1 DEF Rising
    <3>3. QED
      BY <1>3, <2>4, <3>2
  <2>5. QED
    BY <1>3, <2>2, <2>3, <2>4
<1>5. DOMAIN e = 1 .. Len(e) /\ Len(e) \in Nat
  BY <1>1
<1>6. Rising(e)
  <2> SUFFICES ASSUME NEW i \in 1 .. Len(e), NEW j \in 1 .. Len(e), i < j
               PROVE  e[i] < e[j]
    BY <1>5 DEF Rising
  <2>1. i + d \in 1 .. Len(q) + Len(ids) /\ j + d \in 1 .. Len(q) + Len(ids) /\ i + d < j + d
    BY <1>2, <1>3, <1>5
  <2>2. QED
    BY <1>2, <1>4, <2>1
<1>7. QED
  BY <1>6 DEF e

\* What may become of the queue of a source: its items stay in order, and what is
\* added is new and belongs there.
Grown(a) ==
  /\ Rising(Queue(a)')
  /\ \A m \in ToSet(Queue(a)') :
       m \in ToSet(Queue(a)) \/ (m \in Ids' \ Ids /\ history'[m].via = a)

\* A queue that is left alone.
LEMMA GrownSame ==
  ASSUME QueuesRise, NEW a \in Sources, Queue(a)' = Queue(a)
  PROVE  Grown(a)
BY DEF QueuesRise, Grown

\* A queue that is emptied.
LEMMA GrownEmpty ==
  ASSUME NEW a \in Sources, Queue(a)' = << >>
  PROVE  Grown(a)
<1>1. Rising(<< >>) /\ ToSet(<< >>) = {}
  BY DEF Rising, ToSet
<1>2. QED
  BY <1>1 DEF Grown

\* A queue that new messages are put into.
LEMMA GrownEnqueued ==
  ASSUME TypeOK, QueuesRise, Recorded, NEW a \in Sources,
         NEW ids \in Seq(Nat), Rising(ids), NEW size \in Nat,
         \A i \in 1 .. Len(ids) : ids[i] \in Ids' \ Ids /\ history'[ids[i]].via = a,
         Queue(a)' = Enqueued(Queue(a), size, ids)
  PROVE  Grown(a)
<1> DEFINE q == Queue(a)
<1>1. q \in Seq(Ids) /\ Ids \in SUBSET Nat /\ Rising(q)
  BY Numbered DEF QueuesRise
<1>2. q \in Seq(Nat) /\ \A i \in 1 .. Len(q) : q[i] \in Ids
  <2> HIDE DEF q
  <2>1. q \in Seq(Nat)
    BY <1>1, SeqMonotonic
  <2>2. QED
    BY <1>1, <2>1
<1> HIDE DEF q
<1>3. \A i \in 1 .. Len(q) : \A j \in 1 .. Len(ids) : q[i] < ids[j]
  BY <1>2 DEF Recorded
<1>4. Rising(Enqueued(q, size, ids))
  BY <1>1, <1>2, <1>3, EnqueuedRises
<1>5. ToSet(Enqueued(q, size, ids)) \subseteq ToSet(q) \cup ToSet(ids)
  BY <1>2, EnqueuedItems
<1>6. \A m \in ToSet(ids) : m \in Ids' \ Ids /\ history'[m].via = a
  <2>1. DOMAIN ids = 1 .. Len(ids)
    OBVIOUS
  <2>2. QED
    BY <2>1 DEF ToSet
<1>7. QED
  BY <1>4, <1>5, <1>6 DEF Grown, q

------------------------------------------------------------------------------
(* What handlers keep *)

\* A new message for a user goes to its own queue once it has registered, and to the
\* server's before; no answer goes to a channel.
Proper ==
  \A m \in Ids' \ Ids :
    /\ \A u \in Users : history'[m].via = u => phase'[u] # "new"
    /\ \A u \in Users : history'[m].via = "server" /\ history'[m].about = u => phase'[u] = "new"
    /\ history'[m].kind = "answer" => history'[m].via \notin Channels

\* No handler puts a message where it would be written out of order.
LEMMA HandlerKeepsOrder ==
  ASSUME TypeOK, OrderInv, Recorded, Proper, UNCHANGED received,
         \A a \in Sources : Grown(a),
         \A u \in Users : phase'[u] = "new" => phase[u] = "new"
  PROVE  OrderInv'
<1>1. /\ Ids \in SUBSET Nat
      /\ \A m \in Ids : history[m] \in Messages
      /\ \A a \in Sources : Queue(a) \in Seq(Ids)
      /\ \A u \in Users : received[u] \in Seq(Ids) /\ Got(u) \in SUBSET Ids
  BY Numbered
<1>2. /\ Ids \subseteq Ids'
      /\ \A m \in Ids : history'[m] = history[m]
      /\ \A m \in Ids : \A n \in Ids' \ Ids : m < n
  BY DEF Recorded
<1>3. \A u \in Users : Got(u)' = Got(u)
  BY DEF Got
<1>4. \A m \in Ids : history[m].via \in Sources /\ history[m].about \in Users \cup Channels
  BY <1>1 DEF Messages, Sources
<1>5. ASSUME NEW a \in Sources, NEW i \in DOMAIN Queue(a)'
      PROVE  \/ \E j \in DOMAIN Queue(a) : Queue(a)[j] = Queue(a)'[i]
             \/ Queue(a)'[i] \in Ids' \ Ids /\ history'[Queue(a)'[i]].via = a
  <2>1. Queue(a)'[i] \in ToSet(Queue(a)')
    BY <1>5 DEF ToSet
  <2>2. \/ Queue(a)'[i] \in ToSet(Queue(a))
        \/ Queue(a)'[i] \in Ids' \ Ids /\ history'[Queue(a)'[i]].via = a
    BY <2>1 DEF Grown
  <2>3. QED
    BY <2>2 DEF ToSet
<1>6. ASSUME NEW a \in Sources, NEW j \in DOMAIN Queue(a)
      PROVE  Queue(a)[j] \in Ids
  BY <1>1, <1>6
<1>7. QueuesRise'
  <2>1. ASSUME NEW a \in Sources, NEW i \in DOMAIN Queue(a)'
        PROVE  history'[Queue(a)'[i]].via = a
    <3>1. CASE \E j \in DOMAIN Queue(a) : Queue(a)[j] = Queue(a)'[i]
      <4>1. PICK j \in DOMAIN Queue(a) : Queue(a)[j] = Queue(a)'[i]
        BY <3>1
      <4>2. history[Queue(a)[j]].via = a
        BY DEF OrderInv, QueuesRise
      <4>3. QED
        BY <1>2, <1>6, <4>1, <4>2
    <3>2. QED
      BY <1>5, <3>1
  <2>2. \A a \in Sources : Rising(Queue(a)')
    BY DEF Grown
  <2>3. \A a \in Sources : Rising(Queue(a))'
    BY <2>2 DEF Rising
  <2>4. QED
    BY <2>1, <2>3, Zenon DEF QueuesRise
<1>8. ReceivedEarlier'
  <2> SUFFICES ASSUME NEW u \in Users, NEW m \in Got(u)'
               PROVE  CameEarlier(u, m, history[m].via)'
    BY DEF ReceivedEarlier
  <2>1. m \in Got(u) /\ m \in Ids /\ history'[m] = history[m]
    BY <1>1, <1>2, <1>3
  <2>2. PICK a \in Sources : a = history[m].via
    BY <1>4, <2>1
  <2>3. CameEarlier(u, m, a)
    BY <2>1, <2>2 DEF OrderInv, ReceivedEarlier
  <2>4. ASSUME NEW i \in DOMAIN Queue(a)'
        PROVE  m < Queue(a)'[i]
    <3>1. CASE \E j \in DOMAIN Queue(a) : Queue(a)[j] = Queue(a)'[i]
      <4>1. PICK j \in DOMAIN Queue(a) : Queue(a)[j] = Queue(a)'[i]
        BY <3>1
      <4>2. m < Queue(a)[j]
        BY <2>3 DEF CameEarlier
      <4>3. QED
        BY <4>1, <4>2
    <3>2. CASE Queue(a)'[i] \in Ids' \ Ids
      BY <1>2, <2>1, <3>2
    <3>3. QED
      BY <1>5, <3>1, <3>2
  <2>5. CameEarlier(u, m, a)'
    BY <2>1, <2>3, <2>4 DEF CameEarlier
  <2>6. QED
    BY <2>1, <2>2, <2>5
<1>9. ServerQueueFirst'
  <2>1. ASSUME NEW n \in Ids', NEW u \in Users, history'[n].via = u
        PROVE  phase'[u] # "new"
    <3>1. CASE n \in Ids
      BY <1>2, <2>1, <3>1 DEF OrderInv, ServerQueueFirst
    <3>2. CASE n \notin Ids
      BY <2>1, <3>2 DEF Proper
    <3>3. QED
      BY <3>1, <3>2
  <2>2. ASSUME NEW n \in Ids', NEW u \in Users, history'[n].via = u,
               NEW m \in Ids', history'[m].via = "server", history'[m].about = u
        PROVE  m < n
    <3>1. m \in Ids
      BY <2>1, <2>2 DEF Proper
    <3>2. CASE n \in Ids
      BY <1>2, <2>2, <3>1, <3>2 DEF OrderInv, ServerQueueFirst
    <3>3. CASE n \notin Ids
      BY <1>2, <3>1, <3>3
    <3>4. QED
      BY <3>2, <3>3
  <2>3. ASSUME NEW u \in Users, NEW m \in Got(u), history'[m].via = u,
               NEW i \in DOMAIN serverQueue'
        PROVE  history'[serverQueue'[i]].about # u
    <3>1. m \in Ids /\ history[m].via = u /\ m \in Ids'
      BY <1>1, <1>2, <2>3
    <3>2. "server" \in Sources /\ Queue("server") = serverQueue /\ Queue("server")' = serverQueue'
      BY Names DEF Queue
    <3>3. CASE \E j \in DOMAIN serverQueue : serverQueue[j] = serverQueue'[i]
      <4>1. PICK j \in DOMAIN serverQueue : serverQueue[j] = serverQueue'[i]
        BY <3>3
      <4>2. history[serverQueue[j]].about # u
        BY <3>1 DEF OrderInv, ServerQueueFirst
      <4>3. serverQueue[j] \in Ids
        BY <1>6, <3>2
      <4>4. QED
        BY <1>2, <4>1, <4>2, <4>3
    <3>4. CASE serverQueue'[i] \in Ids' \ Ids /\ history'[serverQueue'[i]].via = "server"
      BY <2>1, <2>3, <3>1, <3>4 DEF Proper
    <3>5. QED
      BY <1>5, <3>2, <3>3, <3>4
  <2>4. \A u \in Users : \A m \in Got(u)' : m \in Got(u)
    BY <1>3
  <2>5. QED
    BY <2>1, <2>2, <2>3, <2>4, Zenon DEF ServerQueueFirst
<1>10. AnswersPrivate'
  <2> SUFFICES ASSUME NEW m \in Ids', history'[m].kind = "answer"
               PROVE  history'[m].via \notin Channels
    BY DEF AnswersPrivate
  <2>1. CASE m \in Ids
    BY <1>2, <2>1 DEF OrderInv, AnswersPrivate
  <2>2. CASE m \notin Ids
    BY <2>2 DEF Proper
  <2>3. QED
    BY <2>1, <2>2
<1>11. SameOrder'
  BY DEF OrderInv, SameOrder
<1>12. InOrder'
  <2> SUFFICES ASSUME NEW u \in Users, NEW i \in DOMAIN received[u], NEW j \in DOMAIN received[u],
                      i < j,
                      \/ history'[received[u][i]].via = history'[received[u][j]].via
                      \/ /\ history'[received[u][i]].kind = "answer"
                         /\ history'[received[u][j]].kind = "answer"
               PROVE  received[u][i] < received[u][j]
    BY DEF InOrder
  <2>1. received[u][i] \in Ids /\ received[u][j] \in Ids
    BY <1>1
  <2>2. /\ history'[received[u][i]] = history[received[u][i]]
        /\ history'[received[u][j]] = history[received[u][j]]
    BY <1>2, <2>1
  <2>3. QED
    BY <2>2 DEF OrderInv, InOrder
<1>13. QED
  BY <1>7, <1>8, <1>9, <1>10, <1>11, <1>12 DEF OrderInv

\* What becomes of those who wait for a message of a channel: they are members
\* still, and it is there or overwritten, or they have left.
Waiting ==
  \A c \in Channels : \A m \in ToSet(channelQueue[c]) : \A u \in Members(c) :
    \/ (m \in ToSet(channelQueue'[c]) \/ m \in dropped') /\ u \in Members(c)'
    \/ HasLeft(u, m, c)'

\* A new message of a channel is for members, and waits there or is overwritten.
ForMembers ==
  \A m \in Ids' \ Ids : \A c \in Channels : history'[m].via = c =>
    /\ m \in ToSet(channelQueue'[c]) \/ m \in dropped'
    /\ history'[m].audience \subseteq Members(c)'

\* No handler loses a message that a member still waits for.
LEMMA HandlerKeepsMembers ==
  ASSUME TypeOK, MembersAreServed, Recorded, Waiting, ForMembers, UNCHANGED received,
         dropped \subseteq dropped',
         \A u \in Users : phase[u] = "gone" => phase'[u] = "gone"
  PROVE  MembersAreServed'
<1>1. \A m \in Ids : history[m] \in Messages /\ history'[m] = history[m] /\ m \in Ids'
  BY Numbered DEF Recorded
<1>2. \A m \in Ids : \A u \in history[m].audience : u \in Users
  BY <1>1 DEF Messages
<1>3. \A u, m, c : u \in Users /\ HasLeft(u, m, c) => HasLeft(u, m, c)'
  <2> SUFFICES ASSUME NEW u, NEW m, NEW c, u \in Users, HasLeft(u, m, c)
               PROVE  HasLeft(u, m, c)'
    OBVIOUS
  <2>1. CASE phase[u] = "gone"
    BY <2>1 DEF HasLeft
  <2>2. CASE \E k \in Ids : /\ k > m /\ history[k].from = u
                            /\ history[k].kind = "part" /\ history[k].about = c
    BY <1>1, <2>2 DEF HasLeft
  <2>3. QED
    BY <2>1, <2>2 DEF HasLeft
<1>4. ASSUME NEW m \in Ids', NEW u \in history'[m].audience, NEW c \in Channels, history'[m].via = c
      PROVE  \/ m \in Got(u)' \/ m \in dropped'
             \/ m \in ToSet(channelQueue'[c]) /\ u \in Members(c)'
             \/ HasLeft(u, m, c)'
  <2>1. CASE m \in Ids
    <3>1. history'[m] = history[m] /\ u \in Users
      BY <1>1, <1>2, <1>4, <2>1
    <3>2. \/ m \in Got(u) \/ m \in dropped
          \/ m \in ToSet(channelQueue[c]) /\ u \in Members(c)
          \/ HasLeft(u, m, c)
      BY <1>4, <2>1, <3>1 DEF MembersAreServed
    <3>3. Got(u)' = Got(u)
      BY DEF Got
    <3>4. CASE m \in ToSet(channelQueue[c]) /\ u \in Members(c)
      BY <3>4 DEF Waiting
    <3>5. QED
      BY <1>3, <3>1, <3>2, <3>3, <3>4
  <2>2. CASE m \notin Ids
    BY <1>4, <2>2 DEF ForMembers
  <2>3. QED
    BY <2>1, <2>2
<1>5. QED
  BY <1>4, Zenon DEF MembersAreServed

------------------------------------------------------------------------------
(* What handlers do with the queues *)

\* The queues of the sources are the variables of the model.
LEMMA QueueIs ==
  /\ Queue("server") = serverQueue /\ Queue("server")' = serverQueue'
  /\ \A u \in Users : Queue(u) = userQueue[u] /\ Queue(u)' = userQueue'[u]
  /\ \A c \in Channels : Queue(c) = channelQueue[c] /\ Queue(c)' = channelQueue'[c]
<1>1. \A c \in Channels : c # "server" /\ c \notin Users
  BY NamesAssumption
<1>2. \A u \in Users : u # "server"
  BY NamesAssumption
<1>3. QED
  BY <1>1, <1>2 DEF Queue

\* New messages for a queue.
NewFor(ids, a) ==
  /\ ids \in Seq(Ids') /\ ids \in Seq(Nat) /\ Rising(ids)
  /\ \A m \in ToSet(ids) : m \in Ids' \ Ids /\ history'[m].via = a

\* What was a message is one.
LEMMA StillNumbered ==
  ASSUME TypeOK, Recorded
  PROVE  /\ \A q \in Seq(Ids) : q \in Seq(Ids') /\ q \in Seq(Nat)
         /\ received \in [Users -> Seq(Ids')] /\ dropped \subseteq Ids'
<1>1. Ids \subseteq Ids' /\ Ids \subseteq Nat
  BY Numbered DEF Recorded
<1>2. \A q \in Seq(Ids) : q \in Seq(Ids') /\ q \in Seq(Nat)
  BY <1>1, SeqMonotonic
<1>3. QED
  BY <1>1, <1>2 DEF TypeOK

\* A queue that new messages are put into.
LEMMA QueueGrown ==
  ASSUME TypeOK, QueuesRise, Recorded, NEW a \in Sources, NEW ids, NewFor(ids, a),
         NEW size \in Nat, Queue(a)' = Enqueued(Queue(a), size, ids)
  PROVE  /\ Grown(a)
         /\ Queue(a)' \in Seq(Ids') /\ Len(Queue(a)') <= size
         /\ Overwritten(Queue(a), size, ids) \subseteq Ids'
         /\ ToSet(Queue(a)) \cup ToSet(ids)
              \subseteq ToSet(Queue(a)') \cup Overwritten(Queue(a), size, ids)
         /\ ToSet(Queue(a)') \subseteq ToSet(Queue(a)) \cup ToSet(ids)
<1>1. Queue(a) \in Seq(Ids')
  BY Numbered, StillNumbered
<1>2. /\ ids \in Seq(Ids') /\ ids \in Seq(Nat) /\ Rising(ids)
      /\ \A m \in ToSet(ids) : m \in Ids' \ Ids /\ history'[m].via = a
  BY DEF NewFor
<1>3. \A i \in 1 .. Len(ids) : ids[i] \in Ids' \ Ids /\ history'[ids[i]].via = a
  <2>1. \A i \in 1 .. Len(ids) : ids[i] \in ToSet(ids)
    BY <1>2, ItemsOf
  <2>2. QED
    BY <1>2, <2>1
<1>4. Grown(a)
  BY <1>2, <1>3, GrownEnqueued
<1> DEFINE q == Queue(a)
           e == Enqueued(q, size, ids)
           over == Overwritten(q, size, ids)
<1>5. q \in Seq(Ids')
  BY <1>1
<1> HIDE DEF q
<1>6. /\ e \in Seq(Ids') /\ Len(e) <= size
      /\ ToSet(e) \subseteq ToSet(q) \cup ToSet(ids)
      /\ ToSet(q) \cup ToSet(ids) \subseteq ToSet(e) \cup over
      /\ over \subseteq ToSet(q) \cup ToSet(ids)
  BY <1>2, <1>5, EnqueuedItems
<1>7. ToSet(q) \subseteq Ids' /\ ToSet(ids) \subseteq Ids'
  BY <1>2, <1>5, ItemsOf
<1>8. Queue(a)' = e
  BY DEF q
<1> HIDE DEF e, over
<1>9. over \subseteq Ids'
  BY <1>6, <1>7
<1>10. QED
  BY <1>4, <1>6, <1>8, <1>9 DEF q, over

\* A queue that is left alone or emptied.
LEMMA QueueKept ==
  ASSUME TypeOK, QueuesRise, Recorded, NEW a \in Sources,
         Queue(a)' = Queue(a) \/ Queue(a)' = << >>
  PROVE  /\ Grown(a) /\ Queue(a)' \in Seq(Ids')
         /\ ToSet(Queue(a)') \subseteq ToSet(Queue(a))
<1>1. CASE Queue(a)' = Queue(a)
  BY <1>1, GrownSame, Numbered, StillNumbered
<1>2. CASE Queue(a)' = << >>
  <2>1. ToSet(<< >>) = {} /\ << >> \in Seq(Ids')
    BY DEF ToSet
  <2>2. QED
    BY <1>2, <2>1, GrownEmpty
<1>3. QED
  BY <1>1, <1>2

\* A list with a name added, and without one.
LEMMA ListedItems ==
  ASSUME NEW T, NEW list \in Seq(T), NEW x \in T
  PROVE  /\ Listed(list, x) \in Seq(T)
         /\ \A y : Contains(Listed(list, x), y) <=> Contains(list, y) \/ y = x
         /\ IsInjective(list) => IsInjective(Listed(list, x))
<1>1. CASE Contains(list, x)
  BY <1>1 DEF Listed
<1>2. CASE ~Contains(list, x)
  <2> DEFINE l == Append(list, x)
  <2>1. /\ l = Listed(list, x) /\ l \in Seq(T) /\ DOMAIN l = 1 .. Len(list) + 1
        /\ Len(list) \in Nat /\ DOMAIN list = 1 .. Len(list) /\ l[Len(list) + 1] = x
        /\ \A i \in 1 .. Len(list) : l[i] = list[i]
    BY <1>2 DEF Listed
  <2> HIDE DEF l
  <2>2. \A y : Contains(l, y) <=> Contains(list, y) \/ y = x
    <3>1. \A i \in 1 .. Len(list) + 1 : i \in 1 .. Len(list) \/ i = Len(list) + 1
      BY <2>1
    <3>2. Len(list) + 1 \in 1 .. Len(list) + 1 /\ \A i \in 1 .. Len(list) : i \in 1 .. Len(list) + 1
      BY <2>1
    <3>3. QED
      BY <2>1, <3>1, <3>2 DEF Contains
  <2>3. ASSUME IsInjective(list)
        PROVE  IsInjective(l)
    <3>1. \A i \in 1 .. Len(list) : list[i] # x
      BY <1>2, <2>1 DEF Contains
    <3>2. \A i, j \in 1 .. Len(list) : list[i] = list[j] => i = j
      BY <2>1, <2>3 DEF IsInjective
    <3>3. \A i, j \in 1 .. Len(list) + 1 : l[i] = l[j] => i = j
      <4>1. \A i \in 1 .. Len(list) + 1 : i \in 1 .. Len(list) \/ i = Len(list) + 1
        BY <2>1
      <4>2. QED
        BY <2>1, <3>1, <3>2, <4>1
    <3>4. QED
      BY <2>1, <3>3 DEF IsInjective
  <2>4. QED
    BY <2>1, <2>2, <2>3
<1>3. QED
  BY <1>1, <1>2

\* The same without a name.
LEMMA UnlistedItems ==
  ASSUME NEW T, NEW list \in Seq(T), NEW x
  PROVE  /\ Unlisted(list, x) \in Seq(T)
         /\ \A y : Contains(Unlisted(list, x), y) <=> Contains(list, y) /\ y # x
         /\ IsInjective(list) => IsInjective(Unlisted(list, x))
<1> DEFINE s == Only(list, ToSet(list) \ {x})
<1>1. /\ s \in Seq(T) /\ ToSet(s) = ToSet(list) \cap (ToSet(list) \ {x})
      /\ IsInjective(list) => IsInjective(s)
  <2> DEFINE S == ToSet(list) \ {x}
  <2> HIDE DEF S
  <2>1. /\ Only(list, S) \in Seq(T) /\ ToSet(Only(list, S)) = ToSet(list) \cap S
        /\ IsInjective(list) => IsInjective(Only(list, S))
    BY OnlyThose
  <2>2. QED
    BY <2>1 DEF S
<1>2. s = Unlisted(list, x)
  BY DEF Unlisted
<1> HIDE DEF s
<1>3. \A y : (Contains(s, y) <=> y \in ToSet(s)) /\ (Contains(list, y) <=> y \in ToSet(list))
  BY <1>1, ItemsOf
<1>4. QED
  BY <1>1, <1>2, <1>3

------------------------------------------------------------------------------
(* Every handler keeps the invariant *)

\* The same for a single message.
LEMMA ComposedOne ==
  ASSUME TypeOK, NEW e \in Messages, Composes(<<e>>)
  PROVE  /\ Recorded
         /\ history' \in Seq(Messages) /\ Len(history') <= MaxMessages
         /\ NewFor(NewIds, e.via) /\ ToSet(NewIds) = Ids' \ Ids
         /\ \A m \in Ids' \ Ids : history'[m] = e
         /\ \E m \in Ids' \ Ids : \A k \in Ids : k < m
<1>1. <<e>> \in Seq(Messages) /\ Len(<<e>>) = 1 /\ <<e>>[1] = e
  OBVIOUS
<1>2. /\ history' \in Seq(Messages) /\ Len(history') <= MaxMessages
      /\ Len(history) \in Nat /\ Ids' = 1 .. Len(history) + 1
      /\ Recorded
      /\ Len(NewIds) = 1 /\ NewIds \in Seq(Ids') /\ NewIds \in Seq(Nat)
      /\ NewIds[1] = Len(history) + 1 /\ NewIds[1] \in Ids' \ Ids
      /\ history'[NewIds[1]] = e
      /\ \A m \in Ids' \ Ids : m = NewIds[1]
      /\ Rising(NewIds)
  <2> DEFINE ms == <<e>>
  <2> HIDE DEF ms
  <2>1. ms \in Seq(Messages) /\ Composes(ms) /\ Len(ms) = 1 /\ ms[1] = e
    BY <1>1 DEF ms
  <2>2. /\ history' \in Seq(Messages) /\ Len(history') <= MaxMessages
        /\ Len(history) \in Nat /\ Ids' = 1 .. Len(history) + Len(ms)
        /\ Recorded
        /\ Len(NewIds) = Len(ms) /\ NewIds \in Seq(Ids') /\ NewIds \in Seq(Nat)
        /\ \A i \in 1 .. Len(ms) : /\ NewIds[i] = Len(history) + i
                                   /\ NewIds[i] \in Ids' \ Ids
                                   /\ history'[NewIds[i]] = ms[i]
        /\ \A m \in Ids' \ Ids : \E i \in 1 .. Len(ms) : m = NewIds[i]
        /\ Rising(NewIds)
    BY <2>1, Composed
  <2>3. 1 \in 1 .. Len(ms) /\ \A i \in 1 .. Len(ms) : i = 1
    BY <2>1
  <2>4. QED
    BY <2>1, <2>2, <2>3
<1>3. ToSet(NewIds) = Ids' \ Ids
  <2>1. \A m \in ToSet(NewIds) : m = NewIds[1]
    BY <1>2, ItemsOf
  <2>2. NewIds[1] \in ToSet(NewIds)
    <3>1. 1 \in 1 .. Len(NewIds)
      BY <1>2
    <3>2. QED
      BY <1>2, <3>1, ItemsOf
  <2>3. QED
    BY <1>2, <2>1, <2>2
<1>4. \A k \in Ids : k < NewIds[1]
  BY <1>2 DEF Recorded
<1>5. QED
  BY <1>2, <1>3, <1>4 DEF NewFor

\* What a handler keeps, or does in a way that the invariant can bear.
Kept ==
  /\ TypeOK' /\ ListsAreSets' /\ QueuedIsReady'
  /\ Recorded /\ Proper /\ (\A a \in Sources : Grown(a))
  /\ Waiting /\ ForMembers
  /\ UNCHANGED received /\ dropped \subseteq dropped'
  /\ \A u \in Users : /\ phase'[u] = "new" => phase[u] = "new" /\ joined'[u] = joined[u]
                      /\ phase[u] = "gone" => phase'[u] = "gone"

\* This is enough for the invariant.
LEMMA KeptIsEnough ==
  ASSUME Inv, Kept
  PROVE  Inv'
<1>1. OrderInv'
  BY HandlerKeepsOrder DEF Inv, Kept
<1>2. MembersAreServed'
  BY HandlerKeepsMembers DEF Inv, Kept
<1>3. NewAreNowhere'
  BY DEF Inv, Kept, NewAreNowhere
<1>4. QED
  BY <1>1, <1>2, <1>3 DEF Inv, Kept

\* Queues and announcements after a handler.
LEMMA ReadyKept ==
  ASSUME TypeOK, QueuedIsReady, Recorded,
         \A v \in Users : \A m \in ToSet(userQueue'[v]) :
           \/ Contains(readyUsers', v)
           \/ history'[m].kind = "talk"
           \/ m \in ToSet(userQueue[v]) /\ (Contains(readyUsers, v) => Contains(readyUsers', v)),
         \A c \in Channels : channelQueue'[c] # << >> =>
           \/ Contains(readyChannels', c)
           \/ channelQueue[c] # << >> /\ (Contains(readyChannels, c) => Contains(readyChannels', c))
  PROVE  QueuedIsReady'
<1>1. \A v \in Users : \A m \in ToSet(userQueue[v]) : history'[m] = history[m]
  <2>1. \A v \in Users : userQueue[v] \in Seq(Ids)
    BY DEF TypeOK
  <2>2. QED
    BY <2>1, ItemsOf DEF Recorded
<1>2. \A v \in Users : \A m \in ToSet(userQueue'[v]) :
        history'[m].kind # "talk" => Contains(readyUsers', v)
  BY <1>1 DEF QueuedIsReady
<1>3. \A c \in Channels : channelQueue'[c] # << >> => Contains(readyChannels', c)
  BY DEF QueuedIsReady
<1>4. \A v : Contains(readyUsers, v)' = Contains(readyUsers', v)
  BY DEF Contains
<1>5. \A c : Contains(readyChannels, c)' = Contains(readyChannels', c)
  BY DEF Contains
<1>6. QED
  BY <1>2, <1>3 DEF QueuedIsReady

\* A user that messages are put into the queue of.
LEMMA UserGrows ==
  ASSUME TypeOK, QueuesRise, Recorded, NEW u \in Users, NEW ids, NewFor(ids, u),
         userQueue' = [userQueue EXCEPT ![u] = Enqueued(@, UserQueueLen, ids)]
  PROVE  /\ \A v \in Users : Grown(v)
         /\ userQueue' \in [Users -> Seq(Ids')]
         /\ \A v \in Users : Len(userQueue'[v]) <= UserQueueLen
         /\ ToUserDrops(u, ids) \subseteq Ids'
         /\ \A v \in Users : v # u => userQueue'[v] = userQueue[v]
         /\ ToSet(userQueue'[u]) \subseteq ToSet(userQueue[u]) \cup ToSet(ids)
<1>1. /\ userQueue'[u] = Enqueued(userQueue[u], UserQueueLen, ids)
      /\ \A v \in Users : v # u => userQueue'[v] = userQueue[v]
      /\ DOMAIN userQueue' = Users /\ userQueue' = [v \in Users |-> userQueue'[v]]
  BY DEF TypeOK
<1>2. /\ Grown(u) /\ userQueue'[u] \in Seq(Ids') /\ Len(userQueue'[u]) <= UserQueueLen
      /\ ToUserDrops(u, ids) \subseteq Ids'
      /\ ToSet(userQueue'[u]) \subseteq ToSet(userQueue[u]) \cup ToSet(ids)
  <2>1. u \in Sources /\ Queue(u) = userQueue[u] /\ Queue(u)' = userQueue'[u] /\ UserQueueLen \in Nat
    BY Names, QueueIs, SizesAssumption
  <2>2. Queue(u)' = Enqueued(Queue(u), UserQueueLen, ids)
    BY <1>1, <2>1
  <2>3. QED
    BY <2>1, <2>2, QueueGrown DEF ToUserDrops
<1>3. \A v \in Users : v # u => Grown(v) /\ userQueue'[v] \in Seq(Ids')
  <2>1. \A v \in Users : v # u => v \in Sources /\ Queue(v)' = Queue(v) /\ Queue(v)' = userQueue'[v]
    BY <1>1, Names, QueueIs
  <2>2. QED
    BY <2>1, QueueKept
<1>4. \A v \in Users : v # u => Len(userQueue'[v]) <= UserQueueLen
  BY <1>1 DEF TypeOK
<1>5. userQueue' \in [Users -> Seq(Ids')]
  BY <1>1, <1>2, <1>3
<1>6. QED
  BY <1>1, <1>2, <1>3, <1>4, <1>5

\* A user that messages are put into the queue of, and announced.
LEMMA ToUserGrows ==
  ASSUME TypeOK, QueuesRise, Recorded, NEW u \in Users, NEW ids, NewFor(ids, u), ToUser(u, ids)
  PROVE  /\ \A v \in Users : Grown(v)
         /\ userQueue' \in [Users -> Seq(Ids')]
         /\ \A v \in Users : Len(userQueue'[v]) <= UserQueueLen
         /\ readyUsers' \in Seq(Users)
         /\ ToUserDrops(u, ids) \subseteq Ids'
         /\ \A v \in Users : \A m \in ToSet(userQueue'[v]) :
              \/ Contains(readyUsers', v)
              \/ m \in ToSet(userQueue[v]) /\ (Contains(readyUsers, v) => Contains(readyUsers', v))
<1>1. userQueue' = [userQueue EXCEPT ![u] = Enqueued(@, UserQueueLen, ids)]
  BY DEF ToUser
<1>2. /\ \A v \in Users : Grown(v)
      /\ userQueue' \in [Users -> Seq(Ids')]
      /\ \A v \in Users : Len(userQueue'[v]) <= UserQueueLen
      /\ ToUserDrops(u, ids) \subseteq Ids'
      /\ \A v \in Users : v # u => userQueue'[v] = userQueue[v]
  BY <1>1, UserGrows
<1>3. /\ readyUsers' \in Seq(Users) /\ Contains(readyUsers', u)
      /\ \A v : Contains(readyUsers, v) => Contains(readyUsers', v)
  BY ListedItems DEF ToUser, TypeOK
<1>4. QED
  BY <1>2, <1>3

\* Channels that a handler does not touch.
LEMMA ChannelsAlone ==
  ASSUME Inv, Recorded, UNCHANGED <<joined, channelQueue, readyChannels>>,
         \A m \in Ids' \ Ids : history'[m].via \notin Channels
  PROVE  /\ \A c \in Channels : Grown(c)
         /\ channelQueue' \in [Channels -> Seq(Ids')]
         /\ \A c \in Channels : Len(channelQueue'[c]) <= ChannelQueueLen
         /\ joined' \in [Users -> Seq(Channels)]
         /\ readyChannels' \in Seq(Channels)
         /\ ListsAreSets' /\ Waiting /\ ForMembers
<1>1. TypeOK /\ QueuesRise /\ ListsAreSets
  BY DEF Inv, OrderInv
<1>2. \A c \in Channels : Grown(c) /\ Queue(c)' \in Seq(Ids')
  <2>1. \A c \in Channels : c \in Sources /\ Queue(c)' = Queue(c)
    BY Names, QueueIs
  <2>2. QED
    BY <1>1, <2>1, QueueKept
<1>3. channelQueue' \in [Channels -> Seq(Ids')]
  <2>1. \A c \in Channels : channelQueue'[c] \in Seq(Ids')
    BY <1>2, QueueIs
  <2>2. channelQueue' \in [Channels -> Seq(Ids)]
    BY <1>1 DEF TypeOK
  <2>3. QED
    BY <2>1, <2>2
<1>4. \A c \in Channels : Members(c)' = Members(c)
  BY DEF Members
<1>5. Waiting
  BY <1>4 DEF Waiting
<1>6. ForMembers
  BY DEF ForMembers
<1>7. QED
  BY <1>1, <1>2, <1>3, <1>5, <1>6 DEF TypeOK, ListsAreSets

\* An answer goes to the server's queue or to the user's own, by its phase.
LEMMA AnswerKeeps ==
  ASSUME Inv, NEW u \in Users, Answer(u)
  PROVE  Kept
<1> DEFINE e == AnswerTo(u)
           via == IF phase[u] = "new" THEN "server" ELSE u
<1>1. TypeOK /\ QueuesRise /\ QueuedIsReady
  BY DEF Inv, OrderInv
<1>2. e \in Messages /\ e.kind = "answer" /\ e.via = via /\ e.about = u
  <2>1. via \in Sources /\ u \in Users \cup Channels /\ {u} \in SUBSET Users
    BY Names
  <2>2. e = Entry(u, "answer", via, u, {u})
    BY DEF AnswerTo
  <2> HIDE DEF e, via
  <2>3. QED
    BY <2>1, <2>2, EntryIsMessage
<1>3. /\ Recorded /\ history' \in Seq(Messages) /\ Len(history') <= MaxMessages
      /\ NewFor(NewIds, e.via) /\ ToSet(NewIds) = Ids' \ Ids
      /\ \A m \in Ids' \ Ids : history'[m] = e
  <2>1. Composes(<<e>>)
    BY DEF Answer
  <2> HIDE DEF e
  <2>2. QED
    BY <1>1, <1>2, <2>1, ComposedOne
<1> HIDE DEF e
<1>4. via \notin Channels /\ u \in Sources /\ "server" \in Sources
  BY Names
<1>5. /\ \A c \in Channels : Grown(c)
      /\ channelQueue' \in [Channels -> Seq(Ids')]
      /\ \A c \in Channels : Len(channelQueue'[c]) <= ChannelQueueLen
      /\ joined' \in [Users -> Seq(Channels)]
      /\ readyChannels' \in Seq(Channels)
      /\ ListsAreSets' /\ Waiting /\ ForMembers
  <2>1. \A m \in Ids' \ Ids : history'[m].via \notin Channels
    BY <1>2, <1>3, <1>4
  <2>2. QED
    BY <1>3, <2>1, ChannelsAlone DEF Answer
<1>6. Proper
  BY <1>2, <1>3, <1>4, NamesAssumption DEF Proper, Answer
<1>7. UNCHANGED <<phase, joined, received, readyChannels, channelQueue>>
  BY DEF Answer
<1>8. CASE phase[u] = "new"
  <2>1. /\ serverQueue' = Enqueued(serverQueue, ServerQueueLen, NewIds)
        /\ dropped' = dropped \cup Overwritten(serverQueue, ServerQueueLen, NewIds)
        /\ UNCHANGED <<userQueue, readyUsers>>
    BY <1>8 DEF Answer
  <2>2. /\ Grown("server") /\ serverQueue' \in Seq(Ids') /\ Len(serverQueue') <= ServerQueueLen
        /\ Overwritten(serverQueue, ServerQueueLen, NewIds) \subseteq Ids'
    <3>1. NewFor(NewIds, "server") /\ ServerQueueLen \in Nat
      BY <1>2, <1>3, <1>8, SizesAssumption
    <3>2. Queue("server")' = Enqueued(Queue("server"), ServerQueueLen, NewIds)
      BY <2>1, QueueIs
    <3>3. QED
      BY <1>1, <1>3, <1>4, <3>1, <3>2, QueueGrown, QueueIs
  <2>3. /\ \A v \in Users : Grown(v) /\ userQueue'[v] \in Seq(Ids')
        /\ userQueue' \in [Users -> Seq(Ids')]
        /\ \A v \in Users : Len(userQueue'[v]) <= UserQueueLen
    <3>1. \A v \in Users : v \in Sources /\ Queue(v)' = Queue(v) /\ Queue(v)' = userQueue'[v]
      BY <2>1, Names, QueueIs
    <3>2. \A v \in Users : Grown(v) /\ userQueue'[v] \in Seq(Ids')
      BY <1>1, <1>3, <3>1, QueueKept
    <3>3. QED
      BY <1>1, <2>1, <3>2 DEF TypeOK
  <2>4. QueuedIsReady'
    BY <1>1, <1>3, <1>7, <2>1, ReadyKept
  <2>5. TypeOK'
    BY <1>1, <1>3, <1>5, <1>7, <2>1, <2>2, <2>3, StillNumbered DEF TypeOK
  <2>6. QED
    BY <1>3, <1>5, <1>6, <1>7, <2>1, <2>2, <2>3, <2>4, <2>5 DEF Kept, Sources
<1>9. CASE phase[u] # "new"
  <2>1. ToUser(u, NewIds) /\ serverQueue' = serverQueue
        /\ dropped' = dropped \cup ToUserDrops(u, NewIds)
    BY <1>9 DEF Answer
  <2>2. NewFor(NewIds, u)
    BY <1>2, <1>3, <1>9
  <2>3. /\ \A v \in Users : Grown(v)
        /\ userQueue' \in [Users -> Seq(Ids')]
        /\ \A v \in Users : Len(userQueue'[v]) <= UserQueueLen
        /\ readyUsers' \in Seq(Users)
        /\ ToUserDrops(u, NewIds) \subseteq Ids'
        /\ \A v \in Users : \A m \in ToSet(userQueue'[v]) :
             \/ Contains(readyUsers', v)
             \/ m \in ToSet(userQueue[v]) /\ (Contains(readyUsers, v) => Contains(readyUsers', v))
    BY <1>1, <1>3, <2>1, <2>2, ToUserGrows
  <2>4. Grown("server") /\ serverQueue' \in Seq(Ids') /\ Len(serverQueue') <= ServerQueueLen
    BY <1>1, <1>3, <1>4, <2>1, QueueKept, QueueIs DEF TypeOK
  <2>5. QueuedIsReady'
    BY <1>1, <1>3, <1>7, <2>3, ReadyKept
  <2>6. TypeOK'
    BY <1>1, <1>3, <1>5, <1>7, <2>1, <2>3, <2>4, StillNumbered DEF TypeOK
  <2>7. QED
    BY <1>3, <1>5, <1>6, <1>7, <2>1, <2>3, <2>4, <2>5, <2>6 DEF Kept, Sources
<1>10. QED
  BY <1>8, <1>9

\* A channel that messages are put into the queue of, and announced.
LEMMA ToChannelGrows ==
  ASSUME TypeOK, QueuesRise, ListsAreSets, Recorded,
         NEW c \in Channels, NEW ids, NewFor(ids, c), ToChannel(c, ids)
  PROVE  /\ \A d \in Channels : Grown(d)
         /\ channelQueue' \in [Channels -> Seq(Ids')]
         /\ \A d \in Channels : Len(channelQueue'[d]) <= ChannelQueueLen
         /\ readyChannels' \in Seq(Channels) /\ IsInjective(readyChannels')
         /\ ToChannelDrops(c, ids) \subseteq Ids'
         /\ \A d \in Channels : \A m \in ToSet(channelQueue[d]) :
              m \in ToSet(channelQueue'[d]) \/ m \in ToChannelDrops(c, ids)
         /\ \A m \in ToSet(ids) : m \in ToSet(channelQueue'[c]) \/ m \in ToChannelDrops(c, ids)
         /\ \A d \in Channels : channelQueue'[d] # << >> =>
              \/ Contains(readyChannels', d)
              \/ /\ channelQueue[d] # << >>
                 /\ Contains(readyChannels, d) => Contains(readyChannels', d)
<1>1. /\ channelQueue'[c] = Enqueued(channelQueue[c], ChannelQueueLen, ids)
      /\ \A d \in Channels : d # c => channelQueue'[d] = channelQueue[d]
      /\ DOMAIN channelQueue' = Channels /\ channelQueue' = [d \in Channels |-> channelQueue'[d]]
  BY DEF TypeOK, ToChannel
<1>2. /\ Grown(c) /\ channelQueue'[c] \in Seq(Ids') /\ Len(channelQueue'[c]) <= ChannelQueueLen
      /\ ToChannelDrops(c, ids) \subseteq Ids'
      /\ ToSet(channelQueue[c]) \cup ToSet(ids)
           \subseteq ToSet(channelQueue'[c]) \cup ToChannelDrops(c, ids)
  <2>1. /\ c \in Sources /\ Queue(c) = channelQueue[c] /\ Queue(c)' = channelQueue'[c]
        /\ ChannelQueueLen \in Nat
    BY Names, QueueIs, SizesAssumption
  <2>2. Queue(c)' = Enqueued(Queue(c), ChannelQueueLen, ids)
    BY <1>1, <2>1
  <2>3. QED
    BY <2>1, <2>2, QueueGrown DEF ToChannelDrops
<1>3. \A d \in Channels : d # c => Grown(d) /\ channelQueue'[d] \in Seq(Ids')
  <2>1. \A d \in Channels : d # c =>
          d \in Sources /\ Queue(d)' = Queue(d) /\ Queue(d)' = channelQueue'[d]
    BY <1>1, Names, QueueIs
  <2>2. QED
    BY <2>1, QueueKept
<1>4. \A d \in Channels : d # c => Len(channelQueue'[d]) <= ChannelQueueLen
  BY <1>1 DEF TypeOK
<1>5. channelQueue' \in [Channels -> Seq(Ids')]
  BY <1>1, <1>2, <1>3
<1>6. /\ readyChannels' \in Seq(Channels) /\ IsInjective(readyChannels')
      /\ Contains(readyChannels', c)
      /\ \A d : Contains(readyChannels, d) => Contains(readyChannels', d)
  BY ListedItems DEF ToChannel, TypeOK, ListsAreSets
<1>7. QED
  BY <1>1, <1>2, <1>3, <1>4, <1>5, <1>6

\* Channels whose members no handler of this step changes.
LEMMA SameMembers ==
  ASSUME UNCHANGED joined
  PROVE  \A c \in Channels : Members(c)' = Members(c)
BY DEF Members

\* The welcome is the first message in the user's own queue.
LEMMA RegisterKeeps ==
  ASSUME Inv, NEW u \in Users, Register(u)
  PROVE  Kept
<1> DEFINE e == Entry(u, "answer", u, u, {u})
<1>1. TypeOK /\ QueuesRise /\ QueuedIsReady
  BY DEF Inv, OrderInv
<1>2. e \in Messages /\ e.kind = "answer" /\ e.via = u /\ e.about = u
  <2>1. u \in Sources /\ u \in Users \cup Channels /\ {u} \in SUBSET Users
    BY Names
  <2>2. QED
    BY <2>1, EntryIsMessage
<1>3. /\ Recorded /\ history' \in Seq(Messages) /\ Len(history') <= MaxMessages
      /\ NewFor(NewIds, e.via) /\ ToSet(NewIds) = Ids' \ Ids
      /\ \A m \in Ids' \ Ids : history'[m] = e
  <2>1. Composes(<<e>>)
    BY DEF Register
  <2> HIDE DEF e
  <2>2. QED
    BY <1>1, <1>2, <2>1, ComposedOne
<1> HIDE DEF e
<1>4. u \notin Channels /\ u \in Sources /\ "server" \in Sources /\ u # "server"
  BY Names
<1>5. /\ \A c \in Channels : Grown(c)
      /\ channelQueue' \in [Channels -> Seq(Ids')]
      /\ \A c \in Channels : Len(channelQueue'[c]) <= ChannelQueueLen
      /\ joined' \in [Users -> Seq(Channels)]
      /\ readyChannels' \in Seq(Channels)
      /\ ListsAreSets' /\ Waiting /\ ForMembers
  <2>1. \A m \in Ids' \ Ids : history'[m].via \notin Channels
    BY <1>2, <1>3, <1>4
  <2>2. QED
    BY <1>3, <2>1, ChannelsAlone DEF Register
<1>6. /\ phase' \in [Users -> {"new", "registered", "gone"}] /\ phase'[u] = "registered"
      /\ phase[u] = "new" /\ \A v \in Users : v # u => phase'[v] = phase[v]
  BY <1>1 DEF Register, Registered, TypeOK
<1>7. Proper
  BY <1>2, <1>3, <1>4, <1>6 DEF Proper
<1>8. /\ ToUser(u, NewIds)
      /\ UNCHANGED <<joined, received, dropped, serverQueue, readyChannels, channelQueue>>
  BY DEF Register
<1>9. NewFor(NewIds, u)
  BY <1>2, <1>3
<1>10. /\ \A v \in Users : Grown(v)
       /\ userQueue' \in [Users -> Seq(Ids')]
       /\ \A v \in Users : Len(userQueue'[v]) <= UserQueueLen
       /\ readyUsers' \in Seq(Users)
       /\ \A v \in Users : \A m \in ToSet(userQueue'[v]) :
            \/ Contains(readyUsers', v)
            \/ m \in ToSet(userQueue[v]) /\ (Contains(readyUsers, v) => Contains(readyUsers', v))
  BY <1>1, <1>3, <1>8, <1>9, ToUserGrows
<1>11. Grown("server") /\ serverQueue' \in Seq(Ids') /\ Len(serverQueue') <= ServerQueueLen
  BY <1>1, <1>3, <1>4, <1>8, QueueKept, QueueIs DEF TypeOK
<1>12. QueuedIsReady'
  BY <1>1, <1>3, <1>8, <1>10, ReadyKept
<1>13. TypeOK'
  BY <1>1, <1>3, <1>5, <1>6, <1>8, <1>10, <1>11, StillNumbered DEF TypeOK
<1>14. QED
  BY <1>3, <1>5, <1>6, <1>7, <1>8, <1>10, <1>11, <1>12, <1>13 DEF Kept, Sources

\* A private message changes the recipient's queue and announces the sender.
LEMMA TalkToUserKeeps ==
  ASSUME Inv, NEW u \in Users, NEW recipient \in Users, TalkToUser(u, recipient)
  PROVE  Kept
<1> DEFINE e == Entry(u, "talk", recipient, recipient, {recipient})
<1>1. TypeOK /\ QueuesRise /\ QueuedIsReady
  BY DEF Inv, OrderInv
<1>2. e \in Messages /\ e.kind = "talk" /\ e.via = recipient
  <2>1. recipient \in Sources /\ recipient \in Users \cup Channels /\ {recipient} \in SUBSET Users
    BY Names
  <2>2. QED
    BY <2>1, EntryIsMessage
<1>3. /\ Recorded /\ history' \in Seq(Messages) /\ Len(history') <= MaxMessages
      /\ NewFor(NewIds, e.via) /\ ToSet(NewIds) = Ids' \ Ids
      /\ \A m \in Ids' \ Ids : history'[m] = e
  <2>1. Composes(<<e>>)
    BY DEF TalkToUser
  <2> HIDE DEF e
  <2>2. QED
    BY <1>1, <1>2, <2>1, ComposedOne
<1> HIDE DEF e
<1>4. recipient \notin Channels /\ "server" \in Sources /\ recipient # "server"
  BY Names
<1>5. /\ \A c \in Channels : Grown(c)
      /\ channelQueue' \in [Channels -> Seq(Ids')]
      /\ \A c \in Channels : Len(channelQueue'[c]) <= ChannelQueueLen
      /\ joined' \in [Users -> Seq(Channels)]
      /\ readyChannels' \in Seq(Channels)
      /\ ListsAreSets' /\ Waiting /\ ForMembers
  <2>1. \A m \in Ids' \ Ids : history'[m].via \notin Channels
    BY <1>2, <1>3, <1>4
  <2>2. QED
    BY <1>3, <2>1, ChannelsAlone DEF TalkToUser
<1>6. /\ UNCHANGED <<phase, joined, received, serverQueue, readyChannels, channelQueue>>
      /\ dropped' = dropped \cup ToUserDrops(recipient, NewIds)
      /\ phase[recipient] = "registered"
  BY DEF TalkToUser
<1>7. Proper
  BY <1>2, <1>3, <1>4, <1>6 DEF Proper
<1>8. NewFor(NewIds, recipient)
  BY <1>2, <1>3
<1>9. /\ \A v \in Users : Grown(v)
      /\ userQueue' \in [Users -> Seq(Ids')]
      /\ \A v \in Users : Len(userQueue'[v]) <= UserQueueLen
      /\ ToUserDrops(recipient, NewIds) \subseteq Ids'
      /\ \A v \in Users : v # recipient => userQueue'[v] = userQueue[v]
      /\ ToSet(userQueue'[recipient]) \subseteq ToSet(userQueue[recipient]) \cup ToSet(NewIds)
  BY <1>1, <1>3, <1>8, UserGrows DEF TalkToUser
<1>10. readyUsers' \in Seq(Users) /\ \A v : Contains(readyUsers, v) => Contains(readyUsers', v)
  BY <1>1, ListedItems DEF TalkToUser, TypeOK
<1>11. QueuedIsReady'
  <2>1. \A m \in ToSet(NewIds) : history'[m].kind = "talk"
    BY <1>2, <1>3
  <2>2. \A v \in Users : \A m \in ToSet(userQueue'[v]) :
          history'[m].kind = "talk" \/ m \in ToSet(userQueue[v])
    BY <1>9, <2>1
  <2>3. QED
    BY <1>1, <1>3, <1>6, <1>10, <2>2, ReadyKept
<1>12. Grown("server") /\ serverQueue' \in Seq(Ids') /\ Len(serverQueue') <= ServerQueueLen
  BY <1>1, <1>3, <1>4, <1>6, QueueKept, QueueIs DEF TypeOK
<1>13. TypeOK'
  BY <1>1, <1>3, <1>5, <1>6, <1>9, <1>10, <1>12, StillNumbered DEF TypeOK
<1>14. QED
  BY <1>3, <1>5, <1>6, <1>7, <1>9, <1>11, <1>12, <1>13 DEF Kept, Sources

\* Users and the server's queue that a handler does not touch.
LEMMA UsersAlone ==
  ASSUME Inv, Recorded, UNCHANGED <<userQueue, readyUsers>>
  PROVE  /\ \A v \in Users : Grown(v)
         /\ userQueue' \in [Users -> Seq(Ids')]
         /\ \A v \in Users : Len(userQueue'[v]) <= UserQueueLen
         /\ readyUsers' \in Seq(Users)
         /\ \A v \in Users : \A m \in ToSet(userQueue'[v]) :
              m \in ToSet(userQueue[v]) /\ (Contains(readyUsers, v) => Contains(readyUsers', v))
<1>1. TypeOK /\ QueuesRise
  BY DEF Inv, OrderInv
<1>2. \A v \in Users : v \in Sources /\ Queue(v)' = Queue(v) /\ Queue(v)' = userQueue'[v]
  BY Names, QueueIs
<1>3. \A v \in Users : Grown(v) /\ userQueue'[v] \in Seq(Ids')
  BY <1>1, <1>2, QueueKept
<1>4. QED
  BY <1>1, <1>3 DEF TypeOK

\* The server's queue that a handler does not touch.
LEMMA ServerAlone ==
  ASSUME Inv, Recorded, UNCHANGED serverQueue
  PROVE  Grown("server") /\ serverQueue' \in Seq(Ids') /\ Len(serverQueue') <= ServerQueueLen
<1>1. TypeOK /\ QueuesRise
  BY DEF Inv, OrderInv
<1>2. QED
  BY <1>1, Names, QueueKept, QueueIs DEF TypeOK

\* Who is on the lists of a channel.
LEMMA MembersAre ==
  ASSUME TypeOK
  PROVE  \A c : \A v : v \in Members(c) <=> v \in Users /\ Contains(joined[v], c)
BY DEF Members

\* A message for a channel is for its members and waits in its queue.
LEMMA TalkToChannelKeeps ==
  ASSUME Inv, NEW u \in Users, NEW c \in Channels, TalkToChannel(u, c)
  PROVE  Kept
<1> DEFINE e == News(u, "talk", c, Members(c))
<1>1. TypeOK /\ QueuesRise /\ QueuedIsReady /\ ListsAreSets
  BY DEF Inv, OrderInv
<1>2. e \in Messages /\ e.kind = "talk" /\ e.via = c /\ e.audience = Members(c)
  <2>1. c \in Sources /\ c \in Users \cup Channels /\ Members(c) \in SUBSET Users
    BY Names DEF Members
  <2>2. e = Entry(u, "talk", c, c, Members(c))
    BY DEF News
  <2>3. QED
    BY <2>1, <2>2, EntryIsMessage
<1>3. /\ Recorded /\ history' \in Seq(Messages) /\ Len(history') <= MaxMessages
      /\ NewFor(NewIds, e.via) /\ ToSet(NewIds) = Ids' \ Ids
      /\ \A m \in Ids' \ Ids : history'[m] = e
  <2>1. Composes(<<e>>)
    BY DEF TalkToChannel
  <2> HIDE DEF e
  <2>2. QED
    BY <1>1, <1>2, <2>1, ComposedOne
<1> HIDE DEF e
<1>4. c \notin Users /\ c # "server"
  BY Names
<1>5. /\ ToChannel(c, NewIds) /\ dropped' = dropped \cup ToChannelDrops(c, NewIds)
      /\ UNCHANGED <<phase, joined, serverQueue, userQueue, readyUsers, received>>
  BY DEF TalkToChannel
<1>6. /\ \A d \in Channels : Grown(d)
      /\ channelQueue' \in [Channels -> Seq(Ids')]
      /\ \A d \in Channels : Len(channelQueue'[d]) <= ChannelQueueLen
      /\ readyChannels' \in Seq(Channels) /\ IsInjective(readyChannels')
      /\ ToChannelDrops(c, NewIds) \subseteq Ids'
      /\ \A d \in Channels : \A m \in ToSet(channelQueue[d]) :
           m \in ToSet(channelQueue'[d]) \/ m \in ToChannelDrops(c, NewIds)
      /\ \A m \in ToSet(NewIds) : m \in ToSet(channelQueue'[c]) \/ m \in ToChannelDrops(c, NewIds)
      /\ \A d \in Channels : channelQueue'[d] # << >> =>
           \/ Contains(readyChannels', d)
           \/ /\ channelQueue[d] # << >>
              /\ Contains(readyChannels, d) => Contains(readyChannels', d)
  BY <1>1, <1>2, <1>3, <1>5, ToChannelGrows
<1>7. /\ \A v \in Users : Grown(v)
      /\ userQueue' \in [Users -> Seq(Ids')]
      /\ \A v \in Users : Len(userQueue'[v]) <= UserQueueLen
      /\ readyUsers' \in Seq(Users)
      /\ \A v \in Users : \A m \in ToSet(userQueue'[v]) :
           m \in ToSet(userQueue[v]) /\ (Contains(readyUsers, v) => Contains(readyUsers', v))
  BY <1>3, <1>5, UsersAlone
<1>8. Grown("server") /\ serverQueue' \in Seq(Ids') /\ Len(serverQueue') <= ServerQueueLen
  BY <1>3, <1>5, ServerAlone
<1>9. Proper
  BY <1>2, <1>3, <1>4 DEF Proper
<1>10. Waiting
  BY <1>5, <1>6, SameMembers DEF Waiting
<1>11. ForMembers
  <2>1. \A m \in Ids' \ Ids : m \in ToSet(NewIds) /\ history'[m].via = c
                              /\ history'[m].audience = Members(c)
    BY <1>2, <1>3
  <2>2. Members(c)' = Members(c)
    BY <1>5, SameMembers
  <2>3. QED
    BY <1>5, <1>6, <2>1, <2>2 DEF ForMembers
<1>12. QueuedIsReady'
  BY <1>1, <1>3, <1>6, <1>7, ReadyKept
<1>13. ListsAreSets'
  BY <1>1, <1>5, <1>6 DEF ListsAreSets
<1>14. TypeOK'
  BY <1>1, <1>3, <1>5, <1>6, <1>7, <1>8, StillNumbered DEF TypeOK
<1>15. QED
  BY <1>3, <1>5, <1>6, <1>7, <1>8, <1>9, <1>10, <1>11, <1>12, <1>13, <1>14 DEF Kept, Sources

\* A member that parts leaves the channel and nothing else.
LEMMA PartedMembers ==
  ASSUME TypeOK, ListsAreSets, NEW u \in Users, NEW c \in Channels, Parted(u, c)
  PROVE  /\ joined' \in [Users -> Seq(Channels)]
         /\ \A v \in Users : IsInjective(joined'[v])
         /\ \A v \in Users : v # u => joined'[v] = joined[v]
         /\ \A d \in Channels : \A v \in Users :
              v \in Members(d)' <=> v \in Members(d) /\ ~(v = u /\ d = c)
<1>1. /\ joined'[u] = Unlisted(joined[u], c)
      /\ \A v \in Users : v # u => joined'[v] = joined[v]
      /\ DOMAIN joined' = Users /\ joined' = [v \in Users |-> joined'[v]]
      /\ joined \in [Users -> Seq(Channels)] /\ \A v \in Users : IsInjective(joined[v])
  BY DEF Parted, TypeOK, ListsAreSets
<1>2. /\ joined'[u] \in Seq(Channels) /\ IsInjective(joined'[u])
      /\ \A d : Contains(joined'[u], d) <=> Contains(joined[u], d) /\ d # c
  BY <1>1, UnlistedItems
<1>3. joined' \in [Users -> Seq(Channels)]
  BY <1>1, <1>2
<1>4. \A d : \A v : v \in Members(d)' <=> v \in Users /\ Contains(joined'[v], d)
  BY DEF Members
<1>5. \A d : \A v : v \in Members(d) <=> v \in Users /\ Contains(joined[v], d)
  BY DEF Members
<1>6. \A d \in Channels : \A v \in Users :
        v \in Members(d)' <=> v \in Members(d) /\ ~(v = u /\ d = c)
  BY <1>1, <1>2, <1>4, <1>5
<1>7. QED
  BY <1>1, <1>2, <1>3, <1>6

\* Who is in a channel has registered.
LEMMA MemberIsNotNew ==
  ASSUME TypeOK, NewAreNowhere, NEW c \in Channels, NEW u \in Members(c)
  PROVE  phase[u] # "new"
<1>1. u \in Users /\ Contains(joined[u], c)
  BY DEF Members
<1>2. ~Contains(<< >>, c)
  BY DEF Contains
<1>3. QED
  BY <1>1, <1>2 DEF NewAreNowhere

\* A member parts and leaves others behind: it misses what still waits there.
LEMMA PartKeepsOthers ==
  ASSUME Inv, NEW u \in Users, NEW c \in Channels, Part(u, c), Members(c) # {u}
  PROVE  Kept
<1> DEFINE audience == Members(c) \ {u}
           e == News(u, "part", c, audience)
<1>1. TypeOK /\ QueuesRise /\ QueuedIsReady /\ ListsAreSets /\ phase[u] # "new"
  BY MemberIsNotNew DEF Inv, OrderInv, Part
<1>2. /\ e \in Messages /\ e.from = u /\ e.kind = "part" /\ e.via = c /\ e.about = c
      /\ e.audience = audience
  <2>1. c \in Sources /\ c \in Users \cup Channels /\ audience \in SUBSET Users
    BY Names DEF Members
  <2>2. e = Entry(u, "part", c, c, audience)
    BY DEF News
  <2> HIDE DEF audience
  <2>3. QED
    BY <2>1, <2>2, EntryIsMessage
<1>3. /\ Recorded /\ history' \in Seq(Messages) /\ Len(history') <= MaxMessages
      /\ NewFor(NewIds, e.via) /\ ToSet(NewIds) = Ids' \ Ids
      /\ \A m \in Ids' \ Ids : history'[m] = e
      /\ \E m \in Ids' \ Ids : \A k \in Ids : k < m
  <2>1. Composes(<<e>>)
    BY DEF Part
  <2> HIDE DEF e
  <2>2. QED
    BY <1>1, <1>2, <2>1, ComposedOne
<1> HIDE DEF e
<1>4. c \notin Users /\ c # "server"
  BY Names
<1>5. /\ ToChannel(c, NewIds) /\ dropped' = dropped \cup ToChannelDrops(c, NewIds)
      /\ Parted(u, c)
      /\ UNCHANGED <<phase, serverQueue, userQueue, readyUsers, received>>
  BY DEF Part
<1>6. /\ \A d \in Channels : Grown(d)
      /\ channelQueue' \in [Channels -> Seq(Ids')]
      /\ \A d \in Channels : Len(channelQueue'[d]) <= ChannelQueueLen
      /\ readyChannels' \in Seq(Channels) /\ IsInjective(readyChannels')
      /\ ToChannelDrops(c, NewIds) \subseteq Ids'
      /\ \A d \in Channels : \A m \in ToSet(channelQueue[d]) :
           m \in ToSet(channelQueue'[d]) \/ m \in ToChannelDrops(c, NewIds)
      /\ \A m \in ToSet(NewIds) : m \in ToSet(channelQueue'[c]) \/ m \in ToChannelDrops(c, NewIds)
      /\ \A d \in Channels : channelQueue'[d] # << >> =>
           \/ Contains(readyChannels', d)
           \/ /\ channelQueue[d] # << >>
              /\ Contains(readyChannels, d) => Contains(readyChannels', d)
  BY <1>1, <1>2, <1>3, <1>5, ToChannelGrows
<1>7. /\ joined' \in [Users -> Seq(Channels)]
      /\ \A v \in Users : IsInjective(joined'[v])
      /\ \A v \in Users : v # u => joined'[v] = joined[v]
      /\ \A d \in Channels : \A v \in Users :
           v \in Members(d)' <=> v \in Members(d) /\ ~(v = u /\ d = c)
  BY <1>1, <1>5, PartedMembers
<1>8. /\ \A v \in Users : Grown(v)
      /\ userQueue' \in [Users -> Seq(Ids')]
      /\ \A v \in Users : Len(userQueue'[v]) <= UserQueueLen
      /\ readyUsers' \in Seq(Users)
      /\ \A v \in Users : \A m \in ToSet(userQueue'[v]) :
           m \in ToSet(userQueue[v]) /\ (Contains(readyUsers, v) => Contains(readyUsers', v))
  BY <1>3, <1>5, UsersAlone
<1>9. Grown("server") /\ serverQueue' \in Seq(Ids') /\ Len(serverQueue') <= ServerQueueLen
  BY <1>3, <1>5, ServerAlone
<1>10. Proper
  BY <1>2, <1>3, <1>4 DEF Proper
<1>11. Waiting
  <2> SUFFICES ASSUME NEW d \in Channels, NEW m \in ToSet(channelQueue[d]), NEW v \in Members(d)
               PROVE  \/ (m \in ToSet(channelQueue'[d]) \/ m \in dropped') /\ v \in Members(d)'
                      \/ HasLeft(v, m, d)'
    BY DEF Waiting
  <2>1. v \in Users
    BY DEF Members
  <2>2. CASE v = u /\ d = c
    <3>1. m \in Ids
      BY <1>1, ItemsOf DEF TypeOK
    <3>2. PICK k \in Ids' \ Ids : \A l \in Ids : l < k
      BY <1>3
    <3>3. k \in Ids' /\ m < k /\ m \in Nat /\ k \in Nat
      BY <1>1, <1>3, <3>1, <3>2, Numbered DEF NewFor, Recorded, Ids
    <3>4. k > m /\ history'[k].from = v /\ history'[k].kind = "part" /\ history'[k].about = d
      BY <1>2, <1>3, <2>2, <3>2, <3>3
    <3>5. QED
      BY <3>3, <3>4 DEF HasLeft
  <2>3. CASE ~(v = u /\ d = c)
    BY <1>5, <1>6, <1>7, <2>1, <2>3
  <2>4. QED
    BY <2>2, <2>3
<1>12. ForMembers
  <2>1. \A m \in Ids' \ Ids : m \in ToSet(NewIds) /\ history'[m].via = c
                              /\ history'[m].audience = audience
    BY <1>2, <1>3
  <2>2. audience \subseteq Members(c)'
    BY <1>7 DEF Members
  <2> HIDE DEF audience
  <2>3. QED
    BY <1>5, <1>6, <2>1, <2>2 DEF ForMembers
<1>13. QueuedIsReady'
  BY <1>1, <1>3, <1>6, <1>8, ReadyKept
<1>14. ListsAreSets'
  BY <1>6, <1>7 DEF ListsAreSets
<1>15. TypeOK'
  BY <1>1, <1>3, <1>5, <1>6, <1>7, <1>8, <1>9, StillNumbered DEF TypeOK
<1>16. QED
  BY <1>1, <1>3, <1>5, <1>6, <1>7, <1>8, <1>9, <1>10, <1>11, <1>12, <1>13, <1>14, <1>15 DEF Kept, Sources

\* The last member takes the channel along.
LEMMA PartAloneKeeps ==
  ASSUME Inv, NEW u \in Users, NEW c \in Channels, Part(u, c), Members(c) = {u}
  PROVE  Kept
<1> DEFINE e == Entry(u, "part", u, c, {u})
<1>1. TypeOK /\ QueuesRise /\ QueuedIsReady /\ ListsAreSets /\ phase[u] # "new"
  BY MemberIsNotNew DEF Inv, OrderInv, Part
<1>2. e \in Messages /\ e.from = u /\ e.kind = "part" /\ e.via = u /\ e.about = c
  <2>1. u \in Sources /\ c \in Users \cup Channels /\ {u} \in SUBSET Users
    BY Names
  <2>2. QED
    BY <2>1, EntryIsMessage
<1>3. /\ Recorded /\ history' \in Seq(Messages) /\ Len(history') <= MaxMessages
      /\ NewFor(NewIds, e.via) /\ ToSet(NewIds) = Ids' \ Ids
      /\ \A m \in Ids' \ Ids : history'[m] = e
      /\ \E m \in Ids' \ Ids : \A k \in Ids : k < m
  <2>1. Composes(<<e>>)
    BY DEF Part
  <2> HIDE DEF e
  <2>2. QED
    BY <1>1, <1>2, <2>1, ComposedOne
<1> HIDE DEF e
<1>4. u \notin Channels /\ u # "server"
  BY Names
<1>5. /\ ToUser(u, NewIds) /\ dropped' = dropped \cup ToUserDrops(u, NewIds)
      /\ Parted(u, c) /\ Without(c)
      /\ UNCHANGED <<phase, serverQueue, received>>
  BY DEF Part
<1>6. /\ \A v \in Users : Grown(v)
      /\ userQueue' \in [Users -> Seq(Ids')]
      /\ \A v \in Users : Len(userQueue'[v]) <= UserQueueLen
      /\ readyUsers' \in Seq(Users)
      /\ ToUserDrops(u, NewIds) \subseteq Ids'
      /\ \A v \in Users : \A m \in ToSet(userQueue'[v]) :
           \/ Contains(readyUsers', v)
           \/ m \in ToSet(userQueue[v]) /\ (Contains(readyUsers, v) => Contains(readyUsers', v))
  BY <1>1, <1>2, <1>3, <1>5, ToUserGrows
<1>7. /\ joined' \in [Users -> Seq(Channels)]
      /\ \A v \in Users : IsInjective(joined'[v])
      /\ \A v \in Users : v # u => joined'[v] = joined[v]
      /\ \A d \in Channels : \A v \in Users :
           v \in Members(d)' <=> v \in Members(d) /\ ~(v = u /\ d = c)
  BY <1>1, <1>5, PartedMembers
<1>8. /\ channelQueue'[c] = << >>
      /\ \A d \in Channels : d # c => channelQueue'[d] = channelQueue[d]
      /\ DOMAIN channelQueue' = Channels /\ channelQueue' = [d \in Channels |-> channelQueue'[d]]
  BY <1>1, <1>5 DEF Without, TypeOK
<1>9. \A d \in Channels : Grown(d) /\ channelQueue'[d] \in Seq(Ids')
  <2>1. \A d \in Channels : /\ d \in Sources /\ Queue(d)' = channelQueue'[d]
                            /\ Queue(d)' = Queue(d) \/ Queue(d)' = << >>
    BY <1>8, Names, QueueIs
  <2>2. QED
    BY <1>1, <1>3, <2>1, QueueKept
<1>10. /\ channelQueue' \in [Channels -> Seq(Ids')]
       /\ \A d \in Channels : Len(channelQueue'[d]) <= ChannelQueueLen
  <2>1. Len(channelQueue'[c]) <= ChannelQueueLen
    BY <1>8, SizesAssumption
  <2>2. \A d \in Channels : d # c => Len(channelQueue'[d]) <= ChannelQueueLen
    BY <1>1, <1>8 DEF TypeOK
  <2>3. channelQueue' \in [Channels -> Seq(Ids')]
    BY <1>8, <1>9
  <2>4. QED
    BY <2>1, <2>2, <2>3
<1>11. /\ readyChannels' \in Seq(Channels) /\ IsInjective(readyChannels')
       /\ \A d : d # c => (Contains(readyChannels, d) => Contains(readyChannels', d))
  <2>1. readyChannels \in Seq(Channels) /\ IsInjective(readyChannels)
    BY <1>1 DEF TypeOK, ListsAreSets
  <2>2. readyChannels' = Unlisted(readyChannels, c)
    BY <1>5 DEF Without
  <2>3. QED
    BY <2>1, <2>2, UnlistedItems
<1>12. Grown("server") /\ serverQueue' \in Seq(Ids') /\ Len(serverQueue') <= ServerQueueLen
  BY <1>3, <1>5, ServerAlone
<1>13. Proper
  BY <1>1, <1>2, <1>3, <1>4, <1>5 DEF Proper
<1>14. Waiting
  <2> SUFFICES ASSUME NEW d \in Channels, NEW m \in ToSet(channelQueue[d]), NEW v \in Members(d)
               PROVE  \/ (m \in ToSet(channelQueue'[d]) \/ m \in dropped') /\ v \in Members(d)'
                      \/ HasLeft(v, m, d)'
    BY DEF Waiting
  <2>1. v \in Users
    BY DEF Members
  <2>2. CASE d = c
    <3>1. m \in Ids
      BY <1>1, ItemsOf DEF TypeOK
    <3>2. PICK k \in Ids' \ Ids : \A l \in Ids : l < k
      BY <1>3
    <3>3. k \in Ids' /\ m < k /\ m \in Nat /\ k \in Nat
      BY <1>1, <1>3, <3>1, <3>2, Numbered DEF NewFor, Recorded, Ids
    <3>4. k > m /\ history'[k].from = v /\ history'[k].kind = "part" /\ history'[k].about = d
      BY <1>2, <1>3, <2>2, <3>2, <3>3
    <3>5. QED
      BY <3>3, <3>4 DEF HasLeft
  <2>3. CASE d # c
    BY <1>7, <1>8, <2>1, <2>3
  <2>4. QED
    BY <2>2, <2>3
<1>15. ForMembers
  BY <1>2, <1>3, <1>4 DEF ForMembers
<1>16. QueuedIsReady'
  BY <1>1, <1>3, <1>6, <1>8, <1>11, ReadyKept
<1>17. ListsAreSets'
  BY <1>7, <1>11 DEF ListsAreSets
<1>18. TypeOK'
  BY <1>1, <1>3, <1>5, <1>6, <1>7, <1>10, <1>11, <1>12, StillNumbered DEF TypeOK
<1>19. QED
  BY <1>1, <1>3, <1>5, <1>6, <1>7, <1>9, <1>12, <1>13, <1>14, <1>15, <1>16, <1>17, <1>18
     DEF Kept, Sources

\* Both ways to part.
LEMMA PartKeeps ==
  ASSUME Inv, NEW u \in Users, NEW c \in Channels, Part(u, c)
  PROVE  Kept
BY PartKeepsOthers, PartAloneKeeps

\* A sequence taken apart, and one put together.
LEMMA HeadAndTail ==
  ASSUME NEW T, NEW s \in Seq(T), Len(s) = 4
  PROVE  /\ Head(s) = s[1] /\ s[1] \in T
         /\ Tail(s) \in Seq(T) /\ Len(Tail(s)) = 3
         /\ \A i \in 1 .. 3 : Tail(s)[i] = s[i + 1]
<1>1. s # << >>
  OBVIOUS
<1>2. /\ Tail(s) \in Seq(T) /\ Len(Tail(s)) = Len(s) - 1
      /\ \A i \in 1 .. Len(Tail(s)) : Tail(s)[i] = s[i + 1]
  BY <1>1, HeadTailProperties
<1>3. Len(Tail(s)) = 3
  BY <1>2
<1>4. Head(s) = s[1] /\ s[1] \in T
  BY <1>1
<1>5. QED
  BY <1>2, <1>3, <1>4

\* One item and three make four.
LEMMA OneAndThree ==
  ASSUME NEW T, NEW one \in Seq(T), Len(one) = 1, NEW rest \in Seq(T), Len(rest) = 3
  PROVE  /\ one \o rest \in Seq(T) /\ Len(one \o rest) = 4 /\ (one \o rest)[1] = one[1]
         /\ \A i \in 2 .. 4 : (one \o rest)[i] = rest[i - 1]
<1>1. /\ one \o rest \in Seq(T) /\ Len(one \o rest) = Len(one) + Len(rest)
      /\ \A i \in 1 .. Len(one) + Len(rest) :
           (one \o rest)[i] = IF i <= Len(one) THEN one[i] ELSE rest[i - Len(one)]
  BY ConcatProperties
<1> DEFINE s == one \o rest
<1> HIDE DEF s
<1>2. \A i \in 1 .. 4 : s[i] = IF i <= 1 THEN one[i] ELSE rest[i - 1]
  BY <1>1 DEF s
<1>3. 1 \in 1 .. 4 /\ 1 <= 1
  OBVIOUS
<1>4. \A i \in 2 .. 4 : i \in 1 .. 4 /\ ~(i <= 1)
  OBVIOUS
<1>5. s[1] = one[1] /\ \A i \in 2 .. 4 : s[i] = rest[i - 1]
  BY <1>2, <1>3, <1>4
<1>6. QED
  BY <1>1, <1>5 DEF s

\* The news of a join and the three answers.
LEMMA JoinMessages ==
  ASSUME TypeOK, NEW u \in Users, NEW c \in Channels, Join(u, c)
  PROVE  /\ Recorded /\ history' \in Seq(Messages) /\ Len(history') <= MaxMessages
         /\ NewFor(<<Head(NewIds)>>, c) /\ NewFor(Tail(NewIds), u)
         /\ \A m \in Ids' \ Ids :
              \/ /\ history'[m].via = c /\ history'[m].kind = "join"
                 /\ history'[m].audience = Members(c) \cup {u}
                 /\ m \in ToSet(<<Head(NewIds)>>)
              \/ history'[m].via = u /\ history'[m].kind = "answer"
<1> DEFINE first == News(u, "join", c, Members(c) \cup {u})
           rest == [i \in 1 .. 3 |-> AnswerTo(u)]
           ms == <<first>> \o rest
<1>1. /\ first \in Messages /\ first.kind = "join" /\ first.via = c
      /\ first.audience = Members(c) \cup {u}
  <2> DEFINE audience == Members(c) \cup {u}
  <2>1. c \in Sources /\ c \in Users \cup Channels /\ audience \in SUBSET Users
    BY Names DEF Members
  <2>2. first = Entry(u, "join", c, c, audience)
    BY DEF News
  <2> HIDE DEF audience, first
  <2>3. first \in Messages /\ first.kind = "join" /\ first.via = c /\ first.audience = audience
    BY <2>1, <2>2, EntryIsMessage
  <2>4. QED
    BY <2>3 DEF audience
<1>2. AnswerTo(u) \in Messages /\ AnswerTo(u).kind = "answer" /\ AnswerTo(u).via = u
  <2>1. u \in Sources /\ u \in Users \cup Channels /\ {u} \in SUBSET Users
    BY Names
  <2>2. AnswerTo(u) = Entry(u, "answer", u, u, {u})
    BY DEF AnswerTo, Join
  <2>3. QED
    BY <2>1, <2>2, EntryIsMessage
<1> HIDE DEF first
<1>3. /\ ms \in Seq(Messages) /\ Len(ms) = 4 /\ ms[1] = first
      /\ \A i \in 2 .. 4 : ms[i] = AnswerTo(u)
  <2>1. rest \in Seq(Messages) /\ Len(rest) = 3 /\ \A i \in 1 .. 3 : rest[i] = AnswerTo(u)
    BY <1>2
  <2> HIDE DEF rest
  <2> DEFINE one == <<first>>
  <2>2. one \in Seq(Messages) /\ Len(one) = 1 /\ one[1] = first
    BY <1>1
  <2>3. ms = one \o rest
    BY DEF rest
  <2> HIDE DEF ms, one
  <2>4. /\ ms \in Seq(Messages) /\ Len(ms) = 4 /\ ms[1] = one[1]
        /\ \A i \in 2 .. 4 : ms[i] = rest[i - 1]
    BY <2>1, <2>2, <2>3, OneAndThree
  <2>5. \A i \in 2 .. 4 : i - 1 \in 1 .. 3
    OBVIOUS
  <2>6. QED
    BY <2>1, <2>2, <2>4, <2>5
<1>4. Composes(ms)
  BY DEF Join, first
<1> HIDE DEF ms
<1>5. /\ history' \in Seq(Messages) /\ Len(history') <= MaxMessages
      /\ Recorded
      /\ Len(NewIds) = 4 /\ NewIds \in Seq(Ids') /\ NewIds \in Seq(Nat)
      /\ \A i \in 1 .. 4 : NewIds[i] \in Ids' \ Ids /\ history'[NewIds[i]] = ms[i]
      /\ \A m \in Ids' \ Ids : \E i \in 1 .. 4 : m = NewIds[i]
      /\ Rising(NewIds)
  BY <1>3, <1>4, Composed
<1>6. NewFor(<<Head(NewIds)>>, c)
  <2>1. Head(NewIds) = NewIds[1] /\ NewIds[1] \in Ids' /\ NewIds[1] \in Nat
    BY <1>5, HeadAndTail
  <2> DEFINE s == <<Head(NewIds)>>
  <2>2. s \in Seq(Ids') /\ s \in Seq(Nat) /\ DOMAIN s = {1} /\ s[1] = NewIds[1]
    BY <2>1
  <2> HIDE DEF s
  <2>3. Rising(s)
    BY <2>2 DEF Rising
  <2>4. \A m \in ToSet(s) : m = NewIds[1]
    BY <2>2 DEF ToSet
  <2>5. history'[NewIds[1]].via = c
    BY <1>1, <1>3, <1>5
  <2>6. NewFor(s, c)
    BY <1>5, <2>2, <2>3, <2>4, <2>5 DEF NewFor
  <2>7. QED
    BY <2>6 DEF s
<1>7. NewFor(Tail(NewIds), u)
  <2> DEFINE s == Tail(NewIds)
  <2>1. /\ s \in Seq(Ids') /\ s \in Seq(Nat) /\ Len(s) = 3 /\ DOMAIN s = 1 .. 3
        /\ \A i \in 1 .. 3 : s[i] = NewIds[i + 1]
    <3>1. s \in Seq(Ids') /\ Len(s) = 3 /\ \A i \in 1 .. 3 : s[i] = NewIds[i + 1]
      BY <1>5, HeadAndTail
    <3>2. s \in Seq(Nat)
      BY <1>5, HeadAndTail
    <3> HIDE DEF s
    <3>3. DOMAIN s = 1 .. 3
      BY <3>1
    <3>4. QED
      BY <3>1, <3>2, <3>3
  <2> HIDE DEF s
  <2>2. \A i \in 1 .. 3 : i + 1 \in 2 .. 4 /\ i + 1 \in 1 .. 4
    OBVIOUS
  <2>3. Rising(s)
    <3>1. DOMAIN NewIds = 1 .. 4
      BY <1>5
    <3>2. \A i, j \in 1 .. 4 : i < j => NewIds[i] < NewIds[j]
      BY <1>5, <3>1 DEF Rising
    <3>3. \A i, j \in 1 .. 3 : i < j => i + 1 < j + 1
      OBVIOUS
    <3>4. QED
      BY <2>1, <2>2, <3>2, <3>3 DEF Rising
  <2>4. \A m \in ToSet(s) : \E i \in 2 .. 4 : m = NewIds[i]
    BY <2>1, <2>2 DEF ToSet
  <2>5. \A i \in 2 .. 4 : NewIds[i] \in Ids' \ Ids /\ history'[NewIds[i]].via = u
    <3>1. \A i \in 2 .. 4 : i \in 1 .. 4
      OBVIOUS
    <3>2. QED
      BY <1>2, <1>3, <1>5, <3>1
  <2>6. NewFor(s, u)
    BY <2>1, <2>3, <2>4, <2>5 DEF NewFor
  <2>7. QED
    BY <2>6 DEF s
<1>8. ASSUME NEW m \in Ids' \ Ids
      PROVE  \/ /\ history'[m].via = c /\ history'[m].kind = "join"
                /\ history'[m].audience = Members(c) \cup {u}
                /\ m \in ToSet(<<Head(NewIds)>>)
             \/ history'[m].via = u /\ history'[m].kind = "answer"
  <2>1. PICK i \in 1 .. 4 : m = NewIds[i]
    BY <1>5
  <2>2. CASE i = 1
    <3>1. Head(NewIds) = m
      BY <1>5, <2>1, <2>2
    <3>2. m \in ToSet(<<m>>)
      <4>1. <<m>>[1] = m /\ 1 \in DOMAIN <<m>>
        OBVIOUS
      <4>2. QED
        BY <4>1, Zenon DEF ToSet
    <3>3. history'[m] = first
      BY <1>3, <1>5, <2>1, <2>2
    <3>4. m \in ToSet(<<Head(NewIds)>>)
      BY <3>1, <3>2, Zenon
    <3>5. QED
      BY <1>1, <3>3, <3>4
  <2>3. CASE i # 1
    <3>1. i \in 2 .. 4
      BY <2>3
    <3>2. history'[m] = AnswerTo(u)
      BY <1>3, <1>5, <2>1, <3>1
    <3>3. QED
      BY <1>2, <3>2
  <2>4. QED
    BY <2>2, <2>3
<1>9. QED
  BY <1>5, <1>6, <1>7, <1>8

\* A new member is there before the news of it is queued.
LEMMA JoinKeeps ==
  ASSUME Inv, NEW u \in Users, NEW c \in Channels, Join(u, c)
  PROVE  Kept
<1> DEFINE one == <<Head(NewIds)>>
           others == Tail(NewIds)
<1>1. TypeOK /\ QueuesRise /\ QueuedIsReady /\ ListsAreSets
  BY DEF Inv, OrderInv
<1>2. /\ Recorded /\ history' \in Seq(Messages) /\ Len(history') <= MaxMessages
      /\ NewFor(one, c) /\ NewFor(others, u)
      /\ \A m \in Ids' \ Ids :
           \/ /\ history'[m].via = c /\ history'[m].kind = "join"
              /\ history'[m].audience = Members(c) \cup {u}
              /\ m \in ToSet(one)
           \/ history'[m].via = u /\ history'[m].kind = "answer"
  BY <1>1, JoinMessages
<1>3. /\ phase[u] = "registered" /\ u \notin Members(c) /\ Joined(u, c)
      /\ ToChannel(c, one) /\ ToUser(u, others)
      /\ dropped' = dropped \cup ToChannelDrops(c, one) \cup ToUserDrops(u, others)
      /\ UNCHANGED <<phase, serverQueue, received>>
  BY DEF Join
<1> HIDE DEF one, others
<1>4. c \notin Users /\ c # "server" /\ u \notin Channels /\ u # "server"
  BY Names
<1>5. /\ \A d \in Channels : Grown(d)
      /\ channelQueue' \in [Channels -> Seq(Ids')]
      /\ \A d \in Channels : Len(channelQueue'[d]) <= ChannelQueueLen
      /\ readyChannels' \in Seq(Channels) /\ IsInjective(readyChannels')
      /\ ToChannelDrops(c, one) \subseteq Ids'
      /\ \A d \in Channels : \A m \in ToSet(channelQueue[d]) :
           m \in ToSet(channelQueue'[d]) \/ m \in ToChannelDrops(c, one)
      /\ \A m \in ToSet(one) : m \in ToSet(channelQueue'[c]) \/ m \in ToChannelDrops(c, one)
      /\ \A d \in Channels : channelQueue'[d] # << >> =>
           \/ Contains(readyChannels', d)
           \/ /\ channelQueue[d] # << >>
              /\ Contains(readyChannels, d) => Contains(readyChannels', d)
  BY <1>1, <1>2, <1>3, ToChannelGrows
<1>6. /\ \A v \in Users : Grown(v)
      /\ userQueue' \in [Users -> Seq(Ids')]
      /\ \A v \in Users : Len(userQueue'[v]) <= UserQueueLen
      /\ readyUsers' \in Seq(Users)
      /\ ToUserDrops(u, others) \subseteq Ids'
      /\ \A v \in Users : \A m \in ToSet(userQueue'[v]) :
           \/ Contains(readyUsers', v)
           \/ m \in ToSet(userQueue[v]) /\ (Contains(readyUsers, v) => Contains(readyUsers', v))
  BY <1>1, <1>2, <1>3, ToUserGrows
<1>7. /\ joined' \in [Users -> Seq(Channels)]
      /\ \A v \in Users : IsInjective(joined'[v])
      /\ \A v \in Users : v # u => joined'[v] = joined[v]
      /\ \A d \in Channels : \A v \in Users :
           v \in Members(d)' <=> v \in Members(d) \/ (v = u /\ d = c)
  <2>1. /\ joined'[u] = Append(joined[u], c)
        /\ \A v \in Users : v # u => joined'[v] = joined[v]
        /\ DOMAIN joined' = Users /\ joined' = [v \in Users |-> joined'[v]]
        /\ joined \in [Users -> Seq(Channels)] /\ \A v \in Users : IsInjective(joined[v])
    BY <1>1, <1>3 DEF Joined, TypeOK, ListsAreSets
  <2>2. ~Contains(joined[u], c)
    BY <1>3 DEF Members
  <2>3. joined'[u] = Listed(joined[u], c)
    BY <2>1, <2>2 DEF Listed
  <2>4. /\ joined'[u] \in Seq(Channels) /\ IsInjective(joined'[u])
        /\ \A d : Contains(joined'[u], d) <=> Contains(joined[u], d) \/ d = c
    BY <2>1, <2>3, ListedItems
  <2>5. joined' \in [Users -> Seq(Channels)]
    BY <2>1, <2>4
  <2>6. \A d : \A v : v \in Members(d)' <=> v \in Users /\ Contains(joined'[v], d)
    BY DEF Members
  <2>7. \A d : \A v : v \in Members(d) <=> v \in Users /\ Contains(joined[v], d)
    BY DEF Members
  <2>8. \A d \in Channels : \A v \in Users :
          v \in Members(d)' <=> v \in Members(d) \/ (v = u /\ d = c)
    BY <2>1, <2>4, <2>6, <2>7
  <2>9. QED
    BY <2>1, <2>4, <2>5, <2>8
<1>8. Grown("server") /\ serverQueue' \in Seq(Ids') /\ Len(serverQueue') <= ServerQueueLen
  BY <1>2, <1>3, ServerAlone
<1>9. Proper
  <2> SUFFICES ASSUME NEW m \in Ids' \ Ids
               PROVE  /\ \A v \in Users : history'[m].via = v => phase'[v] # "new"
                      /\ history'[m].via # "server"
                      /\ history'[m].kind = "answer" => history'[m].via \notin Channels
    BY DEF Proper
  <2>1. CASE history'[m].via = c /\ history'[m].kind = "join"
    BY <1>4, <2>1
  <2>2. CASE history'[m].via = u
    BY <1>3, <1>4, <2>2
  <2>3. QED
    BY <1>2, <2>1, <2>2
<1>10. Waiting
  <2>1. \A d \in Channels : \A v \in Members(d) : v \in Users
    BY DEF Members
  <2>2. QED
    BY <1>3, <1>5, <1>7, <2>1 DEF Waiting
<1>11. ForMembers
  <2>1. \A m \in Ids' \ Ids : \A d \in Channels : history'[m].via = d =>
          d = c /\ m \in ToSet(one) /\ history'[m].audience = Members(c) \cup {u}
    BY <1>2, <1>4
  <2>2. Members(c) \cup {u} \subseteq Members(c)'
    BY <1>7 DEF Members
  <2>3. QED
    BY <1>3, <1>5, <2>1, <2>2 DEF ForMembers
<1>12. QueuedIsReady'
  BY <1>1, <1>2, <1>5, <1>6, ReadyKept
<1>13. ListsAreSets'
  BY <1>5, <1>7 DEF ListsAreSets
<1>14. TypeOK'
  BY <1>1, <1>2, <1>3, <1>5, <1>6, <1>7, <1>8, StillNumbered DEF TypeOK
<1>15. QED
  BY <1>2, <1>3, <1>5, <1>6, <1>7, <1>8, <1>9, <1>10, <1>11, <1>12, <1>13, <1>14
     DEF Kept, Sources

\* A user that leaves: the channels that are told, and the messages for them.
ToldBy(u) == Only(joined[u], Channels \ AloneIn(u))
QuitsFor(told, c) == ItemsAt(NewIds, {i \in DOMAIN told : told[i] = c})

\* The channels it was alone in go, the others are told.
LEMMA ToldChannels ==
  ASSUME TypeOK, ListsAreSets, NEW u \in Users
  PROVE  /\ ToldBy(u) \in Seq(Channels) /\ IsInjective(ToldBy(u))
         /\ AloneIn(u) \subseteq Channels
         /\ \A c \in Channels : c \in AloneIn(u) <=> Members(c) = {u}
         /\ \A c \in Channels : c \in ToSet(ToldBy(u)) <=> u \in Members(c) /\ Members(c) # {u}
<1> DEFINE S == Channels \ AloneIn(u)
<1>1. joined[u] \in Seq(Channels) /\ IsInjective(joined[u])
  BY DEF TypeOK, ListsAreSets
<1>2. /\ ToSet(joined[u]) \subseteq Channels
      /\ \A c : c \in ToSet(joined[u]) <=> u \in Members(c)
  BY <1>1, ItemsOf DEF Members
<1>3. /\ AloneIn(u) \subseteq Channels
      /\ \A c \in Channels : c \in AloneIn(u) <=> Members(c) = {u}
  BY <1>2 DEF AloneIn
<1>4. ToldBy(u) = Only(joined[u], S)
  BY DEF ToldBy
<1>5. \A c \in Channels : c \in S <=> Members(c) # {u}
  BY <1>3
<1> HIDE DEF S
<1>6. /\ ToldBy(u) \in Seq(Channels) /\ ToSet(ToldBy(u)) = ToSet(joined[u]) \cap S
      /\ IsInjective(ToldBy(u))
  BY <1>1, <1>4, OnlyThose
<1>7. QED
  BY <1>2, <1>3, <1>5, <1>6

\* There is one message for every channel that is told.
LEMMA QuitMessages ==
  ASSUME TypeOK, ListsAreSets, NEW u \in Users, Leave(u)
  PROVE  /\ Recorded /\ history' \in Seq(Messages) /\ Len(history') <= MaxMessages
         /\ \A c \in Channels : NewFor(QuitsFor(ToldBy(u), c), c)
         /\ \A m \in Ids' \ Ids : \E c \in Channels :
              /\ history'[m].via = c /\ history'[m].kind = "quit"
              /\ history'[m].audience = Members(c) \ {u}
              /\ c \in ToSet(ToldBy(u)) /\ m \in ToSet(QuitsFor(ToldBy(u), c))
<1> DEFINE told == ToldBy(u)
           Quit(c) == News(u, "quit", c, Members(c) \ {u})
           ms == [i \in DOMAIN told |-> Quit(told[i])]
<1>1. told \in Seq(Channels)
  BY ToldChannels
<1>2. Composes(ms)
  BY DEF Leave, ToldBy
<1> HIDE DEF told
<1>3. ASSUME NEW c \in Channels
      PROVE  /\ Quit(c) \in Messages /\ Quit(c).kind = "quit" /\ Quit(c).via = c
             /\ Quit(c).audience = Members(c) \ {u}
  <2> DEFINE audience == Members(c) \ {u}
  <2>1. c \in Sources /\ c \in Users \cup Channels /\ audience \in SUBSET Users
    BY Names DEF Members
  <2>2. Quit(c) = Entry(u, "quit", c, c, audience)
    BY DEF News
  <2> HIDE DEF audience, Quit
  <2>3. /\ Quit(c) \in Messages /\ Quit(c).kind = "quit" /\ Quit(c).via = c
        /\ Quit(c).audience = audience
    BY <2>1, <2>2, EntryIsMessage
  <2>4. QED
    BY <2>3 DEF audience
<1> HIDE DEF Quit
<1>4. /\ Len(told) \in Nat /\ DOMAIN told = 1 .. Len(told)
      /\ \A i \in 1 .. Len(told) : told[i] \in Channels
  BY <1>1
<1>5. /\ ms \in Seq(Messages) /\ Len(ms) = Len(told)
      /\ \A i \in 1 .. Len(told) : ms[i] = Quit(told[i])
  BY <1>3, <1>4
<1> HIDE DEF ms
<1>6. /\ history' \in Seq(Messages) /\ Len(history') <= MaxMessages
      /\ Recorded
      /\ Len(NewIds) = Len(told) /\ NewIds \in Seq(Ids') /\ NewIds \in Seq(Nat)
      /\ \A i \in 1 .. Len(told) : NewIds[i] \in Ids' \ Ids /\ history'[NewIds[i]] = ms[i]
      /\ \A m \in Ids' \ Ids : \E i \in 1 .. Len(told) : m = NewIds[i]
      /\ Rising(NewIds)
  BY <1>2, <1>5, Composed
<1>7. ASSUME NEW c \in Channels
      PROVE  /\ NewFor(QuitsFor(told, c), c)
             /\ \A i \in 1 .. Len(told) : told[i] = c => NewIds[i] \in ToSet(QuitsFor(told, c))
  <2> DEFINE P == {i \in DOMAIN told : told[i] = c}
             s == QuitsFor(told, c)
  <2>1. P \in SUBSET (1 .. Len(NewIds)) /\ s = ItemsAt(NewIds, P)
    BY <1>4, <1>6 DEF QuitsFor
  <2>2. \A i : i \in P <=> i \in 1 .. Len(told) /\ told[i] = c
    BY <1>4
  <2> HIDE DEF P, s
  <2>3. s \in Seq(Nat)
    BY <1>6, <2>1, ItemsAtPlaces
  <2>4. s \in Seq(Ids') /\ \E d \in [1 .. Len(s) -> P] :
                             /\ \A i, j \in 1 .. Len(s) : i < j => d[i] < d[j]
                             /\ \A i \in 1 .. Len(s) : s[i] = NewIds[d[i]]
                             /\ \A p \in P : \E i \in 1 .. Len(s) : d[i] = p
    <3> DEFINE q == NewIds
               T == Ids'
    <3>1. q \in Seq(T) /\ P \in SUBSET (1 .. Len(q)) /\ s = ItemsAt(q, P)
      BY <1>6, <2>1
    <3> HIDE DEF q, T
    <3>2. s \in Seq(T) /\ \E d \in [1 .. Len(s) -> P] :
                            /\ \A i, j \in 1 .. Len(s) : i < j => d[i] < d[j]
                            /\ \A i \in 1 .. Len(s) : s[i] = q[d[i]]
                            /\ \A p \in P : \E i \in 1 .. Len(s) : d[i] = p
      BY <3>1, ItemsAtPlaces
    <3>3. QED
      BY <3>2 DEF q, T
  <2>5. PICK d \in [1 .. Len(s) -> P] :
                             /\ \A i, j \in 1 .. Len(s) : i < j => d[i] < d[j]
                             /\ \A i \in 1 .. Len(s) : s[i] = NewIds[d[i]]
                             /\ \A p \in P : \E i \in 1 .. Len(s) : d[i] = p
    BY <2>4
  <2>6. DOMAIN s = 1 .. Len(s) /\ DOMAIN NewIds = 1 .. Len(told)
    BY <1>6, <2>4, ItemsOf
  <2>7. \A i \in 1 .. Len(s) : d[i] \in P /\ d[i] \in 1 .. Len(told) /\ told[d[i]] = c
    BY <2>2, <2>5
  <2>8. Rising(s)
    BY <1>6, <2>5, <2>6, <2>7 DEF Rising
  <2>9. \A m \in ToSet(s) : m \in Ids' \ Ids /\ history'[m].via = c
    <3> SUFFICES ASSUME NEW m \in ToSet(s) PROVE m \in Ids' \ Ids /\ history'[m].via = c
      OBVIOUS
    <3>1. PICK i \in 1 .. Len(s) : s[i] = m
      BY <2>6 DEF ToSet
    <3>2. m = NewIds[d[i]]
      BY <2>5, <3>1
    <3>3. history'[m] = Quit(c) /\ m \in Ids' \ Ids
      BY <1>5, <1>6, <2>7, <3>2
    <3>4. QED
      BY <1>3, <3>3
  <2>10. ASSUME NEW p \in 1 .. Len(told), told[p] = c
         PROVE  NewIds[p] \in ToSet(s)
    <3>1. PICK i \in 1 .. Len(s) : d[i] = p
      BY <2>2, <2>5, <2>10
    <3>2. s[i] = NewIds[p] /\ i \in DOMAIN s
      BY <2>5, <2>6, <3>1
    <3>3. QED
      BY <3>2 DEF ToSet
  <2>11. QED
    BY <2>3, <2>4, <2>8, <2>9, <2>10 DEF NewFor, s
<1>8. ASSUME NEW m \in Ids' \ Ids
      PROVE  \E c \in Channels :
               /\ history'[m].via = c /\ history'[m].kind = "quit"
               /\ history'[m].audience = Members(c) \ {u}
               /\ c \in ToSet(told) /\ m \in ToSet(QuitsFor(told, c))
  <2>1. PICK i \in 1 .. Len(told) : m = NewIds[i]
    BY <1>6
  <2>2. told[i] \in Channels /\ history'[m] = Quit(told[i]) /\ told[i] \in ToSet(told)
    BY <1>1, <1>4, <1>5, <1>6, <2>1, ItemsOf
  <2>3. m \in ToSet(QuitsFor(told, told[i]))
    BY <1>7, <2>1, <2>2
  <2>4. QED
    BY <1>3, <2>2, <2>3
<1>9. QED
  BY <1>6, <1>7, <1>8 DEF told

\* A queue that nothing is put into keeps what it has.
LEMMA EnqueuedNothing ==
  ASSUME NEW T, NEW q \in Seq(T), NEW size \in Nat, Len(q) <= size
  PROVE  Enqueued(q, size, << >>) = q
<1> DEFINE all == q \o << >>
<1>1. all = q
  BY ConcatEmptySeq
<1> HIDE DEF all
<1>2. Len(all) \in Nat /\ Len(all) <= size
  BY <1>1
<1>3. Max({0, Len(all) - size}) = 0
  <2>1. Len(all) - size \in Int /\ 0 \in Int
    BY <1>2
  <2>2. Max({0, Len(all) - size}) = IF 0 >= Len(all) - size THEN 0 ELSE Len(all) - size
    BY <2>1, MaxOfTwo
  <2>3. QED
    BY <1>2, <2>1, <2>2
<1>4. Enqueued(q, size, << >>) = SubSeq(all, 0 + 1, Len(all))
  BY <1>3 DEF Enqueued, all
<1>5. SubSeq(q, 1, Len(q)) = q
  BY SubSeqFull
<1>6. QED
  BY <1>1, <1>4, <1>5

\* Two lists that share nothing make one.
LEMMA ConcatLists ==
  ASSUME NEW T, NEW a \in Seq(T), NEW b \in Seq(T), ToSet(a) \cap ToSet(b) = {},
         IsInjective(a), IsInjective(b)
  PROVE  /\ a \o b \in Seq(T) /\ IsInjective(a \o b)
         /\ \A x : x \in ToSet(a \o b) <=> x \in ToSet(a) \/ x \in ToSet(b)
<1> DEFINE s == a \o b
<1>1. /\ Len(a) \in Nat /\ Len(b) \in Nat /\ s \in Seq(T) /\ Len(s) = Len(a) + Len(b)
      /\ DOMAIN a = 1 .. Len(a) /\ DOMAIN b = 1 .. Len(b) /\ DOMAIN s = 1 .. Len(a) + Len(b)
      /\ \A i \in 1 .. Len(a) + Len(b) : s[i] = IF i <= Len(a) THEN a[i] ELSE b[i - Len(a)]
  OBVIOUS
<1> HIDE DEF s
<1>2. /\ \A i \in 1 .. Len(a) : a[i] \in ToSet(a)
      /\ \A i \in 1 .. Len(b) : b[i] \in ToSet(b)
  BY ItemsOf
<1>3. ASSUME NEW i \in 1 .. Len(a) + Len(b)
      PROVE  \/ i \in 1 .. Len(a) /\ s[i] = a[i] /\ s[i] \in ToSet(a)
             \/ i - Len(a) \in 1 .. Len(b) /\ s[i] = b[i - Len(a)] /\ s[i] \in ToSet(b)
  <2>1. CASE i <= Len(a)
    <3>1. i \in 1 .. Len(a) /\ s[i] = a[i]
      BY <1>1, <2>1
    <3>2. QED
      BY <1>2, <3>1
  <2>2. CASE ~(i <= Len(a))
    <3>1. i - Len(a) \in 1 .. Len(b) /\ s[i] = b[i - Len(a)]
      BY <1>1, <2>2
    <3>2. QED
      BY <1>2, <3>1
  <2>3. QED
    BY <2>1, <2>2
<1>4. IsInjective(s)
  <2> SUFFICES ASSUME NEW i \in 1 .. Len(a) + Len(b), NEW j \in 1 .. Len(a) + Len(b), s[i] = s[j]
               PROVE  i = j
    BY <1>1 DEF IsInjective
  <2>1. CASE i \in 1 .. Len(a) /\ j \in 1 .. Len(a) /\ s[i] = a[i] /\ s[j] = a[j]
    BY <1>1, <2>1 DEF IsInjective
  <2>2. CASE /\ i - Len(a) \in 1 .. Len(b) /\ s[i] = b[i - Len(a)]
             /\ j - Len(a) \in 1 .. Len(b) /\ s[j] = b[j - Len(a)]
    <3>1. i - Len(a) = j - Len(a)
      BY <1>1, <2>2 DEF IsInjective
    <3>2. QED
      BY <1>1, <3>1
  <2>3. QED
    BY <1>3, <2>1, <2>2
<1>5. QED
  BY <1>1, <1>4, ConcatItems DEF s

\* The channels once a user has left.
LEMMA LeaveChannels ==
  ASSUME Inv, NEW u \in Users, Leave(u)
  PROVE  /\ \A d \in Channels : Grown(d)
         /\ channelQueue' \in [Channels -> Seq(Ids')]
         /\ \A d \in Channels : Len(channelQueue'[d]) <= ChannelQueueLen
         /\ dropped' \subseteq Ids' /\ dropped \subseteq dropped'
         /\ \A d \in Channels : \A v \in Members(d) : \A m \in ToSet(channelQueue[d]) :
              v # u => m \in ToSet(channelQueue'[d]) \/ m \in dropped'
         /\ \A d \in ToSet(ToldBy(u)) : \A m \in ToSet(QuitsFor(ToldBy(u), d)) :
              m \in ToSet(channelQueue'[d]) \/ m \in dropped'
         /\ readyChannels' \in Seq(Channels) /\ IsInjective(readyChannels')
         /\ \A d \in Channels : channelQueue'[d] # << >> =>
              \/ Contains(readyChannels', d)
              \/ /\ channelQueue[d] # << >>
                 /\ Contains(readyChannels, d) => Contains(readyChannels', d)
<1> DEFINE told == ToldBy(u)
           alone == AloneIn(u)
           For(c) == QuitsFor(told, c)
           Drops(c) == ToChannelDrops(c, For(c))
<1>1. TypeOK /\ QueuesRise /\ ListsAreSets
  BY DEF Inv, OrderInv
<1>2. /\ Recorded /\ \A c \in Channels : NewFor(For(c), c)
  BY <1>1, QuitMessages
<1>3. /\ channelQueue' = [c \in Channels |->
           IF c \in alone THEN << >> ELSE Enqueued(channelQueue[c], ChannelQueueLen, For(c))]
      /\ readyChannels' =
           Only(readyChannels \o Only(told, Channels \ ToSet(readyChannels)), Channels \ alone)
      /\ dropped' = dropped \cup UNION {Drops(c) : c \in ToSet(told)}
  BY DEF Leave, ToldBy, QuitsFor
<1>4. /\ told \in Seq(Channels) /\ IsInjective(told) /\ alone \subseteq Channels
      /\ \A c \in Channels : c \in alone <=> Members(c) = {u}
      /\ \A c \in Channels : c \in ToSet(told) <=> u \in Members(c) /\ Members(c) # {u}
  BY <1>1, ToldChannels
<1>5. \A c \in Channels : c \notin ToSet(told) => For(c) = << >>
  <2> SUFFICES ASSUME NEW c \in Channels, c \notin ToSet(told)
               PROVE  For(c) = << >>
    OBVIOUS
  <2> DEFINE P == {i \in DOMAIN told : told[i] = c}
  <2>1. P = {}
    BY DEF ToSet
  <2>2. For(c) = ItemsAt(NewIds, P)
    BY DEF QuitsFor
  <2> HIDE DEF P
  <2>3. Cardinality(P) = 0
    BY <2>1, FS_EmptySet
  <2>4. For(c) = [i \in 1 .. 0 |-> NewIds[Ascending(P)[i]]]
    BY <2>2, <2>3 DEF ItemsAt
  <2> DEFINE f == [i \in 1 .. 0 |-> NewIds[Ascending(P)[i]]]
  <2>5. f \in Seq(Nat) /\ Len(f) = 0
    OBVIOUS
  <2>6. For(c) = f
    BY <2>4
  <2> HIDE DEF f
  <2>7. f = << >>
    BY <2>5, EmptySeq
  <2>8. QED
    BY <2>6, <2>7
<1> HIDE DEF told, alone, For
<1>6. ASSUME NEW c \in Channels
      PROVE  LET e == Enqueued(channelQueue[c], ChannelQueueLen, For(c))
             IN /\ e \in Seq(Ids') /\ Len(e) <= ChannelQueueLen
                /\ Drops(c) \subseteq Ids'
                /\ ToSet(channelQueue[c]) \cup ToSet(For(c)) \subseteq ToSet(e) \cup Drops(c)
  <2> DEFINE q == channelQueue[c]
             ids == For(c)
  <2>1. q \in Seq(Ids') /\ ids \in Seq(Ids') /\ ChannelQueueLen \in Nat
    <3>1. q \in Seq(Ids)
      BY <1>1 DEF TypeOK
    <3>2. QED
      BY <1>1, <1>2, <3>1, StillNumbered, SizesAssumption DEF NewFor
  <2>2. Drops(c) = Overwritten(q, ChannelQueueLen, ids)
    BY DEF ToChannelDrops
  <2> HIDE DEF q, ids, Drops
  <2> DEFINE e == Enqueued(q, ChannelQueueLen, ids)
  <2>3. /\ e \in Seq(Ids') /\ Len(e) <= ChannelQueueLen
        /\ ToSet(q) \cup ToSet(ids) \subseteq ToSet(e) \cup Drops(c)
        /\ Drops(c) \subseteq ToSet(q) \cup ToSet(ids)
    BY <2>1, <2>2, EnqueuedItems
  <2>4. ToSet(q) \subseteq Ids' /\ ToSet(ids) \subseteq Ids'
    BY <2>1, ItemsOf
  <2>5. Drops(c) \subseteq Ids'
    BY <2>3, <2>4
  <2>6. QED
    BY <2>3, <2>5 DEF q, ids
<1>7. \A c \in Channels : c \notin ToSet(told) =>
        Enqueued(channelQueue[c], ChannelQueueLen, For(c)) = channelQueue[c]
  BY <1>1, <1>5, EnqueuedNothing, SizesAssumption DEF TypeOK
<1>8. \A c \in Channels : channelQueue'[c] =
        IF c \in alone THEN << >> ELSE Enqueued(channelQueue[c], ChannelQueueLen, For(c))
  BY <1>3
<1>9. ASSUME NEW c \in Channels
      PROVE  /\ Grown(c) /\ channelQueue'[c] \in Seq(Ids') /\ Len(channelQueue'[c]) <= ChannelQueueLen
  <2>1. c \in Sources /\ Queue(c) = channelQueue[c] /\ Queue(c)' = channelQueue'[c]
        /\ ChannelQueueLen \in Nat
    BY Names, QueueIs, SizesAssumption
  <2>2. CASE c \in alone
    <3>1. Queue(c)' = << >> /\ Len(<< >>) = 0
      BY <1>8, <2>1, <2>2
    <3>2. QED
      BY <1>1, <1>2, <2>1, <3>1, QueueKept
  <2>3. CASE c \notin alone
    <3>1. Queue(c)' = Enqueued(Queue(c), ChannelQueueLen, For(c)) /\ NewFor(For(c), c)
      BY <1>2, <1>8, <2>1, <2>3
    <3>2. QED
      BY <1>1, <1>2, <2>1, <3>1, QueueGrown
  <2>4. QED
    BY <2>2, <2>3
<1>10. channelQueue' \in [Channels -> Seq(Ids')]
  <2>1. DOMAIN channelQueue' = Channels /\ channelQueue' = [c \in Channels |-> channelQueue'[c]]
    BY <1>3
  <2>2. QED
    BY <1>9, <2>1
<1>11. ToSet(told) \subseteq Channels
  BY <1>4, ItemsOf
<1>12. dropped \subseteq dropped' /\ \A c \in ToSet(told) : Drops(c) \subseteq dropped'
  BY <1>3
<1>13. dropped' \subseteq Ids'
  <2>1. dropped \subseteq Ids'
    BY <1>1, <1>2, StillNumbered
  <2>2. \A c \in ToSet(told) : Drops(c) \subseteq Ids'
    BY <1>6, <1>11
  <2> HIDE DEF Drops
  <2>3. QED
    BY <1>3, <2>1, <2>2
<1>14. ASSUME NEW c \in Channels, c \notin alone,
              NEW m \in ToSet(channelQueue[c]) \cup ToSet(For(c)),
              c \in ToSet(told) \/ m \in ToSet(channelQueue[c])
       PROVE  m \in ToSet(channelQueue'[c]) \/ m \in dropped'
  <2>1. CASE c \in ToSet(told)
    BY <1>6, <1>8, <1>12, <1>14, <2>1
  <2>2. CASE c \notin ToSet(told)
    BY <1>7, <1>8, <1>14, <2>2
  <2>3. QED
    BY <2>1, <2>2
<1>15. \A d \in Channels : \A v \in Members(d) : \A m \in ToSet(channelQueue[d]) :
         v # u => m \in ToSet(channelQueue'[d]) \/ m \in dropped'
  <2>1. \A d \in Channels : \A v \in Members(d) : v # u => d \notin alone
    BY <1>4
  <2>2. QED
    BY <1>14, <2>1
<1>16. \A d \in ToSet(told) : \A m \in ToSet(For(d)) :
         m \in ToSet(channelQueue'[d]) \/ m \in dropped'
  <2>1. \A d \in ToSet(told) : d \in Channels /\ d \notin alone
    BY <1>4, <1>11
  <2>2. QED
    BY <1>14, <2>1
<1>17. /\ readyChannels' \in Seq(Channels) /\ IsInjective(readyChannels')
       /\ \A d \in Channels : Contains(readyChannels', d) <=>
            d \notin alone /\ (Contains(readyChannels, d) \/ d \in ToSet(told))
  <2> DEFINE S == Channels \ ToSet(readyChannels)
             added == Only(told, S)
             R == Channels \ alone
             both == readyChannels \o added
  <2>1. readyChannels \in Seq(Channels) /\ IsInjective(readyChannels)
    BY <1>1 DEF TypeOK, ListsAreSets
  <2>2. readyChannels' = Only(both, R)
    BY <1>3
  <2>3. \A d \in Channels : (d \in S <=> ~Contains(readyChannels, d)) /\ (d \in R <=> d \notin alone)
    BY <2>1, ItemsOf
  <2>4. /\ ToSet(readyChannels) \cap S = {}
        /\ \A d : d \in ToSet(readyChannels) <=> Contains(readyChannels, d)
    BY <2>1, ItemsOf
  <2> HIDE DEF S, R
  <2>5. added \in Seq(Channels) /\ ToSet(added) = ToSet(told) \cap S /\ IsInjective(added)
    BY <1>4, OnlyThose
  <2> HIDE DEF added
  <2>6. /\ both \in Seq(Channels) /\ IsInjective(both)
        /\ \A x : x \in ToSet(both) <=> x \in ToSet(readyChannels) \/ x \in ToSet(added)
    <3>1. ToSet(readyChannels) \cap ToSet(added) = {}
      BY <2>4, <2>5
    <3>2. QED
      BY <2>1, <2>5, <3>1, ConcatLists
  <2> HIDE DEF both
  <2>7. /\ readyChannels' \in Seq(Channels) /\ IsInjective(readyChannels')
        /\ ToSet(readyChannels') = ToSet(both) \cap R
    BY <2>2, <2>6, OnlyThose
  <2>8. \A d : Contains(readyChannels', d) <=> d \in ToSet(readyChannels')
    BY <2>7, ItemsOf
  <2>9. QED
    BY <2>3, <2>4, <2>5, <2>6, <2>7, <2>8
<1>18. \A d \in Channels : channelQueue'[d] # << >> =>
              \/ Contains(readyChannels', d)
              \/ /\ channelQueue[d] # << >>
                 /\ Contains(readyChannels, d) => Contains(readyChannels', d)
  BY <1>7, <1>8, <1>17
<1>19. QED
  BY <1>9, <1>10, <1>12, <1>13, <1>15, <1>16, <1>17, <1>18 DEF told, For

\* A user that leaves misses what waits for it; what waits for others stays.
LEMMA LeaveKeeps ==
  ASSUME Inv, NEW u \in Users, Leave(u)
  PROVE  Kept
<1> DEFINE told == ToldBy(u)
<1>1. TypeOK /\ QueuesRise /\ QueuedIsReady /\ ListsAreSets
  BY DEF Inv, OrderInv
<1>2. /\ Recorded /\ history' \in Seq(Messages) /\ Len(history') <= MaxMessages
      /\ \A m \in Ids' \ Ids : \E c \in Channels :
           /\ history'[m].via = c /\ history'[m].kind = "quit"
           /\ history'[m].audience = Members(c) \ {u}
           /\ c \in ToSet(told) /\ m \in ToSet(QuitsFor(told, c))
  BY <1>1, QuitMessages
<1>3. /\ \A d \in Channels : Grown(d)
      /\ channelQueue' \in [Channels -> Seq(Ids')]
      /\ \A d \in Channels : Len(channelQueue'[d]) <= ChannelQueueLen
      /\ dropped' \subseteq Ids' /\ dropped \subseteq dropped'
      /\ \A d \in Channels : \A v \in Members(d) : \A m \in ToSet(channelQueue[d]) :
           v # u => m \in ToSet(channelQueue'[d]) \/ m \in dropped'
      /\ \A d \in ToSet(told) : \A m \in ToSet(QuitsFor(told, d)) :
           m \in ToSet(channelQueue'[d]) \/ m \in dropped'
      /\ readyChannels' \in Seq(Channels) /\ IsInjective(readyChannels')
      /\ \A d \in Channels : channelQueue'[d] # << >> =>
           \/ Contains(readyChannels', d)
           \/ /\ channelQueue[d] # << >>
              /\ Contains(readyChannels, d) => Contains(readyChannels', d)
  BY LeaveChannels
<1> HIDE DEF told
<1>4. /\ phase' = [phase EXCEPT ![u] = "gone"] /\ joined' = [joined EXCEPT ![u] = << >>]
      /\ userQueue' = [userQueue EXCEPT ![u] = << >>] /\ readyUsers' = Unlisted(readyUsers, u)
      /\ UNCHANGED <<serverQueue, received>>
  BY DEF Leave
<1>5. /\ phase' \in [Users -> {"new", "registered", "gone"}]
      /\ phase'[u] = "gone" /\ \A v \in Users : v # u => phase'[v] = phase[v]
  BY <1>1, <1>4 DEF TypeOK
<1>6. /\ joined' \in [Users -> Seq(Channels)] /\ joined'[u] = << >>
      /\ \A v \in Users : v # u => joined'[v] = joined[v]
      /\ \A v \in Users : IsInjective(joined'[v])
  <2>1. IsInjective(<< >>)
    BY DEF IsInjective
  <2>2. << >> \in Seq(Channels)
    OBVIOUS
  <2>3. /\ joined' \in [Users -> Seq(Channels)] /\ joined'[u] = << >>
        /\ \A v \in Users : v # u => joined'[v] = joined[v]
    BY <1>1, <1>4, <2>2 DEF TypeOK
  <2>4. QED
    BY <1>1, <2>1, <2>3 DEF ListsAreSets
<1>7. /\ userQueue'[u] = << >> /\ \A v \in Users : v # u => userQueue'[v] = userQueue[v]
      /\ DOMAIN userQueue' = Users /\ userQueue' = [v \in Users |-> userQueue'[v]]
  BY <1>1, <1>4 DEF TypeOK
<1>8. \A v \in Users : Grown(v) /\ userQueue'[v] \in Seq(Ids')
                       /\ ToSet(userQueue'[v]) \subseteq ToSet(userQueue[v])
  <2>1. \A v \in Users : /\ v \in Sources /\ Queue(v) = userQueue[v] /\ Queue(v)' = userQueue'[v]
                         /\ Queue(v)' = Queue(v) \/ Queue(v)' = << >>
    BY <1>7, Names, QueueIs
  <2>2. QED
    BY <1>1, <1>2, <2>1, QueueKept
<1>9. /\ userQueue' \in [Users -> Seq(Ids')]
      /\ \A v \in Users : Len(userQueue'[v]) <= UserQueueLen
  <2>1. userQueue' \in [Users -> Seq(Ids')]
    BY <1>7, <1>8
  <2>2. Len(userQueue'[u]) <= UserQueueLen
    BY <1>7, SizesAssumption
  <2>3. \A v \in Users : v # u => Len(userQueue'[v]) <= UserQueueLen
    BY <1>1, <1>7 DEF TypeOK
  <2>4. QED
    BY <2>1, <2>2, <2>3
<1>10. /\ readyUsers' \in Seq(Users)
       /\ \A v : v # u => (Contains(readyUsers, v) => Contains(readyUsers', v))
  <2>1. readyUsers \in Seq(Users)
    BY <1>1 DEF TypeOK
  <2>2. QED
    BY <1>4, <2>1, UnlistedItems
<1>11. Grown("server") /\ serverQueue' \in Seq(Ids') /\ Len(serverQueue') <= ServerQueueLen
  BY <1>2, <1>4, ServerAlone
<1>12. \A d : \A v : v # u /\ v \in Members(d) => v \in Members(d)'
  BY <1>6 DEF Members
<1>13. Proper
  <2> SUFFICES ASSUME NEW m \in Ids' \ Ids
               PROVE  /\ history'[m].via \notin Users /\ history'[m].via # "server"
                      /\ history'[m].kind # "answer"
    BY DEF Proper
  <2>1. PICK c \in Channels : history'[m].via = c /\ history'[m].kind = "quit"
    BY <1>2
  <2>2. QED
    BY <2>1, Names
<1>14. Waiting
  <2> SUFFICES ASSUME NEW d \in Channels, NEW m \in ToSet(channelQueue[d]), NEW v \in Members(d)
               PROVE  \/ (m \in ToSet(channelQueue'[d]) \/ m \in dropped') /\ v \in Members(d)'
                      \/ HasLeft(v, m, d)'
    BY DEF Waiting
  <2>1. CASE v = u
    BY <1>5, <2>1 DEF HasLeft
  <2>2. CASE v # u
    BY <1>3, <1>12, <2>2
  <2>3. QED
    BY <2>1, <2>2
<1>15. ForMembers
  <2>1. ASSUME NEW m \in Ids' \ Ids, NEW d \in Channels, history'[m].via = d
        PROVE  /\ m \in ToSet(channelQueue'[d]) \/ m \in dropped'
               /\ history'[m].audience \subseteq Members(d)'
    <3>1. /\ history'[m].audience = Members(d) \ {u}
          /\ d \in ToSet(told) /\ m \in ToSet(QuitsFor(told, d))
      BY <1>2, <2>1
    <3>2. QED
      BY <1>3, <1>12, <3>1
  <2>2. QED
    BY <2>1, Zenon DEF ForMembers
<1>16. QueuedIsReady'
  <2>1. \A v \in Users : \A m \in ToSet(userQueue'[v]) :
          m \in ToSet(userQueue[v]) /\ (Contains(readyUsers, v) => Contains(readyUsers', v))
    <3>1. ToSet(userQueue'[u]) = {}
      BY <1>7 DEF ToSet
    <3>2. QED
      BY <1>8, <1>10, <3>1
  <2>2. QED
    BY <1>1, <1>2, <1>3, <2>1, ReadyKept
<1>17. ListsAreSets'
  BY <1>3, <1>6 DEF ListsAreSets
<1>18. TypeOK'
  BY <1>1, <1>2, <1>3, <1>4, <1>5, <1>6, <1>9, <1>10, <1>11, StillNumbered DEF TypeOK
<1>19. QED
  BY <1>2, <1>3, <1>4, <1>5, <1>6, <1>8, <1>11, <1>13, <1>14, <1>15, <1>16, <1>17, <1>18
     DEF Kept, Sources

\* All handlers together.
LEMMA HandlerKeeps ==
  ASSUME Inv, NEW u \in Users, Handler(u)
  PROVE  Inv'
<1>1. CASE Answer(u)
  BY <1>1, AnswerKeeps, KeptIsEnough
<1>2. CASE Register(u)
  BY <1>2, RegisterKeeps, KeptIsEnough
<1>3. CASE \E c \in Channels : Join(u, c) \/ Part(u, c)
  BY <1>3, JoinKeeps, PartKeeps, KeptIsEnough
<1>4. CASE Talk(u)
  BY <1>4, TalkToChannelKeeps, TalkToUserKeeps, KeptIsEnough DEF Talk
<1>5. CASE Leave(u)
  BY <1>5, LeaveKeeps, KeptIsEnough
<1>6. QED
  BY <1>1, <1>2, <1>3, <1>4, <1>5 DEF Handler

------------------------------------------------------------------------------
(* What is written *)

\* One item comes before another in a sequence only if they are related.
Follows(s, R) == \A i, j \in DOMAIN s : i < j => <<s[i], s[j]>> \in R

\* Two sequences in this order make one if the first's items come before the other's.
LEMMA ConcatFollows ==
  ASSUME NEW T, NEW a \in Seq(T), NEW b \in Seq(T), NEW R, Follows(a, R), Follows(b, R),
         \A x \in ToSet(a), y \in ToSet(b) : <<x, y>> \in R
  PROVE  Follows(a \o b, R)
<1> DEFINE s == a \o b
<1>1. /\ Len(a) \in Nat /\ Len(b) \in Nat /\ s \in Seq(T) /\ Len(s) = Len(a) + Len(b)
      /\ DOMAIN a = 1 .. Len(a) /\ DOMAIN b = 1 .. Len(b) /\ DOMAIN s = 1 .. Len(a) + Len(b)
      /\ \A i \in 1 .. Len(a) + Len(b) : s[i] = IF i <= Len(a) THEN a[i] ELSE b[i - Len(a)]
  OBVIOUS
<1> HIDE DEF s
<1>2. /\ \A i \in 1 .. Len(a) : a[i] \in ToSet(a)
      /\ \A i \in 1 .. Len(b) : b[i] \in ToSet(b)
  BY ItemsOf
<1> SUFFICES ASSUME NEW i \in 1 .. Len(a) + Len(b), NEW j \in 1 .. Len(a) + Len(b), i < j
             PROVE  <<s[i], s[j]>> \in R
  BY <1>1 DEF Follows, s
<1>3. CASE j <= Len(a)
  <2>1. i \in 1 .. Len(a) /\ j \in 1 .. Len(a) /\ s[i] = a[i] /\ s[j] = a[j]
    BY <1>1, <1>3
  <2>2. QED
    BY <1>1, <2>1 DEF Follows
<1>4. CASE i <= Len(a) /\ ~(j <= Len(a))
  <2>1. /\ i \in 1 .. Len(a) /\ j - Len(a) \in 1 .. Len(b)
        /\ s[i] = a[i] /\ s[j] = b[j - Len(a)]
    BY <1>1, <1>4
  <2>2. QED
    BY <1>2, <2>1
<1>5. CASE ~(i <= Len(a))
  <2>1. /\ i - Len(a) \in 1 .. Len(b) /\ j - Len(a) \in 1 .. Len(b) /\ i - Len(a) < j - Len(a)
        /\ s[i] = b[i - Len(a)] /\ s[j] = b[j - Len(a)]
    BY <1>1, <1>5
  <2>2. QED
    BY <1>1, <2>1 DEF Follows
<1>6. QED
  BY <1>1, <1>3, <1>4, <1>5

\* The queues of the first channels of a list, one behind the other.
IsUpTo(f, channels, N) ==
  f = [n \in 0 .. N |-> IF n = 0 THEN << >> ELSE f[n - 1] \o channelQueue[channels[n]]]

\* There is such a function, so that the definition of QueuesOf means what it says.
LEMMA UpToExists ==
  ASSUME NEW channels, NEW N \in Nat
  PROVE  \E f : IsUpTo(f, channels, N)
<1> DEFINE Bad == {n \in Nat : ~ \E f : IsUpTo(f, channels, n)}
<1> SUFFICES ASSUME Bad # {} PROVE FALSE
  OBVIOUS
<1>1. PICK n \in Bad : \A k \in Bad : n <= k
  <2>1. Bad \in SUBSET Nat
    OBVIOUS
  <2> HIDE DEF Bad
  <2>2. QED
    BY <2>1, LeastNumber
<1>2. CASE n = 0
  <2> DEFINE f == [k \in 0 .. 0 |-> << >>]
  <2>1. f = [k \in 0 .. 0 |-> IF k = 0 THEN << >> ELSE f[k - 1] \o channelQueue[channels[k]]]
    OBVIOUS
  <2>2. IsUpTo(f, channels, 0)
    BY <2>1 DEF IsUpTo
  <2>3. QED
    BY <1>1, <1>2, <2>2
<1>3. CASE n # 0
  <2>1. n \in Nat /\ n - 1 \in Nat /\ ~(n <= n - 1)
    BY <1>3
  <2>2. PICK f : IsUpTo(f, channels, n - 1)
    BY <1>1, <2>1
  <2> DEFINE g == [k \in 0 .. n |-> IF k = n THEN f[n - 1] \o channelQueue[channels[n]] ELSE f[k]]
             h == [k \in 0 .. n |-> IF k = 0 THEN << >> ELSE g[k - 1] \o channelQueue[channels[k]]]
  <2>3. \A k \in 0 .. n - 1 :
          f[k] = IF k = 0 THEN << >> ELSE f[k - 1] \o channelQueue[channels[k]]
    BY <2>2 DEF IsUpTo
  <2>4. \A k \in 0 .. n - 1 : g[k] = f[k]
    BY <2>1
  <2>5. g[n] = f[n - 1] \o channelQueue[channels[n]]
    <3>1. n \in 0 .. n
      BY <2>1
    <3>2. QED
      BY <3>1, Zenon
  <2>6. ASSUME NEW k \in 0 .. n
        PROVE  g[k] = h[k]
    <3>1. CASE k = 0
      <4>1. k \in 0 .. n - 1
        BY <2>1, <3>1
      <4>2. QED
        BY <2>3, <2>4, <3>1, <4>1
    <3>2. CASE k # 0 /\ k # n
      <4>1. k \in 0 .. n - 1 /\ k - 1 \in 0 .. n - 1
        BY <2>1, <3>2
      <4>2. g[k] = f[k - 1] \o channelQueue[channels[k]] /\ g[k - 1] = f[k - 1]
        BY <2>3, <2>4, <3>2, <4>1
      <4> HIDE DEF g
      <4>3. QED
        BY <3>2, <4>2
    <3>3. CASE k = n
      <4>1. n - 1 \in 0 .. n - 1
        BY <2>1
      <4>2. g[n - 1] = f[n - 1]
        BY <2>4, <4>1
      <4> HIDE DEF g
      <4>3. QED
        BY <1>3, <2>5, <3>3, <4>2
    <3>4. QED
      BY <3>1, <3>2, <3>3
  <2>7. g = h
    <3>1. DOMAIN g = 0 .. n /\ DOMAIN h = 0 .. n
      OBVIOUS
    <3>2. g = [k \in 0 .. n |-> g[k]] /\ h = [k \in 0 .. n |-> h[k]]
      OBVIOUS
    <3> HIDE DEF g, h
    <3>3. QED
      BY <2>6, <3>2
  <2>8. IsUpTo(g, channels, n)
    <3> HIDE DEF g
    <3>1. QED
      BY <2>7 DEF IsUpTo
  <2>9. QED
    BY <1>1, <2>8
<1>4. QED
  BY <1>2, <1>3

\* The queues of a list of channels, one behind the other, hold what each holds.
LEMMA QueuesInTurn ==
  ASSUME TypeOK, NEW channels \in Seq(Channels), NEW R,
         \A k \in 1 .. Len(channels) : Follows(channelQueue[channels[k]], R),
         \A k, l \in 1 .. Len(channels) : k < l =>
           \A x \in ToSet(channelQueue[channels[k]]), y \in ToSet(channelQueue[channels[l]]) :
             <<x, y>> \in R
  PROVE  /\ QueuesOf(channels) \in Seq(Ids)
         /\ \A m : m \in ToSet(QueuesOf(channels)) <=>
              \E k \in 1 .. Len(channels) : m \in ToSet(channelQueue[channels[k]])
         /\ Follows(QueuesOf(channels), R)
<1> DEFINE N == Len(channels)
           q(k) == channelQueue[channels[k]]
           upTo == CHOOSE f : IsUpTo(f, channels, N)
<1>1. N \in Nat /\ \A k \in 1 .. N : q(k) \in Seq(Ids)
  BY DEF TypeOK
<1>2. IsUpTo(upTo, channels, N)
  BY <1>1, UpToExists
<1>3. QueuesOf(channels) = upTo[N]
  BY DEF QueuesOf, IsUpTo
<1> HIDE DEF N, upTo
<1>4. /\ upTo[0] = << >>
      /\ \A n \in 1 .. N : n - 1 \in 0 .. N /\ upTo[n] = upTo[n - 1] \o q(n)
  <2>1. \A n \in 0 .. N : upTo[n] = IF n = 0 THEN << >> ELSE upTo[n - 1] \o q(n)
    BY <1>2 DEF IsUpTo
  <2>2. 0 \in 0 .. N /\ \A n \in 1 .. N : n \in 0 .. N /\ n # 0 /\ n - 1 \in 0 .. N
    BY <1>1
  <2> HIDE DEF q
  <2>3. QED
    BY <2>1, <2>2
<1>5. /\ \A k \in 1 .. N : Follows(q(k), R)
      /\ \A k, l \in 1 .. N : k < l => \A x \in ToSet(q(k)), y \in ToSet(q(l)) : <<x, y>> \in R
  BY DEF N
<1> HIDE DEF q
<1> DEFINE InTurn(n) == /\ upTo[n] \in Seq(Ids)
                        /\ \A m : m \in ToSet(upTo[n]) <=> \E k \in 1 .. n : m \in ToSet(q(k))
                        /\ Follows(upTo[n], R)
           Bad == {n \in 0 .. N : ~InTurn(n)}
<1>6. InTurn(0)
  <2>1. ToSet(<< >>) = {} /\ << >> \in Seq(Ids) /\ Follows(<< >>, R)
    BY DEF ToSet, Follows
  <2>2. QED
    BY <1>4, <2>1
<1>7. ASSUME NEW n \in 1 .. N, InTurn(n - 1)
      PROVE  InTurn(n)
  <2> DEFINE a == upTo[n - 1]
             b == q(n)
  <2>1. upTo[n] = a \o b /\ b \in Seq(Ids) /\ Follows(b, R)
    BY <1>1, <1>4, <1>5
  <2>2. a \in Seq(Ids) /\ Follows(a, R)
        /\ \A m : m \in ToSet(a) <=> \E k \in 1 .. n - 1 : m \in ToSet(q(k))
    BY <1>7
  <2>3. \A k \in 1 .. n : k \in 1 .. n - 1 \/ k = n
    OBVIOUS
  <2>4. \A k \in 1 .. n - 1 : k \in 1 .. n /\ k \in 1 .. N /\ k < n
    BY <1>1
  <2>5. n \in 1 .. n
    OBVIOUS
  <2> HIDE DEF a, b
  <2>6. a \o b \in Seq(Ids) /\ \A x : x \in ToSet(a \o b) <=> x \in ToSet(a) \/ x \in ToSet(b)
    BY <2>1, <2>2, ConcatItems
  <2>7. \A x \in ToSet(a), y \in ToSet(b) : <<x, y>> \in R
    BY <1>5, <2>2, <2>4 DEF b
  <2>8. Follows(a \o b, R)
    BY <2>1, <2>2, <2>7, ConcatFollows
  <2>9. \A m : m \in ToSet(a \o b) <=> \E k \in 1 .. n : m \in ToSet(q(k))
    BY <2>2, <2>3, <2>4, <2>5, <2>6 DEF b
  <2>10. QED
    BY <2>1, <2>6, <2>8, <2>9
<1>8. Bad = {}
  <2> SUFFICES ASSUME Bad # {} PROVE FALSE
    OBVIOUS
  <2>1. Bad \in SUBSET Nat
    BY <1>1
  <2>2. \E x \in Bad : \A y \in Bad : x <= y
    <3> HIDE DEF Bad
    <3>1. QED
      BY <2>1, LeastNumber
  <2>3. PICK n \in Bad : \A y \in Bad : n <= y
    BY <2>2
  <2>4. n \in 0 .. N /\ ~InTurn(n)
    OBVIOUS
  <2> HIDE DEF InTurn
  <2>5. n # 0
    BY <1>6, <2>4
  <2>6. n \in 1 .. N /\ n - 1 \in 0 .. N /\ ~(n <= n - 1)
    BY <1>1, <2>4, <2>5
  <2>7. InTurn(n - 1)
    BY <2>3, <2>6
  <2>8. QED
    BY <1>7, <2>4, <2>6, <2>7
<1>9. InTurn(N)
  <2>1. N \in 0 .. N
    BY <1>1
  <2> HIDE DEF InTurn
  <2>2. QED
    BY <1>8, <2>1
<1>10. QED
  BY <1>3, <1>9 DEF N, q

\* The order in which a round writes messages, whoever they are written to: those of
\* the server first, then those of the channels as they are on the ready list, then
\* those of the users, and those of one queue as they were composed.
Before(m, n) ==
  \/ history[m].via = history[n].via /\ m < n
  \/ history[m].via = "server" /\ history[n].via # "server"
  \/ history[m].via \in Channels /\ history[n].via \in Users
  \/ \E i, j \in DOMAIN readyChannels :
       i < j /\ readyChannels[i] = history[m].via /\ readyChannels[j] = history[n].via
InTheRound == {p \in Ids \X Ids : Before(p[1], p[2])}

\* No two messages come before each other, and none before itself.
LEMMA BeforeIsStrict ==
  ASSUME TypeOK, ListsAreSets, NEW m \in Ids, NEW n \in Ids, Before(m, n)
  PROVE  ~Before(n, m)
<1>1. m \in Nat /\ n \in Nat
  BY Numbered
<1>2. /\ DOMAIN readyChannels \in SUBSET Nat
      /\ \A i \in DOMAIN readyChannels : /\ readyChannels[i] \in Channels
                                         /\ readyChannels[i] # "server"
                                         /\ readyChannels[i] \notin Users
      /\ \A i, j \in DOMAIN readyChannels : readyChannels[i] = readyChannels[j] => i = j
  BY NamesAssumption DEF TypeOK, ListsAreSets, IsInjective
<1>3. ~("server" \in Channels \cup Users) /\ Channels \cap Users = {}
  BY NamesAssumption
<1> DEFINE Ahead(a, b) == \E i, j \in DOMAIN readyChannels :
             i < j /\ readyChannels[i] = a /\ readyChannels[j] = b
           a == history[m].via
           b == history[n].via
<1>4. \A x, y : Ahead(x, y) => /\ x \in Channels /\ y \in Channels /\ x # y
                                 /\ ~Ahead(y, x)
  <2> SUFFICES ASSUME NEW x, NEW y, Ahead(x, y)
               PROVE  x \in Channels /\ y \in Channels /\ x # y /\ ~Ahead(y, x)
    OBVIOUS
  <2>1. PICK i, j \in DOMAIN readyChannels : i < j /\ readyChannels[i] = x /\ readyChannels[j] = y
    OBVIOUS
  <2>2. \A k, l \in DOMAIN readyChannels :
          readyChannels[k] = y /\ readyChannels[l] = x => k = j /\ l = i
    BY <1>2, <2>1
  <2>3. i \in Nat /\ j \in Nat /\ ~(j < i)
    BY <1>2, <2>1
  <2>4. ~Ahead(y, x)
    BY <2>2, <2>3
  <2>5. x \in Channels /\ y \in Channels /\ x # y
    BY <1>2, <2>1, <2>3
  <2>6. QED
    BY <2>4, <2>5
<1>5. \/ a = b /\ m < n
      \/ a = "server" /\ b # "server"
      \/ a \in Channels /\ b \in Users
      \/ Ahead(a, b)
  BY DEF Before
<1>6. Before(n, m) => \/ b = a /\ n < m
                      \/ b = "server" /\ a # "server"
                      \/ b \in Channels /\ a \in Users
                      \/ Ahead(b, a)
  BY DEF Before
<1> HIDE DEF Ahead, a, b
<1>7. QED
  BY <1>1, <1>3, <1>4, <1>5, <1>6

\* A queue is in this order.
LEMMA QueueFollows ==
  ASSUME TypeOK, QueuesRise, NEW a \in Sources
  PROVE  Follows(Queue(a), InTheRound)
<1>1. /\ Queue(a) \in Seq(Ids) /\ Rising(Queue(a))
      /\ \A i \in DOMAIN Queue(a) : history[Queue(a)[i]].via = a
  BY Numbered DEF QueuesRise
<1> DEFINE q == Queue(a)
<1> HIDE DEF q
<1>2. q \in Seq(Ids) /\ Rising(q) /\ \A i \in DOMAIN q : history[q[i]].via = a
  BY <1>1 DEF q
<1>3. \A i \in DOMAIN q : q[i] \in Ids
  BY <1>2
<1>4. \A i, j \in DOMAIN q : i < j => Before(q[i], q[j])
  BY <1>2 DEF Before, Rising
<1>5. Follows(q, InTheRound)
  BY <1>3, <1>4 DEF Follows, InTheRound
<1>6. QED
  BY <1>5 DEF q

\* The items of a queue that follow each other do so when some are taken out.
LEMMA OnlyFollows ==
  ASSUME NEW T, NEW q \in Seq(T), NEW S, NEW R, Follows(q, R)
  PROVE  Follows(Only(q, S), R)
<1> DEFINE s == Only(q, S)
<1>1. s \in Seq(T) /\ \E c \in [1 .. Len(s) -> 1 .. Len(q)] :
                        /\ \A i, j \in 1 .. Len(s) : i < j => c[i] < c[j]
                        /\ \A i \in 1 .. Len(s) : s[i] = q[c[i]]
  BY OnlyThose
<1>2. PICK c \in [1 .. Len(s) -> 1 .. Len(q)] :
                        /\ \A i, j \in 1 .. Len(s) : i < j => c[i] < c[j]
                        /\ \A i \in 1 .. Len(s) : s[i] = q[c[i]]
  BY <1>1
<1> HIDE DEF s
<1>3. DOMAIN s = 1 .. Len(s) /\ DOMAIN q = 1 .. Len(q)
  BY <1>1
<1>4. QED
  BY <1>2, <1>3 DEF Follows, s

\* What a user is written is what waits for it in the ready queues, in that order.
LEMMA WrittenInOrder ==
  ASSUME TypeOK, QueuesRise, NEW u \in Users
  PROVE  /\ Written(u) \in Seq(Ids)
         /\ \A m \in ToSet(Written(u)) :
              \/ m \in ToSet(serverQueue) /\ history[m].via = "server" /\ history[m].about = u
              \/ \E c \in Channels : /\ m \in ToSet(channelQueue[c]) /\ history[m].via = c
                                     /\ Contains(readyChannels, c)
              \/ m \in ToSet(userQueue[u]) /\ history[m].via = u /\ Contains(readyUsers, u)
         /\ \A c \in Channels : Contains(readyChannels, c) /\ u \in Members(c) =>
              ToSet(channelQueue[c]) \subseteq ToSet(Written(u))
         /\ Follows(Written(u), InTheRound)
<1> DEFINE R == InTheRound
           channels == Only(readyChannels, ToSet(joined[u]))
           one == FromServer(u)
           two == FromChannels(u)
           three == FromUser(u)
<1>1. /\ serverQueue \in Seq(Ids) /\ Follows(serverQueue, R)
      /\ \A m \in ToSet(serverQueue) : history[m].via = "server"
  <2>1. "server" \in Sources /\ Queue("server") = serverQueue
    BY Names, QueueIs
  <2>2. Follows(Queue("server"), R)
    BY <2>1, QueueFollows
  <2>3. \A i \in DOMAIN serverQueue : history[serverQueue[i]].via = "server"
    BY <2>1 DEF QueuesRise
  <2>4. QED
    BY <2>1, <2>2, <2>3 DEF TypeOK, ToSet
<1>2. \A c \in Channels : /\ channelQueue[c] \in Seq(Ids) /\ Follows(channelQueue[c], R)
                          /\ \A m \in ToSet(channelQueue[c]) : history[m].via = c /\ m \in Ids
  <2> SUFFICES ASSUME NEW c \in Channels
               PROVE  /\ channelQueue[c] \in Seq(Ids) /\ Follows(channelQueue[c], R)
                      /\ \A m \in ToSet(channelQueue[c]) : history[m].via = c /\ m \in Ids
    OBVIOUS
  <2>1. c \in Sources /\ Queue(c) = channelQueue[c]
    BY Names, QueueIs
  <2>2. Follows(Queue(c), R)
    BY <2>1, QueueFollows
  <2>3. \A i \in DOMAIN channelQueue[c] : history[channelQueue[c][i]].via = c
    BY <2>1 DEF QueuesRise
  <2>4. channelQueue[c] \in Seq(Ids)
    BY DEF TypeOK
  <2>5. \A m \in ToSet(channelQueue[c]) : m \in Ids
    BY <2>4, ItemsOf
  <2>6. QED
    BY <2>1, <2>2, <2>3, <2>4, <2>5 DEF ToSet
<1>3. /\ userQueue[u] \in Seq(Ids) /\ Follows(userQueue[u], R)
      /\ \A m \in ToSet(userQueue[u]) : history[m].via = u /\ m \in Ids
  <2>1. u \in Sources /\ Queue(u) = userQueue[u]
    BY Names, QueueIs
  <2>2. Follows(Queue(u), R)
    BY <2>1, QueueFollows
  <2>3. \A i \in DOMAIN userQueue[u] : history[userQueue[u][i]].via = u
    BY <2>1 DEF QueuesRise
  <2>4. userQueue[u] \in Seq(Ids)
    BY DEF TypeOK
  <2>5. \A m \in ToSet(userQueue[u]) : m \in Ids
    BY <2>4, ItemsOf
  <2>6. QED
    BY <2>1, <2>2, <2>3, <2>4, <2>5 DEF ToSet
<1> HIDE DEF R
<1>4. /\ one \in Seq(Ids) /\ Follows(one, R)
      /\ \A m \in ToSet(one) : m \in Ids /\ m \in ToSet(serverQueue) /\ history[m].about = u
  <2> DEFINE S == {m \in Ids : history[m].about = u}
  <2>1. one = Only(serverQueue, S)
    BY DEF FromServer
  <2>2. \A m \in S : m \in Ids /\ history[m].about = u
    OBVIOUS
  <2> HIDE DEF S, one
  <2>3. one \in Seq(Ids) /\ ToSet(one) = ToSet(serverQueue) \cap S
    BY <1>1, <2>1, OnlyThose
  <2>4. Follows(one, R)
    BY <1>1, <2>1, OnlyFollows
  <2>5. QED
    BY <2>2, <2>3, <2>4
<1>5. /\ channels \in Seq(Channels)
      /\ \A c : c \in ToSet(channels) <=> Contains(readyChannels, c) /\ Contains(joined[u], c)
      /\ \E d \in [1 .. Len(channels) -> 1 .. Len(readyChannels)] :
           /\ \A i, j \in 1 .. Len(channels) : i < j => d[i] < d[j]
           /\ \A i \in 1 .. Len(channels) : channels[i] = readyChannels[d[i]]
  <2> DEFINE S == ToSet(joined[u])
  <2>1. readyChannels \in Seq(Channels) /\ joined[u] \in Seq(Channels)
    BY DEF TypeOK
  <2>2. \A c : /\ c \in S <=> Contains(joined[u], c)
               /\ (c \in ToSet(readyChannels) <=> Contains(readyChannels, c))
    BY <2>1, ItemsOf
  <2> HIDE DEF S
  <2> DEFINE s == Only(readyChannels, S)
  <2>3. /\ s \in Seq(Channels) /\ ToSet(s) = ToSet(readyChannels) \cap S
        /\ \E d \in [1 .. Len(s) -> 1 .. Len(readyChannels)] :
             /\ \A i, j \in 1 .. Len(s) : i < j => d[i] < d[j]
             /\ \A i \in 1 .. Len(s) : s[i] = readyChannels[d[i]]
    BY <2>1, OnlyThose
  <2>4. QED
    BY <2>2, <2>3 DEF S
<1>6. two = QueuesOf(channels)
  BY DEF FromChannels
<1> HIDE DEF channels
<1>7. \A k \in 1 .. Len(channels) : channels[k] \in Channels /\ Contains(readyChannels, channels[k])
  BY <1>5, ItemsOf
<1>8. ASSUME NEW k \in 1 .. Len(channels), NEW l \in 1 .. Len(channels), k < l,
             NEW x \in ToSet(channelQueue[channels[k]]), NEW y \in ToSet(channelQueue[channels[l]])
      PROVE  <<x, y>> \in R
  <2>1. PICK d \in [1 .. Len(channels) -> 1 .. Len(readyChannels)] :
           /\ \A i, j \in 1 .. Len(channels) : i < j => d[i] < d[j]
           /\ \A i \in 1 .. Len(channels) : channels[i] = readyChannels[d[i]]
    BY <1>5
  <2>2. /\ d[k] \in 1 .. Len(readyChannels) /\ d[l] \in 1 .. Len(readyChannels) /\ d[k] < d[l]
        /\ channels[k] = readyChannels[d[k]] /\ channels[l] = readyChannels[d[l]]
    BY <1>8, <2>1
  <2>3. DOMAIN readyChannels = 1 .. Len(readyChannels)
    BY DEF TypeOK
  <2>4. x \in Ids /\ y \in Ids /\ history[x].via = channels[k] /\ history[y].via = channels[l]
    BY <1>2, <1>7
  <2>5. Before(x, y)
    BY <2>2, <2>3, <2>4 DEF Before
  <2>6. QED
    BY <2>4, <2>5 DEF R, InTheRound
<1>9. /\ two \in Seq(Ids) /\ Follows(two, R)
      /\ \A m : m \in ToSet(two) <=>
           \E k \in 1 .. Len(channels) : m \in ToSet(channelQueue[channels[k]])
  <2>1. \A k \in 1 .. Len(channels) : Follows(channelQueue[channels[k]], R)
    BY <1>2, <1>7
  <2>2. QED
    BY <1>5, <1>6, <1>8, <2>1, QueuesInTurn
<1>10. \A m : m \in ToSet(two) <=>
         \E c \in Channels : /\ m \in ToSet(channelQueue[c])
                             /\ Contains(readyChannels, c) /\ Contains(joined[u], c)
  <2>1. \A c : c \in ToSet(channels) <=> \E k \in 1 .. Len(channels) : channels[k] = c
    BY <1>5, ItemsOf
  <2>2. \A c \in ToSet(channels) : c \in Channels
    BY <1>5, ItemsOf
  <2>3. QED
    BY <1>5, <1>9, <2>1, <2>2
<1>11. /\ three \in Seq(Ids) /\ Follows(three, R)
       /\ \A m \in ToSet(three) : m \in ToSet(userQueue[u]) /\ Contains(readyUsers, u)
  <2>1. << >> \in Seq(Ids) /\ Follows(<< >>, R) /\ ToSet(<< >>) = {}
    BY DEF Follows, ToSet
  <2>2. QED
    BY <1>3, <2>1 DEF FromUser
<1>12. Written(u) = one \o two \o three
  BY DEF Written
<1> HIDE DEF one, two, three
<1>13. \A m \in ToSet(one) : m \in Ids /\ history[m].via = "server" /\ history[m].about = u
                             /\ m \in ToSet(serverQueue)
  BY <1>1, <1>4
<1>14. \A m \in ToSet(two) : m \in Ids /\ \E c \in Channels : /\ m \in ToSet(channelQueue[c])
                                                  /\ history[m].via = c /\ Contains(readyChannels, c)
  BY <1>2, <1>10
<1>15. \A m \in ToSet(three) : m \in Ids /\ history[m].via = u
                               /\ m \in ToSet(userQueue[u]) /\ Contains(readyUsers, u)
  BY <1>3, <1>11
<1>16. /\ one \o two \in Seq(Ids)
       /\ \A x : x \in ToSet(one \o two) <=> x \in ToSet(one) \/ x \in ToSet(two)
       /\ Follows(one \o two, R)
  <2>1. \A x \in ToSet(one), y \in ToSet(two) : <<x, y>> \in R
    BY <1>13, <1>14, Names DEF R, InTheRound, Before
  <2>2. QED
    BY <1>4, <1>9, <2>1, ConcatItems, ConcatFollows
<1> DEFINE front == one \o two
<1>17. /\ front \in Seq(Ids) /\ Follows(front, R)
       /\ \A x : x \in ToSet(front) <=> x \in ToSet(one) \/ x \in ToSet(two)
  BY <1>16
<1>18. Written(u) = front \o three
  BY <1>12
<1> HIDE DEF front
<1>19. /\ front \o three \in Seq(Ids)
       /\ \A x : x \in ToSet(front \o three) <=> x \in ToSet(front) \/ x \in ToSet(three)
       /\ Follows(front \o three, R)
  <2>1. \A x \in ToSet(front), y \in ToSet(three) : <<x, y>> \in R
    <3> SUFFICES ASSUME NEW x \in ToSet(front), NEW y \in ToSet(three)
                 PROVE  <<x, y>> \in R
      OBVIOUS
    <3>1. y \in Ids /\ history[y].via = u
      BY <1>15
    <3>2. x \in Ids /\ (history[x].via = "server" \/ history[x].via \in Channels)
      BY <1>13, <1>14, <1>17
    <3>3. Before(x, y)
      BY <3>1, <3>2, Names DEF Before
    <3>4. QED
      BY <3>1, <3>2, <3>3 DEF R, InTheRound
  <2>2. QED
    BY <1>11, <1>17, <2>1, ConcatItems, ConcatFollows
<1>20. \A c \in Channels : Contains(readyChannels, c) /\ u \in Members(c) =>
              ToSet(channelQueue[c]) \subseteq ToSet(Written(u))
  <2>1. \A c : u \in Members(c) => Contains(joined[u], c)
    BY DEF Members
  <2>2. QED
    BY <1>10, <1>17, <1>18, <1>19, <2>1
<1>21. \A m \in ToSet(Written(u)) :
         \/ m \in ToSet(serverQueue) /\ history[m].via = "server" /\ history[m].about = u
         \/ \E c \in Channels : /\ m \in ToSet(channelQueue[c]) /\ history[m].via = c
                                /\ Contains(readyChannels, c)
         \/ m \in ToSet(userQueue[u]) /\ history[m].via = u /\ Contains(readyUsers, u)
  BY <1>13, <1>14, <1>15, <1>17, <1>18, <1>19
<1>22. QED
  BY <1>18, <1>19, <1>20, <1>21 DEF R

------------------------------------------------------------------------------
(* Sending keeps the invariant *)

\* What a round writes to a user.
Sent(u) == IF phase[u] = "gone" THEN << >> ELSE Written(u)

\* All that is written waited for this user in a ready queue.
LEMMA SentItems ==
  ASSUME TypeOK, QueuesRise, NEW u \in Users
  PROVE  /\ Sent(u) \in Seq(Ids) /\ Follows(Sent(u), InTheRound)
         /\ \A m \in ToSet(Sent(u)) :
              /\ m \in Ids /\ history[m].via \in Sources /\ m \in ToSet(Queue(history[m].via))
              /\ history[m].via \in Users => history[m].via = u
              /\ history[m].via = "server" => history[m].about = u
              /\ history[m].via \in Channels => Contains(readyChannels, history[m].via)
              /\ history[m].via \in Users => Contains(readyUsers, u)
<1>1. CASE phase[u] = "gone"
  <2>1. << >> \in Seq(Ids) /\ Follows(<< >>, InTheRound) /\ ToSet(<< >>) = {}
    BY DEF Follows, ToSet
  <2>2. Sent(u) = << >>
    BY <1>1 DEF Sent
  <2>3. QED
    BY <2>1, <2>2
<1>2. CASE phase[u] # "gone"
  <2>1. Sent(u) = Written(u)
    BY <1>2 DEF Sent
  <2>2. /\ Written(u) \in Seq(Ids) /\ Follows(Written(u), InTheRound)
        /\ \A m \in ToSet(Written(u)) :
             \/ m \in ToSet(serverQueue) /\ history[m].via = "server" /\ history[m].about = u
             \/ \E c \in Channels : /\ m \in ToSet(channelQueue[c]) /\ history[m].via = c
                                    /\ Contains(readyChannels, c)
             \/ m \in ToSet(userQueue[u]) /\ history[m].via = u /\ Contains(readyUsers, u)
    BY WrittenInOrder
  <2>3. \A m \in ToSet(Written(u)) : m \in Ids
    BY <2>2, ItemsOf
  <2>4. \A m \in ToSet(Written(u)) :
          /\ history[m].via \in Sources /\ m \in ToSet(Queue(history[m].via))
          /\ history[m].via \in Users => history[m].via = u
          /\ history[m].via = "server" => history[m].about = u
          /\ history[m].via \in Channels => Contains(readyChannels, history[m].via)
          /\ history[m].via \in Users => Contains(readyUsers, u)
    <3> SUFFICES ASSUME NEW m \in ToSet(Written(u))
                 PROVE  /\ history[m].via \in Sources /\ m \in ToSet(Queue(history[m].via))
                        /\ history[m].via \in Users => history[m].via = u
                        /\ history[m].via = "server" => history[m].about = u
                        /\ history[m].via \in Channels => Contains(readyChannels, history[m].via)
                        /\ history[m].via \in Users => Contains(readyUsers, u)
      OBVIOUS
    <3>1. CASE m \in ToSet(serverQueue) /\ history[m].via = "server" /\ history[m].about = u
      BY <3>1, Names, QueueIs
    <3>2. CASE \E c \in Channels : /\ m \in ToSet(channelQueue[c]) /\ history[m].via = c
                                   /\ Contains(readyChannels, c)
      BY <3>2, Names, QueueIs
    <3>3. CASE m \in ToSet(userQueue[u]) /\ history[m].via = u /\ Contains(readyUsers, u)
      BY <3>3, Names, QueueIs
    <3>4. QED
      BY <2>2, <3>1, <3>2, <3>3
  <2>5. QED
    BY <2>1, <2>2, <2>3, <2>4
<1>3. QED
  BY <1>1, <1>2

\* Where in what a user has got then a message is.
LEMMA SendAppends ==
  ASSUME TypeOK, QueuesRise, Send, NEW u \in Users
  PROVE  /\ Len(received[u]) \in Nat /\ Len(Sent(u)) \in Nat
         /\ received'[u] \in Seq(Ids)
         /\ DOMAIN received'[u] = 1 .. Len(received[u]) + Len(Sent(u))
         /\ \A i \in DOMAIN received'[u] :
              \/ /\ i \in DOMAIN received[u] /\ i <= Len(received[u])
                 /\ received'[u][i] = received[u][i] /\ received'[u][i] \in Got(u)
              \/ /\ i - Len(received[u]) \in DOMAIN Sent(u) /\ i > Len(received[u])
                 /\ received'[u][i] = Sent(u)[i - Len(received[u])]
                 /\ received'[u][i] \in ToSet(Sent(u))
         /\ \A m : m \in Got(u)' <=> m \in Got(u) \/ m \in ToSet(Sent(u))
<1> DEFINE r == received[u]
           w == Sent(u)
           s == r \o w
<1>1. r \in Seq(Ids) /\ w \in Seq(Ids)
  BY SentItems DEF TypeOK
<1>2. received'[u] = s
  <2>1. received'[u] = IF phase[u] = "gone" THEN r ELSE r \o Written(u)
    BY DEF Send
  <2>2. r \o << >> = r
    BY <1>1, ConcatEmptySeq
  <2>3. QED
    BY <2>1, <2>2 DEF Sent
<1> HIDE DEF r, w
<1>3. /\ Len(r) \in Nat /\ Len(w) \in Nat /\ s \in Seq(Ids)
      /\ DOMAIN r = 1 .. Len(r) /\ DOMAIN w = 1 .. Len(w) /\ DOMAIN s = 1 .. Len(r) + Len(w)
      /\ \A i \in 1 .. Len(r) + Len(w) : s[i] = IF i <= Len(r) THEN r[i] ELSE w[i - Len(r)]
  BY <1>1
<1>4. \A x : x \in ToSet(s) <=> x \in ToSet(r) \/ x \in ToSet(w)
  BY <1>1, ConcatItems
<1> HIDE DEF s
<1>5. ASSUME NEW i \in DOMAIN s
      PROVE  \/ i \in DOMAIN r /\ i <= Len(r) /\ s[i] = r[i] /\ s[i] \in ToSet(r)
             \/ /\ i - Len(r) \in DOMAIN w /\ i > Len(r)
                /\ s[i] = w[i - Len(r)] /\ s[i] \in ToSet(w)
  <2>1. CASE i <= Len(r)
    <3>1. i \in DOMAIN r /\ s[i] = r[i]
      BY <1>3, <2>1
    <3>2. QED
      BY <2>1, <3>1 DEF ToSet
  <2>2. CASE ~(i <= Len(r))
    <3>1. i - Len(r) \in DOMAIN w /\ s[i] = w[i - Len(r)] /\ i > Len(r)
      BY <1>3, <2>2
    <3>2. QED
      BY <3>1 DEF ToSet
  <2>3. QED
    BY <2>1, <2>2
<1>6. Got(u) = ToSet(r) /\ Got(u)' = ToSet(s)
  <2>1. Got(u)' = ToSet(received'[u])
    BY DEF Got, ToSet
  <2>2. QED
    BY <1>2, <2>1 DEF Got, r
<1>7. QED
  BY <1>2, <1>3, <1>4, <1>5, <1>6 DEF r, w

\* Nothing is written that somebody has got before.
LEMMA SentIsNew ==
  ASSUME TypeOK, QueuesRise, ReceivedEarlier, NEW u \in Users, NEW v \in Users,
         NEW m \in Got(u)
  PROVE  m \notin ToSet(Sent(v))
<1> SUFFICES ASSUME m \in ToSet(Sent(v)) PROVE FALSE
  OBVIOUS
<1>1. PICK a \in Sources : a = history[m].via /\ m \in ToSet(Queue(a)) /\ m \in Ids
  BY SentItems
<1>2. CameEarlier(u, m, a)
  BY <1>1 DEF ReceivedEarlier
<1>3. PICK i \in DOMAIN Queue(a) : Queue(a)[i] = m
  BY <1>1 DEF ToSet
<1>4. m < m /\ m \in Nat
  BY <1>1, <1>2, <1>3, Numbered DEF CameEarlier
<1>5. QED
  BY <1>4

\* What two users get in one round is in the order of the round for both.
LEMMA SendKeepsSameOrder ==
  ASSUME TypeOK, QueuesRise, ListsAreSets, ReceivedEarlier, SameOrder, Send
  PROVE  SameOrder'
<1>1. ASSUME NEW u \in Users, NEW v \in Users,
             NEW i \in DOMAIN received'[u], NEW j \in DOMAIN received'[u],
             NEW k \in DOMAIN received'[v], NEW l \in DOMAIN received'[v],
             received'[u][i] = received'[v][k], received'[u][j] = received'[v][l], i < j
      PROVE  k < l
  <2> DEFINE m == received'[u][i]
             n == received'[u][j]
             lu == Len(received[u])
             lv == Len(received[v])
             Old(w, x) == x \in DOMAIN received[w] /\ x <= Len(received[w])
                          /\ received'[w][x] = received[w][x] /\ received'[w][x] \in Got(w)
             Added(w, x) == /\ x - Len(received[w]) \in DOMAIN Sent(w) /\ x > Len(received[w])
                            /\ received'[w][x] = Sent(w)[x - Len(received[w])]
                            /\ received'[w][x] \in ToSet(Sent(w))
  <2>1. lu \in Nat /\ lv \in Nat /\ i \in Nat /\ j \in Nat /\ k \in Nat /\ l \in Nat
    <3>1. \A w \in Users : received'[w] \in Seq(Ids) /\ Len(received[w]) \in Nat
      BY SendAppends
    <3>2. \A w \in Users : DOMAIN received'[w] \subseteq Nat
      BY <3>1
    <3>3. QED
      BY <3>1, <3>2
  <2>2. /\ Old(u, i) \/ Added(u, i)
        /\ Old(u, j) \/ Added(u, j)
        /\ Old(v, k) \/ Added(v, k)
        /\ Old(v, l) \/ Added(v, l)
    BY SendAppends
  <2>3. \A x \in Got(u) \cup Got(v) : x \notin ToSet(Sent(u)) /\ x \notin ToSet(Sent(v))
    BY SentIsNew
  <2>4. m = received'[v][k] /\ n = received'[v][l]
    BY <1>1
  <2>5. CASE Old(u, i) /\ Old(u, j)
    <3>1. Old(v, k) /\ Old(v, l)
      BY <2>2, <2>3, <2>4, <2>5
    <3>2. received[u][i] = received[v][k] /\ received[u][j] = received[v][l]
      BY <1>1, <2>5, <3>1
    <3>3. QED
      BY <1>1, <2>5, <3>1, <3>2 DEF SameOrder
  <2>6. CASE Old(u, i) /\ Added(u, j)
    <3>1. Old(v, k) /\ Added(v, l)
      BY <2>2, <2>3, <2>4, <2>6
    <3>2. QED
      BY <2>1, <3>1
  <2>7. CASE Added(u, i) /\ Added(u, j)
    <3>1. Added(v, k) /\ Added(v, l)
      BY <2>2, <2>3, <2>4, <2>7
    <3> DEFINE ui == i - lu
               uj == j - lu
               vk == k - lv
               vl == l - lv
    <3>2. /\ ui \in DOMAIN Sent(u) /\ uj \in DOMAIN Sent(u) /\ ui < uj
          /\ m = Sent(u)[ui] /\ n = Sent(u)[uj]
      BY <1>1, <2>1, <2>7
    <3>3. /\ vk \in DOMAIN Sent(v) /\ vl \in DOMAIN Sent(v)
          /\ m = Sent(v)[vk] /\ n = Sent(v)[vl]
      BY <2>4, <3>1
    <3>4. ui \in Int /\ uj \in Int /\ vk \in Int /\ vl \in Int
      BY <2>1
    <3>5. Follows(Sent(u), InTheRound) /\ Follows(Sent(v), InTheRound)
      BY SentItems
    <3>6. (k < l <=> vk < vl)
      BY <2>1
    <3> HIDE DEF ui, uj, vk, vl, m, n
    <3>7. <<m, n>> \in InTheRound
      BY <3>2, <3>5 DEF Follows
    <3>8. m \in Ids /\ n \in Ids /\ Before(m, n)
      BY <3>7 DEF InTheRound
    <3>9. ~Before(n, m) /\ m # n
      BY <3>8, BeforeIsStrict
    <3>10. ~(vl < vk)
      <4> SUFFICES ASSUME vl < vk PROVE FALSE
        OBVIOUS
      <4>1. <<n, m>> \in InTheRound
        BY <3>3, <3>5 DEF Follows
      <4>2. QED
        BY <3>9, <4>1 DEF InTheRound
    <3>11. vl # vk
      BY <3>3, <3>9
    <3>12. QED
      BY <3>4, <3>6, <3>10, <3>11
  <2>8. CASE Added(u, i) /\ Old(u, j)
    BY <1>1, <2>1, <2>8
  <2>9. QED
    BY <2>2, <2>5, <2>6, <2>7, <2>8
<1>2. ASSUME NEW u \in Users, NEW v \in Users,
             NEW i \in DOMAIN received'[u], NEW j \in DOMAIN received'[u],
             NEW k \in DOMAIN received'[v], NEW l \in DOMAIN received'[v],
             received'[u][i] = received'[v][k], received'[u][j] = received'[v][l]
      PROVE  i < j <=> k < l
  BY <1>1, <1>2
<1>3. QED
  BY <1>2 DEF SameOrder

\* A round writes what is newer than all before, and the older first.
LEMMA SendKeepsInOrder ==
  ASSUME TypeOK, QueuesRise, ListsAreSets, ReceivedEarlier, ServerQueueFirst, AnswersPrivate,
         InOrder, Send
  PROVE  InOrder'
<1> SUFFICES ASSUME NEW u \in Users, NEW i \in DOMAIN received'[u], NEW j \in DOMAIN received'[u],
                    i < j,
                    \/ history[received'[u][i]].via = history[received'[u][j]].via
                    \/ /\ history[received'[u][i]].kind = "answer"
                       /\ history[received'[u][j]].kind = "answer"
             PROVE  received'[u][i] < received'[u][j]
  <2>1. history' = history
    BY DEF Send
  <2>2. QED
    BY <2>1 DEF InOrder
<1> DEFINE m == received'[u][i]
           n == received'[u][j]
           lu == Len(received[u])
           Old(x) == x \in DOMAIN received[u] /\ x <= Len(received[u])
                     /\ received'[u][x] = received[u][x] /\ received'[u][x] \in Got(u)
           Added(x) == /\ x - Len(received[u]) \in DOMAIN Sent(u) /\ x > Len(received[u])
                       /\ received'[u][x] = Sent(u)[x - Len(received[u])]
                       /\ received'[u][x] \in ToSet(Sent(u))
<1>1. lu \in Nat /\ i \in Nat /\ j \in Nat
  <2>1. received'[u] \in Seq(Ids) /\ lu \in Nat
    BY SendAppends
  <2>2. DOMAIN received'[u] \subseteq Nat
    BY <2>1
  <2>3. QED
    BY <2>1, <2>2
<1>2. (Old(i) \/ Added(i)) /\ (Old(j) \/ Added(j))
  BY SendAppends
<1>3. \A x \in ToSet(Sent(u)) :
        /\ x \in Ids /\ history[x].via \in Sources /\ x \in ToSet(Queue(history[x].via))
        /\ history[x].via \in Users => history[x].via = u
        /\ history[x].via = "server" => history[x].about = u
  BY SentItems
<1>4. \A x \in Got(u) : x \in Ids /\ CameEarlier(u, x, history[x].via)
  BY Numbered DEF ReceivedEarlier
<1>5. \A x \in Ids : history[x].kind = "answer" /\ history[x].via \in Sources =>
                       history[x].via = "server" \/ history[x].via \in Users
  BY DEF AnswersPrivate, Sources
<1>6. \A x \in Ids : history[x].via \in Sources
  BY Numbered DEF Messages, Sources
<1>7. \A x \in Got(u) : /\ history[x].via \in Users => history[x].via = u
                        /\ history[x].via = "server" => history[x].about = u
  BY <1>4 DEF CameEarlier
<1>8. \A x, y \in Ids : history[x].via = "server" /\ history[x].about = u /\ history[y].via = u => x < y
  BY DEF ServerQueueFirst
<1>9. \A x \in Got(u) : \A y \in ToSet(Sent(u)) :
        ~(history[x].via = u /\ history[y].via = "server")
  <2> SUFFICES ASSUME NEW x \in Got(u), NEW y \in ToSet(Sent(u)),
                      history[x].via = u, history[y].via = "server"
               PROVE  FALSE
    OBVIOUS
  <2>1. y \in ToSet(serverQueue) /\ history[y].about = u
    BY <1>3, QueueIs
  <2>2. \A k \in DOMAIN serverQueue : history[serverQueue[k]].about # u
    BY DEF ServerQueueFirst
  <2>3. QED
    BY <2>1, <2>2 DEF ToSet
<1>10. CASE Old(i) /\ Old(j)
  BY <1>10 DEF InOrder
<1>11. CASE Added(i) /\ Old(j)
  BY <1>1, <1>11
<1>12. CASE Old(i) /\ Added(j)
  <2>1. m \in Got(u) /\ n \in ToSet(Sent(u)) /\ m \in Ids /\ n \in Ids
    BY <1>3, <1>4, <1>12
  <2>2. CASE history[m].via = history[n].via
    <3>1. PICK a \in Sources : a = history[n].via /\ n \in ToSet(Queue(a))
      BY <1>3, <2>1
    <3>2. CameEarlier(u, m, a)
      BY <1>4, <2>1, <2>2, <3>1
    <3>3. PICK k \in DOMAIN Queue(a) : Queue(a)[k] = n
      BY <3>1 DEF ToSet
    <3>4. QED
      BY <3>2, <3>3 DEF CameEarlier
  <2>3. CASE history[m].kind = "answer" /\ history[n].kind = "answer" /\ history[m].via # history[n].via
    <3>1. (history[m].via = "server" /\ history[m].about = u) \/ history[m].via = u
      BY <1>5, <1>6, <1>7, <2>1, <2>3
    <3>2. history[n].via = "server" \/ history[n].via = u
      BY <1>3, <1>5, <2>1, <2>3
    <3>3. QED
      BY <1>8, <1>9, <2>1, <2>3, <3>1, <3>2
  <2>4. QED
    BY <2>2, <2>3
<1>13. CASE Added(i) /\ Added(j)
  <2> DEFINE ui == i - lu
             uj == j - lu
  <2>1. /\ ui \in DOMAIN Sent(u) /\ uj \in DOMAIN Sent(u) /\ ui < uj
        /\ m = Sent(u)[ui] /\ n = Sent(u)[uj]
        /\ m \in ToSet(Sent(u)) /\ n \in ToSet(Sent(u))
    BY <1>1, <1>13
  <2>2. Follows(Sent(u), InTheRound)
    BY SentItems
  <2>3. \/ history[m].via = history[n].via
        \/ history[m].kind = "answer" /\ history[n].kind = "answer"
    OBVIOUS
  <2> HIDE DEF ui, uj, m, n
  <2>4. <<m, n>> \in InTheRound
    BY <2>1, <2>2 DEF Follows
  <2>5. m \in Ids /\ n \in Ids /\ Before(m, n)
    BY <2>4 DEF InTheRound
  <2>6. /\ DOMAIN readyChannels \in SUBSET Nat
        /\ \A k \in DOMAIN readyChannels : readyChannels[k] \in Channels
        /\ \A k, l \in DOMAIN readyChannels : readyChannels[k] = readyChannels[l] => k = l
    BY DEF TypeOK, ListsAreSets, IsInjective
  <2>7. ASSUME history[m].via = history[n].via
        PROVE  m < n
    <3>1. ~(\E k, l \in DOMAIN readyChannels :
              k < l /\ readyChannels[k] = history[m].via /\ readyChannels[l] = history[n].via)
      BY <2>6, <2>7
    <3>2. QED
      BY <2>5, <2>7, <3>1, Names DEF Before
  <2>8. ASSUME /\ history[m].kind = "answer" /\ history[n].kind = "answer"
               /\ history[m].via # history[n].via
        PROVE  m < n
    <3>1. /\ (history[m].via = "server" /\ history[m].about = u) \/ history[m].via = u
          /\ history[n].via = "server" \/ history[n].via = u
      BY <1>3, <1>5, <2>1, <2>5, <2>8
    <3>2. history[m].via # u
      <4>1. ~(history[m].via \in Channels)
        BY <2>5, <2>8 DEF AnswersPrivate
      <4>2. ~(\E k, l \in DOMAIN readyChannels :
                k < l /\ readyChannels[k] = history[m].via /\ readyChannels[l] = history[n].via)
        BY <2>6, <4>1
      <4>3. history[m].via = "server"
        BY <2>5, <2>8, <4>1, <4>2 DEF Before
      <4>4. QED
        BY <4>3, Names
    <3>3. QED
      BY <1>8, <2>5, <2>8, <3>1, <3>2
  <2>9. QED
    BY <2>3, <2>7, <2>8 DEF m, n
<1>14. QED
  BY <1>2, <1>10, <1>11, <1>12, <1>13

\* A round empties what it has written and keeps the rest.
LEMMA SendKeeps ==
  ASSUME Inv, Send
  PROVE  Inv'
<1>1. /\ TypeOK /\ ListsAreSets /\ NewAreNowhere /\ MembersAreServed /\ QueuedIsReady
      /\ QueuesRise /\ ReceivedEarlier /\ ServerQueueFirst /\ AnswersPrivate /\ SameOrder /\ InOrder
  BY DEF Inv, OrderInv
<1>2. /\ UNCHANGED <<phase, joined, history, dropped>>
      /\ serverQueue' = << >> /\ readyUsers' = << >> /\ readyChannels' = << >>
      /\ \A c \in Channels :
           channelQueue'[c] = IF Contains(readyChannels, c) THEN << >> ELSE channelQueue[c]
      /\ \A u \in Users : userQueue'[u] = IF Contains(readyUsers, u) THEN << >> ELSE userQueue[u]
      /\ DOMAIN channelQueue' = Channels /\ channelQueue' = [c \in Channels |-> channelQueue'[c]]
      /\ DOMAIN userQueue' = Users /\ userQueue' = [u \in Users |-> userQueue'[u]]
      /\ DOMAIN received' = Users /\ received' = [u \in Users |-> received'[u]]
  BY DEF Send
<1>3. Ids' = Ids
  BY <1>2 DEF Ids
<1>4. TypeOK'
  <2>1. << >> \in Seq(Ids) /\ Len(<< >>) = 0 /\ << >> \in Seq(Users) /\ << >> \in Seq(Channels)
    OBVIOUS
  <2>0. 0 <= ChannelQueueLen /\ 0 <= UserQueueLen
    BY SizesAssumption
  <2>2. channelQueue' \in [Channels -> Seq(Ids)]
        /\ \A c \in Channels : Len(channelQueue'[c]) <= ChannelQueueLen
    <3>1. \A c \in Channels : channelQueue'[c] \in Seq(Ids) /\ Len(channelQueue'[c]) <= ChannelQueueLen
      BY <1>1, <1>2, <2>0, <2>1 DEF TypeOK
    <3>2. QED
      BY <1>2, <3>1
  <2>3. userQueue' \in [Users -> Seq(Ids)]
        /\ \A u \in Users : Len(userQueue'[u]) <= UserQueueLen
    <3>1. \A u \in Users : userQueue'[u] \in Seq(Ids) /\ Len(userQueue'[u]) <= UserQueueLen
      BY <1>1, <1>2, <2>0, <2>1 DEF TypeOK
    <3>2. QED
      BY <1>2, <3>1
  <2>4. received' \in [Users -> Seq(Ids)]
    <3>1. \A u \in Users : received'[u] \in Seq(Ids)
      BY <1>1, SendAppends
    <3>2. QED
      BY <1>2, <3>1
  <2>5. QED
    BY <1>1, <1>2, <1>3, <2>1, <2>2, <2>3, <2>4, SizesAssumption DEF TypeOK
<1>5. ListsAreSets'
  <2>1. IsInjective(<< >>)
    BY DEF IsInjective
  <2>2. QED
    BY <1>1, <1>2, <2>1 DEF ListsAreSets
<1>6. NewAreNowhere'
  BY <1>1, <1>2 DEF NewAreNowhere
<1>7. \A a \in Sources : Queue(a)' = Queue(a) \/ Queue(a)' = << >>
  <2>1. \A a \in Sources : a = "server" \/ a \in Users \/ a \in Channels
    BY DEF Sources
  <2>2. \A c \in Channels : Queue(c)' = Queue(c) \/ Queue(c)' = << >>
    BY <1>2, QueueIs
  <2>3. \A u \in Users : Queue(u)' = Queue(u) \/ Queue(u)' = << >>
    BY <1>2, QueueIs
  <2>4. Queue("server")' = << >>
    BY <1>2, QueueIs
  <2>5. QED
    BY <2>1, <2>2, <2>3, <2>4
<1>8. QueuesRise'
  <2> SUFFICES ASSUME NEW a \in Sources
               PROVE  /\ Rising(Queue(a)')
                      /\ \A i \in DOMAIN Queue(a)' : history[Queue(a)'[i]].via = a
    <3>1. \A a \in Sources : Rising(Queue(a)') <=> Rising(Queue(a))'
      BY DEF Rising
    <3>2. QED
      BY <1>2, <3>1 DEF QueuesRise
  <2>1. CASE Queue(a)' = Queue(a)
    BY <1>1, <2>1 DEF QueuesRise
  <2>2. CASE Queue(a)' = << >>
    BY <2>2 DEF Rising
  <2>3. QED
    BY <1>7, <2>1, <2>2
<1>9. ReceivedEarlier'
  <2> SUFFICES ASSUME NEW u \in Users, NEW m \in Got(u)'
               PROVE  CameEarlier(u, m, history[m].via)'
    BY DEF ReceivedEarlier
  <2>1. m \in Got(u) \/ m \in ToSet(Sent(u))
    BY <1>1, SendAppends
  <2>2. m \in Ids /\ \E a \in Sources : a = history[m].via
    BY <1>1, <2>1, SentItems, Numbered DEF Messages, Sources
  <2>3. PICK a \in Sources : a = history[m].via
    BY <2>2
  <2>4. CASE m \in Got(u)
    <3>1. CameEarlier(u, m, a)
      BY <1>1, <2>3, <2>4 DEF ReceivedEarlier
    <3>2. \A i \in DOMAIN Queue(a)' : m < Queue(a)'[i]
      BY <1>7, <3>1 DEF CameEarlier
    <3>3. CameEarlier(u, m, a)'
      BY <1>2, <3>1, <3>2 DEF CameEarlier
    <3>4. QED
      BY <1>2, <2>3, <3>3
  <2>5. CASE m \in ToSet(Sent(u))
    <3>1. /\ a \in Users => a = u
          /\ a = "server" => history[m].about = u
          /\ a \in Channels => Contains(readyChannels, a)
          /\ a \in Users => Contains(readyUsers, u)
      BY <1>1, <2>3, <2>5, SentItems
    <3>2. Queue(a)' = << >>
      <4>1. a = "server" \/ a \in Users \/ a \in Channels
        BY DEF Sources
      <4>2. QED
        BY <1>2, <3>1, <4>1, QueueIs
    <3>3. CameEarlier(u, m, a)'
      BY <1>2, <3>1, <3>2 DEF CameEarlier
    <3>4. QED
      BY <1>2, <2>3, <3>3
  <2>6. QED
    BY <2>1, <2>4, <2>5
<1>10. ServerQueueFirst'
  BY <1>1, <1>2, <1>3 DEF ServerQueueFirst
<1>11. AnswersPrivate'
  BY <1>1, <1>2, <1>3 DEF AnswersPrivate
<1>12. OrderInv'
  BY <1>1, <1>8, <1>9, <1>10, <1>11, SendKeepsSameOrder, SendKeepsInOrder DEF OrderInv
<1>13. MembersAreServed'
  <2>1. ASSUME NEW m \in Ids, NEW u \in history[m].audience, NEW c \in Channels, history[m].via = c
        PROVE  \/ m \in Got(u)' \/ m \in dropped
               \/ m \in ToSet(channelQueue'[c]) /\ u \in Members(c)'
               \/ HasLeft(u, m, c)'
    <3>1. u \in Users
      BY <1>1, Numbered DEF Messages
    <3>2. HasLeft(u, m, c)' <=> HasLeft(u, m, c)
      BY <1>2, <1>3 DEF HasLeft
    <3>3. Members(c)' = Members(c)
      BY <1>2, SameMembers
    <3>4. \/ m \in Got(u) \/ m \in dropped
          \/ m \in ToSet(channelQueue[c]) /\ u \in Members(c)
          \/ HasLeft(u, m, c)
      BY <1>1, <2>1 DEF MembersAreServed
    <3>5. CASE m \in Got(u)
      BY <1>1, <3>1, <3>5, SendAppends
    <3>6. CASE /\ m \in ToSet(channelQueue[c]) /\ u \in Members(c)
               /\ Contains(readyChannels, c) /\ phase[u] # "gone"
      <4>1. m \in ToSet(Written(u)) /\ Sent(u) = Written(u)
        BY <1>1, <3>1, <3>6, WrittenInOrder DEF Sent
      <4>2. QED
        BY <1>1, <3>1, <4>1, SendAppends
    <3>7. CASE m \in ToSet(channelQueue[c]) /\ u \in Members(c) /\ ~Contains(readyChannels, c)
      BY <1>2, <3>3, <3>7
    <3>8. CASE phase[u] = "gone"
      BY <3>2, <3>8 DEF HasLeft
    <3>9. QED
      BY <3>2, <3>4, <3>5, <3>6, <3>7, <3>8
  <2>2. QED
    BY <1>2, <1>3, <2>1 DEF MembersAreServed
<1>14. QueuedIsReady'
  <2>1. \A c \in Channels : channelQueue'[c] = << >>
    BY <1>1, <1>2 DEF QueuedIsReady
  <2>2. ASSUME NEW u \in Users, NEW m \in ToSet(userQueue'[u])
        PROVE  history[m].kind = "talk"
    <3>1. CASE Contains(readyUsers, u)
      <4>1. userQueue'[u] = << >>
        BY <1>2, <3>1
      <4>2. QED
        BY <2>2, <4>1 DEF ToSet
    <3>2. CASE ~Contains(readyUsers, u)
      BY <1>1, <1>2, <2>2, <3>2 DEF QueuedIsReady
    <3>3. QED
      BY <3>1, <3>2
  <2>3. \A u : Contains(readyUsers, u)' = Contains(readyUsers', u)
    BY DEF Contains
  <2>4. QED
    BY <1>2, <2>1, <2>2 DEF QueuedIsReady
<1>15. QED
  BY <1>4, <1>5, <1>6, <1>12, <1>13, <1>14 DEF Inv

------------------------------------------------------------------------------
(* The invariant holds always *)

\* At first nothing waits and nobody has got anything.
LEMMA InitIsFine ==
  ASSUME Init
  PROVE  Inv
<1>1. \A p \in Paths : p \in Seq(Channels)
  <2> SUFFICES ASSUME NEW n \in 0 .. Cardinality(Channels), NEW p \in [1 .. n -> Channels]
               PROVE  p \in Seq(Channels)
    BY DEF Paths
  <2>1. n \in Nat
    OBVIOUS
  <2>2. QED
    BY <2>1
<1>2. /\ phase \in [Users -> {"new", "registered", "gone"}]
      /\ joined \in [Users -> Seq(Channels)] /\ \A u \in Users : IsInjective(joined[u])
  BY <1>1 DEF Init
<1>3. /\ serverQueue = << >> /\ readyUsers = << >> /\ readyChannels = << >>
      /\ history = << >> /\ dropped = {}
      /\ userQueue = [u \in Users |-> << >>] /\ channelQueue = [c \in Channels |-> << >>]
      /\ received = [u \in Users |-> << >>]
      /\ \A u \in Users : phase[u] = "new" => joined[u] = << >>
  BY DEF Init
<1>4. /\ Ids = {} /\ Len(<< >>) = 0 /\ DOMAIN << >> = {}
      /\ \A T : << >> \in Seq(T)
  BY <1>3 DEF Ids
<1>5. TypeOK
  <2>1. 0 <= ChannelQueueLen /\ 0 <= UserQueueLen /\ 0 <= ServerQueueLen /\ 0 <= MaxMessages
    BY SizesAssumption
  <2>2. QED
    BY <1>2, <1>3, <1>4, <2>1 DEF TypeOK
<1>6. \A u \in Users : Got(u) = {}
  BY <1>3 DEF Got, ToSet
<1>7. \A a \in Sources : Queue(a) = << >>
  BY <1>3 DEF Queue, Sources
<1>8. OrderInv
  <2>1. QueuesRise
    BY <1>4, <1>7 DEF QueuesRise, Rising
  <2>2. ReceivedEarlier /\ ServerQueueFirst /\ AnswersPrivate
    BY <1>4, <1>6 DEF ReceivedEarlier, ServerQueueFirst, AnswersPrivate
  <2>3. SameOrder /\ InOrder
    BY <1>3, <1>4 DEF SameOrder, InOrder
  <2>4. QED
    BY <2>1, <2>2, <2>3 DEF OrderInv
<1>9. ListsAreSets /\ NewAreNowhere
  <2>1. IsInjective(<< >>)
    BY DEF IsInjective
  <2>2. QED
    BY <1>2, <1>3, <2>1 DEF ListsAreSets, NewAreNowhere
<1>10. MembersAreServed
  BY <1>4 DEF MembersAreServed
<1>11. QueuedIsReady
  BY <1>3 DEF QueuedIsReady, ToSet
<1>12. QED
  BY <1>5, <1>8, <1>9, <1>10, <1>11 DEF Inv

\* A step that does nothing.
LEMMA NothingDoneKeeps ==
  ASSUME Inv, UNCHANGED vars
  PROVE  Inv'
<1>1. UNCHANGED <<phase, joined, serverQueue, userQueue, channelQueue, readyUsers,
                  readyChannels, history, received, dropped>>
  BY DEF vars, queues
<1>2. Ids' = Ids
  BY <1>1 DEF Ids
<1>3. TypeOK' /\ ListsAreSets' /\ NewAreNowhere'
  BY <1>1, <1>2 DEF Inv, TypeOK, ListsAreSets, NewAreNowhere
<1>4. (\A u : Got(u)' = Got(u)) /\ (\A a : Queue(a)' = Queue(a)) /\ (\A c : Members(c)' = Members(c))
  BY <1>1 DEF Got, Queue, Members
<1>5. OrderInv'
  <2>1. QueuesRise' /\ ServerQueueFirst' /\ AnswersPrivate'
    BY <1>1, <1>2, <1>4
       DEF Inv, OrderInv, QueuesRise, Rising, ServerQueueFirst, AnswersPrivate
  <2>2. ReceivedEarlier'
    BY <1>1, <1>4 DEF Inv, OrderInv, ReceivedEarlier, CameEarlier
  <2>3. SameOrder' /\ InOrder'
    BY <1>1 DEF Inv, OrderInv, SameOrder, InOrder
  <2>4. QED
    BY <2>1, <2>2, <2>3 DEF OrderInv
<1>6. MembersAreServed'
  BY <1>1, <1>2, <1>4 DEF Inv, MembersAreServed, HasLeft
<1>7. QueuedIsReady'
  BY <1>1 DEF Inv, QueuedIsReady, Contains
<1>8. QED
  BY <1>3, <1>5, <1>6, <1>7 DEF Inv

\* The invariant holds in every state.
LEMMA InvHolds == Spec => []Inv
<1>1. Init => Inv
  BY InitIsFine
<1>2. Inv /\ [Next]_vars => Inv'
  BY SendKeeps, HandlerKeeps, NothingDoneKeeps DEF Next
<1>3. QED
  BY <1>1, <1>2, PTL DEF Spec
------------------------------------------------------------------------------

\* Queues hold numbers of messages and keep their sizes, whatever is put into them
\* (add_message_to_queue, enqueue_to_channel_queue), and the ready list names users
\* and channels only.
THEOREM TypeCorrect == Spec => []TypeOK
<1>1. Inv => TypeOK
  BY DEF Inv
<1>2. QED
  BY <1>1, InvHolds, PTL

\* Any two users get the messages they both get in the same order, and nobody gets
\* one twice: a round serves the channels in the order of the ready list, and not in
\* the one of each user's own list (send_channel_queue_messages).
THEOREM OneOrderForAll == Spec => []SameOrder
<1>1. Inv => SameOrder
  BY DEF Inv, OrderInv
<1>2. QED
  BY <1>1, InvHolds, PTL

\* What goes through one queue arrives in the order it was composed, and so do all
\* answers to a user, although they change their queue when it registers
\* (add_message_to_queue, send_socket_messages).
THEOREM QueuesKeepOrder == Spec => []InOrder
<1>1. Inv => InOrder
  BY DEF Inv, OrderInv
<1>2. QED
  BY <1>1, InvHolds, PTL

\* A message for a channel reaches everybody who was in it when it was queued, except
\* those who have left and those for whom a full queue has lost it: joins, parts and
\* channels that go with their last member in between change nothing
\* (send_channel_queue_messages, remove_channel_data, leave_all_channels).
THEOREM MembersGetTheMessage == Spec => []EveryMemberGetsIt
<1>1. MembersAreServed => EveryMemberGetsIt
  BY DEF MembersAreServed, EveryMemberGetsIt, HasLeft
<1>2. Inv => EveryMemberGetsIt
  BY <1>1 DEF Inv
<1>3. QED
  BY <1>2, InvHolds, PTL

\* A channel with messages is on the ready list, and so is a user with answers, so
\* that the next round writes them; only private messages may wait
\* (add_channel_to_ready_list, add_message_to_queue, remove_channel_data).
THEOREM QueuedIsAnnounced == Spec => []QueuedIsReady
<1>1. Inv => QueuedIsReady
  BY DEF Inv
<1>2. QED
  BY <1>1, InvHolds, PTL

================================================================================
