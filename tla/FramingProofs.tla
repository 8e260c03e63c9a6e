----------------------------- MODULE FramingProofs -----------------------------
(***************************************************************************)
(* Proofs about Framing for every size of the buffer, every length of a    *)
(* message, every cut of the stream and any number of connections.         *)
(***************************************************************************)
EXTENDS Framing, FiniteSetTheorems, SequenceTheorems, WellFoundedInduction, TLAPS

------------------------------------------------------------------------------
(* Numbers in ascending order *)

\* A set of numbers has a least one.
LEMMA LeastNumber ==
  ASSUME NEW S \in SUBSET Nat, S # {}
  PROVE  \E x \in S : \A y \in S : x <= y
<1>1. IsWellFoundedOn(OpToRel(<, Nat), Nat)
  BY NatLessThanWellFounded, Zenon
<1>2. PICK x \in S : \A y \in S : ~(<<y, x>> \in OpToRel(<, Nat))
  BY <1>1, WFMin, Zenon
<1>3. \A y \in S : ~(y < x)
  BY <1>2 DEF OpToRel
<1>4. \A y \in S : x <= y
  BY <1>3
<1>5. QED
  BY <1>4, Zenon

IsOrder(c, places) ==
  /\ c \in [1 .. Cardinality(places) -> places]
  /\ \A i, j \in 1 .. Cardinality(places) : i < j => c[i] < c[j]

\* A finite set of numbers can be put in order: its least number comes first.
LEMMA OrderExists ==
  ASSUME NEW S \in SUBSET Nat, IsFiniteSet(S)
  PROVE  \E c : IsOrder(c, S)
<1> DEFINE Ordered(T) == \E c : IsOrder(c, T)
           Bad == {n \in Nat : \E T \in SUBSET Nat : /\ IsFiniteSet(T) /\ Cardinality(T) = n
                                                     /\ ~Ordered(T)}
<1>1. ASSUME Bad # {}
      PROVE  FALSE
  <2>1. PICK n \in Bad : \A m \in Bad : n <= m
    BY <1>1, LeastNumber
  <2>2. PICK T \in SUBSET Nat : IsFiniteSet(T) /\ Cardinality(T) = n /\ ~Ordered(T)
    BY <2>1
  <2>3. CASE n = 0
    <3>1. IsOrder(<< >>, T)
      BY <2>2, <2>3 DEF IsOrder
    <3>2. QED
      BY <2>2, <3>1
  <2>4. CASE n # 0
    <3>1. T # {}
      BY <2>2, <2>4, FS_EmptySet
    <3>2. PICK x \in T : \A y \in T : x <= y
      BY <3>1, LeastNumber
    <3>3. IsFiniteSet(T \ {x}) /\ Cardinality(T \ {x}) = n - 1
      BY <2>2, FS_RemoveElement
    <3>4. n \in Nat /\ n - 1 \in Nat /\ T \ {x} \in SUBSET Nat
      BY <2>1, <2>4
    <3>5. Ordered(T \ {x})
      <4>1. n - 1 \notin Bad
        BY <2>1, <3>4
      <4>2. QED
        BY <3>3, <3>4, <4>1
    <3>6. PICK c : /\ c \in [1 .. n - 1 -> T \ {x}]
                   /\ \A i, j \in 1 .. n - 1 : i < j => c[i] < c[j]
      BY <3>3, <3>5 DEF IsOrder
    <3> DEFINE d == [i \in 1 .. n |-> IF i = 1 THEN x ELSE c[i - 1]]
    <3>7. d \in [1 .. n -> T]
      <4>1. ASSUME NEW i \in 1 .. n, i # 1 PROVE c[i - 1] \in T
        BY <3>4, <3>6, <4>1
      <4>2. QED
        BY <4>1
    <3>8. ASSUME NEW i \in 1 .. n, NEW j \in 1 .. n, i < j PROVE d[i] < d[j]
      <4>1. j - 1 \in 1 .. n - 1 /\ d[j] = c[j - 1] /\ c[j - 1] \in T \ {x}
        BY <3>4, <3>6, <3>8
      <4>2. CASE i = 1
        <5>1. d[i] = x /\ x <= c[j - 1] /\ x # c[j - 1] /\ x \in Nat /\ c[j - 1] \in Nat
          BY <2>2, <3>2, <4>1, <4>2
        <5>2. QED
          BY <4>1, <5>1
      <4>3. CASE i # 1
        BY <3>4, <3>6, <3>8, <4>1, <4>3
      <4>4. QED
        BY <4>2, <4>3
    <3>9. IsOrder(d, T)
      BY <2>2, <3>7, <3>8 DEF IsOrder
    <3>10. QED
      BY <2>2, <3>9
  <2>5. QED
    BY <2>3, <2>4
<1>2. Cardinality(S) \in Nat
  BY FS_CardinalityType
<1>3. QED
  BY <1>1, <1>2

\* The numbers in order are all the numbers, in order.
LEMMA AscendingOrder ==
  ASSUME NEW S \in SUBSET Nat, IsFiniteSet(S)
  PROVE  IsOrder(Ascending(S), S)
<1>1. \E c : IsOrder(c, S)
  BY OrderExists
<1>2. QED
  BY <1>1, Zenon DEF IsOrder, Ascending

\* A list of all the numbers of a set that ascends is the list in order.
LEMMA OneOrder ==
  ASSUME NEW S \in SUBSET Nat, NEW t \in Nat, NEW q \in [1 .. t -> S],
         \A i, j \in 1 .. t : i < j => q[i] < q[j],
         \A x \in S : \E i \in 1 .. t : q[i] = x
  PROVE  IsFiniteSet(S) /\ Cardinality(S) = t /\ Ascending(S) = q
<1>1. IsFiniteSet(S) /\ Cardinality(S) = t
  <2>1. IsFiniteSet(1 .. t) /\ Cardinality(1 .. t) = t
    <3>1. 1 \in Int /\ t \in Int
      OBVIOUS
    <3>2. IsFiniteSet(1 .. t) /\ Cardinality(1 .. t) = IF 1 > t THEN 0 ELSE t - 1 + 1
      BY <3>1, FS_Interval, Zenon
    <3>3. QED
      BY <3>2
  <2>2. \A i, j \in 1 .. t : i # j => q[i] # q[j]
    <3> SUFFICES ASSUME NEW i \in 1 .. t, NEW j \in 1 .. t, i # j PROVE q[i] # q[j]
      OBVIOUS
    <3>1. i < j \/ j < i
      OBVIOUS
    <3>2. q[i] \in Nat /\ q[j] \in Nat
      OBVIOUS
    <3>3. QED
      BY <3>1, <3>2
  <2>3. q \in Bijection(1 .. t, S)
    BY <2>2 DEF Bijection, Injection, Surjection, IsInjective
  <2>4. ExistsBijection(1 .. t, S)
    BY <2>3 DEF ExistsBijection
  <2>5. QED
    BY <2>1, <2>4, FS_Bijection
<1> DEFINE c == Ascending(S)
<1>2. /\ c \in [1 .. t -> S]
      /\ \A i, j \in 1 .. t : i < j => c[i] < c[j]
  BY <1>1, AscendingOrder DEF IsOrder
<1> HIDE DEF c
<1> DEFINE f == [j \in 1 .. t |-> CHOOSE i \in 1 .. t : q[i] = c[j]]
<1>3. \A j \in 1 .. t : f[j] \in 1 .. t /\ q[f[j]] = c[j]
  BY <1>2
<1> HIDE DEF f
<1>4. \A i, j \in 1 .. t : i < j => f[i] < f[j]
  <2> SUFFICES ASSUME NEW i \in 1 .. t, NEW j \in 1 .. t, i < j, ~(f[i] < f[j]) PROVE FALSE
    OBVIOUS
  <2>1. c[i] < c[j] /\ q[f[i]] = c[i] /\ q[f[j]] = c[j] /\ f[i] \in 1 .. t /\ f[j] \in 1 .. t
    BY <1>2, <1>3
  <2>2. f[j] < f[i] \/ f[j] = f[i]
    BY <2>1
  <2>3. q[f[i]] \in Nat /\ q[f[j]] \in Nat
    BY <2>1
  <2>4. f[j] < f[i] => q[f[j]] < q[f[i]]
    BY <2>1
  <2>5. QED
    BY <2>1, <2>2, <2>3, <2>4
<1>5. \A j \in 1 .. t : j <= f[j]
  <2> DEFINE Bad == {j \in 1 .. t : f[j] < j}
  <2>1. ASSUME Bad # {} PROVE FALSE
    <3>1. Bad \in SUBSET Nat
      OBVIOUS
    <3>2. PICK j \in Bad : \A i \in Bad : j <= i
      BY <2>1, <3>1, LeastNumber
    <3>3. j \in 1 .. t /\ f[j] < j /\ f[j] \in 1 .. t
      BY <1>3
    <3>4. j - 1 \in 1 .. t /\ j - 1 < j /\ f[j - 1] < f[j] /\ f[j - 1] \in 1 .. t
      BY <1>3, <1>4, <3>3
    <3>5. j - 1 \in Bad
      BY <3>3, <3>4
    <3>6. QED
      BY <3>2, <3>3, <3>5
  <2>2. QED
    BY <1>3, <2>1
<1>6. \A j \in 1 .. t : f[j] <= j
  <2> DEFINE Bad == {i \in 0 .. t - 1 : f[t - i] > t - i}
  <2>1. ASSUME Bad # {} PROVE FALSE
    <3>1. Bad \in SUBSET Nat
      OBVIOUS
    <3>2. PICK i \in Bad : \A k \in Bad : i <= k
      BY <2>1, <3>1, LeastNumber
    <3> DEFINE j == t - i
    <3>3. i \in 0 .. t - 1 /\ j \in 1 .. t /\ f[j] > j /\ f[j] \in 1 .. t
      BY <1>3
    <3>4. j + 1 \in 1 .. t /\ f[j] < f[j + 1] /\ f[j + 1] \in 1 .. t
      BY <1>3, <1>4, <3>3
    <3>5. f[j + 1] > j + 1
      BY <3>3, <3>4
    <3>6. i - 1 \in 0 .. t - 1 /\ t - (i - 1) = j + 1
      BY <3>3, <3>4
    <3>7. i - 1 \in Bad
      BY <3>5, <3>6
    <3>8. i \in Nat /\ i - 1 < i
      BY <3>3
    <3>9. QED
      BY <3>2, <3>7, <3>8
  <2>2. ASSUME NEW j \in 1 .. t, ~(f[j] <= j) PROVE FALSE
    <3>1. t - j \in 0 .. t - 1 /\ t - (t - j) = j /\ f[j] > j
      BY <1>3, <2>2
    <3>2. t - j \in Bad
      BY <3>1
    <3>3. QED
      BY <2>1, <3>2
  <2>3. QED
    BY <2>2
<1>7. \A j \in 1 .. t : f[j] = j
  BY <1>3, <1>5, <1>6
<1>8. \A j \in 1 .. t : c[j] = q[j]
  BY <1>3, <1>7
<1>9. c = q
  BY <1>2, <1>8
<1>10. QED
  BY <1>1, <1>9 DEF c

------------------------------------------------------------------------------
(* Messages in a sequence of bytes *)

Bytes == Lines \cup {CR, LF}

\* Sizes and bytes are numbers; a terminator is no text.
LEMMA Sizes ==
  /\ MaxChars \in Nat /\ PrefixLen \in Nat /\ MaxLines \in Nat /\ Payload \in Nat
  /\ Payload = MaxChars - 2 /\ PrefixLen >= 2 /\ Payload > PrefixLen
  /\ CR # LF /\ CR \notin Lines /\ LF \notin Lines
<1>1. Payload = MaxChars - 2
  BY DEF Payload
<1>2. QED
  BY <1>1, SizesAssumption DEF CR, LF, Lines

\* The smaller of two numbers.
LEMMA MinOfTwo ==
  ASSUME NEW a \in Int, NEW b \in Int
  PROVE  Min({a, b}) = IF a <= b THEN a ELSE b
<1> DEFINE m == IF a <= b THEN a ELSE b
<1>1. m \in {a, b} /\ \A y \in {a, b} : m <= y
  OBVIOUS
<1> HIDE DEF m
<1>2. Min({a, b}) \in {a, b} /\ \A y \in {a, b} : Min({a, b}) <= y
  BY <1>1, Zenon DEF Min
<1>3. m <= Min({a, b}) /\ Min({a, b}) <= m /\ m \in Int /\ Min({a, b}) \in Int
  BY <1>1, <1>2
<1>4. QED
  BY <1>3 DEF m

\* The greatest number of a set with an upper bound.
LEMMA GreatestNumber ==
  ASSUME NEW n \in Nat, NEW S \in SUBSET (1 .. n), S # {}
  PROVE  Max(S) \in S /\ \A y \in S : y <= Max(S)
<1> DEFINE T == {n - x : x \in S}
<1>1. T \in SUBSET Nat /\ T # {}
  <2>1. \A x \in S : n - x \in Nat
    OBVIOUS
  <2>2. T \in SUBSET Nat
    BY <2>1
  <2>3. PICK x \in S : TRUE
    OBVIOUS
  <2>4. n - x \in T
    BY <2>3
  <2>5. QED
    BY <2>2, <2>4
<1>2. PICK z \in T : \A y \in T : z <= y
  BY <1>1, LeastNumber
<1>3. PICK x \in S : z = n - x
  BY <1>2
<1>4. \A y \in S : x >= y
  <2> SUFFICES ASSUME NEW y \in S PROVE x >= y
    OBVIOUS
  <2>1. n - x <= n - y
    BY <1>2, <1>3
  <2>2. QED
    BY <2>1
<1>5. Max(S) \in S /\ \A y \in S : Max(S) >= y
  BY <1>4, Zenon DEF Max
<1>6. QED
  BY <1>5

\* A part of a sequence.
LEMMA CutOut ==
  ASSUME NEW p \in Seq(Bytes), NEW a \in Nat, NEW n \in Nat, a + n <= Len(p)
  PROVE  /\ SubSeq(p, a + 1, a + n) \in Seq(Bytes) /\ Len(SubSeq(p, a + 1, a + n)) = n
         /\ \A i \in 1 .. n : i + a \in DOMAIN p /\ SubSeq(p, a + 1, a + n)[i] = p[i + a]
<1> DEFINE x == a + 1
           y == a + n
           g == SubSeq(p, x, y)
<1>1. x \in Int /\ y \in Int /\ \A i \in x .. y : p[i] \in Bytes
  OBVIOUS
<1>2. /\ y - x + 1 = n /\ (x <= y \/ n = 0) /\ (n = 0 => ~(x <= y))
      /\ \A i \in 1 .. n : x + i - 1 = i + a
  OBVIOUS
<1> HIDE DEF x, y
<1>3. /\ g \in Seq(Bytes) /\ Len(g) = IF x <= y THEN y - x + 1 ELSE 0
      /\ \A i \in 1 .. y - x + 1 : g[i] = p[x + i - 1]
  BY <1>1, SubSeqProperties
<1> HIDE DEF g
<1>4. /\ g \in Seq(Bytes) /\ Len(g) = n
      /\ \A i \in 1 .. n : g[i] = p[i + a]
  BY <1>2, <1>3
<1>5. \A i \in 1 .. n : i + a \in DOMAIN p
  OBVIOUS
<1>6. QED
  BY <1>4, <1>5 DEF g, x, y

\* The places of the terminators.
LEMMA EndsOf ==
  ASSUME NEW s \in Seq(Bytes)
  PROVE  /\ Ends(s) \in SUBSET Nat /\ Ends(s) \in SUBSET (1 .. Len(s)) /\ IsFiniteSet(Ends(s))
         /\ \A e \in Ends(s) : e \in 1 .. Len(s) - 1 /\ s[e] = CR /\ s[e + 1] = LF
         /\ Cardinality(Ends(s)) \in Nat
         /\ Ends(s) = {} <=> Cardinality(Ends(s)) = 0
<1>1. /\ Ends(s) \in SUBSET Nat /\ Ends(s) \in SUBSET (1 .. Len(s))
      /\ \A e \in Ends(s) : e \in 1 .. Len(s) - 1 /\ s[e] = CR /\ s[e + 1] = LF
  BY DEF Ends
<1>2. 1 \in Int /\ Len(s) \in Int
  OBVIOUS
<1>3. IsFiniteSet(1 .. Len(s))
  BY <1>2, FS_Interval, Zenon
<1>4. IsFiniteSet(Ends(s))
  BY <1>1, <1>3, FS_Subset, Zenon
<1>5. Cardinality(Ends(s)) \in Nat /\ (Ends(s) = {} <=> Cardinality(Ends(s)) = 0)
  BY <1>4, FS_CardinalityType, FS_EmptySet, Zenon
<1>6. QED
  BY <1>1, <1>4, <1>5

\* What extraction takes from the front of a buffer.
Dropped(s) == IF Ends(s) = {} THEN 0 ELSE Max(Ends(s)) + 1

\* What extraction leaves is the end of the buffer, and holds no terminator.
LEMMA RemainderOf ==
  ASSUME NEW s \in Seq(Bytes)
  PROVE  /\ Dropped(s) \in 0 .. Len(s)
         /\ Remainder(s) \in Seq(Bytes) /\ Len(Remainder(s)) = Len(s) - Dropped(s)
         /\ \A i \in 1 .. Len(Remainder(s)) : Remainder(s)[i] = s[i + Dropped(s)]
         /\ Ends(Remainder(s)) = {}
         /\ Ends(s) # {} => /\ Dropped(s) >= 2 /\ Dropped(s) - 1 \in Ends(s)
                            /\ \A e \in Ends(s) : e <= Dropped(s) - 1
<1> DEFINE d == Dropped(s)
           r == Remainder(s)
<1>1. Len(s) \in Nat /\ Ends(s) \in SUBSET (1 .. Len(s))
  BY EndsOf
<1>2. Ends(s) # {} => Max(Ends(s)) \in Ends(s) /\ \A e \in Ends(s) : e <= Max(Ends(s))
  BY <1>1, GreatestNumber
<1>3. /\ d \in 0 .. Len(s)
      /\ Ends(s) # {} => d >= 2 /\ d - 1 \in Ends(s) /\ \A e \in Ends(s) : e <= d - 1
  <2>1. CASE Ends(s) = {}
    <3>1. d = 0
      BY <2>1 DEF Dropped
    <3>2. QED
      BY <1>1, <2>1, <3>1
  <2>2. CASE Ends(s) # {}
    <3> DEFINE m == Max(Ends(s))
    <3>1. d = m + 1
      BY <2>2 DEF Dropped
    <3>2. m \in Ends(s) /\ \A e \in Ends(s) : e <= m
      BY <1>2, <2>2
    <3>3. m \in 1 .. Len(s) - 1
      BY <3>2, EndsOf
    <3> HIDE DEF m, d
    <3>4. d - 1 = m /\ d >= 2 /\ d \in 0 .. Len(s)
      BY <1>1, <3>1, <3>3
    <3>5. QED
      BY <3>2, <3>4
  <2>3. QED
    BY <2>1, <2>2
<1>4. r = SubSeq(s, d + 1, Len(s))
  <2>1. CASE Ends(s) = {}
    <3>1. d = 0 /\ r = s
      BY <2>1 DEF Dropped, Remainder
    <3>2. SubSeq(s, 0 + 1, Len(s)) = s
      OBVIOUS
    <3>3. QED
      BY <3>1, <3>2, Zenon
  <2>2. CASE Ends(s) # {}
    <3>1. Max(Ends(s)) \in Int
      BY <1>1, <1>2, <2>2
    <3>2. d + 1 = Max(Ends(s)) + 2
      BY <2>2, <3>1 DEF Dropped
    <3>3. QED
      BY <2>2, <3>2, Zenon DEF Remainder
  <2>3. QED
    BY <2>1, <2>2
<1> HIDE DEF d
<1>5. /\ r \in Seq(Bytes) /\ Len(r) = Len(s) - d
      /\ \A i \in 1 .. Len(r) : r[i] = s[i + d]
  <2> DEFINE n == Len(s)
             q == SubSeq(s, d + 1, n)
  <2>1. d \in Int /\ n \in Nat /\ 0 <= d /\ d <= n
    BY <1>1, <1>3
  <2>2. q \in Seq(Bytes) /\ Len(q) = n - d /\ \A i \in 1 .. n - d : q[i] = s[d + 1 + i - 1]
    <3>1. d + 1 <= n => /\ d + 1 \in 1 .. Len(s)
      BY <2>1
    <3>2. QED
      BY <2>1, <3>1
  <2>3. \A i \in 1 .. n - d : d + 1 + i - 1 = i + d
    BY <2>1
  <2>4. QED
    BY <1>4, <2>2, <2>3
<1> HIDE DEF r
<1>6. Ends(r) = {}
  <2> SUFFICES ASSUME NEW e \in Ends(r) PROVE FALSE
    OBVIOUS
  <2>1. e \in 1 .. Len(r) - 1 /\ r[e] = CR /\ r[e + 1] = LF
    BY DEF Ends
  <2>2. e + d \in 1 .. Len(s) - 1 /\ s[e + d] = CR /\ s[e + d + 1] = LF
    <3>1. e \in 1 .. Len(r) /\ e + 1 \in 1 .. Len(r) /\ Len(r) = Len(s) - d
      BY <1>5, <2>1
    <3>2. (e + 1) + d = e + d + 1
      BY <1>3, <2>1
    <3>3. s[e + d] = CR /\ s[(e + 1) + d] = LF
      BY <1>5, <2>1, <3>1
    <3>4. e + d \in 1 .. Len(s) - 1
      BY <1>1, <1>3, <2>1, <3>1
    <3>5. QED
      BY <3>2, <3>3, <3>4
  <2>3. e + d \in Ends(s)
    BY <2>2 DEF Ends
  <2>4. e + d <= d - 1
    BY <1>3, <2>3
  <2>5. QED
    BY <1>1, <1>3, <2>1, <2>4
<1>7. QED
  BY <1>3, <1>5, <1>6 DEF d, r

\* The bytes of an extracted message; all but the first are behind a terminator.
LEMMA MessageBytes ==
  ASSUME NEW s \in Seq(Bytes), NEW k \in 1 .. Cardinality(Ends(s))
  PROVE  /\ Messages(s)[k] \in Seq(Bytes)
         /\ \A i \in DOMAIN Messages(s)[k] :
              \E j \in DOMAIN s :
                 /\ Messages(s)[k][i] = s[j]
                 /\ k = 1 \/ \E e \in Ends(s) : e + 2 <= j
<1> DEFINE a == IF k = 1 THEN 1 ELSE Cuts(s)[k - 1] + 2
           b == Cuts(s)[k] - 1
           m == SubSeq(s, a, b)
<1>1. Messages(s)[k] = m
  BY DEF Messages
<1>2. Cuts(s)[k] \in Ends(s) /\ (k # 1 => Cuts(s)[k - 1] \in Ends(s))
  <2>1. IsOrder(Cuts(s), Ends(s)) /\ Cardinality(Ends(s)) \in Nat
    BY EndsOf, AscendingOrder DEF Cuts
  <2>2. QED
    BY <2>1 DEF IsOrder
<1>3. /\ a \in Int /\ b \in Int /\ a >= 1 /\ b <= Len(s) /\ Len(s) \in Nat
      /\ k # 1 => \E e \in Ends(s) : a = e + 2 /\ e \in Nat
  <2>1. Len(s) \in Nat /\ \A e \in Ends(s) : e \in 1 .. Len(s) - 1
    BY EndsOf
  <2>2. b \in Int /\ b <= Len(s)
    BY <1>2, <2>1
  <2>3. k # 1 => Cuts(s)[k - 1] \in Nat /\ a = Cuts(s)[k - 1] + 2
    BY <1>2, <2>1
  <2>4. a \in Int /\ a >= 1
    BY <2>3
  <2>5. QED
    BY <1>2, <2>1, <2>2, <2>3, <2>4
<1> HIDE DEF a, b
<1>4. /\ m \in Seq(Bytes) /\ Len(m) = IF a <= b THEN b - a + 1 ELSE 0
      /\ \A i \in 1 .. Len(m) : m[i] = s[a + i - 1]
  <2>1. CASE a <= b
    BY <1>3, <2>1
  <2>2. CASE ~(a <= b)
    <3>1. m = << >>
      BY <1>3, <2>2
    <3>2. QED
      BY <2>2, <3>1
  <2>3. QED
    BY <2>1, <2>2
<1> HIDE DEF m
<1>5. ASSUME NEW i \in DOMAIN m
      PROVE  \E j \in DOMAIN s : m[i] = s[j] /\ (k = 1 \/ \E e \in Ends(s) : e + 2 <= j)
  <2>1. i \in 1 .. Len(m) /\ a <= b /\ i <= b - a + 1
    BY <1>3, <1>4
  <2>2. a + i - 1 \in DOMAIN s /\ m[i] = s[a + i - 1] /\ a <= a + i - 1
    BY <1>3, <1>4, <2>1
  <2>3. k = 1 \/ \E e \in Ends(s) : e + 2 <= a + i - 1
    BY <1>3, <2>2
  <2>4. QED
    BY <2>2, <2>3
<1>6. QED
  BY <1>1, <1>4, <1>5

------------------------------------------------------------------------------
(* The inductive invariant *)

\* As long as no more bytes are outstanding than the buffer holds, they end with
\* a terminator, so that a full buffer has one.
Terminated(s) == Len(s) >= 2 /\ s[Len(s) - 1] = CR /\ s[Len(s)] = LF
EnoughRoom ==
  ~burst => /\ Len(buffer) + Len(wire) <= MaxChars
            /\ wire # << >> => Terminated(buffer \o wire)

\* What is under way belongs to the connection, but for what an earlier one has
\* left in the buffer, until the first message is complete.
Own(byte) == byte \in {CR, LF} \/ \E j \in DOMAIN sent : byte = sent[j].id
OwnInput ==
  /\ \A i \in DOMAIN wire : Own(wire[i])
  /\ (\A i \in DOMAIN buffer : Own(buffer[i])) \/ (stale /\ received = << >>)

\* What is under way are the messages from the next one on, each with its
\* terminator, and all of them unless the connection has been reset.  The
\* positions tell where each one ends.
FramedByte(line, i) ==
  IF i <= line.length THEN line.id ELSE IF i = line.length + 1 THEN CR ELSE LF
Layout(pos, r, lines, s, whole) ==
  /\ pos \in [r .. Len(lines) -> Nat] /\ pos[r] = 0
  /\ \A k \in r + 1 .. Len(lines) : pos[k] = pos[k - 1] + lines[k].length + 2
  /\ \A j, k \in r .. Len(lines) : j < k => pos[j] < pos[k]
  /\ Len(s) <= pos[Len(lines)] /\ (whole => Len(s) = pos[Len(lines)])
  /\ \A k \in r + 1 .. Len(lines), i \in 1 .. Len(s) :
       pos[k - 1] < i /\ i <= pos[k] => s[i] = FramedByte(lines[k], i - pos[k - 1])
SentInOrder ==
  ~discarded /\ ~stale =>
    /\ Len(received) <= Len(sent)
    /\ \A i \in DOMAIN received : received[i] = Handed(Text(sent[i]))
    /\ \E pos : Layout(pos, Len(received), sent, buffer \o wire, conn = "open")

Inv ==
  /\ TypeOK
  /\ conn = "free" => wire = << >>
  /\ RoomForMore
  /\ EnoughRoom /\ LostOnlyInBursts
  /\ OwnInput /\ StaleInputIsFirst
  /\ SentInOrder

------------------------------------------------------------------------------
(* The layout of what is under way *)

Texts == [id : Lines, length : 1 .. Payload - 1]

\* The bytes of a message with its terminator.
LEMMA FramedBytes ==
  ASSUME NEW line \in Texts, NEW i \in 1 .. line.length + 2
  PROVE  /\ FramedByte(line, i) \in Bytes
         /\ FramedByte(line, i) = CR <=> i = line.length + 1
         /\ FramedByte(line, line.length + 2) = LF
         /\ i <= line.length => FramedByte(line, i) = line.id
<1>1. line.id \in Lines /\ line.length \in Nat
  BY Sizes DEF Texts
<1>2. QED
  BY <1>1, Sizes DEF FramedByte, Bytes

\* Every byte is part of one message.
LEMMA LayoutPlace ==
  ASSUME NEW lines \in Seq(Texts), NEW r \in 0 .. Len(lines), NEW s \in Seq(Bytes),
         NEW pos, NEW whole, Layout(pos, r, lines, s, whole), NEW i \in 1 .. Len(s)
  PROVE  \E k \in r + 1 .. Len(lines) : pos[k - 1] < i /\ i <= pos[k]
<1> DEFINE n == Len(lines)
           S == {k \in r .. n : i <= pos[k]}
<1>1. n \in Nat /\ S \in SUBSET Nat /\ n \in S
  BY DEF Layout
<1>2. PICK k \in S : \A j \in S : k <= j
  BY <1>1, LeastNumber
<1>3. k \in r .. n /\ i <= pos[k] /\ pos[r] = 0
  BY DEF Layout
<1>4. k \in r + 1 .. n /\ k - 1 \in r .. n /\ k - 1 \notin S
  BY <1>1, <1>2, <1>3
<1>5. ~(i <= pos[k - 1])
  BY <1>4
<1>6. pos[k - 1] \in Nat
  BY <1>4 DEF Layout
<1>7. QED
  BY <1>3, <1>4, <1>5, <1>6

Part(p, s) == Len(p) <= Len(s) /\ \A i \in 1 .. Len(p) : p[i] = s[i]
LastIn(m, pos, r, lines, n) ==
  /\ m \in r .. Len(lines)
  /\ \A k \in r .. m : pos[k] <= n
  /\ \A k \in m + 1 .. Len(lines) : n < pos[k]

\* There is a last message of which a part of the stream holds the terminator.
LEMMA LayoutLast ==
  ASSUME NEW lines \in Seq(Texts), NEW r \in 0 .. Len(lines), NEW s, NEW pos, NEW whole,
         Layout(pos, r, lines, s, whole), NEW n \in Nat
  PROVE  \E m : LastIn(m, pos, r, lines, n)
<1> DEFINE N == Len(lines)
           S == {k \in r .. N : n < pos[k]}
<1>1. /\ N \in Nat /\ pos[r] = 0 /\ r \in Nat
      /\ \A k \in r .. N : pos[k] \in Nat
      /\ \A j, k \in r .. N : j < k => pos[j] < pos[k]
  BY DEF Layout
<1>2. CASE S = {}
  <2>1. \A k \in r .. N : pos[k] <= n
    BY <1>1, <1>2
  <2>2. \A k \in N + 1 .. N : n < pos[k]
    BY <1>1
  <2>3. N \in r .. N
    BY <1>1
  <2>4. QED
    BY <2>1, <2>2, <2>3 DEF LastIn
<1>3. CASE S # {}
  <2>1. S \in SUBSET Nat
    BY <1>1
  <2>2. PICK k \in S : \A j \in S : k <= j
    BY <1>3, <2>1, LeastNumber
  <2>3. k \in r .. N /\ n < pos[k] /\ k # r
    BY <1>1
  <2>4. k - 1 \in r .. N
    BY <1>1, <2>3
  <2>5. \A j \in r .. k - 1 : pos[j] <= n
    <3> SUFFICES ASSUME NEW j \in r .. k - 1, ~(pos[j] <= n) PROVE FALSE
      OBVIOUS
    <3>1. j \in r .. N /\ pos[j] \in Nat /\ j < k
      BY <1>1, <2>3
    <3>2. j \in S
      BY <3>1
    <3>3. QED
      BY <2>2, <2>3, <3>1, <3>2
  <2>6. \A j \in k .. N : n < pos[j]
    <3> SUFFICES ASSUME NEW j \in k .. N PROVE n < pos[j]
      OBVIOUS
    <3>1. j \in r .. N /\ pos[j] \in Nat /\ pos[k] \in Nat /\ (j = k \/ k < j)
      BY <1>1, <2>3
    <3>2. pos[k] <= pos[j]
      BY <1>1, <2>3, <3>1
    <3>3. QED
      BY <2>3, <3>1, <3>2
  <2>7. k - 1 + 1 = k
    BY <2>3
  <2>8. QED
    BY <2>4, <2>5, <2>6, <2>7 DEF LastIn
<1>4. QED
  BY <1>2, <1>3

\* The facts about a message in the stream.
LEMMA LayoutFacts ==
  ASSUME NEW lines \in Seq(Texts), NEW r \in 0 .. Len(lines), NEW s \in Seq(Bytes),
         NEW pos, NEW whole, Layout(pos, r, lines, s, whole), NEW k \in r + 1 .. Len(lines)
  PROVE  /\ lines[k] \in Texts /\ lines[k].length \in Nat
         /\ pos[k - 1] \in Nat /\ pos[k] \in Nat /\ pos[k] = pos[k - 1] + lines[k].length + 2
         /\ \A i \in 1 .. Len(s) :
              pos[k - 1] < i /\ i <= pos[k] => s[i] = FramedByte(lines[k], i - pos[k - 1])
<1>1. k \in 1 .. Len(lines) /\ k \in r .. Len(lines) /\ k - 1 \in r .. Len(lines)
  OBVIOUS
<1>2. lines[k] \in Texts
  BY <1>1
<1>3. lines[k].length \in Nat
  BY <1>2, Sizes DEF Texts
<1>4. pos[k - 1] \in Nat /\ pos[k] \in Nat /\ pos[k] = pos[k - 1] + lines[k].length + 2
  BY <1>1 DEF Layout
<1>5. \A i \in 1 .. Len(s) :
        pos[k - 1] < i /\ i <= pos[k] => s[i] = FramedByte(lines[k], i - pos[k - 1])
  BY DEF Layout
<1>6. QED
  BY <1>2, <1>3, <1>4, <1>5

\* The terminators of a first part of the stream are those of its messages.
LEMMA LayoutEnds ==
  ASSUME NEW lines \in Seq(Texts), NEW r \in 0 .. Len(lines), NEW s \in Seq(Bytes),
         NEW pos, NEW whole, Layout(pos, r, lines, s, whole),
         NEW p \in Seq(Bytes), Part(p, s), NEW m, LastIn(m, pos, r, lines, Len(p))
  PROVE  /\ \A k \in r + 1 .. m : pos[k] - 1 \in Ends(p)
         /\ \A e \in Ends(p) : \E k \in r + 1 .. m : e = pos[k] - 1
<1> DEFINE N == Len(lines)
<1>1. /\ N \in Nat /\ r \in Nat /\ m \in Nat /\ r <= m /\ m <= N
      /\ \A k \in r .. m : pos[k] <= Len(p)
      /\ \A k \in m + 1 .. N : Len(p) < pos[k]
  BY DEF LastIn
<1>2. /\ Len(p) \in Nat /\ Len(s) \in Nat /\ Len(p) <= Len(s)
      /\ \A i \in 1 .. Len(p) : p[i] = s[i]
  BY DEF Part
<1>3. ASSUME NEW k \in r + 1 .. m
      PROVE  pos[k] - 1 \in Ends(p)
  <2>1. k \in r + 1 .. N /\ k \in r .. m
    BY <1>1
  <2> DEFINE line == lines[k]
             a == pos[k - 1]
             b == pos[k]
             len == line.length
  <2>2. /\ line \in Texts /\ len \in Nat /\ a \in Nat /\ b = a + len + 2 /\ b <= Len(p)
        /\ \A i \in 1 .. Len(s) : a < i /\ i <= b => s[i] = FramedByte(line, i - a)
    <3>1. b <= Len(p)
      BY <1>1, <2>1
    <3>2. /\ line \in Texts /\ len \in Nat /\ a \in Nat /\ b = a + len + 2
          /\ \A i \in 1 .. Len(s) : a < i /\ i <= b => s[i] = FramedByte(line, i - a)
      BY <2>1, LayoutFacts
    <3>3. QED
      BY <3>1, <3>2
  <2>3. FramedByte(line, len + 1) = CR /\ FramedByte(line, len + 2) = LF
    <3>1. line.length = len
      BY DEF len
    <3> HIDE DEF len, a, b
    <3>2. len + 1 \in 1 .. len + 2
      BY <2>2
    <3>3. len + 1 \in 1 .. line.length + 2 /\ len + 1 = line.length + 1
      BY <3>1, <3>2
    <3>4. FramedByte(line, len + 1) = CR /\ FramedByte(line, line.length + 2) = LF
      BY <2>2, <3>3, FramedBytes
    <3>5. QED
      BY <3>1, <3>4
  <2> HIDE DEF line, a, b, len
  <2>4. /\ b - 1 \in 1 .. Len(p) - 1 /\ b - 1 \in 1 .. Len(s) /\ b \in 1 .. Len(s)
        /\ b - 1 \in 1 .. Len(p) /\ b \in 1 .. Len(p) /\ b - 1 + 1 = b
        /\ a < b - 1 /\ a < b /\ b - 1 <= b /\ b <= b /\ b - 1 - a = len + 1 /\ b - a = len + 2
    <3>1. /\ a \in Nat /\ len \in Nat /\ b = a + len + 2 /\ b <= Len(p)
          /\ Len(p) \in Nat /\ Len(s) \in Nat /\ Len(p) <= Len(s)
      BY <1>2, <2>2
    <3>2. b \in Nat /\ b >= 2 /\ b <= Len(s)
      BY <3>1
    <3>3. QED
      BY <3>1, <3>2
  <2>5. s[b - 1] = CR /\ s[b] = LF
    BY <2>2, <2>3, <2>4
  <2>6. p[b - 1] = CR /\ p[b] = LF
    BY <1>2, <2>4, <2>5
  <2>7. b - 1 \in Ends(p)
    BY <2>4, <2>6 DEF Ends
  <2>8. QED
    BY <2>7 DEF b
<1>4. ASSUME NEW e \in Ends(p)
      PROVE  \E k \in r + 1 .. m : e = pos[k] - 1
  <2>1. e \in 1 .. Len(p) - 1 /\ p[e] = CR /\ e \in 1 .. Len(p) /\ e \in 1 .. Len(s)
    BY <1>2 DEF Ends
  <2>2. s[e] = CR
    BY <1>2, <2>1
  <2>3. PICK k \in r + 1 .. N : pos[k - 1] < e /\ e <= pos[k]
    BY <2>1, LayoutPlace
  <2> DEFINE line == lines[k]
             a == pos[k - 1]
             b == pos[k]
             len == line.length
  <2>4. /\ line \in Texts /\ len \in Nat /\ a \in Nat /\ b = a + len + 2 /\ a < e /\ e <= b
        /\ s[e] = FramedByte(line, e - a)
    BY <2>1, <2>3, LayoutFacts
  <2>5. \A i \in 1 .. len + 2 : FramedByte(line, i) = CR => i = len + 1
    BY <2>4, FramedBytes
  <2> HIDE DEF line, a, b, len
  <2>6. e - a \in 1 .. len + 2
    BY <2>1, <2>4
  <2>7. e - a = len + 1
    BY <2>2, <2>4, <2>5, <2>6
  <2>8. e = b - 1 /\ b <= Len(p)
    BY <1>2, <2>1, <2>4, <2>7
  <2>9. ~(k \in m + 1 .. N)
    <3>1. k \in m + 1 .. N => Len(p) < pos[k]
      BY <1>1
    <3>2. b \in Nat
      BY <2>4
    <3>3. QED
      BY <1>2, <2>8, <3>1, <3>2 DEF b
  <2>10. k \in r + 1 .. m
    BY <1>1, <2>3, <2>9
  <2>11. QED
    BY <2>8, <2>10 DEF b
<1>5. QED
  BY <1>3, <1>4

\* Extraction from a first part of the stream yields the next messages, as sent,
\* and drops them.
LEMMA LayoutExtraction ==
  ASSUME NEW lines \in Seq(Texts), NEW r \in 0 .. Len(lines), NEW s \in Seq(Bytes),
         NEW pos, NEW whole, Layout(pos, r, lines, s, whole),
         NEW p \in Seq(Bytes), Part(p, s)
  PROVE  \E m \in r .. Len(lines) :
           /\ Cardinality(Ends(p)) = m - r
           /\ \A k \in 1 .. m - r : Messages(p)[k] = Text(lines[r + k])
           /\ Dropped(p) = pos[m] /\ pos[m] <= Len(p)
<1> DEFINE N == Len(lines)
<1>1. PICK m : LastIn(m, pos, r, lines, Len(p))
  <2>1. Len(p) \in Nat
    OBVIOUS
  <2>2. QED
    BY <2>1, LayoutLast
<1>2. /\ N \in Nat /\ r \in Nat /\ m \in Nat /\ r <= m /\ m <= N
      /\ \A k \in r .. m : pos[k] <= Len(p)
      /\ Len(p) \in Nat /\ Len(s) \in Nat /\ Len(p) <= Len(s)
      /\ \A i \in 1 .. Len(p) : p[i] = s[i]
  BY <1>1 DEF LastIn, Part
<1> DEFINE E == {pos[k] - 1 : k \in r + 1 .. m}
           t == m - r
           q == [j \in 1 .. t |-> pos[r + j] - 1]
<1>3. Ends(p) = E
  <2>1. /\ \A k \in r + 1 .. m : pos[k] - 1 \in Ends(p)
        /\ \A e \in Ends(p) : \E k \in r + 1 .. m : e = pos[k] - 1
    <3> HIDE DEF E, t, q
    <3>1. QED
      BY <1>1, LayoutEnds
  <2>2. QED
    BY <2>1
<1>4. /\ pos[r] = 0
      /\ \A k \in r .. N : pos[k] \in Nat
      /\ \A j, k \in r .. N : j < k => pos[j] < pos[k]
  BY <1>2 DEF Layout
<1>5. E \in SUBSET Nat
  BY EndsOf, <1>3
<1>6. IsFiniteSet(E) /\ Cardinality(E) = t /\ Ascending(E) = q
  <2>1. t \in Nat
    BY <1>2
  <2>2. q \in [1 .. t -> E]
    <3>1. ASSUME NEW j \in 1 .. t PROVE pos[r + j] - 1 \in E
      <4>1. r + j \in r + 1 .. m
        BY <1>2
      <4>2. QED
        BY <4>1
    <3>2. QED
      BY <3>1
  <2>3. ASSUME NEW i \in 1 .. t, NEW j \in 1 .. t, i < j PROVE q[i] < q[j]
    <3>1. r + i \in r .. N /\ r + j \in r .. N /\ r + i < r + j
      BY <1>2, <2>3
    <3>2. pos[r + i] < pos[r + j] /\ pos[r + i] \in Nat /\ pos[r + j] \in Nat
      BY <1>4, <3>1
    <3>3. QED
      BY <3>2
  <2>4. ASSUME NEW x \in E PROVE \E i \in 1 .. t : q[i] = x
    <3>1. PICK k \in r + 1 .. m : x = pos[k] - 1
      OBVIOUS
    <3>2. k - r \in 1 .. t /\ r + (k - r) = k
      BY <1>2
    <3>3. q[k - r] = x
      BY <3>1, <3>2
    <3>4. QED
      BY <3>2, <3>3
  <2> HIDE DEF E, q, t
  <2>5. QED
    BY <1>5, <2>1, <2>2, <2>3, <2>4, OneOrder
<1>7. ASSUME NEW k \in 1 .. t
      PROVE  Messages(p)[k] = Text(lines[r + k])
  <2> DEFINE line == lines[r + k]
             a == pos[r + k - 1]
             b == pos[r + k]
             len == line.length
  <2>1. /\ r + k \in r + 1 .. N /\ r + k \in r .. m /\ k \in Nat /\ k >= 1
        /\ k # 1 => k - 1 \in 1 .. t /\ r + (k - 1) = r + k - 1
        /\ k = 1 => r + k - 1 = r
    BY <1>2
  <2>2. /\ line \in Texts /\ len \in Nat /\ a \in Nat /\ b = a + len + 2
        /\ \A i \in 1 .. Len(s) : a < i /\ i <= b => s[i] = FramedByte(line, i - a)
    BY <2>1, LayoutFacts
  <2>3. b <= Len(p)
    BY <1>2, <2>1
  <2>4. Cuts(p)[k] = b - 1 /\ (k # 1 => Cuts(p)[k - 1] = a - 1) /\ (k = 1 => a = 0)
    BY <1>3, <1>4, <1>6, <2>1 DEF Cuts
  <2>5. Messages(p)[k] = SubSeq(p, IF k = 1 THEN 1 ELSE Cuts(p)[k - 1] + 2, Cuts(p)[k] - 1)
    BY <1>3, <1>6 DEF Messages
  <2>6. \A i \in 1 .. len : FramedByte(line, i) = line.id
    <3> SUFFICES ASSUME NEW i \in 1 .. len PROVE FramedByte(line, i) = line.id
      OBVIOUS
    <3>1. i \in 1 .. line.length + 2 /\ i <= line.length
      BY <2>2
    <3>2. QED
      BY <2>2, <3>1, FramedBytes
  <2>7. Text(line) = [i \in 1 .. len |-> line.id]
    BY DEF Text
  <2> HIDE DEF line, a, b, len
  <2>8. Messages(p)[k] = SubSeq(p, a + 1, a + len)
    <3>1. (IF k = 1 THEN 1 ELSE Cuts(p)[k - 1] + 2) = a + 1
      BY <2>2, <2>4
    <3>2. Cuts(p)[k] - 1 = a + len
      BY <2>2, <2>4
    <3>3. QED
      BY <2>5, <3>1, <3>2
  <2>9. SubSeq(p, a + 1, a + len) = [i \in 1 .. len |-> line.id]
    <3>1. a \in Nat /\ len \in Nat /\ a + len <= Len(p)
      BY <1>2, <2>2, <2>3
    <3> DEFINE g == SubSeq(p, a + 1, a + len)
    <3>2. g \in Seq(Bytes) /\ Len(g) = len /\ \A i \in 1 .. len : g[i] = p[i + a]
      BY <3>1, CutOut
    <3> HIDE DEF g
    <3>3. ASSUME NEW i \in 1 .. len PROVE p[i + a] = line.id
      <4> DEFINE j == i + a
      <4>1. j \in 1 .. Len(p) /\ j \in 1 .. Len(s) /\ a < j /\ j <= b /\ j - a = i
        BY <1>2, <2>2, <2>3
      <4> HIDE DEF j
      <4>2. p[j] = s[j] /\ s[j] = FramedByte(line, j - a)
        BY <1>2, <2>2, <4>1
      <4>3. p[j] = line.id
        BY <2>6, <4>1, <4>2
      <4>4. QED
        BY <4>3 DEF j
    <3>4. g = [i \in 1 .. len |-> line.id]
      <4>1. g = [i \in 1 .. len |-> g[i]]
        BY <2>2, <3>2
      <4>2. \A i \in 1 .. len : g[i] = line.id
        BY <3>2, <3>3
      <4>3. QED
        BY <4>1, <4>2
    <3>5. QED
      BY <3>4 DEF g
  <2>10. QED
    BY <2>7, <2>8, <2>9 DEF line
<1>8. Dropped(p) = pos[m]
  <2>1. CASE t = 0
    <3>1. Ends(p) = {} /\ m = r
      BY <1>2, <1>3, <1>6, <2>1, FS_EmptySet
    <3>2. QED
      BY <1>4, <3>1 DEF Dropped
  <2>2. CASE t # 0
    <3>1. m \in r + 1 .. m /\ m \in r .. N
      BY <1>2, <2>2
    <3>2. pos[m] - 1 \in Ends(p)
      BY <1>3, <3>1
    <3>3. Max(Ends(p)) \in Ends(p) /\ pos[m] - 1 <= Max(Ends(p))
      <4>1. Ends(p) \in SUBSET (1 .. Len(p)) /\ Ends(p) # {} /\ Len(p) \in Nat
        BY <1>2, <3>2, EndsOf
      <4> HIDE DEF E
      <4>2. Max(Ends(p)) \in Ends(p) /\ \A y \in Ends(p) : y <= Max(Ends(p))
        BY <4>1, GreatestNumber
      <4>3. QED
        BY <3>2, <4>2
    <3>4. PICK k \in r + 1 .. m : Max(Ends(p)) = pos[k] - 1
      BY <1>3, <3>3
    <3>5. k \in r .. N /\ pos[k] \in Nat /\ pos[m] \in Nat /\ (k < m => pos[k] < pos[m])
      BY <1>2, <1>4, <3>1
    <3>6. k = m
      BY <1>2, <3>3, <3>4, <3>5
    <3>7. Max(Ends(p)) + 1 = pos[m]
      BY <3>4, <3>5, <3>6
    <3>8. QED
      BY <3>2, <3>7 DEF Dropped
  <2>3. QED
    BY <2>1, <2>2
<1>9. pos[m] <= Len(p) /\ m \in r .. N
  BY <1>2
<1>10. QED
  BY <1>3, <1>6, <1>7, <1>8, <1>9

\* The layout of what is left when messages have been taken from the front.
LEMMA LayoutShift ==
  ASSUME NEW lines \in Seq(Texts), NEW r \in 0 .. Len(lines), NEW s \in Seq(Bytes),
         NEW pos, NEW whole, Layout(pos, r, lines, s, whole),
         NEW m \in r .. Len(lines), pos[m] <= Len(s),
         NEW u \in Seq(Bytes), Len(u) = Len(s) - pos[m],
         \A i \in 1 .. Len(u) : u[i] = s[i + pos[m]]
  PROVE  \E new : Layout(new, m, lines, u, whole)
<1> DEFINE N == Len(lines)
           d == pos[m]
           new == [k \in m .. N |-> pos[k] - d]
<1>1. /\ N \in Nat /\ r \in Nat /\ m \in Nat /\ r <= m /\ m <= N
      /\ Len(u) \in Nat /\ Len(s) \in Nat
      /\ m \in r .. N /\ N \in r .. N /\ m \in m .. N /\ N \in m .. N
  OBVIOUS
<1>2. /\ \A k \in r .. N : pos[k] \in Nat
      /\ \A j, k \in r .. N : j < k => pos[j] < pos[k]
      /\ Len(s) <= pos[N] /\ (whole => Len(s) = pos[N])
  BY <1>1 DEF Layout
<1>3. d \in Nat /\ Len(u) = Len(s) - d /\ \A i \in 1 .. Len(u) : u[i] = s[i + d]
  BY <1>1, <1>2
<1>4. ASSUME NEW k \in m .. N
      PROVE  k \in r .. N /\ pos[k] \in Nat /\ d <= pos[k] /\ pos[k] - d \in Nat
  <2>1. k \in r .. N /\ (k = m \/ m < k)
    BY <1>1
  <2>2. pos[k] \in Nat /\ pos[m] \in Nat /\ (k = m \/ pos[m] < pos[k])
    BY <1>1, <1>2, <2>1
  <2>3. QED
    BY <2>1, <2>2
<1>5. new \in [m .. N -> Nat] /\ new[m] = 0
  BY <1>1, <1>3, <1>4
<1>6. ASSUME NEW k \in m + 1 .. N
      PROVE  new[k] = new[k - 1] + lines[k].length + 2
  <2>1. k \in r + 1 .. N /\ k - 1 \in m .. N /\ k \in m .. N
    BY <1>1
  <2> DEFINE len == lines[k].length
             a == pos[k - 1]
             b == pos[k]
  <2>2. len \in Nat /\ a \in Nat /\ b \in Nat /\ b = a + len + 2
    BY <2>1, LayoutFacts
  <2>3. new[k] = b - d /\ new[k - 1] = a - d
    BY <2>1
  <2> HIDE DEF new, d, len, a, b
  <2>4. new[k] = new[k - 1] + len + 2
    BY <1>3, <2>2, <2>3
  <2>5. QED
    BY <2>4 DEF len
<1>7. ASSUME NEW j \in m .. N, NEW k \in m .. N, j < k
      PROVE  new[j] < new[k]
  <2>1. pos[j] \in Nat /\ pos[k] \in Nat /\ pos[j] < pos[k]
    BY <1>2, <1>4, <1>7
  <2>2. QED
    BY <1>3, <2>1
<1>8. Len(u) <= new[N] /\ (whole => Len(u) = new[N])
  <2>1. new[N] = pos[N] - d /\ pos[N] \in Nat
    BY <1>1, <1>4
  <2>2. /\ Len(u) = Len(s) - d /\ d \in Nat /\ Len(s) \in Nat
        /\ Len(s) <= pos[N] /\ (whole => Len(s) = pos[N])
    BY <1>1, <1>2, <1>3
  <2> HIDE DEF new, d
  <2>3. QED
    BY <2>1, <2>2
<1>9. ASSUME NEW k \in m + 1 .. N, NEW i \in 1 .. Len(u), new[k - 1] < i, i <= new[k]
      PROVE  u[i] = FramedByte(lines[k], i - new[k - 1])
  <2>1. k \in r + 1 .. N /\ k - 1 \in m .. N /\ k \in m .. N
    BY <1>1
  <2> DEFINE line == lines[k]
             a == pos[k - 1]
             b == pos[k]
  <2>2. /\ a \in Nat /\ b \in Nat /\ new[k] = b - d /\ new[k - 1] = a - d
        /\ \A j \in 1 .. Len(s) : a < j /\ j <= b => s[j] = FramedByte(line, j - a)
    BY <2>1, LayoutFacts
  <2> HIDE DEF line, a, b, new, d
  <2>3. i + d \in 1 .. Len(s) /\ a < i + d /\ i + d <= b /\ i + d - a = i - new[k - 1]
    BY <1>1, <1>3, <1>9, <2>2
  <2>4. s[i + d] = FramedByte(line, i - new[k - 1])
    <3> DEFINE j == i + d
    <3>1. j \in 1 .. Len(s) /\ a < j /\ j <= b
      BY <2>3
    <3>2. j - a = i - new[k - 1]
      BY <1>1, <1>3, <2>2, <2>3
    <3> HIDE DEF j
    <3>3. s[j] = FramedByte(line, j - a)
      BY <2>2, <3>1
    <3>4. s[j] = FramedByte(line, i - new[k - 1])
      BY <3>2, <3>3
    <3>5. QED
      BY <3>4 DEF j
  <2>5. QED
    BY <1>3, <2>4 DEF line
<1>10. Layout(new, m, lines, u, whole)
  <2> HIDE DEF new, d
  <2>1. QED
    BY <1>5, <1>6, <1>7, <1>8, <1>9 DEF Layout
<1>11. QED
  BY <1>10

\* A first part of the stream has the same layout.
LEMMA LayoutPart ==
  ASSUME NEW lines \in Seq(Texts), NEW r \in 0 .. Len(lines), NEW s \in Seq(Bytes),
         NEW pos, NEW whole, Layout(pos, r, lines, s, whole),
         NEW p \in Seq(Bytes), Part(p, s)
  PROVE  Layout(pos, r, lines, p, FALSE)
<1>1. /\ Len(p) \in Nat /\ Len(s) \in Nat /\ Len(p) <= Len(s)
      /\ \A i \in 1 .. Len(p) : p[i] = s[i] /\ i \in 1 .. Len(s)
  BY DEF Part
<1>2. Len(p) <= pos[Len(lines)]
  <2>1. Len(lines) \in r .. Len(lines)
    OBVIOUS
  <2>2. pos[Len(lines)] \in Nat /\ Len(s) <= pos[Len(lines)]
    BY <2>1 DEF Layout
  <2>3. QED
    BY <1>1, <2>2
<1>3. \A k \in r + 1 .. Len(lines), i \in 1 .. Len(p) :
        pos[k - 1] < i /\ i <= pos[k] => p[i] = FramedByte(lines[k], i - pos[k - 1])
  BY <1>1 DEF Layout
<1>4. QED
  BY <1>2, <1>3 DEF Layout

\* A terminator at the end of a sequence of bytes.
LEMMA TerminatorAdded ==
  ASSUME NEW v \in Seq(Bytes)
  PROVE  /\ v \o <<CR, LF>> \in Seq(Bytes) /\ Len(v \o <<CR, LF>>) = Len(v) + 2
         /\ \A i \in 1 .. Len(v) : (v \o <<CR, LF>>)[i] = v[i]
         /\ (v \o <<CR, LF>>)[Len(v) + 1] = CR /\ (v \o <<CR, LF>>)[Len(v) + 2] = LF
<1> DEFINE ending == <<CR, LF>>
           n == Len(v)
           u == v \o ending
<1>1. ending \in Seq(Bytes) /\ Len(ending) = 2 /\ ending[1] = CR /\ ending[2] = LF
  BY DEF Bytes
<1>2. n \in Nat
  OBVIOUS
<1> HIDE DEF ending
<1>3. /\ u \in Seq(Bytes) /\ Len(u) = n + Len(ending)
      /\ \A i \in 1 .. n + Len(ending) : u[i] = IF i <= n THEN v[i] ELSE ending[i - n]
  BY <1>1, ConcatProperties, Zenon
<1>4. /\ u \in Seq(Bytes) /\ Len(u) = n + 2
      /\ \A i \in 1 .. n + 2 : u[i] = IF i <= n THEN v[i] ELSE ending[i - n]
  BY <1>1, <1>3
<1> HIDE DEF n, u
<1>5. /\ \A i \in 1 .. n : i \in 1 .. n + 2 /\ i <= n
      /\ n + 1 \in 1 .. n + 2 /\ ~(n + 1 <= n) /\ n + 1 - n = 1
      /\ n + 2 \in 1 .. n + 2 /\ ~(n + 2 <= n) /\ n + 2 - n = 2
  BY <1>2
<1>6. \A i \in 1 .. n : u[i] = v[i]
  BY <1>4, <1>5
<1>7. u[n + 1] = ending[1] /\ u[n + 2] = ending[2]
  <2> DEFINE x == n + 1
             y == n + 2
  <2>1. x \in 1 .. n + 2 /\ ~(x <= n) /\ x - n = 1 /\ y \in 1 .. n + 2 /\ ~(y <= n) /\ y - n = 2
    BY <1>2, <1>5
  <2> HIDE DEF x, y
  <2>2. u[x] = ending[x - n] /\ u[y] = ending[y - n]
    BY <1>4, <2>1
  <2>3. u[x] = ending[1] /\ u[y] = ending[2]
    BY <2>1, <2>2
  <2>4. QED
    BY <2>3 DEF x, y
<1>8. /\ u \in Seq(Bytes) /\ Len(u) = n + 2 /\ \A i \in 1 .. n : u[i] = v[i]
      /\ u[n + 1] = CR /\ u[n + 2] = LF
  BY <1>1, <1>4, <1>6, <1>7
<1>9. QED
  BY <1>8 DEF n, u, ending

\* A message written to the end of all that was sent.
LEMMA LayoutWrite ==
  ASSUME NEW lines \in Seq(Texts), NEW r \in 0 .. Len(lines), NEW s \in Seq(Bytes),
         NEW pos, Layout(pos, r, lines, s, TRUE), NEW line \in Texts
  PROVE  \E new : Layout(new, r, Append(lines, line), s \o Text(line) \o <<CR, LF>>, TRUE)
<1> DEFINE N == Len(lines)
           len == line.length
           a == pos[N]
           b == a + len + 2
           more == Append(lines, line)
           u == s \o Text(line) \o <<CR, LF>>
           new == [k \in r .. N + 1 |-> IF k = N + 1 THEN b ELSE pos[k]]
<1>1. /\ N \in Nat /\ r \in Nat /\ r <= N /\ N \in r .. N
      /\ Len(more) = N + 1 /\ more[N + 1] = line /\ \A k \in 1 .. N : more[k] = lines[k]
  OBVIOUS
<1>2. /\ pos[r] = 0 /\ \A k \in r .. N : pos[k] \in Nat
      /\ \A j, k \in r .. N : j < k => pos[j] < pos[k]
      /\ \A k \in r + 1 .. N : pos[k] = pos[k - 1] + lines[k].length + 2
      /\ Len(s) = a /\ a \in Nat
  BY <1>1 DEF Layout
<1>3. len \in Nat /\ line.id \in Lines /\ line.id \in Bytes
  BY Sizes DEF Texts, Bytes
<1>4. /\ u \in Seq(Bytes) /\ Len(u) = b
      /\ \A i \in 1 .. a : u[i] = s[i]
      /\ \A i \in a + 1 .. b : u[i] = FramedByte(line, i - a)
  <2> DEFINE text == Text(line)
             v == s \o text
             ending == <<CR, LF>>
  <2>1. text \in Seq(Bytes) /\ Len(text) = len /\ \A i \in 1 .. len : text[i] = line.id
    <3> DEFINE id == line.id
    <3>1. text = [i \in 1 .. len |-> id]
      BY DEF Text
    <3> HIDE DEF text, len, id
    <3>2. len \in Nat /\ id \in Bytes
      BY <1>3 DEF id
    <3>3. text \in Seq(Bytes) /\ Len(text) = len /\ \A i \in 1 .. len : text[i] = id
      BY <3>1, <3>2
    <3>4. QED
      BY <3>3 DEF id
  <2>2. ending \in Seq(Bytes) /\ Len(ending) = 2 /\ ending[1] = CR /\ ending[2] = LF
    BY DEF Bytes
  <2> HIDE DEF text, ending
  <2>3. /\ v \in Seq(Bytes) /\ Len(v) = a + len
        /\ \A i \in 1 .. a : v[i] = s[i]
        /\ \A i \in a + 1 .. a + len : v[i] = text[i - a]
    <3>1. Len(s) = a /\ a \in Nat
      BY <1>2
    <3> HIDE DEF a, len
    <3>2. v \in Seq(Bytes) /\ Len(v) = a + len
      BY <1>3, <2>1, <3>1
    <3>3. \A i \in 1 .. a : v[i] = s[i]
      BY <1>3, <2>1, <3>1
    <3>4. \A i \in a + 1 .. a + len : v[i] = text[i - a]
      BY <1>3, <2>1, <3>1
    <3>5. QED
      BY <3>2, <3>3, <3>4
  <2>4. u = v \o ending
    BY DEF text, ending
  <2> HIDE DEF v, u
  <2>5. /\ u \in Seq(Bytes) /\ Len(u) = a + len + 2
        /\ \A i \in 1 .. a + len : u[i] = v[i]
        /\ u[a + len + 1] = CR /\ u[a + len + 2] = LF
    <3>1. a \in Nat /\ len \in Nat
      BY <1>2, <1>3
    <3> HIDE DEF a, len
    <3>2. a + len + 1 - (a + len) = 1 /\ a + len + 2 - (a + len) = 2
      BY <3>1
    <3> DEFINE n == a + len
    <3>3. /\ u \in Seq(Bytes) /\ Len(u) = Len(v) + 2
          /\ \A i \in 1 .. Len(v) : u[i] = v[i]
          /\ u[Len(v) + 1] = CR /\ u[Len(v) + 2] = LF
      BY <2>3, <2>4, TerminatorAdded DEF ending
    <3>4. Len(v) = n
      BY <2>3
    <3> HIDE DEF n
    <3>5. /\ u \in Seq(Bytes) /\ Len(u) = n + 2
          /\ \A i \in 1 .. n : u[i] = v[i]
          /\ u[n + 1] = CR /\ u[n + 2] = LF
      BY <3>3, <3>4
    <3>6. QED
      BY <3>5 DEF n
  <2>6. ASSUME NEW i \in a + 1 .. b PROVE u[i] = FramedByte(line, i - a)
    <3>1. a \in Nat /\ len \in Nat /\ b = a + len + 2
      BY <1>2, <1>3
    <3> HIDE DEF a, len, b
    <3>2. CASE i <= a + len
      <4>1. i \in a + 1 .. a + len /\ i \in 1 .. a + len /\ i - a \in 1 .. len
        BY <3>1, <3>2
      <4>2. u[i] = line.id
        BY <2>1, <2>3, <2>5, <4>1
      <4>3. FramedByte(line, i - a) = line.id
        BY <3>1, <4>1 DEF FramedByte, len
      <4>4. QED
        BY <4>2, <4>3
    <3>3. CASE i = a + len + 1
      <4>1. i - a = len + 1 /\ ~(i - a <= len)
        BY <3>1, <3>3
      <4>2. QED
        BY <2>5, <3>3, <4>1 DEF FramedByte, len
    <3>4. CASE i = a + len + 2
      <4>1. i - a = len + 2 /\ ~(i - a <= len) /\ i - a # len + 1
        BY <3>1, <3>4
      <4>2. QED
        BY <2>5, <3>4, <4>1 DEF FramedByte, len
    <3>5. i <= a + len \/ i = a + len + 1 \/ i = a + len + 2
      BY <3>1
    <3>6. QED
      BY <3>2, <3>3, <3>4, <3>5
  <2>7. u \in Seq(Bytes) /\ Len(u) = b
    BY <2>5
  <2>8. ASSUME NEW i \in 1 .. a PROVE u[i] = s[i]
    <3>1. a \in Nat /\ len \in Nat
      BY <1>2, <1>3
    <3> HIDE DEF a, len, b
    <3>2. i \in 1 .. a + len
      BY <3>1
    <3>3. QED
      BY <2>3, <2>5, <3>2
  <2>9. QED
    BY <2>6, <2>7, <2>8
<1>5. b \in Nat /\ a < b /\ Len(s) = a /\ a \in Nat
  BY <1>2, <1>3
<1>6. /\ \A k \in r .. N : new[k] = pos[k]
      /\ new[N + 1] = b /\ new[N] = a
      /\ \A k \in r .. N : pos[k] <= a
  <2>1. \A k \in r .. N : pos[k] <= a
    <3> SUFFICES ASSUME NEW k \in r .. N PROVE pos[k] <= a
      OBVIOUS
    <3>1. k = N \/ k < N
      BY <1>1
    <3>2. pos[k] \in Nat /\ (k = N \/ pos[k] < pos[N])
      BY <1>1, <1>2, <3>1
    <3>3. QED
      BY <1>5, <3>2
  <2>2. QED
    BY <1>1, <2>1
<1> HIDE DEF u, b
<1>7. new \in [r .. N + 1 -> Nat] /\ new[r] = 0
  BY <1>1, <1>2, <1>5
<1> HIDE DEF new, a
<1>8. ASSUME NEW k \in r + 1 .. N + 1
      PROVE  new[k] = new[k - 1] + more[k].length + 2
  <2>1. CASE k \in r + 1 .. N
    <3>1. k \in r .. N /\ k - 1 \in r .. N /\ k \in 1 .. N
      BY <1>1, <2>1
    <3>2. QED
      BY <1>1, <1>2, <1>6, <2>1, <3>1
  <2>2. CASE k = N + 1
    <3>1. k - 1 = N
      BY <1>1, <2>2
    <3>2. new[k - 1] = a /\ new[k] = b /\ more[k] = line
      BY <1>1, <1>6, <2>2, <3>1
    <3>3. QED
      BY <3>2 DEF b
  <2>3. QED
    BY <1>1, <2>1, <2>2
<1>9. ASSUME NEW j \in r .. N + 1, NEW k \in r .. N + 1, j < k
      PROVE  new[j] < new[k]
  <2>1. j \in r .. N
    BY <1>1, <1>9
  <2>2. CASE k = N + 1
    <3>1. pos[j] \in Nat /\ pos[j] <= a /\ new[j] = pos[j] /\ new[k] = b
      BY <1>2, <1>6, <2>1, <2>2
    <3>2. QED
      BY <1>5, <3>1
  <2>3. CASE k # N + 1
    <3>1. k \in r .. N
      BY <1>1, <2>3
    <3>2. QED
      BY <1>2, <1>6, <1>9, <2>1, <3>1
  <2>4. QED
    BY <2>2, <2>3
<1>10. ASSUME NEW k \in r + 1 .. N + 1, NEW i \in 1 .. Len(u), new[k - 1] < i, i <= new[k]
       PROVE  u[i] = FramedByte(more[k], i - new[k - 1])
  <2>1. CASE k \in r + 1 .. N
    <3>1. k \in r .. N /\ k - 1 \in r .. N /\ k \in 1 .. N
      BY <1>1, <2>1
    <3>2. /\ new[k - 1] = pos[k - 1] /\ new[k] = pos[k] /\ more[k] = lines[k]
          /\ pos[k] \in Nat /\ pos[k] <= a
      BY <1>1, <1>2, <1>6, <3>1
    <3>3. i \in 1 .. a /\ i \in 1 .. Len(s)
      BY <1>4, <1>5, <1>10, <3>2
    <3>4. s[i] = FramedByte(lines[k], i - pos[k - 1])
      BY <1>10, <2>1, <3>2, <3>3, LayoutFacts
    <3>5. QED
      BY <1>4, <3>2, <3>3, <3>4
  <2>2. CASE k = N + 1
    <3>1. k - 1 = N
      BY <1>1, <2>2
    <3>2. new[k - 1] = a /\ new[k] = b /\ more[k] = line
      BY <1>1, <1>6, <2>2, <3>1
    <3>3. i \in a + 1 .. b
      BY <1>5, <1>10, <3>2
    <3>4. QED
      BY <1>4, <3>2, <3>3
  <2>3. QED
    BY <1>1, <2>1, <2>2
<1>11. Layout(new, r, more, u, TRUE)
  <2>1. Len(u) = new[Len(more)] /\ Len(u) <= new[Len(more)]
    BY <1>1, <1>4, <1>5, <1>6
  <2> HIDE DEF more
  <2>2. QED
    BY <1>1, <1>7, <1>8, <1>9, <1>10, <2>1 DEF Layout
<1>12. QED
  BY <1>11 DEF u

------------------------------------------------------------------------------
(* One read *)

\* The buffer and the wire after n bytes were read, and where their bytes are from.
Stored(b, w, n) == b \o SubSeq(w, 1, n)
Unread(w, n) == SubSeq(w, n + 1, Len(w))
Moved(b, w, n) ==
  /\ Stored(b, w, n) \in Seq(Bytes) /\ Len(Stored(b, w, n)) = Len(b) + n
  /\ \A i \in 1 .. Len(b) : Stored(b, w, n)[i] = b[i]
  /\ \A i \in Len(b) + 1 .. Len(b) + n :
       i - Len(b) \in DOMAIN w /\ Stored(b, w, n)[i] = w[i - Len(b)]
  /\ Unread(w, n) \in Seq(Bytes) /\ Len(Unread(w, n)) = Len(w) - n
  /\ \A i \in 1 .. Len(w) - n : i + n \in DOMAIN w /\ Unread(w, n)[i] = w[i + n]

\* A read moves bytes from the wire to the end of the buffer.
LEMMA ReadBytes ==
  ASSUME NEW b \in Seq(Bytes), NEW w \in Seq(Bytes), NEW n \in 1 .. Len(w)
  PROVE  Moved(b, w, n)
<1> DEFINE x == SubSeq(w, 1, n)
           v == Unread(w, n)
           f == Stored(b, w, n)
<1>1. Len(b) \in Nat /\ Len(w) \in Nat /\ n \in Nat /\ 1 <= n /\ n <= Len(w)
  OBVIOUS
<1>2. x \in Seq(Bytes) /\ Len(x) = n /\ \A i \in 1 .. n : x[i] = w[i]
  <2>1. 0 \in Nat /\ n \in Nat /\ 0 + n <= Len(w)
    BY <1>1
  <2>2. /\ SubSeq(w, 0 + 1, 0 + n) \in Seq(Bytes) /\ Len(SubSeq(w, 0 + 1, 0 + n)) = n
        /\ \A i \in 1 .. n : SubSeq(w, 0 + 1, 0 + n)[i] = w[i + 0]
    BY <2>1, CutOut
  <2>3. 0 + 1 = 1 /\ 0 + n = n /\ \A i \in 1 .. n : i + 0 = i
    BY <1>1
  <2>4. QED
    BY <2>2, <2>3
<1>3. v \in Seq(Bytes) /\ Len(v) = Len(w) - n /\ \A i \in 1 .. Len(w) - n : v[i] = w[i + n]
  <2> DEFINE k == Len(w) - n
  <2>1. k \in Nat /\ n \in Nat /\ n + k <= Len(w) /\ n + k = Len(w)
    BY <1>1
  <2> HIDE DEF k
  <2>2. /\ SubSeq(w, n + 1, n + k) \in Seq(Bytes) /\ Len(SubSeq(w, n + 1, n + k)) = k
        /\ \A i \in 1 .. k : SubSeq(w, n + 1, n + k)[i] = w[i + n]
    BY <2>1, CutOut
  <2>3. v = SubSeq(w, n + 1, n + k)
    BY <2>1 DEF Unread
  <2>4. v \in Seq(Bytes) /\ Len(v) = k /\ \A i \in 1 .. k : v[i] = w[i + n]
    BY <2>2, <2>3
  <2>5. QED
    BY <2>4 DEF k
<1>4. \A i \in 1 .. Len(w) - n : i + n \in DOMAIN w
  BY <1>1
<1>5. /\ f \in Seq(Bytes) /\ Len(f) = Len(b) + n
      /\ \A i \in 1 .. Len(b) + n : f[i] = IF i <= Len(b) THEN b[i] ELSE x[i - Len(b)]
  <2>1. f = b \o x
    BY DEF Stored
  <2> HIDE DEF f, x
  <2>2. /\ f \in Seq(Bytes) /\ Len(f) = Len(b) + Len(x)
        /\ \A i \in 1 .. Len(b) + Len(x) : f[i] = IF i <= Len(b) THEN b[i] ELSE x[i - Len(b)]
    BY <1>2, <2>1, ConcatProperties
  <2>3. QED
    BY <1>2, <2>2
<1> HIDE DEF x, v, f
<1>6. \A i \in 1 .. Len(b) : f[i] = b[i]
  BY <1>1, <1>5
<1>7. ASSUME NEW i \in Len(b) + 1 .. Len(b) + n
      PROVE  i - Len(b) \in DOMAIN w /\ f[i] = w[i - Len(b)]
  <2>1. i \in 1 .. Len(b) + n /\ ~(i <= Len(b)) /\ i - Len(b) \in 1 .. n /\ i - Len(b) \in DOMAIN w
    BY <1>1
  <2>2. QED
    BY <1>2, <1>5, <2>1
<1>8. QED
  BY <1>3, <1>4, <1>5, <1>6, <1>7 DEF f, v, Moved

\* What has been read is the first part of what was under way.
LEMMA ReadIsPart ==
  ASSUME NEW b \in Seq(Bytes), NEW w \in Seq(Bytes), NEW n \in 1 .. Len(w)
  PROVE  /\ b \o w \in Seq(Bytes) /\ Len(b \o w) = Len(b) + Len(w)
         /\ Part(Stored(b, w, n), b \o w)
<1> DEFINE s == b \o w
           f == Stored(b, w, n)
<1>1. Len(b) \in Nat /\ Len(w) \in Nat /\ n \in Nat /\ n <= Len(w)
  OBVIOUS
<1>2. /\ s \in Seq(Bytes) /\ Len(s) = Len(b) + Len(w)
      /\ \A i \in 1 .. Len(b) + Len(w) : s[i] = IF i <= Len(b) THEN b[i] ELSE w[i - Len(b)]
  BY ConcatProperties, Zenon
<1>3. /\ Len(f) = Len(b) + n
      /\ \A i \in 1 .. Len(b) : f[i] = b[i]
      /\ \A i \in Len(b) + 1 .. Len(b) + n : f[i] = w[i - Len(b)]
  <2>1. Moved(b, w, n)
    BY ReadBytes
  <2>2. QED
    BY <2>1 DEF Moved
<1> HIDE DEF s, f
<1>4. ASSUME NEW i \in 1 .. Len(f)
      PROVE  f[i] = s[i]
  <2>1. i \in 1 .. Len(b) + n /\ i \in 1 .. Len(b) + Len(w)
    BY <1>1, <1>3
  <2>2. CASE i <= Len(b)
    <3>1. i \in 1 .. Len(b)
      BY <1>1, <2>1, <2>2
    <3>2. f[i] = b[i] /\ s[i] = b[i]
      BY <1>2, <1>3, <2>1, <2>2, <3>1
    <3>3. QED
      BY <3>2
  <2>3. CASE ~(i <= Len(b))
    <3>1. i \in Len(b) + 1 .. Len(b) + n
      BY <1>1, <2>1, <2>3
    <3>2. QED
      BY <1>2, <1>3, <2>1, <2>3, <3>1
  <2>4. QED
    BY <2>2, <2>3
<1>5. Part(f, s)
  BY <1>1, <1>2, <1>3, <1>4 DEF Part
<1>6. QED
  BY <1>2, <1>5 DEF s, f

\* What is left under way is the rest of it.
LEMMA ReadLeaves ==
  ASSUME NEW b \in Seq(Bytes), NEW w \in Seq(Bytes), NEW n \in 1 .. Len(w)
  PROVE  LET s == b \o w
             f == Stored(b, w, n)
             u == Remainder(f) \o Unread(w, n)
         IN  /\ u \in Seq(Bytes) /\ Len(u) = Len(s) - Dropped(f)
             /\ \A i \in 1 .. Len(u) : u[i] = s[i + Dropped(f)]
<1> DEFINE s == b \o w
           f == Stored(b, w, n)
           rest == Remainder(f)
           v == Unread(w, n)
           u == rest \o v
           d == Dropped(f)
<1>1. Len(b) \in Nat /\ Len(w) \in Nat /\ n \in Nat /\ n <= Len(w)
  OBVIOUS
<1>2. /\ s \in Seq(Bytes) /\ Len(s) = Len(b) + Len(w)
      /\ \A i \in 1 .. Len(b) + Len(w) : s[i] = IF i <= Len(b) THEN b[i] ELSE w[i - Len(b)]
  BY ConcatProperties, Zenon
<1>3. /\ f \in Seq(Bytes) /\ Len(f) = Len(b) + n
      /\ v \in Seq(Bytes) /\ Len(v) = Len(w) - n
      /\ \A i \in 1 .. Len(w) - n : v[i] = w[i + n]
  <2>1. Moved(b, w, n)
    BY ReadBytes
  <2>2. QED
    BY <2>1 DEF Moved
<1>4. /\ \A i \in 1 .. Len(f) : f[i] = s[i]
  BY ReadIsPart DEF Part
<1>5. /\ d \in 0 .. Len(f) /\ rest \in Seq(Bytes) /\ Len(rest) = Len(f) - d
      /\ \A i \in 1 .. Len(rest) : rest[i] = f[i + d]
  BY <1>3, RemainderOf
<1> HIDE DEF s, f, rest, v, d
<1>6. /\ u \in Seq(Bytes) /\ Len(u) = Len(rest) + Len(v)
      /\ \A i \in 1 .. Len(rest) + Len(v) : u[i] = IF i <= Len(rest) THEN rest[i] ELSE v[i - Len(rest)]
  BY <1>3, <1>5, ConcatProperties, Zenon
<1> HIDE DEF u
<1>7. d \in Nat /\ d <= Len(f) /\ Len(f) \in Nat /\ Len(u) = Len(s) - d
  <2>1. d \in Nat /\ d <= Len(f) /\ Len(f) \in Nat
    BY <1>3, <1>5
  <2>2. Len(rest) = Len(b) + n - d /\ Len(v) = Len(w) - n
    BY <1>3, <1>5
  <2>3. Len(u) = Len(b) + Len(w) - d
    BY <1>1, <1>6, <2>1, <2>2
  <2>4. QED
    BY <1>2, <2>1, <2>3
<1>8. ASSUME NEW i \in 1 .. Len(u)
      PROVE  u[i] = s[i + d]
  <2>1. i \in 1 .. Len(rest) + Len(v) /\ i + d \in 1 .. Len(b) + Len(w)
    BY <1>1, <1>2, <1>3, <1>5, <1>6, <1>7
  <2>2. CASE i <= Len(rest)
    <3>1. i \in 1 .. Len(rest) /\ i + d \in 1 .. Len(f)
      BY <1>5, <1>7, <2>1, <2>2
    <3>2. QED
      BY <1>4, <1>5, <1>6, <2>1, <2>2, <3>1
  <2>3. CASE ~(i <= Len(rest))
    <3> DEFINE j == i - Len(rest)
    <3>1. /\ j \in 1 .. Len(w) - n /\ ~(i + d <= Len(b)) /\ i + d - Len(b) = j + n
      <4>1. /\ Len(f) = Len(b) + n /\ Len(rest) = Len(f) - d /\ Len(v) = Len(w) - n
        BY <1>3, <1>5
      <4>2. d \in Nat /\ d <= Len(f) /\ i \in Int /\ i <= Len(rest) + Len(v) /\ i > Len(rest)
        BY <1>1, <1>3, <1>5, <1>7, <2>1, <2>3
      <4>3. QED
        BY <1>1, <4>1, <4>2
    <3>2. u[i] = v[j]
      BY <1>6, <2>1, <2>3
    <3> HIDE DEF j
    <3>3. s[i + d] = w[j + n]
      <4> DEFINE k == i + d
      <4>1. k \in 1 .. Len(b) + Len(w) /\ ~(k <= Len(b)) /\ k - Len(b) = j + n
        BY <1>1, <1>7, <2>1, <3>1
      <4> HIDE DEF k
      <4>2. s[k] = w[k - Len(b)]
        BY <1>2, <4>1
      <4>3. s[k] = w[j + n]
        BY <4>1, <4>2
      <4>4. QED
        BY <4>3 DEF k
    <3>4. QED
      BY <1>3, <3>1, <3>2, <3>3
  <2>4. QED
    BY <2>2, <2>3
<1>9. QED
  BY <1>6, <1>7, <1>8 DEF s, f, rest, v, u, d

\* Without a message in the buffer, every terminator of what has been stored is
\* at the end of the old bytes or behind it.
LEMMA EndsAreNew ==
  ASSUME NEW b \in Seq(Bytes), Ends(b) = {}, NEW w \in Seq(Bytes), NEW n \in 1 .. Len(w),
         NEW e \in Ends(Stored(b, w, n))
  PROVE  e \in Nat /\ Len(b) <= e
<1> DEFINE f == Stored(b, w, n)
<1>1. f \in Seq(Bytes) /\ Len(b) \in Nat /\ \A i \in 1 .. Len(b) : f[i] = b[i]
  <2>1. Moved(b, w, n)
    BY ReadBytes
  <2>2. QED
    BY <2>1 DEF Moved
<1>2. e \in Nat /\ e >= 1 /\ f[e] = CR /\ f[e + 1] = LF
  BY <1>1, EndsOf
<1> HIDE DEF f
<1>3. ASSUME e < Len(b) PROVE FALSE
  <2>1. e \in 1 .. Len(b) - 1 /\ e \in 1 .. Len(b) /\ e + 1 \in 1 .. Len(b)
    BY <1>1, <1>2, <1>3
  <2>2. b[e] = CR /\ b[e + 1] = LF
    BY <1>1, <1>2, <2>1
  <2>3. e \in Ends(b)
    BY <2>1, <2>2 DEF Ends
  <2>4. QED
    BY <2>3
<1>4. QED
  BY <1>1, <1>2, <1>3

\* What is handed on is the beginning of the text.
LEMMA HandedOn ==
  ASSUME TypeOK, NEW text \in Seq(Bytes)
  PROVE  /\ Handed(text) \in Seq(Bytes)
         /\ \A i \in DOMAIN Handed(text) : i \in DOMAIN text /\ Handed(text)[i] = text[i]
<1>1. CASE ~toServer
  BY <1>1 DEF Handed
<1>2. CASE toServer
  <2> DEFINE n == Min({Len(text), Payload - PrefixLen})
             x == SubSeq(text, 1, n)
  <2>1. Len(text) \in Nat /\ Payload - PrefixLen \in Nat
    BY Sizes
  <2>2. n = IF Len(text) <= Payload - PrefixLen THEN Len(text) ELSE Payload - PrefixLen
    BY <2>1, MinOfTwo
  <2>3. Handed(text) = x
    BY <1>2 DEF Handed
  <2> HIDE DEF n
  <2>4. n \in Nat /\ n <= Len(text)
    BY <2>1, <2>2
  <2>5. x \in Seq(Bytes) /\ Len(x) = n /\ \A i \in 1 .. n : i \in DOMAIN text /\ x[i] = text[i]
    <3>1. 0 \in Nat /\ 0 + n <= Len(text)
      BY <2>1, <2>4
    <3>2. /\ SubSeq(text, 0 + 1, 0 + n) \in Seq(Bytes) /\ Len(SubSeq(text, 0 + 1, 0 + n)) = n
          /\ \A i \in 1 .. n : i + 0 \in DOMAIN text /\ SubSeq(text, 0 + 1, 0 + n)[i] = text[i + 0]
      BY <2>4, <3>1, CutOut
    <3>3. 0 + 1 = 1 /\ 0 + n = n /\ \A i \in 1 .. n : i + 0 = i
      BY <2>4
    <3>4. QED
      BY <3>2, <3>3
  <2> HIDE DEF x
  <2>6. DOMAIN x = 1 .. n
    BY <2>5
  <2>7. QED
    BY <2>3, <2>5, <2>6
<1>3. QED
  BY <1>1, <1>2 DEF TypeOK

------------------------------------------------------------------------------
(* The steps *)

\* The types of the variables, in terms of the sets above.
LEMMA Types ==
  ASSUME TypeOK
  PROVE  /\ toServer \in BOOLEAN /\ conn \in {"open", "closed", "free"}
         /\ wire \in Seq(Bytes) /\ buffer \in Seq(Bytes) /\ Len(buffer) <= MaxChars
         /\ composed \in 0 .. MaxLines /\ sent \in Seq(Texts) /\ received \in Seq(Seq(Bytes))
         /\ discarded \in BOOLEAN /\ stale \in BOOLEAN /\ burst \in BOOLEAN
BY DEF TypeOK, Bytes, Texts

\* The program starts in the invariant.
LEMMA InitInv == Init => Inv
<1> SUFFICES ASSUME Init PROVE Inv
  OBVIOUS
<1> USE DEF Init
<1>1. TypeOK
  <2>1. /\ wire \in Seq(Bytes) /\ buffer \in Seq(Bytes) /\ Len(buffer) <= MaxChars
        /\ composed \in 0 .. MaxLines /\ sent \in Seq(Texts) /\ received \in Seq(Seq(Bytes))
    BY Sizes
  <2>2. toServer \in BOOLEAN /\ conn \in {"open", "closed", "free"}
    OBVIOUS
  <2>3. {discarded, stale, burst} \subseteq BOOLEAN
    BY Zenon
  <2>4. QED
    BY <2>1, <2>2, <2>3 DEF TypeOK, Bytes, Texts
<1>2. Ends(buffer) = {} /\ Len(buffer) < MaxChars
  <2>1. Ends(<< >>) = {}
    BY DEF Ends
  <2>2. 0 < MaxChars
    BY Sizes
  <2>3. QED
    BY <2>1, <2>2
<1>3. EnoughRoom /\ OwnInput
  BY Sizes DEF EnoughRoom, OwnInput
<1>4. SentInOrder
  <2>1. << >> \o << >> = << >>
    OBVIOUS
  <2>2. Layout([k \in 0 .. 0 |-> 0], 0, << >>, << >>, FALSE)
    BY DEF Layout
  <2>3. QED
    BY <2>1, <2>2 DEF SentInOrder
<1>5. QED
  BY <1>1, <1>2, <1>3, <1>4 DEF Inv, RoomForMore, LostOnlyInBursts, StaleInputIsFirst

\* What belongs to a connection goes on belonging to it.
LEMMA StillOwn ==
  ASSUME NEW line, NEW text, Len(sent) \in Nat, DOMAIN sent = 1 .. Len(sent),
         sent' = sent \/ (DOMAIN sent' = 1 .. Len(sent) + 1 /\ \A j \in DOMAIN sent : sent'[j] = sent[j])
  PROVE  /\ \A byte : Own(byte) => Own(byte)'
         /\ OwnBytes(text) => OwnBytes(text)'
<1>1. \A j \in DOMAIN sent : j \in DOMAIN sent' /\ sent'[j] = sent[j]
  OBVIOUS
<1>2. QED
  BY <1>1 DEF Own, OwnBytes

\* A message that is left empty is not written.
LEMMA WriteNothing ==
  ASSUME Inv, conn = "open", conn' \in {"open", "closed"}, composed < MaxLines,
         composed' = composed + 1,
         UNCHANGED <<toServer, wire, buffer, history>>
  PROVE  Inv'
<1>1. TypeOK /\ conn # "free"
  BY DEF Inv
<1>2. TypeOK'
  <2>1. composed' \in 0 .. MaxLines
    BY <1>1, Sizes, Types
  <2>2. QED
    BY <1>1, <2>1 DEF TypeOK, history, Lines
<1>3. (conn = "free" => wire = << >>)' /\ RoomForMore' /\ EnoughRoom' /\ LostOnlyInBursts'
  BY DEF Inv, RoomForMore, EnoughRoom, LostOnlyInBursts, history
<1>4. OwnInput' /\ StaleInputIsFirst'
  BY DEF Inv, OwnInput, Own, StaleInputIsFirst, OwnBytes, history
<1>5. SentInOrder'
  <2> SUFFICES ASSUME ~discarded, ~stale PROVE SentInOrder'
    BY DEF SentInOrder, history
  <2> DEFINE s == buffer \o wire
             r == Len(received)
  <2>1. /\ r <= Len(sent) /\ \A i \in DOMAIN received : received[i] = Handed(Text(sent[i]))
    BY DEF Inv, SentInOrder
  <2>2. PICK pos : Layout(pos, r, sent, s, conn = "open")
    BY DEF Inv, SentInOrder
  <2>3. r \in 0 .. Len(sent) /\ s \in Seq(Bytes) /\ sent \in Seq(Texts)
    BY <1>1, <2>1, Types, ConcatProperties
  <2>4. Layout(pos, r, sent, s, FALSE)
    <3>1. Part(s, s)
      BY <2>3 DEF Part
    <3> HIDE DEF r, s
    <3>2. QED
      BY <2>2, <2>3, <3>1, LayoutPart
  <2>5. Layout(pos, r, sent, s, conn' = "open")
    <3>1. CASE conn' = "open"
      <4>1. (conn = "open") = TRUE /\ (conn' = "open") = TRUE
        BY <3>1
      <4>2. QED
        BY <2>2, <4>1
    <3>2. CASE conn' # "open"
      <4>1. (conn' = "open") = FALSE
        BY <3>2
      <4>2. QED
        BY <2>4, <4>1
    <3>3. QED
      BY <3>1, <3>2
  <2>6. \A i \in DOMAIN received : (received[i] = Handed(Text(sent[i])))'
    BY <2>1 DEF Handed, history
  <2>7. QED
    BY <2>1, <2>5, <2>6 DEF SentInOrder, history
<1>6. QED
  BY <1>2, <1>3, <1>4, <1>5 DEF Inv

\* The text of a message as bytes.
LEMMA TextBytes ==
  ASSUME NEW line \in Texts
  PROVE  /\ Text(line) \in Seq(Bytes) /\ Len(Text(line)) = line.length /\ line.length \in Nat
         /\ \A i \in 1 .. line.length : Text(line)[i] = line.id
<1> DEFINE text == Text(line)
           len == line.length
           id == line.id
<1>1. text = [i \in 1 .. len |-> id]
  BY DEF Text
<1>2. len \in Nat /\ id \in Bytes
  BY Sizes DEF Texts, Bytes
<1> HIDE DEF text, len, id
<1>3. text \in Seq(Bytes) /\ Len(text) = len /\ \A i \in 1 .. len : text[i] = id
  BY <1>1, <1>2
<1>4. QED
  BY <1>2, <1>3 DEF text, len, id

\* Concatenation is associative.
LEMMA ConcatBytes ==
  ASSUME NEW a \in Seq(Bytes), NEW b \in Seq(Bytes), NEW c \in Seq(Bytes)
  PROVE  (a \o b) \o c = a \o (b \o c)
BY ConcatAssociative

\* A message is written at the end of what is under way.
LEMMA WriteMessage ==
  ASSUME Inv, conn = "open", composed < MaxLines, composed' = composed + 1,
         NEW line \in Texts, line.id = composed + 1,
         wire' = wire \o Text(line) \o <<CR, LF>>, sent' = Append(sent, line),
         Outstanding(wire'),
         UNCHANGED <<toServer, conn, buffer, received, discarded, stale>>
  PROVE  Inv'
<1> DEFINE text == Text(line)
           s == buffer \o wire
<1>1. TypeOK
  BY DEF Inv
<1>2. /\ wire \in Seq(Bytes) /\ buffer \in Seq(Bytes) /\ Len(buffer) <= MaxChars
      /\ composed \in Nat /\ sent \in Seq(Texts) /\ received \in Seq(Seq(Bytes)) /\ burst \in BOOLEAN
  BY <1>1, Types, Sizes
<1>3. text \in Seq(Bytes) /\ Len(text) = line.length /\ \A i \in 1 .. Len(text) : text[i] = line.id
  BY TextBytes
<1> HIDE DEF text
<1> DEFINE v == wire \o text
           n == Len(wire) + Len(text)
<1>4. /\ v \in Seq(Bytes) /\ Len(v) = n /\ n \in Nat
      /\ \A i \in 1 .. n : v[i] = IF i <= Len(wire) THEN wire[i] ELSE text[i - Len(wire)]
  <2>1. /\ v \in Seq(Bytes) /\ Len(v) = n
        /\ \A i \in 1 .. n : v[i] = IF i <= Len(wire) THEN wire[i] ELSE text[i - Len(wire)]
    BY <1>2, <1>3, ConcatProperties, Zenon
  <2>2. n \in Nat
    BY <1>2, <1>3
  <2>3. QED
    BY <2>1, <2>2
<1>5. wire' = v \o <<CR, LF>>
  BY DEF text
<1>6. s \in Seq(Bytes) /\ s \o text \in Seq(Bytes) /\ buffer \o wire' = s \o text \o <<CR, LF>>
  <2>1. s \in Seq(Bytes) /\ s \o text \in Seq(Bytes)
    BY <1>2, <1>3, ConcatProperties
  <2>2. <<CR, LF>> \in Seq(Bytes)
    BY DEF Bytes
  <2>3. (buffer \o v) \o <<CR, LF>> = buffer \o (v \o <<CR, LF>>)
    <3> HIDE DEF v
    <3>1. QED
      BY <1>2, <1>4, <2>2, ConcatBytes, Zenon
  <2>4. (buffer \o wire) \o text = buffer \o (wire \o text)
    BY <1>2, <1>3, ConcatBytes, Zenon
  <2>5. QED
    BY <1>5, <2>1, <2>3, <2>4
<1> HIDE DEF v, n
<1>7. /\ wire' \in Seq(Bytes) /\ Len(wire') = n + 2 /\ wire' # << >>
      /\ \A i \in 1 .. n : wire'[i] = v[i]
      /\ wire'[n + 1] = CR /\ wire'[n + 2] = LF
  <2>1. /\ wire' \in Seq(Bytes) /\ Len(wire') = Len(v) + 2
        /\ \A i \in 1 .. Len(v) : wire'[i] = v[i]
        /\ wire'[Len(v) + 1] = CR /\ wire'[Len(v) + 2] = LF
    BY <1>4, <1>5, TerminatorAdded
  <2>2. /\ wire' \in Seq(Bytes) /\ Len(wire') = n + 2
        /\ \A i \in 1 .. n : wire'[i] = v[i]
        /\ wire'[n + 1] = CR /\ wire'[n + 2] = LF
    BY <1>4, <2>1
  <2>3. wire' # << >>
    BY <1>4, <2>2
  <2>4. QED
    BY <2>2, <2>3
<1>8. /\ sent' \in Seq(Texts) /\ Len(sent') = Len(sent) + 1 /\ sent'[Len(sent) + 1] = line
      /\ DOMAIN sent' = 1 .. Len(sent) + 1 /\ DOMAIN sent = 1 .. Len(sent) /\ Len(sent) \in Nat
      /\ \A j \in DOMAIN sent : sent'[j] = sent[j]
  BY <1>2
<1>9. TypeOK'
  <2>1. composed' \in 0 .. MaxLines
    BY <1>2, Sizes
  <2>2. burst' \in BOOLEAN
    BY <1>2 DEF Outstanding
  <2>3. {discarded, stale, burst}' \subseteq BOOLEAN
    BY <1>1, <2>2 DEF TypeOK
  <2>4. QED
    BY <1>1, <1>7, <1>8, <2>1, <2>3 DEF TypeOK, Bytes, Texts, Lines
<1>10. EnoughRoom'
  <2> SUFFICES ASSUME ~burst' PROVE Len(buffer) + Len(wire') <= MaxChars /\ Terminated(buffer \o wire')
    BY DEF EnoughRoom
  <2>1. Len(buffer) + Len(wire') <= MaxChars
    <3>1. ~(Len(buffer) + Len(wire') > MaxChars)
      BY DEF Outstanding
    <3>2. Len(buffer) + Len(wire') \in Nat
      BY <1>2, <1>7
    <3>3. QED
      BY <3>1, <3>2, Sizes
  <2>2. Terminated(buffer \o wire')
    <3> DEFINE z == s \o text
               u == z \o <<CR, LF>>
    <3>1. z \in Seq(Bytes) /\ buffer \o wire' = u
      BY <1>6
    <3> HIDE DEF z
    <3>2. Len(u) = Len(z) + 2 /\ u[Len(z) + 1] = CR /\ u[Len(z) + 2] = LF /\ Len(z) \in Nat
      BY <3>1, TerminatorAdded
    <3> HIDE DEF u
    <3>3. Len(u) - 1 = Len(z) + 1 /\ Len(u) >= 2
      BY <3>2
    <3>4. Terminated(u)
      BY <3>2, <3>3 DEF Terminated
    <3>5. QED
      BY <3>1, <3>4
  <2>3. QED
    BY <2>1, <2>2
<1>11. \A byte : Own(byte) => Own(byte)'
  BY <1>8, StillOwn
<1>12. OwnInput'
  <2>1. ASSUME NEW i \in DOMAIN wire'
        PROVE  wire'[i] \in {CR, LF} \/ \E j \in DOMAIN sent' : wire'[i] = sent'[j].id
    <3>1. i \in 1 .. n + 2 /\ Len(wire) \in Nat /\ Len(text) \in Nat /\ n = Len(wire) + Len(text)
      <4>1. n = Len(wire) + Len(text)
        BY DEF n
      <4>2. QED
        BY <1>2, <1>3, <1>7, <4>1
    <3>2. CASE i <= Len(wire)
      <4>1. i \in 1 .. n /\ i \in DOMAIN wire
        BY <1>2, <3>1, <3>2
      <4>2. wire'[i] = wire[i] /\ Own(wire[i])
        BY <1>4, <1>7, <3>2, <4>1 DEF Inv, OwnInput
      <4>3. QED
        <5>1. \A j \in DOMAIN sent : j \in DOMAIN sent' /\ sent'[j].id = sent[j].id
          BY <1>8
        <5>2. QED
          BY <4>2, <5>1 DEF Own
    <3>3. CASE i > Len(wire) /\ i <= n
      <4>1. i \in 1 .. n /\ ~(i <= Len(wire)) /\ i - Len(wire) \in 1 .. Len(text)
        BY <3>1, <3>3
      <4>2. wire'[i] = text[i - Len(wire)] /\ text[i - Len(wire)] = line.id
        BY <1>3, <1>4, <1>7, <4>1
      <4>3. line.id = sent'[Len(sent) + 1].id /\ Len(sent) + 1 \in DOMAIN sent'
        BY <1>8
      <4>4. QED
        BY <4>2, <4>3
    <3>4. CASE i = n + 1
      BY <1>7, <3>4
    <3>5. CASE i = n + 2
      BY <1>7, <3>5
    <3>6. i <= Len(wire) \/ (i > Len(wire) /\ i <= n) \/ i = n + 1 \/ i = n + 2
      <4>1. n \in Nat /\ i \in 1 .. n + 2 /\ Len(wire) \in Nat
        BY <1>4, <3>1
      <4>2. QED
        BY <4>1
    <3>7. QED
      BY <3>2, <3>3, <3>4, <3>5, <3>6
  <2>2. \/ \A i \in DOMAIN buffer : buffer[i] \in {CR, LF} \/ \E j \in DOMAIN sent' : buffer[i] = sent'[j].id
        \/ stale /\ received = << >>
    BY <1>11 DEF Inv, OwnInput, Own
  <2>3. QED
    BY <2>1, <2>2 DEF OwnInput, Own
<1>13. StaleInputIsFirst'
  <2>1. \A i \in DOMAIN received : OwnBytes(received[i]) => OwnBytes(received[i])'
    <3> SUFFICES ASSUME NEW i \in DOMAIN received PROVE OwnBytes(received[i]) => OwnBytes(received[i])'
      OBVIOUS
    <3>1. \A j \in DOMAIN sent : j \in DOMAIN sent' /\ sent'[j] = sent[j]
      BY <1>8
    <3>2. QED
      BY <3>1 DEF OwnBytes
  <2>2. QED
    BY <2>1 DEF Inv, StaleInputIsFirst, OwnBytes
<1>14. SentInOrder'
  <2> SUFFICES ASSUME ~discarded, ~stale PROVE SentInOrder'
    BY DEF SentInOrder
  <2> DEFINE r == Len(received)
  <2>1. /\ r <= Len(sent) /\ \A i \in DOMAIN received : received[i] = Handed(Text(sent[i]))
    BY DEF Inv, SentInOrder
  <2>2. PICK pos : Layout(pos, r, sent, s, conn = "open")
    BY DEF Inv, SentInOrder
  <2>3. r \in 0 .. Len(sent) /\ r \in Nat /\ DOMAIN received = 1 .. r
    BY <1>2, <2>1
  <2>4. \E new : Layout(new, r, sent', buffer \o wire', TRUE)
    <3>1. Layout(pos, r, sent, s, TRUE)
      <4>1. (conn = "open") = TRUE
        OBVIOUS
      <4>2. QED
        BY <2>2, <4>1
    <3>2. \E new : Layout(new, r, Append(sent, line), s \o Text(line) \o <<CR, LF>>, TRUE)
      <4> HIDE DEF s, r
      <4>1. QED
        BY <1>2, <1>6, <2>3, <3>1, LayoutWrite
    <3>3. QED
      BY <1>6, <3>2 DEF text
  <2>5. \E new : Layout(new, r, sent', buffer \o wire', conn' = "open")
    <3>1. (conn' = "open") = TRUE
      OBVIOUS
    <3>2. QED
      BY <2>4, <3>1
  <2>6. ASSUME NEW i \in DOMAIN received PROVE received[i] = Handed(Text(sent'[i]))
    <3>1. i \in DOMAIN sent
      BY <1>8, <2>1, <2>3
    <3>2. QED
      BY <1>8, <2>1, <3>1
  <2>7. r <= Len(sent')
    BY <1>8, <2>1, <2>3
  <2>8. QED
    BY <2>5, <2>6, <2>7 DEF SentInOrder, Handed
<1>15. (conn = "free" => wire = << >>)' /\ RoomForMore' /\ LostOnlyInBursts'
  BY DEF Inv, RoomForMore, LostOnlyInBursts, Outstanding
<1>16. QED
  BY <1>9, <1>10, <1>12, <1>13, <1>14, <1>15 DEF Inv

\* Writing a message of any length keeps the invariant.
LEMMA WriteInv ==
  ASSUME Inv, NEW n \in 1 .. Payload + 1, Write(n)
  PROVE  Inv'
<1> DEFINE line == [id |-> composed + 1, length |-> Composed(n)]
<1>1. composed \in Nat /\ composed < MaxLines /\ composed' = composed + 1 /\ conn = "open"
  BY Types, Sizes DEF Inv, Write
<1>2. Composed(n) \in 0 .. Payload - 1
  <2>1. Payload \in Nat /\ Payload >= 1 /\ n \in Nat
    BY Sizes
  <2>2. Min({n, Payload - 1}) = IF n <= Payload - 1 THEN n ELSE Payload - 1
    BY <2>1, MinOfTwo
  <2>3. QED
    BY <2>1, <2>2 DEF Composed
<1>3. CASE Composed(n) = 0
  BY <1>1, <1>3, WriteNothing DEF Write, history
<1>4. CASE Composed(n) # 0
  <2>1. line \in Texts /\ line.id = composed + 1
    BY <1>1, <1>2, <1>4, Sizes DEF Texts, Lines
  <2>2. /\ wire' = wire \o Text(line) \o <<CR, LF>> /\ sent' = Append(sent, line)
        /\ Outstanding(wire') /\ UNCHANGED <<toServer, conn, buffer, received, discarded, stale>>
    BY <1>4 DEF Write
  <2> HIDE DEF line
  <2>3. QED
    BY <1>1, <2>1, <2>2, WriteMessage
<1>5. QED
  BY <1>3, <1>4

\* What a read of n bytes stores and throws away.
Filled(n) == IF Fits(n) THEN Stored(buffer, wire, n) ELSE buffer
Erased(n) == Ends(Filled(n)) = {} /\ (~Fits(n) \/ Len(Filled(n)) = MaxChars)
ReadOf(n) ==
  /\ wire' = Unread(wire, n)
  /\ buffer' = IF Erased(n) THEN << >> ELSE Remainder(Filled(n))
  /\ received' = received \o [k \in DOMAIN Messages(Filled(n)) |-> Handed(Messages(Filled(n))[k])]
  /\ discarded' = (discarded \/ Erased(n) \/ ~Fits(n))
  /\ UNCHANGED <<toServer, conn, composed, sent, stale, burst>>

\* A read takes between one byte and all that is under way.
LEMMA ReadIs ==
  ASSUME Inv, Read
  PROVE  conn # "free" /\ \E n \in 1 .. Len(wire) : ReadOf(n)
<1>1. PICK n \in 1 .. Min({ReadSize, Len(wire)}) :
        LET filled == IF Fits(n) THEN buffer \o SubSeq(wire, 1, n) ELSE buffer
            full == ~Fits(n) \/ Len(filled) = MaxChars
            erased == Ends(filled) = {} /\ full
            out == Extracted(filled)
        IN
        /\ wire' = SubSeq(wire, n + 1, Len(wire))
        /\ buffer' = IF erased THEN <<>> ELSE out.rest
        /\ received' = received \o [k \in DOMAIN out.messages |-> Handed(out.messages[k])]
        /\ discarded' = (discarded \/ erased \/ ~Fits(n))
  BY DEF Read
<1>2. Len(wire) \in Nat /\ ReadSize \in Int
  BY Types, Sizes DEF Inv, ReadSize
<1>3. Min({ReadSize, Len(wire)}) \in Int /\ Min({ReadSize, Len(wire)}) <= Len(wire)
  BY <1>2, MinOfTwo
<1>4. n \in 1 .. Len(wire)
  BY <1>2, <1>3
<1>5. \A f : Extracted(f).messages = Messages(f) /\ Extracted(f).rest = Remainder(f)
  BY DEF Extracted
<1>6. ReadOf(n)
  BY <1>1, <1>5 DEF ReadOf, Filled, Erased, Stored, Unread, Read
<1>7. conn # "free"
  BY DEF Read
<1>8. QED
  BY <1>4, <1>6, <1>7

\* The bytes on the wire remain the connection's own.
LEMMA WireOwn ==
  ASSUME Inv, NEW n \in 1 .. Len(wire), ReadOf(n)
  PROVE  /\ wire' \in Seq(Bytes) /\ Len(wire') = Len(wire) - n
         /\ \A i \in DOMAIN wire' : Own(wire'[i])
<1>1. buffer \in Seq(Bytes) /\ wire \in Seq(Bytes)
  BY Types DEF Inv
<1>2. /\ wire' \in Seq(Bytes) /\ Len(wire') = Len(wire) - n
      /\ \A i \in 1 .. Len(wire) - n : i + n \in DOMAIN wire /\ wire'[i] = wire[i + n]
  <2>1. wire' = Unread(wire, n)
    BY DEF ReadOf
  <2> DEFINE v == Unread(wire, n)
             f == Stored(buffer, wire, n)
  <2>2. /\ f \in Seq(Bytes) /\ v \in Seq(Bytes) /\ Len(v) = Len(wire) - n
        /\ \A i \in 1 .. Len(wire) - n : v[i] = wire[i + n]
    <3>1. Moved(buffer, wire, n)
      BY <1>1, ReadBytes
    <3>2. QED
      BY <3>1 DEF Moved
  <2>3. \A i \in 1 .. Len(wire) - n : i + n \in DOMAIN wire
    BY <1>1
  <2>4. QED
    BY <2>1, <2>2, <2>3
<1>3. \A i \in DOMAIN wire : Own(wire[i])
  BY DEF Inv, OwnInput
<1>4. \A i \in DOMAIN wire' : Own(wire'[i])
  <2> SUFFICES ASSUME NEW i \in DOMAIN wire' PROVE Own(wire'[i])
    OBVIOUS
  <2>1. i \in 1 .. Len(wire) - n
    BY <1>2
  <2>2. QED
    BY <1>2, <1>3, <2>1
<1>5. QED
  BY <1>2, <1>4

\* Bytes are thrown away only when there are more than the buffer holds.
LEMMA ErasedInBursts ==
  ASSUME Inv, NEW n \in 1 .. Len(wire), Erased(n) \/ ~Fits(n)
  PROVE  burst
<1>1. /\ buffer \in Seq(Bytes) /\ wire \in Seq(Bytes) /\ MaxChars \in Nat
      /\ Len(buffer) \in Nat /\ Len(wire) \in Nat /\ n \in Nat /\ 1 <= n /\ n <= Len(wire)
  BY Types, Sizes DEF Inv
<1>2. SUFFICES ASSUME ~burst PROVE FALSE
  OBVIOUS
<1>3. Len(buffer) + Len(wire) <= MaxChars /\ Terminated(buffer \o wire)
  <2>1. wire # << >>
    BY <1>1
  <2>2. QED
    BY <1>2, <2>1 DEF Inv, EnoughRoom
<1>4. Fits(n)
  BY <1>1, <1>3 DEF Fits
<1> DEFINE f == Stored(buffer, wire, n)
           s == buffer \o wire
<1>5. Ends(f) = {} /\ Len(f) = MaxChars
  BY <1>4 DEF Erased, Filled
<1>6. /\ f \in Seq(Bytes) /\ Len(f) = Len(buffer) + n
      /\ Len(s) = Len(buffer) + Len(wire) /\ Part(f, s)
  <2>1. Moved(buffer, wire, n)
    BY <1>1, ReadBytes
  <2>2. Len(s) = Len(buffer) + Len(wire) /\ Part(f, s)
    BY <1>1, ReadIsPart
  <2>3. QED
    BY <2>1, <2>2 DEF Moved
<1>7. Len(s) >= 2 /\ s[Len(s) - 1] = CR /\ s[Len(s)] = LF
  BY <1>3 DEF Terminated
<1> HIDE DEF f, s
<1>8. Len(f) = Len(s) /\ Len(f) \in Nat
  <2>1. /\ Len(f) = Len(buffer) + n /\ Len(f) = MaxChars
        /\ Len(s) = Len(buffer) + Len(wire) /\ Len(buffer) + Len(wire) <= MaxChars
    BY <1>3, <1>5, <1>6
  <2>2. QED
    BY <1>1, <2>1
<1>9. f[Len(f) - 1] = CR /\ f[Len(f) - 1 + 1] = LF /\ Len(f) - 1 \in 1 .. Len(f) - 1
  <2>1. Len(f) - 1 \in 1 .. Len(f) /\ Len(f) \in 1 .. Len(f) /\ Len(f) - 1 + 1 = Len(f)
    BY <1>7, <1>8
  <2>2. f[Len(f) - 1] = s[Len(f) - 1] /\ f[Len(f)] = s[Len(f)]
    BY <1>6, <2>1 DEF Part
  <2>3. QED
    BY <1>7, <1>8, <2>1, <2>2
<1>10. Len(f) - 1 \in Ends(f)
  BY <1>9 DEF Ends
<1>11. QED
  BY <1>5, <1>10

\* Throwing bytes away leaves an empty buffer and hands nothing on.
LEMMA ReadErases ==
  ASSUME Inv, conn # "free", NEW n \in 1 .. Len(wire), ReadOf(n), Erased(n) \/ ~Fits(n)
  PROVE  Inv'
<1>1. TypeOK /\ Ends(buffer) = {} /\ burst
  BY ErasedInBursts DEF Inv, RoomForMore
<1>2. buffer \in Seq(Bytes) /\ wire \in Seq(Bytes) /\ received \in Seq(Seq(Bytes))
  BY <1>1, Types
<1>3. Erased(n)
  BY <1>1 DEF Erased, Filled
<1>4. buffer' = << >> /\ discarded'
  BY <1>3 DEF ReadOf
<1>5. received' = received
  <2>1. Ends(Filled(n)) = {}
    BY <1>3 DEF Erased
  <2>2. Cardinality(Ends(Filled(n))) = 0
    BY <2>1, FS_EmptySet
  <2>3. Messages(Filled(n)) = << >>
    BY <2>2 DEF Messages
  <2>4. [k \in DOMAIN Messages(Filled(n)) |-> Handed(Messages(Filled(n))[k])] = << >>
    BY <2>3
  <2>5. received \o << >> = received
    BY <1>2, ConcatEmptySeq
  <2>6. QED
    BY <2>4, <2>5 DEF ReadOf
<1>6. wire' \in Seq(Bytes) /\ \A i \in DOMAIN wire' : Own(wire'[i])
  BY WireOwn
<1>7. TypeOK'
  <2>1. buffer' \in Seq(Bytes) /\ Len(buffer') <= MaxChars
    BY <1>4, Sizes
  <2>2. discarded' \in BOOLEAN
    BY <1>4
  <2>3. {discarded, stale, burst}' \subseteq BOOLEAN
    BY <1>1, <2>2 DEF TypeOK, ReadOf
  <2>4. QED
    BY <1>1, <1>5, <1>6, <2>1, <2>3 DEF TypeOK, ReadOf, Bytes, Lines
<1>8. RoomForMore'
  <2>1. Ends(<< >>) = {} /\ Len(<< >>) = 0 /\ 0 < MaxChars
    BY Sizes DEF Ends
  <2>2. QED
    BY <1>4, <2>1 DEF RoomForMore, Ends
<1>9. (conn = "free" => wire = << >>)' /\ EnoughRoom' /\ LostOnlyInBursts' /\ SentInOrder'
  BY <1>1, <1>4 DEF ReadOf, EnoughRoom, LostOnlyInBursts, SentInOrder
<1>10. OwnInput'
  <2>1. DOMAIN buffer' = {}
    BY <1>4
  <2>2. QED
    BY <1>6, <2>1 DEF OwnInput, Own, ReadOf
<1>11. StaleInputIsFirst'
  BY <1>5 DEF Inv, StaleInputIsFirst, OwnBytes, ReadOf
<1>12. QED
  BY <1>7, <1>8, <1>9, <1>10, <1>11 DEF Inv

\* The room that a read leaves.
LEMMA ReadLeavesRoom ==
  ASSUME Inv, NEW n \in 1 .. Len(wire), ReadOf(n), ~Erased(n), Fits(n)
  PROVE  buffer' \in Seq(Bytes) /\ RoomForMore' /\ EnoughRoom'
<1> DEFINE f == Stored(buffer, wire, n)
           v == Unread(wire, n)
           s == buffer \o wire
           d == Dropped(f)
           u == Remainder(f) \o v
<1>1. /\ buffer \in Seq(Bytes) /\ wire \in Seq(Bytes) /\ MaxChars \in Nat
      /\ Len(buffer) \in Nat /\ Len(wire) \in Nat /\ n \in Nat /\ 1 <= n /\ n <= Len(wire)
  BY Types, Sizes DEF Inv
<1>2. /\ f \in Seq(Bytes) /\ Len(f) = Len(buffer) + n
      /\ v \in Seq(Bytes) /\ Len(v) = Len(wire) - n
  <2>1. Moved(buffer, wire, n)
    BY <1>1, ReadBytes
  <2>2. QED
    BY <2>1 DEF Moved
<1>3. Part(f, s) /\ s \in Seq(Bytes) /\ Len(s) = Len(buffer) + Len(wire)
  BY <1>1, ReadIsPart
<1>4. /\ d \in 0 .. Len(f) /\ Remainder(f) \in Seq(Bytes) /\ Len(Remainder(f)) = Len(f) - d
      /\ Ends(Remainder(f)) = {}
      /\ Ends(f) # {} => d >= 2 /\ d - 1 \in Ends(f)
  BY <1>2, RemainderOf
<1>5. buffer' = Remainder(f) /\ wire' = v /\ burst' = burst
  BY DEF ReadOf, Filled
<1>6. Len(f) <= MaxChars /\ (Ends(f) = {} => Len(f) # MaxChars)
  BY <1>2 DEF Fits, Erased, Filled
<1>7. d \in Nat /\ d <= Len(f) /\ Len(f) \in Nat /\ Len(buffer') = Len(f) - d
  BY <1>1, <1>2, <1>4, <1>5
<1>8. /\ u \in Seq(Bytes) /\ Len(u) = Len(s) - d
      /\ \A i \in 1 .. Len(u) : u[i] = s[i + d]
  BY <1>1, ReadLeaves
<1>9. RoomForMore'
  <2>1. Ends(buffer') = {}
    BY <1>4, <1>5
  <2>2. Len(buffer') < MaxChars
    <3>1. CASE Ends(f) = {}
      BY <1>1, <1>6, <1>7, <3>1
    <3>2. CASE Ends(f) # {}
      BY <1>1, <1>4, <1>6, <1>7, <3>2
    <3>3. QED
      BY <3>1, <3>2
  <2>3. QED
    BY <2>1, <2>2 DEF RoomForMore, Ends
<1>10. EnoughRoom'
  <2> SUFFICES ASSUME ~burst
               PROVE  /\ Len(buffer') + Len(wire') <= MaxChars
                      /\ wire' # << >> => Terminated(buffer' \o wire')
    BY <1>5 DEF EnoughRoom
  <2>1. Len(buffer) + Len(wire) <= MaxChars /\ Terminated(s)
    <3>1. wire # << >>
      BY <1>1
    <3>2. QED
      BY <3>1 DEF Inv, EnoughRoom
  <2>2. Len(wire') = Len(wire) - n
    BY <1>2, <1>5
  <2>3. Len(buffer') + Len(wire') <= MaxChars
    <3>1. /\ Len(buffer') = Len(buffer) + n - d /\ d \in Nat
          /\ Len(buffer) \in Nat /\ Len(wire) \in Nat /\ MaxChars \in Nat /\ n \in Nat
      BY <1>1, <1>2, <1>7
    <3> HIDE DEF d
    <3>2. QED
      BY <2>1, <2>2, <3>1
  <2>4. ASSUME wire' # << >> PROVE Terminated(u)
    <3>1. Len(v) >= 1 /\ Len(v) \in Nat
      BY <1>2, <1>5, <2>4
    <3>2. Len(s) >= 2 /\ s[Len(s) - 1] = CR /\ s[Len(s)] = LF /\ Len(s) \in Nat
      BY <1>3, <2>1 DEF Terminated
    <3>3. Len(u) \in Nat /\ Len(u) >= 1
      <4>1. /\ Len(s) = Len(buffer) + Len(wire) /\ Len(f) = Len(buffer) + n
            /\ Len(v) = Len(wire) - n /\ Len(u) = Len(s) - d
        BY <1>2, <1>3, <1>8
      <4>2. /\ d \in Nat /\ d <= Len(f) /\ Len(v) >= 1
            /\ Len(buffer) \in Nat /\ Len(wire) \in Nat /\ n \in Nat /\ 1 <= n
        BY <1>1, <1>7, <3>1
      <4> HIDE DEF f, v, s, d, u
      <4>3. QED
        BY <4>1, <4>2
    <3>4. ASSUME Len(u) = 1 PROVE FALSE
      <4>1. d = Len(f) /\ Len(f) = Len(s) - 1 /\ d # 0
        <5>1. /\ Len(s) = Len(buffer) + Len(wire) /\ Len(f) = Len(buffer) + n
              /\ Len(v) = Len(wire) - n /\ Len(s) - d = 1
          BY <1>2, <1>3, <1>8, <3>4
        <5>2. /\ d \in Nat /\ d <= Len(f) /\ Len(v) >= 1
              /\ Len(buffer) \in Nat /\ Len(wire) \in Nat /\ n \in Nat /\ 1 <= n
          BY <1>1, <1>7, <3>1
        <5> HIDE DEF f, v, s, d, u
        <5>3. QED
          BY <5>1, <5>2
      <4>2. Ends(f) # {}
        BY <4>1 DEF Dropped
      <4>3. d - 1 \in Ends(f) /\ d - 1 + 1 = d
        BY <1>4, <1>7, <4>2
      <4>4. f[d - 1 + 1] = LF
        BY <1>2, <4>3, EndsOf
      <4>5. f[d] = s[d]
        <5>1. d \in 1 .. Len(f)
          BY <1>7, <4>1
        <5>2. QED
          BY <1>3, <5>1 DEF Part
      <4>6. s[d] = CR
        BY <3>2, <4>1
      <4>7. QED
        BY <4>3, <4>4, <4>5, <4>6, Sizes
    <3>5. Len(u) >= 2
      BY <3>3, <3>4
    <3> HIDE DEF f, v, s, d, u
    <3>6. /\ Len(u) - 1 \in 1 .. Len(u) /\ Len(u) \in 1 .. Len(u)
          /\ Len(u) - 1 + d = Len(s) - 1 /\ Len(u) + d = Len(s)
      BY <1>7, <1>8, <3>2, <3>3, <3>5
    <3>7. u[Len(u) - 1] = s[Len(s) - 1] /\ u[Len(u)] = s[Len(s)]
      <4> DEFINE x == Len(u) - 1
                 y == Len(u)
      <4>1. x \in 1 .. Len(u) /\ y \in 1 .. Len(u) /\ x + d = Len(s) - 1 /\ y + d = Len(s)
        BY <3>6
      <4> HIDE DEF x, y
      <4>2. u[x] = s[x + d] /\ u[y] = s[y + d]
        BY <1>8, <4>1
      <4>3. u[x] = s[Len(s) - 1] /\ u[y] = s[Len(s)]
        BY <4>1, <4>2
      <4>4. QED
        BY <4>3 DEF x, y
    <3>8. QED
      BY <3>2, <3>5, <3>7 DEF Terminated
  <2>5. buffer' \o wire' = u
    BY <1>5
  <2>6. QED
    BY <2>3, <2>4, <2>5
<1>11. QED
  BY <1>4, <1>5, <1>9, <1>10

\* What a read hands on.
LEMMA ReadHandsOn ==
  ASSUME Inv, NEW n \in 1 .. Len(wire), ReadOf(n), ~Erased(n), Fits(n)
  PROVE  LET f == Stored(buffer, wire, n)
             t == Cardinality(Ends(f))
             r == Len(received)
         IN  /\ f \in Seq(Bytes) /\ t \in Nat /\ r \in Nat
             /\ received' \in Seq(Seq(Bytes)) /\ Len(received') = r + t
             /\ \A i \in 1 .. r : received'[i] = received[i]
             /\ \A i \in r + 1 .. r + t :
                  i - r \in 1 .. t /\ received'[i] = Handed(Messages(f)[i - r])
             /\ t = 0 => received' = received
<1> DEFINE f == Stored(buffer, wire, n)
           t == Cardinality(Ends(f))
           r == Len(received)
           more == [k \in 1 .. t |-> Handed(Messages(f)[k])]
<1>1. buffer \in Seq(Bytes) /\ wire \in Seq(Bytes) /\ received \in Seq(Seq(Bytes)) /\ TypeOK
  BY Types DEF Inv
<1>2. f \in Seq(Bytes)
  <2>1. Moved(buffer, wire, n)
    BY <1>1, ReadBytes
  <2>2. QED
    BY <2>1 DEF Moved
<1>3. t \in Nat /\ r \in Nat
  BY <1>1, <1>2, EndsOf
<1>4. received' = received \o more
  <2>1. DOMAIN Messages(f) = 1 .. t
    BY DEF Messages
  <2>2. Filled(n) = f
    BY DEF Filled
  <2>3. QED
    BY <2>1, <2>2 DEF ReadOf
<1>5. \A k \in 1 .. t : Handed(Messages(f)[k]) \in Seq(Bytes)
  BY <1>1, <1>2, MessageBytes, HandedOn
<1> HIDE DEF f, t, r
<1>6. more \in Seq(Seq(Bytes)) /\ Len(more) = t /\ \A k \in 1 .. t : more[k] = Handed(Messages(f)[k])
  BY <1>3, <1>5
<1> HIDE DEF more
<1>7. /\ received' \in Seq(Seq(Bytes)) /\ Len(received') = r + t
      /\ \A i \in 1 .. r + t : received'[i] = IF i <= r THEN received[i] ELSE more[i - r]
  <2>1. /\ received \o more \in Seq(Seq(Bytes)) /\ Len(received \o more) = Len(received) + Len(more)
        /\ \A i \in 1 .. Len(received) + Len(more) :
             (received \o more)[i] = IF i <= Len(received) THEN received[i] ELSE more[i - Len(received)]
    BY <1>1, <1>6, ConcatProperties, Zenon
  <2>2. QED
    BY <1>4, <1>6, <2>1, Zenon DEF r
<1>8. \A i \in 1 .. r : received'[i] = received[i]
  BY <1>3, <1>7
<1>9. ASSUME NEW i \in r + 1 .. r + t
      PROVE  i - r \in 1 .. t /\ received'[i] = Handed(Messages(f)[i - r])
  <2>1. i - r \in 1 .. t /\ i \in 1 .. r + t /\ ~(i <= r)
    BY <1>3
  <2>2. QED
    BY <1>6, <1>7, <2>1
<1>10. t = 0 => received' = received
  <2>1. t = 0 => more = << >>
    BY <1>6
  <2>2. received \o << >> = received
    BY <1>1, ConcatEmptySeq
  <2>3. QED
    BY <1>4, <2>1, <2>2
<1>11. QED
  BY <1>2, <1>3, <1>7, <1>8, <1>9, <1>10 DEF f, t, r

\* Bytes in the text that is handed on are those of the message.
LEMMA HandedOwn ==
  ASSUME Inv, NEW text \in Seq(Bytes), \A i \in DOMAIN text : Own(text[i])
  PROVE  OwnBytes(Handed(text))
<1>1. \A i \in DOMAIN Handed(text) : i \in DOMAIN text /\ Handed(text)[i] = text[i]
  BY HandedOn DEF Inv
<1>2. QED
  BY <1>1 DEF OwnBytes, Own

\* Only the first message of a connection can have bytes of an earlier one.
LEMMA ReadOwn ==
  ASSUME Inv, NEW n \in 1 .. Len(wire), ReadOf(n), ~Erased(n), Fits(n)
  PROVE  OwnInput' /\ StaleInputIsFirst'
<1> DEFINE f == Stored(buffer, wire, n)
           t == Cardinality(Ends(f))
           r == Len(received)
           d == Dropped(f)
           Clean == \A i \in DOMAIN buffer : Own(buffer[i])
<1>1. /\ buffer \in Seq(Bytes) /\ wire \in Seq(Bytes) /\ Ends(buffer) = {}
      /\ Len(buffer) \in Nat /\ Len(wire) \in Nat /\ n \in Nat /\ 1 <= n /\ n <= Len(wire)
      /\ received \in Seq(Seq(Bytes))
  BY Types DEF Inv, RoomForMore
<1>2. /\ f \in Seq(Bytes) /\ Len(f) = Len(buffer) + n
      /\ \A i \in 1 .. Len(buffer) : f[i] = buffer[i]
      /\ \A i \in Len(buffer) + 1 .. Len(buffer) + n :
           i - Len(buffer) \in DOMAIN wire /\ f[i] = wire[i - Len(buffer)]
  <2>1. Moved(buffer, wire, n)
    BY <1>1, ReadBytes
  <2>2. QED
    BY <2>1 DEF Moved
<1>3. /\ d \in 0 .. Len(f) /\ Remainder(f) \in Seq(Bytes) /\ Len(Remainder(f)) = Len(f) - d
      /\ \A i \in 1 .. Len(Remainder(f)) : Remainder(f)[i] = f[i + d]
      /\ Ends(f) # {} => d >= 2 /\ d - 1 \in Ends(f)
  BY <1>2, RemainderOf
<1>4. buffer' = Remainder(f) /\ UNCHANGED <<sent, stale>>
  BY DEF ReadOf, Filled
<1>5. /\ t \in Nat /\ r \in Nat /\ Len(received') = r + t /\ received' \in Seq(Seq(Bytes))
      /\ \A i \in 1 .. r : received'[i] = received[i]
      /\ \A i \in r + 1 .. r + t : i - r \in 1 .. t /\ received'[i] = Handed(Messages(f)[i - r])
      /\ t = 0 => received' = received
  BY ReadHandsOn
<1>6. \A e \in Ends(f) : e \in Nat /\ Len(buffer) <= e
  BY <1>1, EndsAreNew
<1>7. Clean \/ (stale /\ received = << >>)
  BY DEF Inv, OwnInput
<1>8. \A k \in 1 .. t :
        /\ Messages(f)[k] \in Seq(Bytes)
        /\ \A i \in DOMAIN Messages(f)[k] :
             \E j \in DOMAIN f :
                /\ Messages(f)[k][i] = f[j]
                /\ k = 1 \/ \E e \in Ends(f) : e + 2 <= j
  BY <1>2, MessageBytes
<1>9. (Ends(f) = {}) <=> (t = 0)
  BY <1>2, EndsOf
<1>10. \A i \in DOMAIN wire : Own(wire[i])
  BY DEF Inv, OwnInput
<1>11. \A i \in DOMAIN wire' : Own(wire'[i])
  BY WireOwn
<1> HIDE DEF f, t, d
<1>12. ASSUME NEW j \in DOMAIN f, Clean \/ j > Len(buffer)
       PROVE  Own(f[j])
  <2>1. j \in 1 .. Len(buffer) + n
    BY <1>2
  <2>2. CASE j > Len(buffer)
    <3>1. j \in Len(buffer) + 1 .. Len(buffer) + n
      BY <1>1, <2>1, <2>2
    <3>2. QED
      BY <1>2, <1>10, <3>1
  <2>3. CASE ~(j > Len(buffer))
    <3>1. Clean
      BY <1>12, <2>3
    <3>2. j \in 1 .. Len(buffer) /\ j \in DOMAIN buffer
      BY <1>1, <2>1, <2>3
    <3>3. f[j] = buffer[j]
      BY <1>2, <3>2
    <3>4. QED
      BY <3>1, <3>2, <3>3
  <2>4. QED
    BY <2>2, <2>3
<1>13. OwnInput'
  <2>1. ASSUME Clean \/ t # 0
        PROVE  \A i \in DOMAIN buffer' : Own(buffer'[i])
    <3> SUFFICES ASSUME NEW i \in DOMAIN buffer' PROVE Own(buffer'[i])
      OBVIOUS
    <3>1. i \in 1 .. Len(Remainder(f)) /\ Len(f) \in Nat
      BY <1>1, <1>2, <1>3, <1>4
    <3>2. buffer'[i] = f[i + d] /\ i + d \in DOMAIN f
      BY <1>2, <1>3, <1>4, <3>1
    <3>3. Clean \/ i + d > Len(buffer)
      <4>1. CASE t # 0
        <5>1. d - 1 \in Ends(f)
          BY <1>3, <1>9, <4>1
        <5>2. Len(buffer) <= d - 1
          BY <1>6, <5>1
        <5>3. d \in Int
          BY <1>2, <1>3
        <5>4. QED
          BY <1>1, <3>1, <5>2, <5>3
      <4>2. QED
        BY <2>1, <4>1
    <3> DEFINE j == i + d
    <3>4. j \in DOMAIN f /\ (Clean \/ j > Len(buffer)) /\ buffer'[i] = f[j]
      BY <3>2, <3>3
    <3> HIDE DEF j, Clean
    <3>5. QED
      BY <1>12, <3>4
  <2>2. ASSUME ~(Clean \/ t # 0) PROVE stale' /\ received' = << >>
    BY <1>4, <1>5, <1>7, <2>2
  <2>3. QED
    BY <1>4, <1>11, <2>1, <2>2 DEF OwnInput, Own
<1>14. StaleInputIsFirst'
  <2>1. ASSUME NEW i \in DOMAIN received'
        PROVE  OwnBytes(received'[i]) \/ (i = 1 /\ stale)
    <3>1. i \in 1 .. r + t
      BY <1>5
    <3>2. CASE i \in 1 .. r
      <4>1. i \in DOMAIN received /\ received'[i] = received[i]
        <5>1. DOMAIN received = 1 .. r
          BY <1>1
        <5>2. QED
          BY <1>5, <3>2, <5>1
      <4>2. QED
        BY <4>1 DEF Inv, StaleInputIsFirst
    <3>3. CASE i \in r + 1 .. r + t
      <4> DEFINE k == i - r
                 text == Messages(f)[k]
      <4>1. k \in 1 .. t /\ received'[i] = Handed(text)
        BY <1>5, <3>3
      <4>2. /\ text \in Seq(Bytes)
            /\ \A x \in DOMAIN text :
                 \E j \in DOMAIN f : text[x] = f[j] /\ (k = 1 \/ \E e \in Ends(f) : e + 2 <= j)
        BY <1>8, <4>1
      <4>3. k = 1 /\ r = 0 => i = 1
        BY <1>5, <3>3
      <4> HIDE DEF k, text
      <4>4. CASE Clean \/ k # 1
        <5>1. ASSUME NEW x \in DOMAIN text PROVE Own(text[x])
          <6>1. PICK j \in DOMAIN f : text[x] = f[j] /\ (k = 1 \/ \E e \in Ends(f) : e + 2 <= j)
            BY <4>2
          <6>2. Clean \/ j > Len(buffer)
            <7>1. ASSUME k # 1 PROVE j > Len(buffer)
              <8>1. PICK e \in Ends(f) : e + 2 <= j
                BY <6>1, <7>1
              <8>2. e \in Nat /\ Len(buffer) <= e /\ j \in Nat
                BY <1>2, <1>6
              <8>3. QED
                BY <1>1, <8>1, <8>2
            <7>2. QED
              BY <4>4, <7>1
          <6> HIDE DEF Clean
          <6>3. QED
            BY <1>12, <6>1, <6>2
        <5>2. OwnBytes(Handed(text))
          BY <4>2, <5>1, HandedOwn
        <5>3. QED
          BY <4>1, <5>2
      <4>5. CASE ~(Clean \/ k # 1)
        <5>1. stale /\ r = 0
          BY <1>7, <4>5
        <5>2. QED
          BY <4>3, <4>5, <5>1
      <4>6. QED
        BY <4>4, <4>5
    <3>4. QED
      BY <1>5, <3>1, <3>2, <3>3
  <2>2. QED
    BY <1>4, <2>1 DEF StaleInputIsFirst, OwnBytes
<1>15. QED
  BY <1>13, <1>14

\* As long as nothing is lost the messages that are read are the next ones.
LEMMA ReadOrder ==
  ASSUME Inv, NEW n \in 1 .. Len(wire), ReadOf(n), ~Erased(n), Fits(n)
  PROVE  SentInOrder'
<1> DEFINE f == Stored(buffer, wire, n)
           t == Cardinality(Ends(f))
           r == Len(received)
           s == buffer \o wire
           u == Remainder(f) \o Unread(wire, n)
<1>1. UNCHANGED <<toServer, conn, sent, stale>> /\ (discarded' <=> discarded)
  BY DEF ReadOf
<1> SUFFICES ASSUME ~discarded, ~stale PROVE SentInOrder'
  BY <1>1 DEF SentInOrder
<1>2. /\ buffer \in Seq(Bytes) /\ wire \in Seq(Bytes) /\ sent \in Seq(Texts)
      /\ received \in Seq(Seq(Bytes))
  BY Types DEF Inv
<1>3. /\ f \in Seq(Bytes) /\ t \in Nat /\ r \in Nat /\ Len(received') = r + t
      /\ received' \in Seq(Seq(Bytes))
      /\ \A i \in 1 .. r : received'[i] = received[i]
      /\ \A i \in r + 1 .. r + t : i - r \in 1 .. t /\ received'[i] = Handed(Messages(f)[i - r])
  BY ReadHandsOn
<1>4. s \in Seq(Bytes) /\ Part(f, s)
  BY <1>2, ReadIsPart
<1>5. /\ r <= Len(sent) /\ Len(sent) \in Nat
      /\ \A i \in 1 .. r : received[i] = Handed(Text(sent[i]))
  BY <1>2 DEF Inv, SentInOrder
<1>6. PICK pos : Layout(pos, r, sent, s, conn = "open")
  BY DEF Inv, SentInOrder
<1>7. r \in 0 .. Len(sent)
  BY <1>3, <1>5
<1>8. /\ u \in Seq(Bytes) /\ Len(u) = Len(s) - Dropped(f)
      /\ \A i \in 1 .. Len(u) : u[i] = s[i + Dropped(f)]
  BY <1>2, ReadLeaves
<1>9. buffer' \o wire' = u
  BY DEF ReadOf, Filled
<1> DEFINE whole == (conn = "open")
<1> HIDE DEF f, r, s, u, whole
<1>10. PICK m \in r .. Len(sent) :
         /\ t = m - r
         /\ \A k \in 1 .. m - r : Messages(f)[k] = Text(sent[r + k])
         /\ Dropped(f) = pos[m] /\ pos[m] <= Len(f)
  <2>1. Layout(pos, r, sent, s, whole)
    BY <1>6 DEF whole
  <2>2. QED
    BY <1>2, <1>3, <1>4, <1>7, <2>1, LayoutExtraction
<1> HIDE DEF t
<1>11. r + t = m /\ m <= Len(sent)
  BY <1>3, <1>10
<1>12. \E new : Layout(new, m, sent, u, whole)
  <2>1. Layout(pos, r, sent, s, whole)
    BY <1>6 DEF whole
  <2>2. pos[m] <= Len(s)
    <3>1. Len(f) \in Nat /\ Len(s) \in Nat /\ Len(f) <= Len(s)
      BY <1>3, <1>4 DEF Part
    <3>2. pos[m] \in Nat
      BY <1>7, <2>1 DEF Layout
    <3>3. QED
      BY <1>10, <3>1, <3>2
  <2>3. Len(u) = Len(s) - pos[m] /\ \A i \in 1 .. Len(u) : u[i] = s[i + pos[m]]
    BY <1>8, <1>10
  <2>4. QED
    BY <1>2, <1>4, <1>7, <1>8, <2>1, <2>2, <2>3, LayoutShift
<1>13. ASSUME NEW i \in DOMAIN received'
       PROVE  received'[i] = Handed(Text(sent[i]))
  <2>1. i \in 1 .. r + t
    BY <1>3
  <2>2. CASE i \in 1 .. r
    BY <1>3, <1>5, <2>2
  <2>3. CASE i \in r + 1 .. r + t
    <3>1. i - r \in 1 .. m - r /\ r + (i - r) = i
      BY <1>3, <1>10, <2>3
    <3>2. received'[i] = Handed(Messages(f)[i - r]) /\ Messages(f)[i - r] = Text(sent[r + (i - r)])
      BY <1>3, <1>10, <2>3, <3>1
    <3>3. QED
      BY <3>1, <3>2
  <2>4. QED
    BY <1>3, <2>1, <2>2, <2>3
<1>14. QED
  BY <1>1, <1>3, <1>9, <1>11, <1>12, <1>13 DEF SentInOrder, Handed, whole

\* Reading any number of bytes keeps the invariant.
LEMMA ReadInv ==
  ASSUME Inv, Read
  PROVE  Inv'
<1>1. PICK n \in 1 .. Len(wire) : ReadOf(n)
  BY ReadIs
<1>2. conn # "free" /\ TypeOK
  BY ReadIs DEF Inv
<1>3. CASE Erased(n) \/ ~Fits(n)
  BY <1>1, <1>2, <1>3, ReadErases
<1>4. CASE ~Erased(n) /\ Fits(n)
  <2>1. buffer' \in Seq(Bytes) /\ RoomForMore' /\ EnoughRoom'
    BY <1>1, <1>4, ReadLeavesRoom
  <2>2. OwnInput' /\ StaleInputIsFirst'
    BY <1>1, <1>4, ReadOwn
  <2>3. SentInOrder'
    BY <1>1, <1>4, ReadOrder
  <2>4. wire' \in Seq(Bytes)
    BY <1>1, WireOwn
  <2>5. received' \in Seq(Seq(Bytes))
    BY <1>1, <1>4, ReadHandsOn
  <2>6. (discarded' <=> discarded) /\ discarded' \in BOOLEAN
    BY <1>1, <1>4 DEF ReadOf
  <2>7. UNCHANGED <<toServer, conn, composed, sent, stale, burst>>
    BY <1>1 DEF ReadOf
  <2>8. TypeOK'
    <3>1. {discarded, stale, burst}' \subseteq BOOLEAN
      BY <1>2, <2>6, <2>7 DEF TypeOK
    <3>2. Len(buffer') <= MaxChars
      <4>1. Len(buffer') \in Nat /\ Len(buffer') < MaxChars
        BY <2>1 DEF RoomForMore
      <4>2. QED
        BY <4>1, Sizes
    <3>3. QED
      BY <1>2, <2>1, <2>4, <2>5, <2>7, <3>1, <3>2 DEF TypeOK, Bytes, Lines
  <2>9. LostOnlyInBursts'
    BY <2>6, <2>7 DEF Inv, LostOnlyInBursts
  <2>10. (conn = "free" => wire = << >>)'
    BY <1>2, <2>7
  <2>11. QED
    BY <2>1, <2>2, <2>3, <2>8, <2>9, <2>10 DEF Inv
<1>5. QED
  BY <1>3, <1>4

\* A new connection, with the buffer of the last one, keeps the invariant.
LEMMA ConnectInv ==
  ASSUME Inv, Connect
  PROVE  Inv'
<1>1. TypeOK /\ wire = << >> /\ buffer \in Seq(Bytes) /\ Len(buffer) <= MaxChars
  BY Types DEF Inv, Connect
<1>2. /\ conn' = "open" /\ sent' = << >> /\ received' = << >> /\ discarded' = FALSE
      /\ stale' = (buffer # << >>) /\ burst' = FALSE
      /\ UNCHANGED <<toServer, wire, buffer, composed>>
  BY DEF Connect
<1>3. TypeOK'
  <2>1. {discarded, stale, burst}' \subseteq BOOLEAN
    BY <1>2, Zenon
  <2>2. QED
    BY <1>1, <1>2, <2>1 DEF TypeOK, Lines
<1>4. EnoughRoom'
  BY <1>1, <1>2, Sizes DEF EnoughRoom
<1>5. OwnInput'
  <2>1. DOMAIN wire' = {}
    BY <1>1, <1>2
  <2>2. CASE buffer = << >>
    <3>1. DOMAIN buffer' = {}
      BY <1>2, <2>2
    <3>2. QED
      BY <2>1, <3>1 DEF OwnInput
  <2>3. CASE buffer # << >>
    <3>1. stale' /\ received' = << >>
      BY <1>2, <2>3
    <3>2. QED
      BY <2>1, <3>1 DEF OwnInput
  <2>4. QED
    BY <2>2, <2>3
<1>6. SentInOrder'
  <2> SUFFICES ASSUME buffer = << >> PROVE SentInOrder'
    BY <1>2 DEF SentInOrder
  <2>1. buffer' \o wire' = << >>
    BY <1>1, <1>2
  <2>2. Layout([k \in 0 .. 0 |-> 0], 0, << >>, << >>, conn' = "open")
    BY DEF Layout
  <2>3. QED
    BY <1>2, <2>1, <2>2 DEF SentInOrder
<1>7. (conn = "free" => wire = << >>)' /\ RoomForMore' /\ LostOnlyInBursts' /\ StaleInputIsFirst'
  BY <1>2 DEF Inv, RoomForMore, LostOnlyInBursts, StaleInputIsFirst
<1>8. QED
  BY <1>3, <1>4, <1>5, <1>6, <1>7 DEF Inv

\* The end of a connection, with or without the bytes that are under way.
LEMMA CloseInv ==
  ASSUME Inv, conn' \in {"closed", "free"}, wire' \in {wire, << >>},
         conn' = "free" => wire' = << >>, UNCHANGED <<toServer, buffer, composed, history>>
  PROVE  Inv'
<1>1. TypeOK /\ wire \in Seq(Bytes) /\ buffer \in Seq(Bytes) /\ sent \in Seq(Texts)
  BY Types DEF Inv
<1>2. wire' \in Seq(Bytes)
  <2>1. << >> \in Seq(Bytes)
    OBVIOUS
  <2>2. wire' = wire \/ wire' = << >>
    OBVIOUS
  <2>3. QED
    BY <1>1, <2>1, <2>2
<1>3. TypeOK'
  BY <1>1, <1>2 DEF TypeOK, history, Bytes, Lines
<1>4. EnoughRoom'
  <2> SUFFICES ASSUME ~burst
               PROVE  /\ Len(buffer) + Len(wire') <= MaxChars
                      /\ wire' # << >> => Terminated(buffer \o wire')
    BY DEF EnoughRoom, history
  <2>1. CASE wire' = wire
    BY <2>1 DEF Inv, EnoughRoom
  <2>2. CASE wire' = << >>
    BY <1>1, <2>2, Types, Sizes
  <2>3. QED
    BY <2>1, <2>2
<1>5. OwnInput'
  <2>1. DOMAIN << >> = {}
    OBVIOUS
  <2>2. wire' = wire \/ DOMAIN wire' = {}
    BY <2>1
  <2>3. QED
    BY <2>2 DEF Inv, OwnInput, Own, history
<1>6. StaleInputIsFirst' /\ RoomForMore' /\ LostOnlyInBursts'
  BY DEF Inv, StaleInputIsFirst, OwnBytes, RoomForMore, LostOnlyInBursts, history
<1>7. SentInOrder'
  <2> SUFFICES ASSUME ~discarded, ~stale PROVE SentInOrder'
    BY DEF SentInOrder, history
  <2> DEFINE s == buffer \o wire
             u == buffer \o wire'
             r == Len(received)
             whole == (conn = "open")
  <2>1. /\ r <= Len(sent) /\ \A i \in DOMAIN received : received[i] = Handed(Text(sent[i]))
    BY DEF Inv, SentInOrder
  <2>2. PICK pos : Layout(pos, r, sent, s, whole)
    BY DEF Inv, SentInOrder
  <2>3. r \in 0 .. Len(sent) /\ s \in Seq(Bytes) /\ u \in Seq(Bytes)
    BY <1>1, <1>2, <2>1, Types, ConcatProperties
  <2>4. Part(u, s)
    <3>1. Part(s, s)
      BY <2>3 DEF Part
    <3>2. Part(buffer, s)
      <4>1. /\ Len(s) = Len(buffer) + Len(wire)
            /\ \A i \in 1 .. Len(buffer) + Len(wire) :
                 s[i] = IF i <= Len(buffer) THEN buffer[i] ELSE wire[i - Len(buffer)]
        BY <1>1, ConcatProperties, Zenon
      <4>2. Len(buffer) \in Nat /\ Len(wire) \in Nat
        BY <1>1
      <4> HIDE DEF s
      <4>3. QED
        BY <4>1, <4>2 DEF Part
    <3>3. wire' = << >> => u = buffer
      BY <1>1, ConcatEmptySeq
    <3>4. wire' = wire => u = s
      OBVIOUS
    <3>5. QED
      BY <3>1, <3>2, <3>3, <3>4
  <2> HIDE DEF s, u, r, whole
  <2>5. Layout(pos, r, sent, u, FALSE)
    BY <1>1, <2>2, <2>3, <2>4, LayoutPart
  <2>6. (conn' = "open") = FALSE
    OBVIOUS
  <2>7. Layout(pos, Len(received), sent, buffer \o wire', conn' = "open")
    BY <2>5, <2>6 DEF u, r
  <2>8. QED
    BY <2>1, <2>7 DEF SentInOrder, Handed, history, r
<1>8. (conn = "free" => wire = << >>)'
  OBVIOUS
<1>9. QED
  BY <1>3, <1>4, <1>5, <1>6, <1>7, <1>8 DEF Inv

\* Every step keeps the invariant.
LEMMA NextInv ==
  ASSUME Inv, [Next]_vars
  PROVE  Inv'
<1>1. ASSUME NEW n \in 1 .. Payload + 1, Write(n) PROVE Inv'
  BY <1>1, WriteInv
<1>2. CASE Read
  BY <1>2, ReadInv
<1>3. CASE Connect
  BY <1>3, ConnectInv
<1>4. CASE SenderCloses
  BY <1>4, CloseInv DEF SenderCloses
<1>5. CASE ReadEnd
  BY <1>5, CloseInv DEF ReadEnd
<1>6. CASE ReceiverCloses
  BY <1>6, CloseInv DEF ReceiverCloses
<1>7. CASE UNCHANGED vars
  <2>1. UNCHANGED <<toServer, conn, wire, buffer, composed, history>>
    BY <1>7 DEF vars, stream
  <2>2. TypeOK' /\ RoomForMore' /\ (conn = "free" => wire = << >>)'
    BY <2>1 DEF Inv, TypeOK, Lines, RoomForMore, history
  <2>3. EnoughRoom' /\ LostOnlyInBursts'
    BY <2>1 DEF Inv, EnoughRoom, LostOnlyInBursts, history
  <2>4. OwnInput' /\ StaleInputIsFirst'
    BY <2>1 DEF Inv, OwnInput, Own, StaleInputIsFirst, OwnBytes, history
  <2>5. SentInOrder'
    BY <2>1 DEF Inv, SentInOrder, Handed, history
  <2>6. QED
    BY <2>2, <2>3, <2>4, <2>5 DEF Inv
<1>8. QED
  BY <1>1, <1>2, <1>3, <1>4, <1>5, <1>6, <1>7 DEF Next

------------------------------------------------------------------------------
(* The theorems *)

\* The invariant holds in every state of every behaviour.
LEMMA Always == Spec => []Inv
BY InitInv, NextInv, PTL DEF Spec

\* The variables keep their types; in particular the buffer never holds more
\* than its length.
THEOREM TypeCorrect == Spec => []TypeOK
<1>1. Inv => TypeOK
  BY DEF Inv
<1>2. QED
  BY <1>1, Always, PTL

\* However the stream is cut and whatever is thrown away, there is room for the
\* next read, and no complete message is left in the buffer.
THEOREM AlwaysRoom == Spec => []RoomForMore
<1>1. Inv => RoomForMore
  BY DEF Inv
<1>2. QED
  BY <1>1, Always, PTL

\* Texts are handed on whole, in order and once each, for every cut of the
\* stream, every size of the buffer and every number of messages.
THEOREM InOrderAsSent == Spec => []ReceivedAsSent
<1>1. Inv => ReceivedAsSent
  BY DEF Inv, SentInOrder, ReceivedAsSent
<1>2. QED
  BY <1>1, Always, PTL

\* A sender that is never ahead by more than the buffer holds loses nothing.
THEOREM NothingLostInStep == Spec => []LostOnlyInBursts
<1>1. Inv => LostOnlyInBursts
  BY DEF Inv
<1>2. QED
  BY <1>1, Always, PTL

\* The rest of an old connection reaches at most the first message of a new one.
THEOREM StaleAtMostOnce == Spec => []StaleInputIsFirst
<1>1. Inv => StaleInputIsFirst
  BY DEF Inv
<1>2. QED
  BY <1>1, Always, PTL
================================================================================
