--------------------------- MODULE HashTableProofs ---------------------------
(***************************************************************************)
(* Proofs about HashTable for every set of keys, every hash function and   *)
(* every size and load factor.                                             *)
(***************************************************************************)
EXTENDS HashTable, FiniteSetTheorems, SequenceTheorems, TLAPS

------------------------------------------------------------------------------
(* Sizes *)

\* The load factor is one of four.
LEMMA ValidHalvesValues == ValidHalves \in 1 .. 4
  BY SizeAssumption DEF ValidHalves

\* There is at least one bucket, and the limit is a number.
LEMMA Sizes ==
  /\ Capacity \in Nat \ {0}
  /\ LoadFactor \in Nat
  /\ LoadFactor * Capacity \in Nat
<1> DEFINE m == 2 * MaxItems
<1>1. m \in Nat /\ m >= 2
  BY SizeAssumption
<1>2. m \div ValidHalves \in Nat
      /\ (m % ValidHalves = 0 => m \div ValidHalves > 0)
  <2>1. CASE ValidHalves = 1
    BY <1>1, <2>1
  <2>2. CASE ValidHalves = 2
    BY <1>1, <2>2
  <2>3. CASE ValidHalves = 3
    BY <1>1, <2>3
  <2>4. CASE ValidHalves = 4
    BY <1>1, <2>4
  <2>5. QED
    BY <2>1, <2>2, <2>3, <2>4, ValidHalvesValues
<1>3. Capacity \in Nat \ {0}
  BY <1>2 DEF Capacity
<1>4. LoadFactor \in Nat
  BY ValidHalvesValues DEF LoadFactor
<1>5. QED
  BY <1>3, <1>4

\* Every key has a bucket.
LEMMA IndexInBuckets ==
  ASSUME NEW k \in Keys
  PROVE  Index(k) \in Buckets
<1>1. Hash[k] \in Nat
  BY HashAssumption
<1>2. QED
  BY <1>1, Sizes DEF Index, Buckets

------------------------------------------------------------------------------
(* The inductive invariant *)

Pairs == [key : Keys, value : Values]

KeysIn == {e.key : e \in Stored}
Used == {b \in Buckets : items[b] # << >>}

\* Chains of pairs.
Chains == items \in [Buckets -> Seq(Pairs)]

\* A pair is in the bucket of its key, where the search looks for it.
Placed == \A b \in Buckets : \A i \in DOMAIN items[b] : Index(items[b][i].key) = b

\* No key is twice in a chain.
Once == \A b \in Buckets : \A i, j \in DOMAIN items[b] :
          items[b][i].key = items[b][j].key => i = j

\* Both counters, of the pairs and of their keys.
Counted ==
  /\ itemCount \in Nat /\ linkCount \in Int
  /\ IsFiniteSet(Stored) /\ IsFiniteSet(KeysIn)
  /\ itemCount = Cardinality(Used)
  /\ itemCount + linkCount = Cardinality(Stored)
  /\ itemCount + linkCount = Cardinality(KeysIn)

Inv == Chains /\ Placed /\ Once /\ Counted

\* What is stored, as positions in chains.
LEMMA StoredAt ==
  ASSUME NEW e
  PROVE  e \in Stored <=> \E b \in Buckets : \E i \in DOMAIN items[b] : e = items[b][i]
  BY DEF Stored

LEMMA StoredAtNext ==
  ASSUME NEW e
  PROVE  e \in Stored' <=> \E b \in Buckets : \E i \in DOMAIN items'[b] : e = items'[b][i]
  BY DEF Stored

LEMMA KeysInIs ==
  ASSUME NEW k
  PROVE  k \in KeysIn <=> \E e \in Stored : k = e.key
  BY DEF KeysIn

LEMMA KeysInIsNext ==
  ASSUME NEW k
  PROVE  k \in KeysIn' <=> \E e \in Stored' : k = e.key
  BY DEF KeysIn

LEMMA UsedFinite == IsFiniteSet(Buckets) /\ IsFiniteSet(Used)
<1>1. IsFiniteSet(Buckets)
  BY Sizes, FS_Interval DEF Buckets
<1>2. QED
  BY <1>1, FS_Subset DEF Used

\* Every stored pair is where the search for its key looks.
LEMMA StoredIsPlaced ==
  ASSUME Inv, NEW e \in Stored
  PROVE  /\ e \in Pairs
         /\ \E i \in DOMAIN items[Index(e.key)] : e = items[Index(e.key)][i]
<1>0. PICK b \in Buckets : \E i \in DOMAIN items[b] : e = items[b][i]
  BY StoredAt
<1>1. PICK i \in DOMAIN items[b] : e = items[b][i]
  BY <1>0
<1>2. items[b] \in Seq(Pairs)
  BY <1>1 DEF Inv, Chains
<1>3. e \in Pairs
  BY <1>1, <1>2
<1>4. Index(e.key) = b
  BY <1>1 DEF Inv, Placed
<1>5. QED
  BY <1>1, <1>3, <1>4

\* Two pairs with one key are one.
LEMMA KeysDetermine ==
  ASSUME Inv, NEW e \in Stored, NEW f \in Stored, e.key = f.key
  PROVE  e = f
<1>1. PICK i \in DOMAIN items[Index(e.key)] : e = items[Index(e.key)][i]
  BY StoredIsPlaced
<1>2. PICK j \in DOMAIN items[Index(e.key)] : f = items[Index(e.key)][j]
  BY StoredIsPlaced
<1>3. Index(e.key) \in Buckets
  BY StoredIsPlaced, IndexInBuckets DEF Pairs
<1>4. i = j
  BY <1>1, <1>2, <1>3 DEF Inv, Once
<1>5. QED
  BY <1>1, <1>2, <1>4

------------------------------------------------------------------------------
(* The search *)

\* A key that is stored has one place, and the search returns its value.
LEMMA FoundWhenStored ==
  ASSUME Inv, NEW e \in Stored
  PROVE  \E i \in DOMAIN items[Index(e.key)] :
           /\ e = items[Index(e.key)][i]
           /\ PlacesOf(e.key) = {i}
           /\ Min(PlacesOf(e.key)) = i
           /\ ~IsEmpty
           /\ Found(e.key) = e.value
<1> DEFINE k == e.key
           chain == items[Index(k)]
<1>1. PICK i \in DOMAIN chain : e = chain[i]
  BY StoredIsPlaced
<1>2. k \in Keys /\ Index(k) \in Buckets
  BY StoredIsPlaced, IndexInBuckets DEF Pairs
<1>3. PlacesOf(k) = {i}
  BY <1>1, <1>2 DEF Inv, Once, PlacesOf
<1>4. i \in Int
  BY <1>2 DEF Inv, Chains
<1>5. Min(PlacesOf(k)) = i
  BY <1>3, <1>4 DEF Min
<1>6. ~IsEmpty
  <2>1. Index(k) \in Used
    BY <1>1, <1>2 DEF Used
  <2>2. QED
    BY <2>1, UsedFinite, FS_EmptySet DEF Inv, Counted, IsEmpty
<1>7. Found(k) = e.value
  BY <1>1, <1>3, <1>5, <1>6 DEF Found
<1>8. QED
  BY <1>1, <1>3, <1>5, <1>6, <1>7

\* A key that is not stored has no place, and the search returns NULL.
LEMMA NotFound ==
  ASSUME Inv, NEW k \in Keys, k \notin KeysIn
  PROVE  PlacesOf(k) = {} /\ Found(k) = None
<1>1. ASSUME NEW i \in PlacesOf(k)
      PROVE  FALSE
  <2>1. i \in DOMAIN items[Index(k)] /\ items[Index(k)][i].key = k
    BY <1>1 DEF PlacesOf
  <2>2. items[Index(k)][i] \in Stored
    BY <2>1, IndexInBuckets, StoredAt
  <2>3. QED
    BY <2>1, <2>2, KeysInIs
<1>2. QED
  BY <1>1 DEF Found

\* The search tells whether a key is stored.
LEMMA FoundTells ==
  ASSUME Inv, NEW k \in Keys
  PROVE  k \in KeysIn <=> Found(k) # None
<1>1. CASE k \in KeysIn
  <2>1. PICK e \in Stored : k = e.key
    BY <1>1, KeysInIs
  <2>2. Found(k) = e.value
    BY <2>1, FoundWhenStored
  <2>3. e.value \in Values
    BY StoredIsPlaced DEF Pairs
  <2>4. QED
    BY <1>1, <2>2, <2>3, NoneAssumption
<1>2. CASE k \notin KeysIn
  BY <1>2, NotFound
<1>3. QED
  BY <1>1, <1>2

------------------------------------------------------------------------------
(* What the steps do to the pairs *)

LEMMA InitInv == Init => Inv
<1> SUFFICES ASSUME Init
             PROVE  Inv
  OBVIOUS
<1>1. \A b \in Buckets : items[b] = << >>
  BY DEF Init
<1>2. Chains /\ Placed /\ Once
  BY <1>1 DEF Init, Chains, Placed, Once
<1>3. Stored = {} /\ KeysIn = {} /\ Used = {}
  <2>1. Stored = {}
    BY <1>1, StoredAt
  <2>2. QED
    BY <1>1, <2>1 DEF KeysIn, Used
<1>4. QED
  BY <1>2, <1>3, FS_EmptySet DEF Inv, Counted, Init

\* An accepted insertion adds one pair with a new key.
LEMMA InsertAdds ==
  ASSUME Inv, NEW k \in Keys, NEW v \in Values, Insert(k, v), Accepts(k)
  PROVE  /\ Chains' /\ Placed' /\ Once'
         /\ Item(k, v) \notin Stored /\ k \notin KeysIn
         /\ Stored' = Stored \cup {Item(k, v)}
         /\ KeysIn' = KeysIn \cup {k}
         /\ Used' = Used \cup {Index(k)}
<1> DEFINE idx == Index(k)
           chain == items[idx]
           new == Item(k, v)
<1>1. /\ items' = [items EXCEPT ![idx] = Append(@, new)]
      /\ idx \in Buckets /\ chain \in Seq(Pairs) /\ new \in Pairs /\ new.key = k
  BY IndexInBuckets DEF Insert, Inv, Chains, Item, Pairs
<1>2. k \notin KeysIn
  BY FoundTells DEF Accepts
<1>3. \A i \in DOMAIN chain : chain[i].key # k
  <2>1. SUFFICES ASSUME NEW i \in DOMAIN chain, chain[i].key = k
                 PROVE  FALSE
    OBVIOUS
  <2>2. chain[i] \in Stored
    BY <1>1, StoredAt
  <2>3. QED
    BY <1>2, <2>1, <2>2, KeysInIs
<1>4. new \notin Stored
  BY <1>1, <1>2, KeysInIs
<1>5. /\ DOMAIN chain = 1 .. Len(chain) /\ Len(chain) \in Nat
      /\ DOMAIN Append(chain, new) = 1 .. Len(chain) + 1
      /\ \A i \in 1 .. Len(chain) : Append(chain, new)[i] = chain[i]
      /\ Append(chain, new)[Len(chain) + 1] = new
      /\ Append(chain, new) \in Seq(Pairs)
  BY <1>1
<1>6. items \in [Buckets -> Seq(Pairs)]
  BY DEF Inv, Chains
<1>7. /\ items'[idx] = Append(chain, new)
      /\ \A b \in Buckets : b # idx => items'[b] = items[b]
  BY <1>1, <1>6
<1> HIDE DEF idx, chain, new
<1>8. Chains'
  BY <1>1, <1>5, <1>6 DEF Chains, chain
<1>9. Placed'
  <2>1. SUFFICES ASSUME NEW b \in Buckets, NEW i \in DOMAIN items'[b]
                 PROVE  Index(items'[b][i].key) = b
    BY DEF Placed, Index, Capacity, ValidHalves, Buckets
  <2>2. CASE b # idx
    BY <2>1, <2>2, <1>7 DEF Inv, Placed
  <2>3. CASE b = idx /\ i \in 1 .. Len(chain)
    BY <2>3, <1>5, <1>7, <1>1 DEF Inv, Placed, chain
  <2>4. CASE b = idx /\ i = Len(chain) + 1
    BY <2>4, <1>5, <1>7, <1>1 DEF idx
  <2>5. QED
    BY <2>1, <2>2, <2>3, <2>4, <1>5, <1>7
<1>10. Once'
  <2>1. SUFFICES ASSUME NEW b \in Buckets, NEW i \in DOMAIN items'[b], NEW j \in DOMAIN items'[b],
                        items'[b][i].key = items'[b][j].key
                 PROVE  i = j
    BY DEF Once, Capacity, ValidHalves, Buckets
  <2>2. CASE b # idx
    BY <2>1, <2>2, <1>7 DEF Inv, Once
  <2>3. CASE b = idx
    <3>1. i \in 1 .. Len(chain) + 1 /\ j \in 1 .. Len(chain) + 1
      BY <2>1, <2>3, <1>5, <1>7
    <3>2. CASE i \in 1 .. Len(chain) /\ j \in 1 .. Len(chain)
      BY <2>1, <2>3, <3>2, <1>1, <1>5, <1>7 DEF Inv, Once, chain
    <3>3. CASE i = Len(chain) + 1 /\ j \in 1 .. Len(chain)
      BY <2>1, <2>3, <3>3, <1>1, <1>3, <1>5, <1>7
    <3>4. CASE i \in 1 .. Len(chain) /\ j = Len(chain) + 1
      BY <2>1, <2>3, <3>4, <1>1, <1>3, <1>5, <1>7
    <3>5. QED
      BY <3>1, <3>2, <3>3, <3>4, <1>5
  <2>4. QED
    BY <2>2, <2>3
<1>11. Stored' = Stored \cup {new}
  <2>1. ASSUME NEW e \in Stored'
        PROVE  e \in Stored \cup {new}
    <3>1. PICK b \in Buckets : \E i \in DOMAIN items'[b] : e = items'[b][i]
      BY StoredAtNext
    <3>2. PICK i \in DOMAIN items'[b] : e = items'[b][i]
      BY <3>1
    <3>3. CASE b # idx
      BY <3>2, <3>3, <1>7, StoredAt
    <3>4. CASE b = idx /\ i \in 1 .. Len(chain)
      BY <3>2, <3>4, <1>1, <1>5, <1>7, StoredAt DEF chain
    <3>5. CASE b = idx /\ i = Len(chain) + 1
      BY <3>2, <3>5, <1>5, <1>7
    <3>6. QED
      BY <3>2, <3>3, <3>4, <3>5, <1>5, <1>7
  <2>2. ASSUME NEW e \in Stored
        PROVE  e \in Stored'
    <3>1. PICK b \in Buckets : \E i \in DOMAIN items[b] : e = items[b][i]
      BY StoredAt
    <3>2. PICK i \in DOMAIN items[b] : e = items[b][i]
      BY <3>1
    <3>3. CASE b # idx
      BY <3>2, <3>3, <1>7, StoredAtNext
    <3>4. CASE b = idx
      <4>1. i \in DOMAIN items'[b] /\ e = items'[b][i]
        BY <3>2, <3>4, <1>5, <1>7 DEF chain
      <4>2. QED
        BY <4>1, StoredAtNext
    <3>5. QED
      BY <3>3, <3>4
  <2>3. new \in Stored'
    <3>1. Len(chain) + 1 \in DOMAIN items'[idx] /\ new = items'[idx][Len(chain) + 1]
      BY <1>5, <1>7
    <3>2. QED
      BY <3>1, <1>1, StoredAtNext
  <2>4. QED
    BY <2>1, <2>2, <2>3
<1>12. KeysIn' = KeysIn \cup {k}
  BY <1>1, <1>11 DEF KeysIn
<1>13. Used' = Used \cup {idx}
  <2>1. items'[idx] # << >>
    BY <1>5, <1>7
  <2>2. QED
    BY <1>1, <1>7, <2>1 DEF Used, Capacity, ValidHalves, Buckets
<1>14. QED
  BY <1>2, <1>4, <1>8, <1>9, <1>10, <1>11, <1>12, <1>13 DEF new, idx

\* Taking out one place of a chain keeps the others and their order.
LEMMA UnlinkedPlaces ==
  ASSUME NEW chain \in Seq(Pairs), NEW i \in DOMAIN chain
  PROVE  /\ Unlinked(chain, i) \in Seq(Pairs)
         /\ DOMAIN Unlinked(chain, i) = 1 .. Len(chain) - 1
         /\ \A j \in 1 .. Len(chain) - 1 :
              Unlinked(chain, i)[j] = chain[IF j < i THEN j ELSE j + 1]
<1> DEFINE left == SubSeq(chain, 1, i - 1)
           right == SubSeq(chain, i + 1, Len(chain))
<1>1. i \in 1 .. Len(chain) /\ Len(chain) \in Nat
  OBVIOUS
<1>2. /\ left \in Seq(Pairs) /\ Len(left) = i - 1
      /\ \A j \in 1 .. i - 1 : left[j] = chain[j]
  BY <1>1
<1>3. /\ right \in Seq(Pairs) /\ Len(right) = Len(chain) - i
      /\ \A j \in 1 .. Len(chain) - i : right[j] = chain[i + j]
  BY <1>1
<1>4. Unlinked(chain, i) = left \o right
  BY DEF Unlinked
<1> HIDE DEF left, right
<1>5. /\ left \o right \in Seq(Pairs)
      /\ Len(left \o right) = Len(chain) - 1
      /\ \A j \in 1 .. Len(chain) - 1 :
           (left \o right)[j] = IF j <= i - 1 THEN left[j] ELSE right[j - (i - 1)]
  <2>1. left \o right \in Seq(Pairs)
    BY <1>2, <1>3, ConcatProperties
  <2>2. Len(left \o right) = Len(left) + Len(right)
    BY <1>2, <1>3, ConcatProperties
  <2>3. Len(left \o right) = Len(chain) - 1
    BY <1>1, <1>2, <1>3, <2>2
  <2>4. \A j \in 1 .. Len(left) + Len(right) :
          (left \o right)[j] = IF j <= Len(left) THEN left[j] ELSE right[j - Len(left)]
    BY <1>2, <1>3, ConcatProperties
  <2>5. Len(left) + Len(right) = Len(chain) - 1 /\ Len(left) = i - 1
    BY <1>2, <2>2, <2>3
  <2>6. QED
    BY <2>1, <2>3, <2>4, <2>5
<1>6. ASSUME NEW j \in 1 .. Len(chain) - 1
      PROVE  (left \o right)[j] = chain[IF j < i THEN j ELSE j + 1]
  <2>1. CASE j < i
    BY <1>1, <1>2, <1>5, <2>1
  <2>2. CASE ~(j < i)
    <3>1. j - (i - 1) \in 1 .. Len(chain) - i
      BY <1>1, <2>2
    <3>2. right[j - (i - 1)] = chain[i + (j - (i - 1))]
      BY <1>3, <3>1
    <3>3. i + (j - (i - 1)) = j + 1
      BY <1>1
    <3>4. (left \o right)[j] = right[j - (i - 1)]
      BY <1>1, <1>5, <2>2
    <3>5. QED
      BY <2>2, <3>2, <3>3, <3>4
  <2>3. QED
    BY <2>1, <2>2
<1>7. DOMAIN (left \o right) = 1 .. Len(chain) - 1
  <2>1. DOMAIN (left \o right) = 1 .. Len(left \o right)
    BY <1>5
  <2>2. QED
    BY <2>1, <1>5
<1> DEFINE From(j) == IF j < i THEN j ELSE j + 1
<1>8. \A j \in 1 .. Len(chain) - 1 : (left \o right)[j] = chain[From(j)]
  BY <1>6
<1> HIDE DEF From
<1>9. /\ Unlinked(chain, i) \in Seq(Pairs)
      /\ DOMAIN Unlinked(chain, i) = 1 .. Len(chain) - 1
      /\ \A j \in 1 .. Len(chain) - 1 : Unlinked(chain, i)[j] = chain[From(j)]
  BY <1>4, <1>5, <1>7, <1>8, Zenon
<1>10. QED
  BY <1>9, Zenon DEF From

\* A removal that finds its key takes out one pair; its bucket stays in use
\* unless the pair was the only one in it.
LEMMA DeleteRemoves ==
  ASSUME Inv, NEW e \in Stored, Delete(e.key)
  PROVE  /\ Chains' /\ Placed' /\ Once'
         /\ Stored' = Stored \ {e}
         /\ KeysIn' = KeysIn \ {e.key}
         /\ Used' = IF LastOfBucket(items[Index(e.key)])
                    THEN Used \ {Index(e.key)} ELSE Used
         /\ Index(e.key) \in Used
         /\ answer' = TRUE
         /\ itemCount' = IF LastOfBucket(items[Index(e.key)]) THEN itemCount - 1 ELSE itemCount
         /\ linkCount' = IF LastOfBucket(items[Index(e.key)]) THEN linkCount ELSE linkCount - 1
<1> DEFINE k == e.key
           idx == Index(k)
           chain == items[idx]
<1>1. PICK i \in DOMAIN chain :
        /\ e = chain[i] /\ PlacesOf(k) = {i} /\ Min(PlacesOf(k)) = i /\ ~IsEmpty
  BY FoundWhenStored
<1>2. k \in Keys /\ idx \in Buckets /\ chain \in Seq(Pairs)
  BY StoredIsPlaced, IndexInBuckets DEF Pairs, Inv, Chains
<1>3. /\ items' = [items EXCEPT ![idx] = Unlinked(chain, i)]
      /\ answer' = TRUE
      /\ itemCount' = IF LastOfBucket(chain) THEN itemCount - 1 ELSE itemCount
      /\ linkCount' = IF LastOfBucket(chain) THEN linkCount ELSE linkCount - 1
  BY <1>1 DEF Delete
<1>4. items \in [Buckets -> Seq(Pairs)]
  BY DEF Inv, Chains
<1>5. /\ items'[idx] = Unlinked(chain, i)
      /\ \A b \in Buckets : b # idx => items'[b] = items[b]
  BY <1>2, <1>3, <1>4
<1>6. /\ Unlinked(chain, i) \in Seq(Pairs)
      /\ DOMAIN Unlinked(chain, i) = 1 .. Len(chain) - 1
      /\ \A j \in 1 .. Len(chain) - 1 :
           Unlinked(chain, i)[j] = chain[IF j < i THEN j ELSE j + 1]
  BY <1>1, <1>2, UnlinkedPlaces
<1>7. i \in 1 .. Len(chain) /\ DOMAIN chain = 1 .. Len(chain) /\ Len(chain) \in Nat
  BY <1>1, <1>2
<1> DEFINE From(j) == IF j < i THEN j ELSE j + 1
<1>8. \A j \in 1 .. Len(chain) - 1 : From(j) \in DOMAIN chain /\ From(j) # i
  BY <1>7
<1>9. \A j \in DOMAIN items'[idx] :
        j \in 1 .. Len(chain) - 1 /\ items'[idx][j] = chain[From(j)]
  BY <1>5, <1>6
<1>10. Chains'
  BY <1>3, <1>4, <1>6, <1>2 DEF Chains
<1> HIDE DEF idx, chain, k
<1>11. Placed'
  <2>1. SUFFICES ASSUME NEW b \in Buckets, NEW j \in DOMAIN items'[b]
                 PROVE  Index(items'[b][j].key) = b
    BY DEF Placed, Index, Capacity, ValidHalves, Buckets
  <2>2. CASE b # idx
    BY <2>1, <2>2, <1>5 DEF Inv, Placed
  <2>3. CASE b = idx
    <3>1. From(j) \in DOMAIN items[idx] /\ items'[b][j] = items[idx][From(j)]
      BY <2>1, <2>3, <1>8, <1>9 DEF chain
    <3>2. QED
      BY <2>3, <3>1, <1>2 DEF Inv, Placed
  <2>4. QED
    BY <2>2, <2>3
<1>12. Once'
  <2>1. SUFFICES ASSUME NEW b \in Buckets, NEW j \in DOMAIN items'[b], NEW l \in DOMAIN items'[b],
                        items'[b][j].key = items'[b][l].key
                 PROVE  j = l
    BY DEF Once, Capacity, ValidHalves, Buckets
  <2>2. CASE b # idx
    BY <2>1, <2>2, <1>5 DEF Inv, Once
  <2>3. CASE b = idx
    <3>1. /\ j \in 1 .. Len(chain) - 1 /\ l \in 1 .. Len(chain) - 1
          /\ items'[b][j] = chain[From(j)] /\ items'[b][l] = chain[From(l)]
      BY <2>1, <2>3, <1>9
    <3>2. From(j) \in DOMAIN chain /\ From(l) \in DOMAIN chain
      BY <3>1, <1>8
    <3>3. From(j) = From(l)
      BY <2>1, <3>1, <3>2, <1>2 DEF Inv, Once, chain
    <3>4. QED
      BY <3>1, <3>3, <1>7
  <2>4. QED
    BY <2>2, <2>3
<1>13. Stored' = Stored \ {e}
  <2>1. ASSUME NEW f \in Stored'
        PROVE  f \in Stored /\ f # e
    <3>1. PICK b \in Buckets : \E j \in DOMAIN items'[b] : f = items'[b][j]
      BY StoredAtNext
    <3>2. PICK j \in DOMAIN items'[b] : f = items'[b][j]
      BY <3>1
    <3>3. CASE b # idx
      <4>1. j \in DOMAIN items[b] /\ f = items[b][j]
        BY <3>2, <3>3, <1>5
      <4>2. Index(f.key) = b
        BY <4>1 DEF Inv, Placed
      <4>3. f # e
        BY <3>3, <4>2 DEF idx, k
      <4>4. QED
        BY <4>1, <4>3, StoredAt
    <3>4. CASE b = idx
      <4>1. /\ f = chain[From(j)] /\ From(j) \in DOMAIN chain /\ From(j) # i
        BY <3>2, <3>4, <1>8, <1>9
      <4>2. f \in Stored
        BY <4>1, <1>2, StoredAt DEF chain
      <4>3. f # e
        BY <4>1, <1>1, <1>2 DEF Inv, Once, chain
      <4>4. QED
        BY <4>2, <4>3
    <3>5. QED
      BY <3>3, <3>4
  <2>2. ASSUME NEW f \in Stored, f # e
        PROVE  f \in Stored'
    <3>1. PICK b \in Buckets : \E j \in DOMAIN items[b] : f = items[b][j]
      BY StoredAt
    <3>2. PICK j \in DOMAIN items[b] : f = items[b][j]
      BY <3>1
    <3>3. CASE b # idx
      BY <3>2, <3>3, <1>5, StoredAtNext
    <3>4. CASE b = idx
      <4>1. j # i /\ j \in 1 .. Len(chain) /\ f = chain[j]
        BY <2>2, <3>2, <3>4, <1>1, <1>7 DEF chain
      <4>2. PICK l \in 1 .. Len(chain) - 1 : From(l) = j
        <5>1. CASE j < i
          <6>1. j \in 1 .. Len(chain) - 1 /\ From(j) = j
            BY <4>1, <5>1, <1>7
          <6>2. QED
            BY <6>1
        <5>2. CASE j > i
          <6>1. j - 1 \in 1 .. Len(chain) - 1 /\ From(j - 1) = j
            BY <4>1, <5>2, <1>7
          <6>2. QED
            BY <6>1
        <5>3. QED
          BY <4>1, <5>1, <5>2, <1>7
      <4>3. l \in DOMAIN items'[idx] /\ items'[idx][l] = f
        BY <4>1, <4>2, <1>5, <1>6
      <4>4. QED
        BY <4>3, <1>2, StoredAtNext
    <3>5. QED
      BY <3>3, <3>4
  <2>3. QED
    BY <2>1, <2>2
<1>14. KeysIn' = KeysIn \ {k}
  <2>1. ASSUME NEW f \in Stored
        PROVE  f.key = k <=> f = e
    BY KeysDetermine DEF k
  <2>2. QED
    BY <1>13, <2>1, KeysInIs, KeysInIsNext DEF k
<1>15. Used' = IF LastOfBucket(chain) THEN Used \ {idx} ELSE Used
  <2>1. items'[idx] = << >> <=> Len(chain) = 1
    BY <1>5, <1>6, <1>7
  <2>2. chain # << >>
    BY <1>7
  <2>3. Used' = {b \in Buckets : items'[b] # << >>}
    BY DEF Used, Capacity, ValidHalves, Buckets
  <2>4. QED
    BY <2>1, <2>2, <2>3, <1>2, <1>5 DEF Used, LastOfBucket, chain
<1>16. idx \in Used
  BY <1>2, <1>7 DEF Used, chain
<1>17. QED
  BY <1>3, <1>10, <1>11, <1>12, <1>13, <1>14, <1>15, <1>16 DEF idx, chain, k

------------------------------------------------------------------------------
(* Invariance *)

\* The invariant speaks of the chains and the counters only.
LEMMA UnchangedInv ==
  ASSUME Inv, UNCHANGED <<items, itemCount, linkCount>>
  PROVE  Inv'
<1> USE DEF Buckets, Capacity, ValidHalves
<1>1. Chains' /\ Once'
  BY DEF Inv, Chains, Once
<1>2. Placed'
  BY DEF Inv, Placed, Index
<1>3. Stored' = Stored /\ KeysIn' = KeysIn /\ Used' = Used
  BY DEF Stored, KeysIn, Used
<1>4. Counted'
  BY <1>3 DEF Inv, Counted
<1>5. QED
  BY <1>1, <1>2, <1>4 DEF Inv

LEMMA InsertInv ==
  ASSUME Inv, NEW k \in Keys, NEW v \in Values, Insert(k, v)
  PROVE  Inv'
<1>1. CASE ~Accepts(k)
  BY <1>1, UnchangedInv DEF Insert
<1>2. CASE Accepts(k)
  <2> DEFINE idx == Index(k)
  <2>1. /\ itemCount' = IF items[idx] = << >> THEN itemCount + 1 ELSE itemCount
        /\ linkCount' = IF items[idx] = << >> THEN linkCount ELSE linkCount + 1
    BY <1>2 DEF Insert
  <2>2. items[idx] = << >> <=> idx \notin Used
    BY IndexInBuckets DEF Used
  <2>3. /\ itemCount \in Nat /\ linkCount \in Int
        /\ IsFiniteSet(Stored) /\ IsFiniteSet(KeysIn) /\ IsFiniteSet(Used)
        /\ itemCount = Cardinality(Used)
        /\ itemCount + linkCount = Cardinality(Stored)
        /\ itemCount + linkCount = Cardinality(KeysIn)
    BY UsedFinite DEF Inv, Counted
  <2>4. /\ Chains' /\ Placed' /\ Once'
        /\ Item(k, v) \notin Stored /\ k \notin KeysIn
        /\ Stored' = Stored \cup {Item(k, v)}
        /\ KeysIn' = KeysIn \cup {k}
        /\ Used' = Used \cup {idx}
    BY <1>2, InsertAdds
  <2>5. IsFiniteSet(Stored') /\ Cardinality(Stored') = Cardinality(Stored) + 1
    BY <2>3, <2>4, FS_AddElement
  <2>6. IsFiniteSet(KeysIn') /\ Cardinality(KeysIn') = Cardinality(KeysIn) + 1
    BY <2>3, <2>4, FS_AddElement
  <2>7. Cardinality(Used') = IF idx \in Used THEN Cardinality(Used) ELSE Cardinality(Used) + 1
    BY <2>3, <2>4, FS_AddElement
  <2> HIDE DEF idx
  <2>8. Counted'
    BY <2>1, <2>2, <2>3, <2>5, <2>6, <2>7 DEF Counted
  <2>9. QED
    BY <2>4, <2>8 DEF Inv
<1>3. QED
  BY <1>1, <1>2

\* A removal that does not find its key changes nothing.
LEMMA DeleteNothing ==
  ASSUME Inv, NEW k \in Keys, k \notin KeysIn, Delete(k)
  PROVE  answer' = FALSE /\ UNCHANGED <<items, itemCount, linkCount>>
  BY NotFound DEF Delete

LEMMA DeleteInv ==
  ASSUME Inv, NEW k \in Keys, Delete(k)
  PROVE  Inv'
<1>1. CASE k \notin KeysIn
  BY <1>1, DeleteNothing, UnchangedInv
<1>2. CASE k \in KeysIn
  <2>1. PICK e \in Stored : k = e.key
    BY <1>2, KeysInIs
  <2> DEFINE idx == Index(k)
             last == LastOfBucket(items[idx])
  <2>2. /\ itemCount \in Nat /\ linkCount \in Int
        /\ IsFiniteSet(Stored) /\ IsFiniteSet(KeysIn) /\ IsFiniteSet(Used)
        /\ itemCount = Cardinality(Used)
        /\ itemCount + linkCount = Cardinality(Stored)
        /\ itemCount + linkCount = Cardinality(KeysIn)
    BY UsedFinite DEF Inv, Counted
  <2>3. /\ Chains' /\ Placed' /\ Once'
        /\ Stored' = Stored \ {e}
        /\ KeysIn' = KeysIn \ {k}
        /\ Used' = IF last THEN Used \ {idx} ELSE Used
        /\ idx \in Used
        /\ itemCount' = IF last THEN itemCount - 1 ELSE itemCount
        /\ linkCount' = IF last THEN linkCount ELSE linkCount - 1
    BY <2>1, DeleteRemoves
  <2>4. IsFiniteSet(Stored') /\ Cardinality(Stored') = Cardinality(Stored) - 1
    BY <2>2, <2>3, FS_RemoveElement
  <2>5. IsFiniteSet(KeysIn') /\ Cardinality(KeysIn') = Cardinality(KeysIn) - 1
    BY <1>2, <2>2, <2>3, FS_RemoveElement
  <2>6. Cardinality(Used') \in Nat
        /\ Cardinality(Used') = IF last THEN Cardinality(Used) - 1 ELSE Cardinality(Used)
    <3>1. IsFiniteSet(Used \ {idx}) /\ Cardinality(Used \ {idx}) = Cardinality(Used) - 1
      BY <2>2, <2>3, FS_RemoveElement
    <3>2. Cardinality(Used \ {idx}) \in Nat /\ Cardinality(Used) \in Nat
      BY <2>2, <3>1, FS_CardinalityType
    <3> HIDE DEF idx, last
    <3>3. QED
      BY <2>3, <3>1, <3>2
  <2> HIDE DEF idx, last
  <2>7. Counted'
    BY <2>2, <2>3, <2>4, <2>5, <2>6 DEF Counted
  <2>8. QED
    BY <2>3, <2>7 DEF Inv
<1>3. QED
  BY <1>1, <1>2

LEMMA NextInv == Inv /\ [Next]_vars => Inv'
<1> SUFFICES ASSUME Inv, [Next]_vars
             PROVE  Inv'
  OBVIOUS
<1>1. ASSUME NEW k \in Keys, NEW v \in Values, Insert(k, v)
      PROVE  Inv'
  BY <1>1, InsertInv
<1>2. ASSUME NEW k \in Keys, Delete(k)
      PROVE  Inv'
  BY <1>2, DeleteInv
<1>3. CASE UNCHANGED <<items, itemCount, linkCount>>
  BY <1>3, UnchangedInv
<1>4. QED
  BY <1>1, <1>2, <1>3 DEF Next, Find, vars

LEMMA Invariance == Spec => []Inv
  BY InitInv, NextInv, PTL DEF Spec

\* However keys collide and in whatever order pairs come and go, the two
\* counters describe the chains, so that a search never takes a table in use
\* for an empty one and the limit holds.  (insert_item_to_hash_table,
\* remove_item_from_hash_table)
THEOREM CountersCorrect == Spec => []CountersAgree
<1>1. Inv => CountersAgree
  BY DEF Inv, Counted, CountersAgree, Used
<1>2. QED
  BY <1>1, Invariance, PTL

------------------------------------------------------------------------------
(* The table implements a bounded map *)

\* The specification of the map counts as this one does.
LEMMA CardinalityInMap ==
  ASSUME NEW S
  PROVE  Map!Cardinality(S) = Cardinality(S)
  BY Zenon DEF Map!Cardinality, Cardinality

\* The map that the chains stand for.
ContentsSound ==
  /\ DOMAIN Contents = KeysIn
  /\ \A e \in Stored : Contents[e.key] = e.value

LEMMA ContentsAreSound == Inv => ContentsSound
<1> SUFFICES ASSUME Inv
             PROVE  ContentsSound
  OBVIOUS
<1>1. ASSUME NEW e \in Stored
      PROVE  Contents[e.key] = e.value
  <2>1. e.key \in KeysIn
    BY KeysInIs
  <2>2. Contents[e.key] = (CHOOSE f \in Stored : f.key = e.key).value
    BY <2>1 DEF Contents, KeysIn
  <2>3. (CHOOSE f \in Stored : f.key = e.key) = e
    BY KeysDetermine
  <2>4. QED
    BY <2>2, <2>3
<1>2. QED
  BY <1>1 DEF ContentsSound, Contents, KeysIn

\* What the search returns is what the map holds.
LEMMA FoundInMap ==
  ASSUME Inv, NEW k \in Keys
  PROVE  Found(k) = IF k \in DOMAIN Contents THEN Contents[k] ELSE None
<1>1. ContentsSound
  BY ContentsAreSound
<1>2. CASE k \in KeysIn
  <2>1. PICK e \in Stored : k = e.key
    BY <1>2, KeysInIs
  <2>2. QED
    BY <1>1, <1>2, <2>1, FoundWhenStored DEF ContentsSound
<1>3. CASE k \notin KeysIn
  BY <1>1, <1>3, NotFound DEF ContentsSound
<1>4. QED
  BY <1>2, <1>3

\* An insertion is accepted exactly when the map accepts it.
LEMMA AcceptsInMap ==
  ASSUME Inv, NEW k \in Keys
  PROVE  Accepts(k) <=> /\ k \notin DOMAIN Contents
                        /\ Cardinality(DOMAIN Contents) < LoadFactor * Capacity
<1>1. DOMAIN Contents = KeysIn
  BY ContentsAreSound DEF ContentsSound
<1>2. Cardinality(KeysIn) = itemCount + linkCount /\ itemCount + linkCount \in Int
  BY DEF Inv, Counted
<1>3. Found(k) = None <=> k \notin KeysIn
  BY FoundTells
<1>4. IsFull <=> ~(Cardinality(KeysIn) < LoadFactor * Capacity)
  BY <1>2, Sizes DEF IsFull
<1>5. QED
  BY <1>1, <1>3, <1>4 DEF Accepts

LEMMA ContentsUnchanged ==
  ASSUME UNCHANGED items
  PROVE  Contents' = Contents
  BY DEF Contents, Stored, Buckets, Capacity, ValidHalves

LEMMA InitRefines == Init => Map!Init
<1> SUFFICES ASSUME Init
             PROVE  Map!Init
  OBVIOUS
<1>1. Stored = {}
  <2>1. \A b \in Buckets : items[b] = << >>
    BY DEF Init
  <2>2. QED
    BY <2>1, StoredAt
<1>2. Contents = << >>
  BY <1>1 DEF Contents
<1>3. QED
  BY <1>2 DEF Init, Map!Init

LEMMA InsertRefines ==
  ASSUME Inv, Inv', NEW k \in Keys, NEW v \in Values, Insert(k, v)
  PROVE  Map!Insert(k, v)
<1> DEFINE accepted == /\ k \notin DOMAIN Contents
                       /\ Cardinality(DOMAIN Contents) < LoadFactor * Capacity
<1>1. Accepts(k) = accepted
  <2>1. Accepts(k) <=> accepted
    BY AcceptsInMap
  <2>2. Accepts(k) \in BOOLEAN /\ accepted \in BOOLEAN
    BY DEF Accepts
  <2>3. QED
    BY <2>1, <2>2
<1>2. answer' = accepted
  <2>1. answer' = Accepts(k)
    BY DEF Insert
  <2> HIDE DEF accepted
  <2>2. QED
    BY <1>1, <2>1
<1>3. Contents' = IF accepted
                  THEN [x \in DOMAIN Contents \cup {k} |-> IF x = k THEN v ELSE Contents[x]]
                  ELSE Contents
  <2>1. CASE ~Accepts(k)
    BY <1>1, <2>1, ContentsUnchanged DEF Insert
  <2>2. CASE Accepts(k)
    <3>1. ContentsSound /\ ContentsSound'
      <4>1. ContentsSound
        BY ContentsAreSound
      <4>2. Inv' => ContentsSound'
        BY ContentsAreSound, PTL
      <4>3. QED
        BY <4>1, <4>2
    <3>2. /\ k \notin KeysIn
          /\ Stored' = Stored \cup {Item(k, v)}
          /\ KeysIn' = KeysIn \cup {k}
      BY <2>2, InsertAdds
    <3>3. DOMAIN Contents' = DOMAIN Contents \cup {k}
      BY <3>1, <3>2 DEF ContentsSound
    <3>4. ASSUME NEW x \in DOMAIN Contents'
          PROVE  Contents'[x] = IF x = k THEN v ELSE Contents[x]
      <4>1. CASE x = k
        <5>1. Item(k, v) \in Stored' /\ Item(k, v).key = k /\ Item(k, v).value = v
          BY <3>2 DEF Item
        <5>2. Contents'[Item(k, v).key] = Item(k, v).value
          BY <3>1, <5>1 DEF ContentsSound
        <5>3. QED
          BY <4>1, <5>1, <5>2
      <4>2. CASE x # k
        <5>1. PICK e \in Stored : x = e.key
          BY <3>1, <3>3, <3>4, <4>2, KeysInIs DEF ContentsSound
        <5>2. e \in Stored'
          BY <3>2
        <5>3. Contents[x] = e.value /\ Contents'[x] = e.value
          BY <3>1, <5>1, <5>2 DEF ContentsSound
        <5>4. QED
          BY <4>2, <5>3
      <4>3. QED
        BY <4>1, <4>2
    <3>5. Contents' = [x \in DOMAIN Contents' |-> Contents'[x]]
      BY DEF Contents
    <3>6. QED
      BY <1>1, <2>2, <3>3, <3>4, <3>5
  <2>3. QED
    BY <2>1, <2>2
<1>4. QED
  BY <1>2, <1>3, CardinalityInMap, Zenon DEF Map!Insert

LEMMA DeleteRefines ==
  ASSUME Inv, Inv', NEW k \in Keys, Delete(k)
  PROVE  Map!Delete(k)
<1>1. ContentsSound /\ ContentsSound'
  <2>1. ContentsSound
    BY ContentsAreSound
  <2>2. Inv' => ContentsSound'
    BY ContentsAreSound, PTL
  <2>3. QED
    BY <2>1, <2>2
<1>2. CASE k \notin KeysIn
  <2>1. Contents' = Contents /\ answer' = FALSE
    BY <1>2, DeleteNothing, ContentsUnchanged
  <2>2. k \notin DOMAIN Contents
    BY <1>1, <1>2 DEF ContentsSound
  <2>3. Contents = [x \in DOMAIN Contents \ {k} |-> Contents[x]]
    BY <2>2 DEF Contents
  <2>4. (k \in DOMAIN Contents) = FALSE
    BY <2>2
  <2>5. answer' = (k \in DOMAIN Contents)
    BY <2>1, <2>4
  <2>6. Contents' = [x \in DOMAIN Contents \ {k} |-> Contents[x]]
    BY <2>1, <2>3
  <2>7. QED
    BY <2>5, <2>6 DEF Map!Delete
<1>3. CASE k \in KeysIn
  <2>1. PICK e \in Stored : k = e.key
    BY <1>3, KeysInIs
  <2>2. Stored' = Stored \ {e} /\ KeysIn' = KeysIn \ {k} /\ answer' = TRUE
    BY <2>1, DeleteRemoves
  <2>3. DOMAIN Contents' = DOMAIN Contents \ {k} /\ k \in DOMAIN Contents
    BY <1>1, <1>3, <2>2 DEF ContentsSound
  <2>4. ASSUME NEW x \in DOMAIN Contents'
        PROVE  Contents'[x] = Contents[x]
    <3>1. PICK f \in Stored' : x = f.key
      BY <1>1, <2>4, KeysInIsNext DEF ContentsSound
    <3>2. f \in Stored
      BY <2>2
    <3>3. QED
      BY <1>1, <3>1, <3>2 DEF ContentsSound
  <2>5. Contents' = [x \in DOMAIN Contents' |-> Contents'[x]]
    BY DEF Contents
  <2>6. Contents' = [x \in DOMAIN Contents \ {k} |-> Contents[x]]
    BY <2>3, <2>4, <2>5
  <2>7. QED
    BY <2>2, <2>3, <2>6 DEF Map!Delete
<1>4. QED
  BY <1>2, <1>3

LEMMA FindRefines ==
  ASSUME Inv, NEW k \in Keys, Find(k)
  PROVE  Map!Find(k)
  BY FoundInMap, ContentsUnchanged DEF Find, Map!Find

\* Every step on the chains is a step of the map, or none.
LEMMA NextRefines ==
  ASSUME Inv, Inv', [Next]_vars
  PROVE  [Map!Next]_Map!vars
<1>1. ASSUME NEW k \in Keys, NEW v \in Values, Insert(k, v)
      PROVE  Map!Next
  BY <1>1, InsertRefines DEF Map!Next
<1>2. ASSUME NEW k \in Keys, Delete(k)
      PROVE  Map!Next
  BY <1>2, DeleteRefines DEF Map!Next
<1>3. ASSUME NEW k \in Keys, Find(k)
      PROVE  Map!Next
  BY <1>3, FindRefines DEF Map!Next
<1>4. CASE UNCHANGED vars
  BY <1>4, ContentsUnchanged DEF vars, Map!vars
<1>5. QED
  BY <1>1, <1>2, <1>3, <1>4 DEF Next

\* The table answers and acts as a map with a limit, for every hash function:
\* a search finds exactly what was inserted and not removed, a key is refused
\* when it is there or the limit is reached.  (hash_table.c)
THEOREM ImplementsBoundedMap == Spec => IsBoundedMap
<1>1. Init => Map!Init
  BY InitRefines
<1>2. Inv /\ Inv' /\ [Next]_vars => [Map!Next]_Map!vars
  BY NextRefines
<1>3. QED
  BY <1>1, <1>2, Invariance, PTL DEF Spec, IsBoundedMap, Map!Spec
==============================================================================
