------------------------------ MODULE HashTable ------------------------------
(***************************************************************************)
(* The hash table of src/libs/src/hash_table.c, on which the tables of     *)
(* users, channels, clients and descriptors are built: buckets of chained  *)
(* items and two counters, one of the buckets in use and one of the items  *)
(* chained behind a first one.  The load factor is counted in halves,      *)
(* since the code divides by a float and keeps the int.                    *)
(***************************************************************************)
EXTENDS Naturals, Sequences, FiniteSets, FiniteSetsExt

CONSTANTS
  Keys, Values,     \* what the program stores
  None,             \* the NULL that an unsuccessful search returns
  Hash,             \* the hash function, djb2_hash or fnv1a_hash in the program
  MaxItems,         \* the number of items the table is created for
  Halves            \* the load factor it is created with, in halves

ASSUME HashAssumption == Hash \in [Keys -> Nat]
ASSUME SizeAssumption == MaxItems \in Nat \ {0} /\ Halves \in Nat
ASSUME NoneAssumption == None \notin Values

\* Not positive means 1, and 2 is the most.
ValidHalves == IF Halves = 0 THEN 2 ELSE IF Halves > 4 THEN 4 ELSE Halves

Capacity == IF (2 * MaxItems) % ValidHalves = 0 THEN (2 * MaxItems) \div ValidHalves
                                                ELSE (2 * MaxItems) \div ValidHalves + 1

\* What is left of the factor in the int it is stored in.
LoadFactor == ValidHalves \div 2

VARIABLES
  items,            \* per bucket its chain of items, oldest first
  itemCount,        \* buckets in use
  linkCount,        \* items that are not the first of their bucket
  answer            \* what the last operation returned

vars == <<items, itemCount, linkCount, answer>>

Buckets == 0 .. Capacity - 1

Index(k) == Hash[k] % Capacity

IsEmpty == itemCount = 0

\* Faulty: full one item late.
IsFullLate == itemCount + linkCount > LoadFactor * Capacity

IsFull == itemCount + linkCount >= LoadFactor * Capacity

\* Places of the chain of k that hold k; the search stops at the first.
PlacesOf(k) == {i \in DOMAIN items[Index(k)] : items[Index(k)][i].key = k}

Found(k) == IF IsEmpty \/ PlacesOf(k) = {} THEN None
            ELSE items[Index(k)][Min(PlacesOf(k))].value

Init == /\ items = [b \in Buckets |-> << >>]
        /\ itemCount = 0
        /\ linkCount = 0
        /\ answer = None

Accepts(k) == ~IsFull /\ Found(k) = None

Item(k, v) == [key |-> k, value |-> v]

Insert(k, v) ==
  LET chain == items[Index(k)]
  IN  /\ answer' = Accepts(k)
      /\ IF ~Accepts(k) THEN UNCHANGED <<items, itemCount, linkCount>>
         ELSE /\ items' = [items EXCEPT ![Index(k)] = Append(@, Item(k, v))]
              /\ itemCount' = IF chain = << >> THEN itemCount + 1 ELSE itemCount
              /\ linkCount' = IF chain = << >> THEN linkCount ELSE linkCount + 1

Unlinked(chain, i) == SubSeq(chain, 1, i - 1) \o SubSeq(chain, i + 1, Len(chain))

\* Faulty: the bucket is taken for empty although a link is left.
LastOfBucketEarly(chain) == Len(chain) <= 2

\* A first item that leaves others behind costs a link and not a bucket.
LastOfBucket(chain) == Len(chain) = 1

Delete(k) ==
  LET chain == items[Index(k)]
  IN  IF IsEmpty \/ PlacesOf(k) = {}
      THEN answer' = FALSE /\ UNCHANGED <<items, itemCount, linkCount>>
      ELSE /\ answer' = TRUE
           /\ items' = [items EXCEPT ![Index(k)] = Unlinked(chain, Min(PlacesOf(k)))]
           /\ itemCount' = IF LastOfBucket(chain) THEN itemCount - 1 ELSE itemCount
           /\ linkCount' = IF LastOfBucket(chain) THEN linkCount ELSE linkCount - 1

Find(k) == /\ answer' = Found(k)
           /\ UNCHANGED <<items, itemCount, linkCount>>

Next == \E k \in Keys : \/ \E v \in Values : Insert(k, v)
                        \/ Delete(k)
                        \/ Find(k)

Spec == Init /\ [][Next]_vars

-----------------------------------------------------------------------------
\* The pairs in the table, and the map they are.
Stored == UNION {{items[b][i] : i \in DOMAIN items[b]} : b \in Buckets}

Contents == [k \in {e.key : e \in Stored} |-> (CHOOSE e \in Stored : e.key = k).value]

Map == INSTANCE BoundedMap WITH map <- Contents, Limit <- LoadFactor * Capacity

\* The two counters describe the chains: buckets in use and items behind a
\* first one.  The search gives up at once when the first counter is 0, and
\* is_hash_table_full() looks at their sum only, so a counter that drifts
\* through removals at the head, in the middle or at the end of a chain hides
\* items or lets the table grow (hash_table.c:150-166, 225-241).
CountersAgree ==
  /\ itemCount = Cardinality({b \in Buckets : items[b] # << >>})
  /\ itemCount + linkCount = Cardinality(Stored)

\* Insertions, removals and searches answer and act as those of a bounded map,
\* however the keys collide: each key has one item, in the chain where it is
\* looked for, and the limit is the one the factor gives (hash_table.c:168-275).
IsBoundedMap == Map!Spec
=============================================================================
