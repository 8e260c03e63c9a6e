----------------------------- MODULE BoundedMap -----------------------------
(***************************************************************************)
(* What the hash table promises its users: a map from keys to values that  *)
(* refuses a key it has and refuses everything once it holds Limit keys.   *)
(***************************************************************************)
EXTENDS Naturals, FiniteSets

CONSTANTS Keys, Values, None,
          Limit      \* a natural number

VARIABLES map, answer

vars == <<map, answer>>

Init == /\ map = << >>
        /\ answer = None

Insert(k, v) ==
  LET accepted == k \notin DOMAIN map /\ Cardinality(DOMAIN map) < Limit
  IN  /\ map' = IF accepted THEN [x \in DOMAIN map \cup {k} |-> IF x = k THEN v ELSE map[x]]
                            ELSE map
      /\ answer' = accepted

Delete(k) ==
  /\ map' = [x \in DOMAIN map \ {k} |-> map[x]]
  /\ answer' = (k \in DOMAIN map)

Find(k) ==
  /\ answer' = IF k \in DOMAIN map THEN map[k] ELSE None
  /\ UNCHANGED map

Next == \E k \in Keys : \/ \E v \in Values : Insert(k, v)
                        \/ Delete(k)
                        \/ Find(k)

Spec == Init /\ [][Next]_vars
=============================================================================
