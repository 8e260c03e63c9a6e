------------------------------ MODULE Enumeration ------------------------------
(***************************************************************************)
(* The numbers of a finite set in ascending order, and the items of a      *)
(* sequence at the places of such a set.  They say the same as             *)
(* SetToSortSeq and SelectSeq, in terms that the provers know.             *)
(***************************************************************************)
EXTENDS Integers, FiniteSets

Ascending(places) ==
  CHOOSE order \in [1 .. Cardinality(places) -> places] :
    \A i, j \in 1 .. Cardinality(places) : i < j => order[i] < order[j]

ItemsAt(seq, places) == [i \in 1 .. Cardinality(places) |-> seq[Ascending(places)[i]]]

\* The items of a sequence that are in a set.
Only(seq, S) == ItemsAt(seq, {i \in DOMAIN seq : seq[i] \in S})
================================================================================
