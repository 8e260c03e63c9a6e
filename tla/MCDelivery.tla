----------------------------- MODULE MCDelivery -----------------------------
(***************************************************************************)
(* An instance of Delivery for model checking: two users, two channels,    *)
(* and queues that a single JOIN or two messages fill.                     *)
(***************************************************************************)
EXTENDS Delivery

CONSTANTS u1, u2, c1, c2

\* No user and no channel is special.
Names == Permutations(Users) \cup Permutations(Channels)
=============================================================================
