----------------------------- MODULE MCFraming -----------------------------
(***************************************************************************)
(* Instances of Framing for model checking.  In a buffer of six bytes a    *)
(* message of one, two or three characters fits with its terminator; two   *)
(* short ones fit together, a long and a short one do not.                 *)
(***************************************************************************)
EXTENDS Framing
=============================================================================
