---------------------------- MODULE MCServerLoop ----------------------------
(***************************************************************************)
(* An instance of ServerLoop for model checking: two clients fit into the  *)
(* poll set, both are scanned, and the event queue may overflow.           *)
(***************************************************************************)
EXTENDS ServerLoop
=============================================================================
