----------------------------- MODULE MCScrollback -----------------------------
(* A view of two rows on a buffer of six lines; eleven lines fill the buffer   *)
(* and then overwrite all but one of them.                                     *)
EXTENDS Scrollback
===============================================================================
