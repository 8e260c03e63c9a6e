----------------------------- MODULE MCLineEditor -----------------------------
(* Commands of up to three characters in a history of two, in a window that    *)
(* holds the longest command and may be narrowed to two columns or to one.     *)
EXTENDS LineEditor
==============================================================================
