----------------------------- MODULE MCRingQueue -----------------------------
(* RingQueue on three slots, enough for the window of held items to wrap in  *)
(* every position with the queue empty, partly filled and full.              *)
EXTENDS RingQueue
==============================================================================
