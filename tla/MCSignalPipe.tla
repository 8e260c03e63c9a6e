----------------------------- MODULE MCSignalPipe -----------------------------
(* A buffer of four lines or five, a queue of four events, and a pipe that    *)
(* holds more than the buffer.                                                *)
EXTENDS SignalPipe
===============================================================================
