------------------------------ MODULE MCLifecycle ------------------------------
(* The program is followed for its logs, and for its settings.                 *)
(*   For the logs: two clients, or a server with the two processes that it     *)
(* forks to become a daemon, with one text and an ordinary port.               *)
(*   For the settings: every kind of text or of port, and three clients, two   *)
(* of them at the same time, which log no more than their start and their end. *)
(* Clients are interchangeable.                                                *)
EXTENDS Lifecycle, TLC

Interchangeable == Permutations(Clients)

Started == {p \in Clients : phase[p] # "none"}

ForLogs ==
  /\ Cardinality(Started) <= 2
  /\ \A p \in Processes : options[p].text = Account /\ options[p].port = "number"

ForSettings ==
  /\ \A p \in Servers : phase[p] = "none"
  /\ Cardinality({p \in Started : phase[p] \notin Ended}) <= 2
  /\ \A p \in Clients :
       /\ options[p].level = Debug /\ (phase[p] = "running" => logged[p] <= 1)
       /\ options[p].text \in Plain \/ options[p].port = "number"

Followed == ForLogs \/ ForSettings

\* What the settings depend on: not on the lines of the logs, nor on what clients
\* had that ended before the last one did.
Over(p) == phase[p] \in Ended /\ history[Len(history)] # p
SettingsView ==
  <<phase, file, IF Len(history) < 2 THEN history ELSE SubSeq(history, Len(history) - 1, Len(history)),
    [p \in Clients |-> IF Over(p) THEN <<>> ELSE <<options[p], loaded[p]>>]>>

View == IF ForLogs THEN lifecycleVars ELSE SettingsView
================================================================================
