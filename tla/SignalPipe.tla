------------------------------ MODULE SignalPipe ------------------------------
(***************************************************************************)
(* The self-pipe of the client: signal handlers write a line to a pipe     *)
(* that does not block, the main loop reads it as a stream, splits the     *)
(* lines off and turns them into events.  (The server's pipe carries       *)
(* SIGINT only.)  A signal may arrive before any step of the loop.         *)
(*                                                                         *)
(* A byte is a cell: the texts are shortened, and of the lengths only the  *)
(* order and the differences are kept (8, 9 and 10 bytes).  The buffer is  *)
(* not cleared behind its string and a read writes no terminator, so what  *)
(* older lines left there may follow a new one.                            *)
(*                                                                         *)
(* A string that fills the buffer has no terminator: status becomes        *)
(* "undefined" when the loop looks for it, and nothing is said of what     *)
(* follows.                                                                *)
(*                                                                         *)
(* A definition marked "faulty" is a plausible slip that no specification  *)
(* uses; each is there to show that a property would notice it.            *)
(***************************************************************************)
EXTENDS Integers, FiniteSetsExt, SequencesExt

CONSTANTS
  BufferSize,      \* MAX_CHARS + 1
  PipeSize,        \* what the pipe holds
  EventCapacity,   \* slots of the event queue (20)
  MaxSignals       \* bound of the model on the signals that are raised

ASSUME SizesAssumption ==
  {BufferSize, PipeSize, EventCapacity, MaxSignals} \subseteq Nat \ {0}

VARIABLES
  status,      \* "running", "exited" or "undefined"
  phase,       \* what the loop does next: "poll", "extract" or "dispatch"
  pipe,        \* the bytes in the pipe
  buffer,      \* the buffer of the StreamPipe
  events,      \* the event queue
  written,     \* history: signal -> how many lines its handler has written
  handled,     \* history: signal -> how many of its events were handled
  overwritten, \* history: a full queue has lost events
  batches      \* history: the reads that brought anything but one line

loop == <<status, phase, buffer, events>>
history == <<written, handled, overwritten, batches>>
vars == <<loop, pipe, history>>

Signals == {"sigint", "sigalrm", "sigwinch"}
NUL == "NUL"
CRLF == <<"CR", "LF">>
NameTimerLongest(sig) ==             \* faulty: the longest line
  CASE sig = "sigint"  -> <<"i">>
    [] sig = "sigalrm" -> <<"a", "l", "a", "r">>
    [] OTHER           -> <<"w", "n", "c">>
\* handle_client_sigint(), handle_sigalrm(), handle_sigwinch()
Name(sig) ==
  CASE sig = "sigint"  -> <<"i">>
    [] sig = "sigalrm" -> <<"a", "l">>
    [] OTHER           -> <<"w", "n", "c">>
Line(sig) == Name(sig) \o CRLF

Bytes == 0 .. BufferSize - 1
Cleared == [b \in Bytes |-> NUL]
NoneOf == [sig \in Signals |-> 0]

Init ==
  /\ status = "running"
  /\ phase = "poll"
  /\ pipe = <<>>
  /\ buffer = Cleared
  /\ events = <<>>
  /\ written = NoneOf
  /\ handled = NoneOf
  /\ overwritten = FALSE
  /\ batches = 0

------------------------------------------------------------------------------
(* Strings in the buffer *)

\* strlen() of what begins at a byte, when it ends in the buffer.
Ends(from) == {b \in Bytes : b >= from /\ buffer[b] = NUL}
StrLen(from) == Min(Ends(from)) - from
IsFull == StrLen(0) >= BufferSize - 1               \* is_pipe_buffer_full()

\* find_delimiter()
Delimiters == {b \in 0 .. StrLen(0) - 2 : <<buffer[b], buffer[b + 1]>> = CRLF}

------------------------------------------------------------------------------
(* Signals: a line is written as a whole or, when the pipe is full, not at all. *)

Raise(sig) ==
  /\ status = "running"
  /\ SumFunction(written) < MaxSignals
  /\ Len(pipe) + Len(Line(sig)) <= PipeSize
  /\ pipe' = pipe \o Line(sig)
  /\ written' = [written EXCEPT ![sig] = @ + 1]
  /\ UNCHANGED <<loop, handled, overwritten, batches>>

------------------------------------------------------------------------------
(* process_pipe_data() *)

\* read_string(), behind what is left of a line
ReadBehind(bytes) ==
  LET old == StrLen(0)
  IN [b \in Bytes |-> IF b \in old .. old + Len(bytes) - 1
                      THEN bytes[b - old + 1] ELSE buffer[b]]

ReadPipe ==
  LET n == Min({Len(pipe), BufferSize - StrLen(0)})
  IN /\ status = "running" /\ phase = "poll"
     /\ pipe # <<>>
     /\ buffer' = ReadBehind(SubSeq(pipe, 1, n))
     /\ pipe' = SubSeq(pipe, n + 1, Len(pipe))
     /\ phase' = "extract"
     /\ batches' = IF \E sig \in Signals : pipe = Line(sig) THEN batches ELSE batches + 1
     /\ UNCHANGED <<status, events, written, handled, overwritten>>

\* extract_message(): the rest of the string moves to the front, its terminator
\* with it, and the bytes behind stay.
ExtractedKept(d) ==                                 \* faulty: clears nothing
  [b \in Bytes |-> IF b <= StrLen(d + 2) THEN buffer[d + 2 + b] ELSE buffer[b]]
Extracted(d) ==
  LET rest == StrLen(d + 2)
      cut == [b \in Bytes |-> IF b \in {d, d + 1} THEN NUL ELSE buffer[b]]
  IN IF rest > 0
     THEN [b \in Bytes |-> IF b <= rest THEN buffer[d + 2 + b] ELSE cut[b]]
     ELSE [b \in Bytes |-> IF b < d THEN NUL ELSE cut[b]]

\* detect_pipe_event_type(): no event for any other text.
EventsOf(d) ==
  SetToSeq({sig \in Signals : Name(sig) = [b \in 1 .. d |-> buffer[b - 1]]})

Pushed(sigs) ==
  IF Len(events \o sigs) > EventCapacity THEN Tail(events \o sigs) ELSE events \o sigs

Extract ==
  /\ status = "running" /\ phase = "extract"
  /\ Ends(0) # {} /\ Delimiters # {}
  /\ LET d == Min(Delimiters)
     IN /\ buffer' = Extracted(d)
        /\ events' = Pushed(EventsOf(d))
        /\ overwritten' = (overwritten \/ Len(events \o EventsOf(d)) > EventCapacity)
  /\ UNCHANGED <<status, phase, pipe, written, handled, batches>>

EndExtract ==
  /\ status = "running" /\ phase = "extract"
  /\ Ends(0) # {} /\ Delimiters = {}
  /\ phase' = "dispatch"
  /\ buffer' = IF IsFull THEN Cleared ELSE buffer
  /\ UNCHANGED <<status, pipe, events, history>>

ReadsPastBuffer ==
  /\ status = "running" /\ phase = "extract"
  /\ Ends(0) = {}
  /\ status' = "undefined"
  /\ UNCHANGED <<phase, buffer, events, pipe, history>>

------------------------------------------------------------------------------
(* dispatch_events() *)

Dispatch ==
  /\ status = "running" /\ phase = "dispatch"
  /\ events # <<>>
  /\ handled' = [handled EXCEPT ![Head(events)] = @ + 1]
  /\ events' = Tail(events)
  /\ status' = IF Head(events) = "sigint" THEN "exited" ELSE status
  /\ UNCHANGED <<phase, buffer, pipe, written, overwritten, batches>>

EndDispatch ==
  /\ status = "running" /\ phase = "dispatch"
  /\ events = <<>>
  /\ phase' = "poll"
  /\ UNCHANGED <<status, buffer, events, pipe, history>>

Step == ReadPipe \/ Extract \/ EndExtract \/ ReadsPastBuffer \/ Dispatch \/ EndDispatch
Next == Step \/ \E sig \in Signals : Raise(sig)

\* Nothing but the end of the program stops the loop.
Spec == Init /\ [][Next]_vars /\ WF_vars(Step)

------------------------------------------------------------------------------
(* Properties *)

TypeOK ==
  /\ status \in {"running", "exited", "undefined"}
  /\ phase \in {"poll", "extract", "dispatch"}
  /\ Len(pipe) <= PipeSize
  /\ buffer \in [Bytes -> UNION {ToSet(Line(sig)) : sig \in Signals} \cup {NUL}]
  /\ events \in Seq(Signals) /\ Len(events) <= EventCapacity
  /\ {written, handled} \subseteq [Signals -> Nat]
  /\ overwritten \in BOOLEAN /\ batches \in Nat

\* When the loop has caught up, every line that was written has had its event,
\* as long as at most one read has brought several lines at once and they fitted
\* the queue of events: the bytes that one leaves behind do no harm.
\* (process_pipe_data, extract_message, push_event_to_queue)
HandledUntilBatches ==
  status = "running" /\ phase = "poll" /\ pipe = <<>> /\ ~overwritten /\ batches <= 1 =>
    \A sig \in Signals : handled[sig] >= written[sig]

\* Stale bytes may pass for a line once more, but only for that of the timer, a
\* shorter line that came behind a longer one: no exit is ever made up, and no
\* resize until several lines have come in one read more than three times.
\* (extract_message, detect_pipe_event_type)
OnlyTimersRecur ==
  /\ handled["sigint"] <= written["sigint"]
  /\ batches <= 3 => handled["sigwinch"] <= written["sigwinch"]

------------------------------------------------------------------------------
(* What the comments of the code say and the code does not keep *)

\* signal_handler.c:50: "lastly the message is read from the pipe and the signal
\* is handled".  After two such batches a stale byte of one may stand before the
\* next line, which then is no signal that the loop knows.
SignalsAreHandled ==
  status = "running" /\ phase = "poll" /\ pipe = <<>> /\ ~overwritten =>
    \A sig \in Signals : handled[sig] >= written[sig]

\* Nor does every resize that is handled come from a signal: five reads of several
\* lines leave the line of a window's resize whole behind one that is shorter.
ResizesAreRaised ==
  handled["sigwinch"] <= written["sigwinch"]
===============================================================================
