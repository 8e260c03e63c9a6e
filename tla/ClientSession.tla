---------------------------- MODULE ClientSession ----------------------------
(***************************************************************************)
(* The client's event loop and session, with the server at the other end   *)
(* of each of its sockets.  The client keeps a session state of its own    *)
(* and moves it when it queues a command, not when the server answers:     *)
(* answers are only displayed.  Disconnecting changes the state at once    *)
(* and leaves the socket to two events, CD and RM, that are handled later. *)
(*                                                                         *)
(* One iteration of the loop is Poll (which also reads the key and the     *)
(* pipe), ReadSocket, a Dispatch for each event, and Send.  The server     *)
(* acts in between.                                                        *)
(*                                                                         *)
(* A definition marked "faulty" is a plausible slip that no specification  *)
(* uses; each is there to show that a property would notice it.            *)
(***************************************************************************)
EXTENDS Integers, FiniteSetsExt, SequencesExt, Enumeration

CONSTANTS
  EventCapacity,   \* slots of the event queue (20)
  MaxMessages,     \* slots of the queue of messages to send (20)
  MaxFd,           \* bound on descriptors: sockets are 1 .. MaxFd
  MaxWire,         \* bound on messages that the server has not read yet
  MaxReplies       \* bound on messages that the client has not read yet

ASSUME BoundsAssumption ==
  /\ {EventCapacity, MaxMessages, MaxFd, MaxWire} \subseteq Nat \ {0}
  /\ MaxMessages >= 2     \* NICK and USER of a registration fit
  /\ MaxReplies \in Nat

VARIABLES
  phase,     \* what the loop does next; "exited" after exit()
  ready,     \* the descriptors left of those that poll() counted
  reported,  \* the sockets for which poll() reported POLLIN
  state,     \* clientState
  fd,        \* the descriptor of the session
  nickValid, \* the nickname of the settings is one that cmd_nick() accepts
  msgQueue,  \* messages to send
  events,    \* the event queue
  polled,    \* the sockets in the poll set
  conn       \* open socket -> the server's end of it: its state and what waits
             \* to be read; whether it refused a step of the registration;
             \* whether the client cut it off over a message it failed to write;
             \* and whether an interrupted write lost a message

client == <<state, fd, nickValid, msgQueue, events, polled>>
vars == <<phase, ready, reported, client, conn>>

Fds == 1 .. MaxFd
Unassigned == -1
SocketEntries == 1      \* POLL_FD_COUNT less standard input and the pipe

States ==
  {"DISCONNECTED", "CONNECTED", "START_REGISTRATION", "REGISTERED", "IN_CHANNEL"}
Rank(s) ==
  CASE s = "DISCONNECTED" -> 0 [] s = "CONNECTED" -> 1 [] s = "START_REGISTRATION" -> 2
    [] s = "REGISTERED" -> 3 [] OTHER -> 4

\* What a line entered by the user may be.  TYPE stands for every key and line
\* that changes no part of this state, TOOLONG for a message that does not fit.
Lines == {"TYPE", "CONNECT", "NICK", "USER", "JOIN", "PART", "PRIVMSG", "TOOLONG",
          "DISCONNECT", "QUIT"}

\* CLIENT_STATES: the commands the user may enter.
AllowedNickAgain(s, line) ==           \* faulty: NICK may be repeated
  line \in {"TYPE", "QUIT"} \cup
    CASE s = "DISCONNECTED"       -> {"CONNECT", "NICK", "USER"}
      [] s = "CONNECTED"          -> {"NICK", "DISCONNECT"}
      [] s = "START_REGISTRATION" -> {"NICK", "USER", "DISCONNECT"}
      [] OTHER                    -> {"NICK", "JOIN", "PRIVMSG", "TOOLONG", "DISCONNECT"}
Allowed(s, line) ==
  line \in {"TYPE", "QUIT"} \cup
    CASE s = "DISCONNECTED"       -> {"CONNECT", "NICK", "USER"}
      [] s = "CONNECTED"          -> {"NICK", "DISCONNECT"}
      [] s = "START_REGISTRATION" -> {"USER", "DISCONNECT"}
      [] s = "REGISTERED"         -> {"NICK", "JOIN", "PRIVMSG", "TOOLONG", "DISCONNECT"}
      [] OTHER                    -> {"NICK", "JOIN", "PRIVMSG", "TOOLONG", "PART", "DISCONNECT"}

\* SERVER_STATES, as far as they matter here.
ServerAllows(s, msg) ==
  msg \in {"QUIT"} \cup
    CASE s = "CONNECTED"          -> {"NICK"}
      [] s = "START_REGISTRATION" -> {"USER"}
      [] s = "REGISTERED"         -> {"NICK", "JOIN", "PRIVMSG"}
      [] OTHER                    -> {"NICK", "JOIN", "PRIVMSG", "PART"}

------------------------------------------------------------------------------
(* Queues: an item that finds its queue full replaces the oldest. *)

Pushed(queue, items, capacity) ==
  LET all == queue \o items
  IN IF Len(all) <= capacity THEN all ELSE SubSeq(all, Len(all) - capacity + 1, Len(all))

Ev(kind) == [kind |-> kind, fd |-> Unassigned]
KeyEv(line) == [kind |-> "KEY", fd |-> Unassigned, line |-> line]
Disconnecting(f) == <<Ev("CD"), [kind |-> "RM", fd |-> f]>>

Init ==
  /\ phase = "poll"
  /\ ready = 0
  /\ reported = {}
  /\ state = "DISCONNECTED"
  /\ fd = Unassigned
  /\ nickValid \in BOOLEAN
  /\ msgQueue = <<>>
  /\ events = <<>>
  /\ polled = {}
  /\ conn = <<>>

Open == DOMAIN conn
Live == {f \in Open : conn[f].peer # "DISCONNECTED"}

------------------------------------------------------------------------------
(* The iteration up to the events *)

\* process_stdin_data() and process_pipe_data()
KeyEvents(line) == IF line = "NONE" THEN <<>> ELSE <<KeyEv(line)>>
PipeEvents(signal) == IF signal = "NONE" THEN <<>> ELSE <<Ev(signal)>>

\* A polled socket is readable when there is a message or the end of input; a
\* closed descriptor counts as ready without being readable.
Readable == {f \in polled \cap Open : conn[f].replies > 0 \/ f \notin Live}
Counted == Readable \cup (polled \ Open)

\* The bounds: the user waits for a slow server, and does not connect when the
\* descriptors of the model are used up.
WithinBounds(line) ==
  /\ line \notin {"NONE", "TYPE"} => \A f \in Open : Len(conn[f].wire) < MaxWire
  /\ line = "CONNECT" => Open # Fds

Poll ==
  /\ phase = "poll"
  /\ \E line \in Lines \cup {"NONE"}, signal \in {"NONE", "TIMER", "EXIT"} :
       /\ WithinBounds(line)
       /\ line # "NONE" \/ signal # "NONE" \/ Counted # {}
       /\ events' = Pushed(events, KeyEvents(line) \o PipeEvents(signal), EventCapacity)
  /\ ready' = Cardinality(Counted)
  /\ reported' = Readable
  /\ phase' = "socket"
  /\ UNCHANGED <<state, fd, nickValid, msgQueue, polled, conn>>

\* is_fd_input_event(): a descriptor that is not in the poll set has revents
\* -1, which contains POLLIN.
InputEvent == fd \in reported \/ fd \notin polled

\* client_disconnect()
ToDisconnectedLater == UNCHANGED state     \* faulty: waits for the event
ToDisconnected == state' = "DISCONNECTED"

\* client_read(): the end of input, an error, or one message, which leaves the
\* number of messages that are still to be displayed.
ReadSocket ==
  /\ phase = "socket"
  /\ phase' = "dispatch"
  /\ UNCHANGED <<ready, reported, fd, nickValid, msgQueue, polled>>
  /\ \/ /\ ready = 0 \/ ~InputEvent
        /\ UNCHANGED <<state, events, conn>>
     \/ /\ ready > 0 /\ InputEvent /\ fd \notin Open
        /\ events' = Pushed(events, Disconnecting(fd), EventCapacity)
        /\ ToDisconnected
        /\ UNCHANGED conn
     \/ /\ ready > 0 /\ InputEvent /\ fd \in Open
        /\ conn[fd].replies > 0
        /\ \E k \in 1 .. conn[fd].replies :
             /\ events' = Pushed(events, [i \in 1 .. k |-> Ev("MSG")], EventCapacity)
             /\ conn' = [conn EXCEPT ![fd].replies = @ - k]
        /\ UNCHANGED state
     \/ /\ ready > 0 /\ InputEvent /\ fd \in Open \ Live
        /\ conn[fd].replies = 0
        /\ \E closing \in {<<>>, <<Ev("PC")>>} :
             events' = Pushed(events, Disconnecting(fd) \o closing, EventCapacity)
        /\ ToDisconnected
        /\ UNCHANGED conn
     \/ /\ ready > 0 /\ InputEvent /\ fd \in Live       \* interrupted by a signal
        /\ conn[fd].replies = 0
        /\ UNCHANGED <<state, events, conn>>

------------------------------------------------------------------------------
(* Sending *)

\* How many queued messages client_write() gets rid of.  Without a socket every
\* write fails; on a connection that the server has closed the writes succeed
\* at first and fail from some message on.
Successes ==
  CASE fd \in Live    -> {Len(msgQueue)}
    [] fd \notin Open -> {0}
    [] OTHER          -> 0 .. Len(msgQueue)

\* An empty message writes nothing, which counts as a failure.
NotEmpty(msg) == msg # "EMPTY"

\* A write that a signal interrupts while the server does not read counts neither
\* as sent nor as failed: the message is gone, or what was written of it spoils the
\* next one.
Interrupted(written) == SUBSET written

\* What the server's end gets of it.
Told(c, sent, failed, lost) ==
  [c EXCEPT !.wire = c.wire \o sent, !.cut = c.cut \/ failed, !.lost = c.lost \/ lost]
Reaches(sent, failed, lost) ==
  conn' = [conn EXCEPT ![fd] = Told(conn[fd], sent, failed, lost)]

\* send_socket_messages() with the pending events given: every failed write
\* queues a disconnect and leaves the rest of the queue to be tried.
Send(pending) ==
  \E k \in Successes :
    LET written == {i \in 1 .. k : NotEmpty(msgQueue[i])}
        failures == Len(msgQueue) - Cardinality(written)
        lost == [i \in 1 .. 2 * failures |-> Disconnecting(fd)[IF i % 2 = 1 THEN 1 ELSE 2]]
    IN \E gone \in Interrupted(written) :
         /\ IF fd \in Live
            THEN Reaches(ItemsAt(msgQueue, written \ gone), failures > 0, gone # {})
            ELSE UNCHANGED conn
         /\ events' = Pushed(pending, lost, EventCapacity)
         /\ IF failures > 0 THEN ToDisconnected ELSE UNCHANGED state
         /\ msgQueue' = <<>>

EndIteration ==
  /\ phase = "dispatch"
  /\ events = <<>>
  /\ Send(<<>>)
  /\ phase' = "poll"
  /\ UNCHANGED <<ready, reported, fd, nickValid, polled>>

------------------------------------------------------------------------------
(* Commands *)

Later(items) == events' = Pushed(Tail(events), items, EventCapacity)
Queue(msgs) == msgQueue' = Pushed(msgQueue, msgs, MaxMessages)
\* initialize_session(), and the server's end
NewConnection ==
  [peer |-> "CONNECTED", wire |-> <<>>, replies |-> 0,
   refused |-> FALSE, cut |-> FALSE, lost |-> FALSE]

\* register_connection(): NICK and USER of the settings, if they are valid.
RegisterConnection ==
  IF nickValid
  THEN state' = "REGISTERED" /\ Queue(<<"NICK", "USER">>)
  ELSE state' = "CONNECTED" /\ UNCHANGED msgQueue

\* client_connect().  A failed attempt leaves its socket open.
LowestFree == Min(Fds \ Open)
Opens(peer) ==
  conn' = [f \in Open \cup {LowestFree} |->
            IF f = LowestFree THEN [NewConnection EXCEPT !.peer = peer] ELSE conn[f]]

Connect ==
  \/ /\ Opens("CONNECTED")
     /\ fd' = LowestFree
     /\ RegisterConnection
     /\ Later(<<[kind |-> "ADD", fd |-> fd']>>)
     /\ UNCHANGED nickValid
  \/ /\ Opens("DISCONNECTED")
     /\ Later(<<>>)
     /\ UNCHANGED <<state, fd, nickValid, msgQueue>>

\* cmd_disconnect(): the farewell is queued first, the events flush and close.
DisconnectSilently(more) ==            \* faulty: no farewell
  /\ Later(Disconnecting(fd) \o more)
  /\ ToDisconnected
  /\ UNCHANGED <<fd, nickValid, msgQueue, conn>>
Disconnect(more) ==
  /\ Queue(<<"QUIT">>)
  /\ Later(Disconnecting(fd) \o more)
  /\ ToDisconnected
  /\ UNCHANGED <<fd, nickValid, conn>>

\* cmd_quit(): without a session there is nothing to disconnect from.
Quit ==
  LET ending == <<Ev("CD"), Ev("EXIT")>>
  IN IF Allowed(state, "DISCONNECT")
     THEN Disconnect(ending)
     ELSE Later(ending) /\ UNCHANGED <<state, fd, nickValid, msgQueue, conn>>

\* set_nickname(): outside of a session only the setting changes.
NickRestarts ==                        \* faulty: registers anew from any state
  /\ nickValid' = TRUE
  /\ IF state = "DISCONNECTED" THEN UNCHANGED msgQueue ELSE Queue(<<"NICK">>)
  /\ state' = IF state # "DISCONNECTED" THEN "START_REGISTRATION" ELSE state
Nick ==
  /\ nickValid' = TRUE
  /\ IF state = "DISCONNECTED" THEN UNCHANGED msgQueue ELSE Queue(<<"NICK">>)
  /\ state' = IF state = "CONNECTED" THEN "START_REGISTRATION" ELSE state

\* set_user_data()
UserWaits ==                           \* faulty: the state waits for the server
  /\ IF state = "START_REGISTRATION" THEN Queue(<<"USER">>) ELSE UNCHANGED msgQueue
  /\ UNCHANGED <<nickValid, state>>
User ==
  /\ IF state = "START_REGISTRATION"
     THEN Queue(<<"USER">>) /\ state' = "REGISTERED"
     ELSE UNCHANGED <<msgQueue, state>>
  /\ UNCHANGED nickValid

\* cmd_join(); cmd_part(), which leaves the state; cmd_privmsg(), whose message
\* may not fit
Join ==
  /\ Queue(<<"JOIN">>)
  /\ state' = "IN_CHANNEL"
  /\ UNCHANGED nickValid
Part == Queue(<<"PART">>) /\ UNCHANGED <<state, nickValid>>
Privmsg(line) ==
  /\ Queue(<<IF line = "TOOLONG" THEN "EMPTY" ELSE "PRIVMSG">>)
  /\ UNCHANGED <<state, nickValid>>

\* parse_cli_input() and execute_command()
Execute(line) ==
  IF line = "TYPE" \/ ~Allowed(state, line)
  THEN Later(<<>>) /\ UNCHANGED <<state, fd, nickValid, msgQueue, conn>>
  ELSE CASE line = "CONNECT" -> Connect
         [] line = "DISCONNECT" -> Disconnect(<<>>)
         [] line = "QUIT" -> Quit
         [] OTHER -> /\ CASE line = "NICK" -> Nick
                           [] line = "USER" -> User
                           [] line = "JOIN" -> Join
                           [] line = "PART" -> Part
                           [] OTHER -> Privmsg(line)
                     /\ Later(<<>>)
                     /\ UNCHANGED <<fd, conn>>

------------------------------------------------------------------------------
(* Events *)

\* handle_ne_client_disconnect_event(): flush, then forget the socket.
FlushAndTerminate ==
  /\ Send(Tail(events))
  /\ fd' = Unassigned
  /\ UNCHANGED <<nickValid, polled>>

\* handle_ne_remove_poll_fd_event(): unset_poll_fd() and close()
RemovePollFd(f) ==
  /\ polled' = polled \ {f}
  /\ conn' = [g \in Open \ {f} |-> conn[g]]
  /\ Later(<<>>)
  /\ UNCHANGED <<state, fd, nickValid, msgQueue>>

\* handle_ne_add_poll_fd_event(): nothing happens when there is no free entry.
AddPollFd(f) ==
  /\ polled' = IF Cardinality(polled) < SocketEntries THEN polled \cup {f} ELSE polled
  /\ Later(<<>>)
  /\ UNCHANGED <<state, fd, nickValid, msgQueue, conn>>

DispatchKey ==
  /\ Head(events).kind = "KEY"
  /\ Execute(Head(events).line)
  /\ UNCHANGED polled

DispatchSession ==
  LET event == Head(events) IN
  CASE event.kind = "CD"  -> FlushAndTerminate
    [] event.kind = "RM"  -> RemovePollFd(event.fd)
    [] event.kind = "ADD" -> AddPollFd(event.fd)
    [] event.kind \in {"MSG", "PC", "TIMER"} ->
         Later(<<>>) /\ UNCHANGED <<state, fd, nickValid, msgQueue, polled, conn>>
    [] OTHER -> FALSE

\* handle_se_exit_event(): what is still queued is not sent.
Exit == Head(events).kind = "EXIT" /\ phase' = "exited" /\ UNCHANGED <<client, conn>>

Dispatch ==
  /\ phase = "dispatch"
  /\ events # <<>>
  /\ UNCHANGED <<ready, reported>>
  /\ \/ phase' = "dispatch" /\ (DispatchKey \/ DispatchSession)
     \/ Exit

------------------------------------------------------------------------------
(* The server: what it does to the other end of the client's sockets *)

Replied(n) == IF n < MaxReplies THEN n + 1 ELSE n

\* The server takes a message that its own state allows and moves on, or
\* refuses it: a nickname in use, a channel too many, a text that it drops.
ServerAccepts(f) ==
  LET c == conn[f]
      msg == Head(c.wire)
      next == CASE c.peer = "CONNECTED"          -> {"START_REGISTRATION"}
                [] c.peer = "START_REGISTRATION" -> {"REGISTERED"}
                [] msg = "JOIN"                  -> {"IN_CHANNEL"}
                [] msg = "PART"                  -> {"REGISTERED", "IN_CHANNEL"}
                [] OTHER                         -> {c.peer}
  IN
  /\ c.wire # <<>> /\ msg # "QUIT" /\ ServerAllows(c.peer, msg)
  /\ \E s \in next :
       conn' = [conn EXCEPT ![f] =
         [c EXCEPT !.peer = s, !.wire = Tail(@), !.replies = Replied(@)]]

ServerRefuses(f) ==
  LET c == conn[f]
      msg == Head(c.wire)
  IN
  /\ c.wire # <<>> /\ msg # "QUIT"
  /\ conn' = [conn EXCEPT ![f] =
       [c EXCEPT !.wire = Tail(@), !.replies = Replied(@),
                 !.refused = @ \/ /\ ServerAllows(c.peer, msg)
                                  /\ c.peer \in {"CONNECTED", "START_REGISTRATION"}]]

\* A message of another client, for this one.
ServerRelays(f) ==
  /\ conn[f].peer \in {"REGISTERED", "IN_CHANNEL"}
  /\ conn[f].replies < MaxReplies
  /\ conn' = [conn EXCEPT ![f].replies = @ + 1]

\* QUIT, a server that stops, a broken connection.
ServerCloses(f) ==
  conn' = [conn EXCEPT ![f] = [@ EXCEPT !.peer = "DISCONNECTED", !.wire = <<>>]]

Server ==
  /\ \E f \in Live : ServerAccepts(f) \/ ServerRefuses(f) \/ ServerRelays(f) \/ ServerCloses(f)
  /\ phase # "exited"
  /\ UNCHANGED <<phase, ready, reported, client>>

Step == ReadSocket \/ Dispatch \/ EndIteration
Next == Poll \/ Step \/ Server

\* The loop goes on by itself; the timer of 60 seconds wakes poll() at last.
Spec == Init /\ [][Next]_vars /\ WF_vars(Poll) /\ WF_vars(Step)

------------------------------------------------------------------------------
(* Properties *)

Messages == {"NICK", "USER", "JOIN", "PART", "PRIVMSG", "EMPTY", "QUIT"}
Events ==
  [kind : {"CD", "MSG", "PC", "TIMER", "EXIT"}, fd : {Unassigned}]
    \cup [kind : {"RM"}, fd : Fds \cup {Unassigned}] \cup [kind : {"ADD"}, fd : Fds]
    \cup [kind : {"KEY"}, fd : {Unassigned}, line : Lines]
Connections ==
  [peer : States, wire : Seq(Messages), replies : 0 .. MaxReplies,
   refused : BOOLEAN, cut : BOOLEAN, lost : BOOLEAN]

\* The queues hold what their names say and nothing overflows its bound.
TypeOK ==
  /\ phase \in {"poll", "socket", "dispatch", "exited"}
  /\ ready \in 0 .. SocketEntries
  /\ reported \subseteq Fds /\ polled \subseteq Fds /\ Open \subseteq Fds
  /\ state \in States
  /\ fd \in Fds \cup {Unassigned}
  /\ nickValid \in BOOLEAN
  /\ msgQueue \in Seq(Messages) /\ Len(msgQueue) <= MaxMessages
  /\ events \in Seq(Events) /\ Len(events) <= EventCapacity
  /\ conn \in [Open -> Connections]

\* The connection of the session, while both ends hold it.
InSession == state # "DISCONNECTED" /\ fd \in Live
Session == conn[fd]

\* The client runs ahead of the server and never behind it: what the server
\* accepts is what the client has already taken for granted.  So the client
\* never refuses its user a command that the server would take.
ServerNeverAhead == InSession => Rank(Session.peer) <= Rank(state)

\* When everything sent has been answered, no step of the registration was
\* refused and no write interrupted, the two tables of states agree, but for
\* channels that the server has refused or that were left: the client stays
\* IN_CHANNEL after PART.
StatesAgree ==
  InSession /\ msgQueue = <<>> /\ Session.wire = <<>> /\ ~Session.refused /\ ~Session.lost =>
    state = Session.peer \/ (state = "IN_CHANNEL" /\ Session.peer = "REGISTERED")

\* The client does not repeat USER once it has sent it, so a refused nickname
\* cannot be mended by another one on the same connection: the user is never
\* registered, although the client shows a session and accepts commands.
RefusedIsFinal ==
  \A f \in Open : conn[f].refused => conn[f].peer \notin {"REGISTERED", "IN_CHANNEL"}

\* A client that has left a session which the server still holds has told it
\* so, or is about to, unless a message that could not be written ended it or an
\* interrupted write lost one.
QuitFirst ==
  state = "DISCONNECTED" /\ fd \in Live /\ ~Session.cut /\ ~Session.lost =>
    Contains(msgQueue, "QUIT") \/ Contains(Session.wire, "QUIT")

\* While it waits for input, a client that shows a session watches its socket.
\* The code breaks this: a /connect that is entered while the end of the last
\* session is being noticed is undone by the events of that end.
SessionHasSocket ==
  phase = "poll" /\ state # "DISCONNECTED" => fd \in Open /\ fd \in polled

\* Quitting ends the program, in any state and whatever the server does.
QuitExits ==
  (\E i \in DOMAIN events : events[i].kind = "KEY" /\ events[i].line = "QUIT")
    ~> phase = "exited"

\* A session whose server has gone is over soon.
LossNoticed ==
  (fd \in Open \ Live /\ fd \in polled) ~> (state = "DISCONNECTED" \/ phase = "exited")
==============================================================================
