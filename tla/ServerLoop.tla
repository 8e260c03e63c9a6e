------------------------------ MODULE ServerLoop ------------------------------
(***************************************************************************)
(* The main loop of the server: poll(), the scan of the descriptors, the   *)
(* event queue with its handlers, and the sockets of the clients.  What a  *)
(* client says is of no interest here: a command answers somebody or makes *)
(* its client quit (module IrcSession has the rest).                       *)
(*                                                                         *)
(* Descriptors are numbers.  The pipe and the listening socket are open    *)
(* from the start and hold the first two entries of the poll set; the      *)
(* kernel gives an accepted socket the lowest number that is free.         *)
(* Sockets block: reading one that has nothing to read stops the server    *)
(* until its peer acts or a signal interrupts the read, which is a Read    *)
(* action that is not enabled.                                             *)
(*                                                                         *)
(* status is "exited" once the process ended, and "undefined" once the     *)
(* code indexed clients[-1]; nothing is said of what may follow.           *)
(*                                                                         *)
(* A definition marked "faulty" is a plausible slip that no specification  *)
(* uses; each is there to show that a property would notice it.            *)
(***************************************************************************)
EXTENDS Integers, FiniteSetsExt, SequencesExt

CONSTANTS
  Capacity,       \* OT_MAX_FDS: client slots, entries of the poll set, and the
                  \* descriptor at which the scan ends
  ListenFd,       \* the listening socket; all lower descriptors are taken
  MaxFd,          \* the largest descriptor the process may have
  EventCapacity,  \* length of the event queue (20)
  MaxMessages,    \* bound of the model: messages one read completes, and
                  \* failing writes of one round, times the clients
  MaxBacklog      \* LISTEN_QUEUE_LEN: connections the kernel keeps waiting

ASSUME SizesAssumption ==
  /\ {Capacity, EventCapacity, MaxMessages, MaxBacklog} \subseteq Nat \ {0}
  /\ ListenFd \in Nat /\ MaxFd \in Nat
  /\ Capacity >= 2 /\ ListenFd < MaxFd

VARIABLES
  status,      \* "running", "exited" or "undefined"
  pc,          \* the stage of the loop: "poll", "scan", "dispatch" or "send"
  ready,       \* fdsReady: descriptors reported and not yet found
  cursor,      \* connectedFd: the descriptor the scan is at
  pfds,        \* entries 2.. of the poll set: descriptor and reported events
  pollCount,   \* the counter of the poll set, pipe and listening socket included
  clients,     \* descriptors of the occupied client slots
  count,       \* the counter of the clients
  events,      \* the event queue, oldest first
  dropped,     \* history: the event queue has discarded an event
  pending,     \* the descriptors that have messages queued for the next send
  backlog,     \* connections waiting to be accepted
  signalled,   \* a signal handler has written to the pipe
  open,        \* the open sockets of clients
  unread,      \* of these, the ones with data to read
  gone         \* of these, the ones whose peer has closed

kernel == <<backlog, signalled, open, unread, gone>>
pollSet == <<pfds, pollCount>>
table == <<clients, count>>
scan == <<ready, cursor>>
queues == <<events, dropped, pending>>
vars == <<status, pc, scan, pollSet, table, queues, kernel>>

Fds == ListenFd + 1 .. MaxFd
Entries == 2 .. Capacity - 1
NoFd == -1

\* What the scan may name: it does not ask whether a descriptor exists.
Numbers == Fds \cup (ListenFd + 1 .. Capacity - 1)

\* revents: nothing, POLLIN, POLLERR or POLLHUP alone, never written.
Revents == {"none", "in", "err", "garbage"}

EventTypes == {"connect", "add", "remove", "msg", "disconnect", "exit"}
Event(type, fd) == [type |-> type, fd |-> fd]

Init ==
  /\ status = "running"
  /\ pc = "poll"
  /\ ready = 0
  /\ cursor = ListenFd + 1
  /\ pfds = [i \in Entries |-> [fd |-> NoFd, revents |-> "garbage"]]
  /\ pollCount = 2
  /\ clients = {}
  /\ count = 0
  /\ events = <<>>
  /\ dropped = FALSE
  /\ pending = {}
  /\ backlog = 0
  /\ signalled = FALSE
  /\ open = {}
  /\ unread = {}
  /\ gone = {}

------------------------------------------------------------------------------
(* The event queue is a DropOldestQueue. *)

Newest(q) ==
  IF Len(q) > EventCapacity
  THEN SubSeq(q, Len(q) - EventCapacity + 1, Len(q))
  ELSE q

Push(q, new) ==
  /\ events' = Newest(q \o new)
  /\ dropped' = (dropped \/ Len(q \o new) > EventCapacity)

------------------------------------------------------------------------------
(* Waiting for input *)

\* poll() looks at the first pollCount entries, whichever of them are in use.
Watched == {i \in Entries : i < pollCount /\ pfds[i].fd # NoFd}
Readable(f) == f \in unread \cup gone

\* The pipe and the listening socket are looked at first.
InputEventsExclusive ==                          \* faulty: one or the other
  IF backlog > 0 THEN <<Event("connect", NoFd)>>
  ELSE IF signalled THEN <<Event("exit", NoFd)>> ELSE <<>>
InputEventsLast ==                               \* faulty: clients come first
  (IF signalled THEN <<Event("exit", NoFd)>> ELSE <<>>) \o
  (IF backlog > 0 /\ ~ \E i \in Watched : Readable(pfds[i].fd)
   THEN <<Event("connect", NoFd)>> ELSE <<>>)
InputEvents ==
  (IF signalled THEN <<Event("exit", NoFd)>> ELSE <<>>) \o
  (IF backlog > 0 THEN <<Event("connect", NoFd)>> ELSE <<>>)

\* A closed connection is reported as readable or, without POLLIN, as hung up.
\* Entries behind the first pollCount keep the events of an earlier call; poll()
\* clears those of the other entries that are not in use.
Poll ==
  /\ pc = "poll"
  /\ LET hits == {i \in Watched : Readable(pfds[i].fd)} IN
     /\ hits # {} \/ InputEvents # <<>>
     /\ \E hungUp \in SUBSET {i \in hits : pfds[i].fd \notin unread} :
          pfds' = [i \in Entries |->
            IF i >= pollCount THEN pfds[i]
            ELSE [pfds[i] EXCEPT !.revents = IF i \in hungUp THEN "err"
                                             ELSE IF i \in hits THEN "in" ELSE "none"]]
     /\ ready' = Cardinality(hits)
  /\ Push(events, InputEvents)
  /\ signalled' = FALSE
  /\ cursor' = ListenFd + 1
  /\ pc' = "scan"
  /\ UNCHANGED <<status, pollCount, table, pending, backlog, open, unread, gone>>

------------------------------------------------------------------------------
(* Looking for the descriptors that are ready *)

EntriesOf(f) == {i \in Entries : pfds[i].fd = f}

\* get_poll_revents() is -1 for a descriptor outside of the poll set, which has
\* every bit set, POLLIN too.
MaySay(f, set) == EntriesOf(f) = {} \/ \E i \in EntriesOf(f) : pfds[i].revents \in set
TakenAsInput(f) == MaySay(f, {"in", "garbage"})
TakenAsError(f) == EntriesOf(f) # {} /\ MaySay(f, {"err", "garbage"})
TakenAsQuiet(f) == EntriesOf(f) # {} /\ MaySay(f, {"none", "garbage"})

Scanning == pc = "scan" /\ ready > 0 /\ cursor < Capacity

\* One descriptor is done with.
Advance(found) ==
  /\ cursor' = cursor + 1
  /\ ready' = ready - found
  /\ UNCHANGED <<pc, pollSet, table, pending, backlog, signalled, open, gone>>

Undefined ==
  /\ status' = "undefined"
  /\ UNCHANGED <<pc, scan, pollSet, table, queues, kernel>>

\* server_read() appends the data to the buffer of the client, and each message
\* that is complete becomes an event.
ReadData ==
  /\ Scanning /\ TakenAsInput(cursor) /\ cursor \in unread
  /\ IF cursor \notin clients THEN Undefined
     ELSE \E k \in 0 .. MaxMessages :
       /\ Push(events, [i \in 1 .. k |-> Event("msg", cursor)])
       /\ unread' = unread \ {cursor}
       /\ Advance(1)
       /\ UNCHANGED status

\* The peer has closed, or reset the connection whatever was left to read, or
\* no socket has this number (EBADF).
ReadEnd ==
  /\ Scanning /\ TakenAsInput(cursor)
  /\ cursor \in gone \/ cursor \notin open
  /\ Push(events, <<Event("disconnect", cursor)>>)
  /\ Advance(1)
  /\ UNCHANGED <<status, unread>>

FindError ==
  /\ Scanning /\ TakenAsError(cursor)
  /\ Push(events, <<Event("disconnect", cursor)>>)
  /\ Advance(1)
  /\ UNCHANGED <<status, unread>>

FindNothing ==
  /\ Scanning /\ TakenAsQuiet(cursor)
  /\ Advance(0)
  /\ UNCHANGED <<status, events, dropped, unread>>

\* Reading a socket nobody has sent anything to.
StuckInRead ==
  Scanning /\ TakenAsInput(cursor) /\ cursor \in open \ (unread \cup gone)

\* The handlers are installed without SA_RESTART: a signal that comes during the
\* read ends it (EINTR), and one that came just before does not.
SignalInRead ==
  /\ StuckInRead
  /\ signalled' = TRUE
  /\ cursor' = cursor + 1
  /\ ready' = ready - 1
  /\ UNCHANGED <<status, pc, pollSet, table, queues, backlog, open, unread, gone>>

EndScan ==
  /\ pc = "scan" /\ ~Scanning
  /\ pc' = "dispatch"
  /\ UNCHANGED <<status, scan, pollSet, table, queues, kernel>>

------------------------------------------------------------------------------
(* Handling the events *)

Handling(type) == pc = "dispatch" /\ events # <<>> /\ Head(events).type = type
Subject == Head(events).fd
Rest == Tail(events)

IsServerFull == count = Capacity

\* A full server does not accept; a failing accept() ends the process.
HandleConnect ==
  /\ Handling("connect")
  /\ UNCHANGED <<pc, scan, pollSet, pending, signalled, unread, gone>>
  /\ IF IsServerFull
     THEN events' = Rest /\ UNCHANGED <<status, table, dropped, backlog, open>>
     ELSE IF Fds \subseteq open
     THEN status' = "exited" /\ UNCHANGED <<table, events, dropped, backlog, open>>
     ELSE LET f == Min(Fds \ open) IN
       /\ open' = open \cup {f}
       /\ backlog' = backlog - 1
       /\ clients' = clients \cup {f}
       /\ count' = count + 1
       /\ Push(Rest, <<Event("add", f)>>)
       /\ UNCHANGED status

\* set_poll_fd(): when every entry is in use the descriptor is left out.
FreeEntriesWatched ==                            \* faulty: the search ends early
  {i \in EntriesOf(NoFd) : i < pollCount}
FreeEntries == EntriesOf(NoFd)
CountWithOneMore == IF FreeEntries = {} THEN pollCount ELSE pollCount + 1
HandleAdd ==
  /\ Handling("add")
  /\ events' = Rest
  /\ pollCount' = CountWithOneMore
  /\ pfds' = IF FreeEntries = {} THEN pfds
             ELSE [pfds EXCEPT ![Min(FreeEntries)].fd = Subject]
  /\ UNCHANGED <<status, pc, scan, table, dropped, pending, kernel>>

\* unset_poll_fd() and close()
UnsetKept(f) == pfds                             \* faulty: the entry stays in use
Unset(f) == [i \in Entries |-> IF pfds[i].fd = f THEN [pfds[i] EXCEPT !.fd = NoFd] ELSE pfds[i]]
HandleRemove ==
  /\ Handling("remove")
  /\ events' = Rest
  /\ pfds' = Unset(Subject)
  /\ pollCount' = pollCount - Cardinality(EntriesOf(Subject))
  /\ open' = open \ {Subject}
  /\ unread' = unread \ {Subject}
  /\ gone' = gone \ {Subject}
  /\ UNCHANGED <<status, pc, scan, table, dropped, pending, backlog, signalled>>

\* remove_client(): the socket stays open until its own event.
FreedEventsNone(f) == <<>>                       \* faulty: nobody closes the socket
FreedEvents(f) == <<Event("remove", f)>>
VacatedKept(f) == clients                        \* faulty: the slot keeps its number
Vacated(f) == clients \ {f}
RemoveClient(f) ==
  /\ clients' = Vacated(f)
  /\ count' = count - 1
  /\ Push(Rest, FreedEvents(f))

\* Messages go to the client itself or to users that share a channel with it.
HandleMessage ==
  /\ Handling("msg")
  /\ IF Subject \notin clients THEN Undefined
     ELSE
       /\ events' = Rest
       /\ \E to \in SUBSET clients : pending' = pending \cup to
       /\ UNCHANGED <<status, pc, scan, pollSet, table, dropped, kernel>>

\* The queue of a user goes with the user.  What the client was told before it
\* registered waits in the queue of the server, and stays there.
HandleQuit ==
  /\ Handling("msg")
  /\ Subject \in clients
  /\ RemoveClient(Subject)
  /\ \E to \in SUBSET (clients \ {Subject}), kept \in SUBSET {Subject} :
       pending' = (pending \ {Subject}) \cup to \cup (kept \cap pending)
  /\ UNCHANGED <<status, pc, scan, pollSet, kernel>>

HandleDisconnect ==
  /\ Handling("disconnect")
  /\ IF Subject \notin clients THEN Undefined
     ELSE
       /\ RemoveClient(Subject)
       /\ \E to \in SUBSET (clients \ {Subject}), kept \in SUBSET {Subject} :
            pending' = (pending \ {Subject}) \cup to \cup (kept \cap pending)
       /\ UNCHANGED <<status, pc, scan, pollSet, kernel>>

\* What a handler finds in the tables of the session may end the process or be
\* undefined (module IrcSession says when).
HandlerFails ==
  /\ Handling("msg") \/ Handling("disconnect")
  /\ status' \in {"exited", "undefined"}
  /\ UNCHANGED <<pc, scan, pollSet, table, queues, kernel>>

HandleExit ==
  /\ Handling("exit")
  /\ status' = "exited"
  /\ UNCHANGED <<pc, scan, pollSet, table, queues, kernel>>

EndDispatch ==
  /\ pc = "dispatch" /\ events = <<>>
  /\ pc' = "send"
  /\ UNCHANGED <<status, scan, pollSet, table, queues, kernel>>

------------------------------------------------------------------------------
(* Sending *)

\* A write fails when no socket has this number, and may fail when the peer is
\* gone.  Each failing write makes an event, so that a client with several messages
\* may have several.  The events wait for the next round.
Failing(set) == {o \in SeqOf(set, MaxMessages * Cardinality(set)) : ToSet(o) = set}
Send ==
  /\ pc = "send"
  /\ \E lost \in SUBSET (pending \cap gone) :
     \E order \in Failing((pending \ open) \cup lost) :
       Push(events, [i \in DOMAIN order |-> Event("disconnect", order[i])])
  /\ pending' = {}
  /\ pc' = "poll"
  /\ UNCHANGED <<status, scan, pollSet, table, kernel>>

------------------------------------------------------------------------------
(* The peers and the operator *)

PeerConnects ==
  /\ backlog < MaxBacklog
  /\ backlog' = backlog + 1
  /\ UNCHANGED <<signalled, open, unread, gone>>

PeerSends(f) ==
  /\ f \in open \ gone
  /\ f \notin unread
  /\ unread' = unread \cup {f}
  /\ UNCHANGED <<backlog, signalled, open, gone>>

PeerCloses(f) ==
  /\ f \in open \ gone
  /\ gone' = gone \cup {f}
  /\ UNCHANGED <<backlog, signalled, open, unread>>

Signal ==
  /\ ~signalled
  /\ signalled' = TRUE
  /\ UNCHANGED <<backlog, open, unread, gone>>

Environment ==
  /\ \/ PeerConnects
     \/ \E f \in Fds : PeerSends(f) \/ PeerCloses(f)
     \/ Signal
  /\ UNCHANGED <<status, pc, scan, pollSet, table, queues>>

Server ==
  \/ Poll
  \/ ReadData \/ ReadEnd \/ FindError \/ FindNothing \/ EndScan
  \/ HandleConnect \/ HandleAdd \/ HandleRemove
  \/ HandleMessage \/ HandleQuit \/ HandleDisconnect \/ HandlerFails \/ HandleExit
  \/ EndDispatch
  \/ Send

Next == status = "running" /\ (Server \/ Environment \/ SignalInRead)

\* The server is one thread that is always scheduled; of peers nothing is assumed.
Spec == Init /\ [][Next]_vars /\ WF_vars(status = "running" /\ Server)

------------------------------------------------------------------------------
(* Properties *)

TypeOK ==
  /\ status \in {"running", "exited", "undefined"}
  /\ pc \in {"poll", "scan", "dispatch", "send"}
  /\ ready \in 0 .. Capacity
  /\ cursor \in Nat
  /\ pfds \in [Entries -> [fd : Fds \cup {NoFd}, revents : Revents]]
  /\ pollCount \in 2 .. Capacity
  /\ clients \subseteq Fds
  /\ count \in 0 .. Capacity
  /\ events \in Seq([type : EventTypes, fd : Numbers \cup {NoFd}])
  /\ Len(events) <= EventCapacity
  /\ dropped \in BOOLEAN
  /\ pending \subseteq Fds
  /\ backlog \in 0 .. MaxBacklog
  /\ signalled \in BOOLEAN
  /\ open \subseteq Fds
  /\ unread \subseteq open
  /\ gone \subseteq open

\* A client's socket is closed only after the client left its slot, and a number
\* that the kernel hands out again never belongs to a client already: the table
\* has one slot per open socket and counts them right, although the close is an
\* event of its own.  (register_connection, remove_client, the remove event)
ClientsHoldOpenSockets ==
  /\ clients \subseteq open
  /\ count = Cardinality(clients)

\* No descriptor has two entries of the poll set, none is closed while it is
\* polled, and the counter is the number of entries in use.  (set_poll_fd,
\* unset_poll_fd, the remove event)
PollSetSound ==
  /\ \A f \in Fds : Cardinality(EntriesOf(f)) <= 1
  /\ \A i \in Entries : pfds[i].fd \in open \cup {NoFd}
  /\ pollCount = 2 + Cardinality({i \in Entries : pfds[i].fd # NoFd})

Queued(type, f) == Contains(events, Event(type, f))

\* As long as the event queue never overflowed, no socket leaks: an open one is
\* that of a client or about to be closed.
NoSocketForgotten ==
  ~dropped => \A f \in open : f \in clients \/ Queued("remove", f)

\* As long as the event queue never overflowed and the poll set has room for all
\* descriptors, every client is in the poll set or about to be.
ClientsArePolled ==
  ~dropped /\ Cardinality(Fds) <= Capacity - 2 =>
    \A f \in clients : EntriesOf(f) # {} \/ Queued("add", f)

\* What excuses the server from serving the pipe and the listening socket: it
\* blocks in a read only if the signal did not interrupt that read.
Excused == status # "running" \/ dropped \/ StuckInRead

\* A connection in a full backlog is accepted, whatever else the clients do,
\* unless all slots are taken.
ConnectionsAccepted ==
  backlog = MaxBacklog ~> backlog < MaxBacklog \/ IsServerFull \/ Excused

\* A signal ends the server.
SignalStopsServer == signalled ~> Excused
------------------------------------------------------------------------------
(* What the comments of the code say and the code does not keep *)

\* main.c:121: the server uses "poll() to monitor pipe and socket fd's for input
\* events (readiness to read data)": each entry in use is watched.
AllEntriesWatched ==
  pc = "poll" => \A i \in Entries : pfds[i].fd # NoFd => i < pollCount

\* main.c:121, the other way round: only a descriptor that poll() has reported
\* in this round is read.
OnlyReportedIsRead ==
  Scanning /\ TakenAsInput(cursor) => \E i \in Watched : pfds[i].fd = cursor
===============================================================================
