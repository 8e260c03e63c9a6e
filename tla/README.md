# A TLA+ model of the IRC server and client

The program is a small IRC system in C: a server that serves all clients from
one thread with `poll()`, a terminal client, and a library both use (circular
queue, linked list, hash table, events, poll set, messages). This directory
models the parts whose correctness depends on what happened many steps ago or
elsewhere, checks them with TLC and proves what matters most with TLAPS.

Paths below are relative to the root of the repository, which is `src/` in
`PROJECT.json`. `server`, `client` and `libs` stand for `src/server/src`,
`src/client/src` and `src/libs/src`.

## The system

| Component | Code | State | Operations |
|---|---|---|---|
| Circular queue | `libs/queue.c` | buffer, `front`, `rear`, `current`, `count` | `enqueue` (drops the oldest item of a full queue), `dequeue` (returns a pointer into the buffer), cursor over the history |
| Event queue | `libs/event.c` | a circular queue of 20 events | push, pop, dispatch to a handler |
| Poll set | `libs/poll_manager.c` | array of `pollfd`, number of entries in use, map from descriptor to entry | set, unset, read `revents` |
| Connections | `server/tcp_server.c`, `server/client.c` | client slots (descriptor, nickname, state, input buffer), counter, queue of the server | accept, read, write, remove a client |
| Main loop | `server/main.c`, `server/dispatcher.c` | descriptors still to be found, the scan's position | poll, scan, dispatch events, send |
| Session | `server/session.c`, `user.c`, `channel.c` | tables of users and channels, `UserChannels`, `ChannelUsers`, ready list, a queue per user and per channel | register, unregister, join, leave, change nickname, queue messages |
| Commands | `server/command_handler.c`, `libs/session_state.c` | state of each client in the table of states | NICK, USER, JOIN, PART, PRIVMSG, QUIT, WHOIS |
| Framing | `server/tcp_server.c`, `client/tcp_client.c`, `libs/string_utils.c` | an input buffer of 512 characters per connection | append what was read, take out complete messages |
| Client session | `client/command_handler.c`, `client/tcp_client.c`, `client/dispatcher.c` | client state, socket, queue of messages | connect, disconnect, commands, QUIT |
| Line editor | `client/input_window.c`, `client/input_controller.c` | two history queues, cursor, number of characters | insert, delete, move, previous and next command |
| Scrollback | `client/scrollback_window.c`, `client/scroll_subject.c` | ring of lines with a viewport, the window, the notice of unread lines | add, scroll up and down, redraw |
| Signals | `libs/signal_handler.c`, `libs/io_utils.c` | a pipe and the buffer that it is read into | a handler writes a line, the loop reads lines and makes events |
| Settings and start-up | `libs/settings.c`, `client/config.c`, `server/config.c`, both `main.c` | options, the settings file | read, set, write; arguments, daemon, `cleanup()` |
| Logger | `libs/logger.c` | level, a buffer of lines, the log file | log, write a batch, finish |
| Hash table, linked list | `libs/hash_table.c`, `libs/linked_list.c` | buckets, nodes | insert, remove, find, iterate |
| Windows, tables of texts | the rest | | drawing, formatting |

How they interact. The main loop of the server is one thread: `poll()`, a scan
of the descriptors that reads sockets and pushes events, the dispatch of all
queued events (a message of a client calls the command handlers, which call the
session), then one pass that sends what the ready list names. Components share
state through pointers: lists hold pointers to the `User` objects that the
table of users owns, `dequeue()` lends a pointer into the buffer, and a client
slot, its socket and its entry of the poll set are three records of one
connection that are changed by different events. There are no locks, since
there is one thread; `server/mt_core.c` and `libs/threads.c` are not reached
from `main()`.

What is hard, and what the properties are for:

* an order of events nobody wrote a test for: a connection is removed in one
  event and its socket closed in a later one, with messages, accepts and a
  second disconnect in between; two clients reserve one nickname;
* pointers that outlive their object: QUIT, NICK and PART delete objects that
  five lists refer to, and only some of them are searched;
* stale state: a freed slot keeps its nickname and its unfinished input, an
  entry of the poll set keeps old events;
* limits: a full event queue, poll set, table or list drops what is added, each
  in its own way, and the caller goes on;
* liveness: a message is only sent if somebody put its channel on the ready
  list, and a client is only heard if the loop reaches its descriptor;
* two ends that do not ask each other: the client moves its own state when it
  queues a command, and the server may refuse it, relay something or be gone;
* processes that end at any step: files are erased before they are written, and
  a fork copies what is not written yet.

The full list, with the line where each bites and the property that would
notice, is under "hazards" in `PROJECT.json`.

What makes each component correct:

* queue: it is a first-in first-out queue that drops its oldest item when full,
  and a lent slot keeps its item while the borrower uses it;
* event queue, poll set, connections, loop: the three records of a connection
  agree, no socket leaks, every client is polled, connections and signals are
  served;
* session: the two membership lists describe one relation and come apart only where
  the code gives one of them up, channels exist exactly as long as they have members, states follow
  the table, messages of channels are sent;
* framing: the messages taken out are the ones put in, cut as documented;
* delivery: every member of a channel gets each message once, all in one order;
* client: its state agrees with what the server will answer, and it notices and
  announces the end of a session;
* editor and scrollback: what is shown is what runs and what came, and cursor and
  viewport stay on the text;
* signals: each is handled, and none is made up;
* settings and log: settings come back, and a log misses nothing but its tail;
* hash table: it is a bounded map, however the keys collide.

## Modules

| Module | What it is |
|---|---|
| `DropOldestQueue` | what `libs/queue.c` promises: a bounded sequence |
| `RingQueue` | the circular buffer as it is coded; implements `DropOldestQueue` |
| `LibraryProofs` | theorems about `RingQueue` for every capacity, and about `Lifecycle` for any number of processes and every size of a batch |
| `IrcSession` | session layer and all commands |
| `IrcSessionProofs` | theorems about `IrcSession` for all sizes and names |
| `ServerLoop` | main loop, event queue, poll set, slots, sockets, peers |
| `ServerLoopProofs` | theorems about `ServerLoop` for all sizes |
| `Framing` | a message from its text over the stream to its handler, both directions |
| `FramingProofs` | theorems about `Framing` for every size of the buffer and all lengths |
| `Delivery` | the queues between the handlers and the sockets, with what is in them |
| `DeliveryProofs` | theorems about `Delivery` for any users and channels and every size of the queues |
| `ClientSession` | the client's loop and session against the server at the other end |
| `ClientProofs` | theorems about `ClientSession` for all sizes of queues, buffers and poll set, and about `LineEditor` for every alphabet, line length, width and size of the history |
| `SignalPipe` | the client's signals, from the handlers over the pipe to the events |
| `LineEditor` | input line and history of commands |
| `Scrollback` | buffer of lines, view, window and notice |
| `ScrollbackProofs` | theorems about `Scrollback` for every height and size |
| `BoundedMap` | what `libs/hash_table.c` promises: a finite map with a limit |
| `HashTable` | buckets, chains and counters; implements `BoundedMap` |
| `HashTableProofs` | theorems about `HashTable` for every hash function, size and load factor |
| `Lifecycle` | processes from `main()` to their end, settings file and log |
| `Enumeration` | the numbers of a set in ascending order, and the items of a sequence at given places, used by `Framing`, `ClientSession` and `Delivery` in place of library operators that the prover does not know |
| `MC...` | an instance for TLC of the module of that name |

The "map" of `PROJECT.json` gives the lines each definition stands for.

### RingQueue

Variables are the fields of `Queue`, plus `lent`, the slot `dequeue()` returned a
pointer to, and what may still be enqueued before it is overwritten. One action
per function that changes the queue. The item of a slot that was never written
is `Garbage`, since the buffer is `malloc`ed. `Abstract` reads the buffer from
`front` to `rear`, and under it each action of the ring is an action of
`DropOldestQueue` or a stutter.

### IrcSession

One action per command and outcome, since the server is one thread and a
handler runs to its end. Commands the table of states refuses, unknown commands
and WHOIS only answer, and are the operator `Reply`. A pointer to a `User` is
the nickname of a registered user or `Freed`; a search of a list compares from
the head, and one that meets a freed pointer before it finds what it looks for
is undefined behaviour (`status = "undefined"`). `FAILED()` ends the process
(`status = "exited"`). After either nothing is said of the program, which is why
the runs switch deadlock checking off.

That a pointer dangles is not excused as such: `PairingIsKept` says in which steps a
membership may come apart at all, and any other step that left a dangling pointer, or
a member that is not on its own list, would violate it.

Kept: the order of the list of `UserChannels` (several may have the same owner's
nickname, and the first is found), the order of the members of a channel and of
the ready users (the same search), all counters, all limits, the nickname that
a freed slot keeps. Abstracted: a queue of messages is empty or not, the list of
channels of one user is a set (only membership is asked, and
`TrackedChannelsExist` shows that no member is a freed pointer), wording.

### ServerLoop

`pc` is the stage of the loop. The scan is one action per descriptor and
outcome, the dispatch one action per event, so that peers may connect, send and
close between any two. Client slots are the set of their descriptors and the
counter. The hash maps of descriptors to slots and entries are derived from the
arrays. What a message says is left to `IrcSession`: a message either queues
answers for some clients or makes its client quit. A read completes up to
`MaxMessages` messages. Sending tries each descriptor with messages queued and
pushes a disconnect event for each write that fails, so one dead client may have
several. A handler may end the process or be undefined (`HandlerFails`), since what it
finds in the tables of the session is left to `IrcSession`.

An entry's `revents` is garbage until `poll()` first looks at it, since the array
is `malloc`ed. `get_poll_revents()` returns -1 for an unknown descriptor, and
the scan then takes it for readable. A blocking read is an action that is not
enabled. The handlers of signals are installed without `SA_RESTART`, so a signal that comes
during the read ends it and the scan goes on (`SignalInRead`); one that came before the
read began is only seen at the next `poll()`, and does not. An index of -1 into the array of clients is `status = "undefined"`.

### Framing

One direction of one connection after another, through one input buffer; which
direction is chosen in `Init`. A byte of text is the number of its message, which
is all that is needed to tell whole, merged, cut and foreign messages apart. A
read takes any number of the bytes in flight, up to the size the code asks for.
The constants of the code differ by file: `command_handler.h` redefines
`MAX_CHARS` from 512 to 510, and `dispatcher.c` includes it, so messages are
composed, extracted and prefixed in 510 characters and buffered in 512. Two
library functions matter: `safe_copy()` copies all or nothing, and
`is_terminated()` holds of the empty string. The server reads up to 513 bytes into a buffer
of 513, and a read that fills it leaves no terminator, so that `strlen()` runs past it
(`tcp_server.c:589`). Its result is only compared with the size of the buffer, which it
exceeds whatever it is, and the copy is bounded: the outcome is the one of any read that
does not fit, and the model has no second one.

### Delivery

The same session as in `IrcSession`, cut the other way: what a membership list
holds is reduced to who has joined what, and what a queue holds is kept. A message
is its position in `history`, which says who caused it, what about and who was a
member then. One action per handler, with the queues that it fills in its order,
and one for the pass that sends. Refused commands are `Answer`. A private message
puts its sender on the ready list, as the code does. The last member of a channel
that leaves gets the news through its own queue, so the news that it joined a new
channel of the same name may overtake it, and one who joins gets messages that were
queued for the channel before: neither contradicts the properties, which speak of
one queue at a time and of those who were members.

### ClientSession

`phase` is the stage of the client's loop: `Poll` also reads a key and the pipe,
`ReadSocket` the socket, `Dispatch` handles one event, `EndIteration` sends. What the
user may enter is a set of kinds of lines; a key event carries the line, since the
text is taken when Enter is handled. `conn` is the server's end of each socket that
the client has open: the server's state for it, what is on its way in both
directions, and two history variables, `refused` (a step of the registration was
refused), `cut` (the client broke off over a message that it could not write) and `lost` (a
signal interrupted a write). An interrupted write counts neither as sent nor as failed
(`tcp_client.c:290`): the message is gone, or its first bytes are in front of the next one.
The model drops any of the messages of a round, which covers both as far as the
server's state goes.
The server accepts what its table allows, or refuses it, relays something, or closes,
at any time. Disconnecting changes the state at once and queues two events, one
that flushes and closes and one that takes the descriptor out of the poll set, so a
new connection may come in between.

### SignalPipe

A signal writes a line to the pipe at any step of the loop. A byte is a cell, and the
lines are shortened so that their order by length and the differences between their
lengths stay. The buffer is an array: `read_string()` writes no terminator behind what it
read, `extract_message()` moves the rest to the front and leaves the bytes behind it,
so the text of an old line may continue a new one. A buffer that is full to its last
byte has no terminator (`status = "undefined"`). The server's pipe carries one kind of
line, which ends the server.

### LineEditor

The bytes of each message of both queues are kept, since `safe_copy()` leaves what is
behind a terminator, and the text in the window apart from them, since the code patches
it key by key. The window has `width` columns behind the prompt and its own cursor. A
resize changes both and leaves the editor's `inputWidth` as it was (`display.c:505`), and
with a full window Home and an insertion make the line longer than the window without any
resize (`input_window.c:262`). Curses then neither writes nor moves beyond the last column,
and deletes where its cursor was left (`CursorAt`, `WithoutCell`). No relation between
`MAX_CHARS` and the width is assumed. One action per key; Enter runs the line, enters it in both queues
and restores the slots of the front queue that were edited. The two queues have the
same indices throughout and share them. Memory that `malloc` does not clear is a
choice in `Init` (`cleared`).

### Scrollback

Indices go down with the remainder of C, which is negative. The search for the top
of the buffer then may miss it and run for ever (`status = "looping"`), or a line
outside of the buffer is read (`status = "undefined"`). The window is not drawn from
the buffer but scrolled and patched, so both are kept; a slot is not cleared when a
shorter line is stored in it, which makes the line negative in the model.

The scrollback counts a line as one row, and curses continues a text that is wider than
the window in the next row, scrolling the window if there is none (`print_manager.c:106`,
`display.c:132`). Lines are short or long, and a narrow window shows a long one in two rows,
the second of which is `Rest`. What the code then prints over is followed row by row: a line
that scrolls in hides the rest of another, and the next line goes below the window's
cursor. Left out are lines of three rows or more and the remains of an overwritten text
behind a shorter one.

`reloaded`, `lapped` and `wrapped` are history variables: a redraw with lines above the view,
which takes the index of a line for the number of a row, or one that lost lines of the
view; lines lost from a full buffer while the user looked at them; and a line of two rows
since the window was last drawn anew. `FollowsNewest` promises the order of all rows while
none has wrapped, and where the newest line ends in any case.

### HashTable

Chains of items with their order, and the counters as the code keeps them, one of
buckets in use and one of links. The hash function is a constant. The load factor is
counted in halves, since the code divides by it as a float and stores it as an
int: with a factor of 1.5 the table is full before the number of items it was created
for, and with 0.5 it is always full. The program passes 0, which stands for 1.

### Lifecycle

`phase` of a process goes from `main()` through its arguments, logger, daemon and
running to the steps of `cleanup()`; `Kill` may come at each of them. The settings file
is erased and written in two steps, with other clients in between; a client that is killed
in the middle is `"torn"`. Of the options
those are kept that behave differently: a text (nickname, names and address), a port (a
number, one that is too large to be printed, or -1 for no number), the log level and the
daemon flag. Storing is not the identity. `write_settings()` uses the line for the format of
`fprintf()` (`settings.c:343`): text without `%` comes back, of two `%` one is left, and what
a directive prints is any text. A text that does not fit in a line is not written, the line
before is written twice instead (`settings.c:418`), and the option comes back as its default.
The level that an argument sets is set even if the next argument ends the program. The
client's options `--coloroff` and `--history` have no effect, and the server looks at
fixed positions of its arguments, so they are left out. A line of the log is its
process and number. A batch is written in one step.

## Runs

| Run | Instance | Shows |
|---|---|---|
| `ring_queue` | 3 slots, 2 items | lent pointer, refinement of `DropOldestQueue` |
| `session` | 2 slots, 2 nicknames, 3 names for 2 channels, 2 users per channel, 1 channel per user, 2 lists | users, clients and lists of channels stay together through shared, changed and inherited nicknames; membership lists and tables agree, and come apart in two kinds of step only |
| `server_loop` | 2 clients, event queue of 3 | slots, sockets, poll set; liveness of accept and signal |
| `framing` | buffer of 6, 3 messages of all lengths, both directions | messages are handed on whole and in order, lost only in bursts, and arrive |
| `delivery` | 2 users, 2 channels, queues of 1, 3 and 2, 4 messages | order, once only, to every member, announced |
| `client_session` | queues of 20, 2 sockets, 2 messages to and 1 from the server | the two tables of states, the farewell, the loss of the server |
| `signal_pipe` | buffer of 20, pipe of 24, 4 events, 7 signals | until reads bring several lines once too often, signals are handled and only timers are made up |
| `signal_lost` | as `signal_pipe` | *violated*: a signal that is written to the pipe is not handled |
| `line_editor` | 2 characters, lines of 3, history of 2, 1 to 3 columns | editing stays in the message, the window shows the line that runs and nothing else runs, the history reads back |
| `scrollback` | 2 rows, buffer of 6, 11 lines of 1 or 2 rows | no hang before the buffer is full, newest line, notice |
| `hash_table` | 5 keys in 2 buckets, limit of 4 | counters, refinement of `BoundedMap` |
| `lifecycle` | 2 clients or 3 server processes, batches of 2; for the settings 3 clients, 2 at a time, every kind of text and port | log and settings across exits, failures, forks and kills |

Why the bounds are enough:

* Ring: with three slots the stretch of held items takes every length from empty
  to full at every offset, and wraps. The theorems remove the bound.
* Session: two clients and two nicknames are the least for which a nickname is
  shared, changed to one that is free, inherited through a slot, and for which a
  channel has another member when one leaves. Limits of one or two reach every
  full list and table. `MaxLists` bounds the list of `UserChannels`, which grows
  with each registration under a shared nickname; two allow one stale entry
  before or behind a live one. The theorems remove all bounds, `MaxLists` excepted, which
  is a parameter of the model and may be any number.
* Loop: two clients are the least for holes in the poll set, reuse of a
  descriptor while an event about the old one is queued, and a second client
  that is starved or cut off. An event queue of three overflows with two
  messages of one client and anything else; the code's is 20 and overflows in
  the same way with more clients. `MaxBacklog` is the kernel's queue of waiting
  connections.

* Framing: six bytes hold two short messages, or a long one and a part of the
  next, and every cut of the stream is tried. Three messages are the least for a
  whole message after a merged one.
* Delivery: two users and two channels are the least for which the order of two
  channels could differ between two readers. A queue of one, three and two
  messages is filled by one refusal, one JOIN and two messages; the code's hold 50,
  20 and 100. Four messages are a JOIN or any four single steps, and each history
  of that length is tried.
* Client: two sockets let it connect again while the events of the older connection are
  still to be handled. Two
  messages on the way are the least for a message behind a refused one.
* Signals: the length of the lines matters relative to each other only, since what
  one leaves behind is a matter of differences. A buffer of four or five lines is
  filled within seven signals; the code's holds more than fifty. Seven signals make three
  reads that bring several lines at most, which is why `OnlyTimersRecur` speaks of three.
* Line editor: a history of two wraps, and lines of three characters have every length from
  empty to full and replace longer ones. A line of three in a window of two columns, or
  one, is cut by a resize; a line that fills the window grows over its edge. The theorems
  remove these bounds.
* Scrollback: a buffer of three times the view has lines above, in and below it;
  eleven lines overwrite all but one of the first six. With two rows one long line is
  the whole view, and two of them push each other out.
* Hash table: three keys collide in one bucket (a first, a middle and a last
  item) and two in the other, and one key is refused for want of room.
* Lifecycle: two clients are the least that overlap on the settings file, three
  server processes are a daemon with its two parents, and a batch of two is the least
  that is not written at once. The two programs share no file, and the model runs
  one of them at a time. The settings need more: texts of all four kinds, and a third client
  that starts after two have overlapped. The run therefore has two parts (`Followed` of
  `MCLifecycle`): for the logs one text and an ordinary port (`ForLogs`); for the settings clients
  that log their start and end only, of which two live at once and each has either a text
  or a port out of the ordinary, not both (`ForSettings`). In the second part states are told
  apart by what settings depend on only (`SettingsView`): the stages, the file, the last two
  events of the history and the options of clients that live or ended last. `SettingsReturn`
  looks at nothing else.

Each property of a passing run has a mutant: a definition of the model replaced
by a plausible slip (marked "faulty" in the module), with which TLC finds the
property violated.

## Fairness

* `IrcSession`: weak fairness of `SendMessages` only. The main loop ends every
  round with the pass that sends (`server/main.c`), and a round ends because the
  event queue is finite. Nothing is assumed of clients. `ChannelMessagesAreSent`
  then says that a channel with messages is served, unless the server ended.
* `ServerLoop`: weak fairness of the server as a whole, since it is one thread
  that the system schedules. It is fair to no single action: which of them runs
  is the code's decision. Nothing is assumed of peers, so a blocking read may
  last for ever; `StuckInRead` is what excuses the server.
* `Framing`: weak fairness of `Read`, because the main loop of the receiver reads
  each ready descriptor. `MessagesArrive` speaks of one connection; that the loop
  reaches the descriptor at all is the subject of `ServerLoop`.
* `ClientSession`: weak fairness of `Poll` and of `Step`, since the client's loop goes
  on by itself and its timer wakes `poll()` every minute at the latest. Nothing is
  assumed of the server or of the user. `LossNoticed` needs both: the end of the
  connection is reported by `poll()` and handled in the steps behind it.
* `SignalPipe`: weak fairness of the loop. The finding rests on an invariant and does
  not need it.
* `Lifecycle`: weak fairness of `Cleanup`, since the code of `cleanup()` runs on until
  the process is killed. No property of the runs needs it; `CleanupEnds` does.

## What the code does not keep

While modelling, a comment or the evident intent of the code was stated as a
property and found not to hold. One of these is a run of its own (`signal_lost`,
under "findings" in `PROJECT.json`); the others are definitions under the properties
of their module, so that each can be looked at by adding its name to the `.cfg` of
that module (for `CleanupEnds`, by taking the SYMMETRY out as well; for `ResizesAreRaised`,
with `MaxSignals` at 13 and no other steps than those of its row, since TLC cannot
search all behaviours of that length).

| Property | What happens |
|---|---|
| `SignalPipe.SignalsAreHandled` | After two reads that each brought several signals, a stale byte stands before the line of the next one, which is then unknown: Ctrl-C may be ignored (`string_utils.c:160`, `client/dispatcher.c:67`; the comment is `signal_handler.c:50`) |
| `SignalPipe.ResizesAreRaised` | After five reads that brought several signals (three resizes; a timer and two; two timers; two timers and one; two resizes) a resize is handled that was never raised. This takes 13 signals, more than the run has (`string_utils.c:160`) |
| `IrcSession.ReadyUsersComplete` | A private message marks its sender as ready, not its recipient (`command_handler.c:529`; `session.c:44` says that the list has those with messages to send) |
| `IrcSession.ChannelUsersComplete` | After NICK a member is not found in the lists of its channels, which keep a pointer to the deleted user (`command_handler.c:166`, `session.c:36`) |
| `IrcSession.NicknamesDistinct` | Two clients that ask for one nickname before either has registered both become registered under it (`session.c:133`, `command_handler.c:130`) |
| `ServerLoop.AllEntriesWatched` | `poll()` gets the number of entries in use although there are holes, so the last entry may not be looked at (`main.c:126`, `main.c:121`) |
| `ServerLoop.OnlyReportedIsRead` | Descriptors outside of the poll set, or not looked at, are taken for readable and read (`poll_manager.c:250`) |
| `Framing.AllReadDataStored` | A read that does not fit behind a partial message is thrown away with it (`tcp_server.c:592`, `tcp_server.c:580`) |
| `ClientSession.SessionHasSocket` | A `/connect` entered while the end of the last session is being noticed is undone by the events of that end |
| `LineEditor.AlwaysShown` | After a deletion from a line that is longer than the window the screen is not the line: what was behind the last column does not come in (`input_controller.c:377`), and after the End key another character disappears (`input_controller.c:415`) |
| `LineEditor.HistoryReachable` | With a full history the up key shows nothing (`queue.c:144` compares indices that have wrapped) |
| `Scrollback.AlwaysSafe` | With a full buffer the search for its top does not end, or a line outside of it is read (`scrollback_window.c:205`, `:246`) |
| `Scrollback.NoLineMissing` | Where lines take two rows, scrolling prints one over the rest of another and lines are missing in between (`print_manager.c:106`) |
| `Lifecycle.TextIsKept` | A nickname with `%` comes back as another one, and a client killed while it writes its settings leaves neither its own nor those it had found (`settings.c:343`, `settings.c:330`) |
| `Lifecycle.CleanupEnds` | `/port abc` stores -1, and at the exit counting its digits never ends, with the settings file erased (`string_utils.c:529`) |

Properties that hold on the same instances and are in no run, because a deeper one
that is says more or because a theorem states them: the `TypeOK` of most modules,
`RingQueue.IndicesAgree` and `NoGarbageInside`, `IrcSession.TrackedByFirst`,
`PendingChannelsAreReady`, `StatesFollowTable`, `ChannelsOutliveMembers` and `ChannelMessagesAreSent`,
`Framing.RoomForMore`, `ClientSession.QuitExits`, `Scrollback.WindowShowsView`.

## Proofs

Of `RingQueue`, `LibraryProofs` assumes `CapacityAssumption` (the capacity is a positive
number) and that `Garbage` and `NoItem` are no items. `IndicesAgree` is inductive
together with `TypeOK`: `front`, `rear` and `count` determine each other modulo the
capacity, and every slot of the stretch was written. The refinement needs in
addition lemmas on what the abstraction does when one item is stored, taken
or dropped at either end of a stretch that wraps.

Of `Lifecycle`, the same module assumes `ProcessesAssumption`: no process runs both programs, the
levels are numbers with DEBUG among them, and a batch has at least one line. (`LifecycleInit`,
`LifecycleSpec` and so on are so named because the two models of the library share the module.)
The invariant `LifecycleInv` has two halves.

`ProcessInv` is about lines. A line of a process may be in its own buffer, in its log, in the
buffers of the processes that it forked, or in several of these, and the log is shared. Its parts are
statements about positions, so that no subsequence has to be formed:

* `BufferOrder`: a buffer ends with the last lines of its own process, numbered without a
  gap up to `logged`; in front of them may be one line that was inherited, whose process
  will not log any more (`Gone`), because a daemon's parent logs nothing in `cleanup()`.
* `NoneMissing`, `LogLines`: the log holds every line of a process up to `OwnWritten`, what it
  logged less what waits in its own buffer, and beyond that only the first line of a
  daemon, which a child may write before its parent does.
* `LogOrder`: the lines of one process rise in the log, and two are equal only if they are such a
  first line.
* `FewCopies`, `RoomForForks`: the copies of a first line, counted in the log and in the buffers
  together, and the forks still to come are three at most. For this one server at a time may be on its way to
  become a daemon (`OneServerStarts`), which the model's start of the server grants.
* `Phases`: what the stage of a process says of its buffer, forks and options.

The lemmas say what one more line, one batch and one fork do to these parts for any buffers and logs
(`LineAdded`, `LinesWritten`, `LinesInherited`), and `ProcessStep` turns each into a step of a
process. `OnlyTailIsLost` follows because the numbers of the lines written are `1 .. v` with `v` no less than
`OwnWritten`. It speaks of positions too: "in order" is that of the lines in the log.

`FilesInv` is about the settings. `SettingsReturn` relates two starts and the writes between them; it needs
`SettingsInv`, which says what the file holds while the client that started last is the only one: what that
client had found until it erases the file, nothing then, and once it has stored its options one that they may
come back as. The assumption on texts is that their four kinds are apart, the default among the plain ones,
and that text with doubled signs has something to become.

`IrcSessionProofs` assumes `SizesAssumption` (all limits are positive numbers) and
`NamesAssumption` (`Empty` and `Freed` are no names). The inductive invariant `Inv`
has two halves:

* `SessionInv`: the shape of the session's state, `UsersHaveLists`,
  `ChannelListsAreSound`, `MembersAreRegistered` (a pointer on a list of users is a
  registered user or dangles), `TrackedSoundly` and
  `PendingChannelsAreReady`. None is inductive alone. A user who quits leaves the
  channels on its own list; that this is enough needs that each channel
  that lists a user is tracked by that user's first list; this is half of
  `TrackedSoundly`, the other half is that tracked channels exist, which the
  deletion of an empty channel keeps because counters are the lengths of the
  lists (`ChannelListsAreSound`).
* `ClientsInv`: clients past registration have a nickname, and each registered user
  belongs to such a client. It needs the session half, for JOIN and QUIT end the
  server when a user is missing.

Each action has a lemma per half; `StatesFollowTable`, `ChannelsOutliveMembers` and
`PairingIsKept` are action properties proved from `Inv`. The last is not a consequence of
`SessionInv`, which allows dangling pointers: each action has a lemma that a list which
was paired before stays so (`PairStep`), where QUIT and PART must find the user by its first
list, a JOIN that is tracked must add to that same list, and a registration under a taken
nickname must not change which list is first. What is proved holds for every number
of clients, nicknames and channels and for all limits.

`ServerLoopProofs` assumes `SizesAssumption` (positive sizes, at least the two
permanent entries in the poll set, room for one descriptor). A connection has three
records, its slot, its socket and its entry of the poll set, and three different
events change them, so none of the properties is inductive: between two of the
events they depend on the third being in the queue. The invariant `LoopInv` therefore
speaks of the queue:

* `QueueSound`: an event "add" or "remove" names an open socket; one to be removed is
  no client any more; one to be added has no entry yet; no socket is queued twice for
  either, and none is removed before it was added. This is what makes the lowest
  free number that the kernel hands out safe to use as an identity.
* `ConnectSound`: at most one "connect" is queued, in the round that polled it, and a
  connection is waiting for it. Otherwise `accept()` would stop the server.
* `EntriesDistinct`, `EntriesOpen`, `EntriesCounted`: `PollSetSound` in the form that
  the steps need.
* `NoSocketForgotten` and `ClientsArePolled`, which need that the queue has not
  overflowed; all other parts hold after an overflow too, for a queue that lost its
  oldest events still satisfies `QueueSound` (`SuffixSound`). That an entry is free for
  each client is the pigeon-hole argument of `RoomInPollSet`.

`HashTableProofs` assumes `HashAssumption` (the hash function gives a number for
every key), `SizeAssumption` (a positive number of items, any load factor) and
`NoneAssumption` (`None` is no value). The inductive invariant `Inv` is `Chains` (the
buckets hold sequences of pairs), `Placed` (a pair is in the bucket of its key), `Once`
(no key is twice in a chain) and `Counted` (`itemCount` is the number of buckets in
use, and both counters together are the number of pairs and of keys). The contract
speaks of keys and the code's limit of its counters, so the refinement needs both
halves: `Placed` and `Once` make the content of the table a function, and `Counted`
makes a refused insertion one that the map refuses too. The lemmas say what one
insertion, one update and one removal do to the set of pairs, the set of keys and
the set of buckets in use. The hash function is any function, so this holds however
the keys collide.

`ScrollbackProofs` assumes `SizesAssumption` (a window of at least one row, a buffer of
at least one window). `SafeUntilFull` is not inductive: that a count of lines ends
and that an index stays in the buffer depends on where the view is. The invariant
`IInv` adds `ViewOrdered` (until the buffer is full, `tail` is 0, `head` is `count`, and
`topLine`, `bottomLine` and `head` are in this order), `ViewFollows` (unless a redraw has
moved it the view has `Min({Rows, count})` lines, ends at `head` when it is not scrolled
up, and was full when it was scrolled up) and `ErasedUnread`. `NoticeTellsUnread` rests
on the second: a redraw from slot 0 must not move the view down to the unread lines.

`FollowsNewest` is about content and has a second invariant, `NewestInv`, on top of
`IInv`. `BufferHolds` says that the last lines, as many as fit, are each in the slot of
their number modulo the capacity, and that `head`, `tail` and `count` are functions of
the number of lines added. `WindowHolds` says that there is a number of lines above the view
that `topLine` and `bottomLine` are the two ends of, modulo the capacity, and that each
row of the window shows the line that belongs there, unless a line took two rows; for a view
that is not scrolled up it says where the newest line ends in any case (`CursorAtNewest`).
Two exceptions had to be found with TLC. A redraw at the top of a full buffer, when the next
line goes to slot 0, leaves the window blank, and blank rows are scrolled along until the
view comes down. They
never reach a view that is not scrolled up, because such a row belongs to one of the
oldest lines (`MayBeBlank`), and the newest window is another one if the buffer holds two
of them. In a buffer of one window (`--scrollback 1`, `client/config.c:77`) nothing scrolls,
and another invariant, `OneWindow`, takes the place of `WindowHolds`. There a redraw of a full
buffer stops at the index of the next line and leaves rows blank (`input_controller.c:174`);
`reloaded` covers it, as each redraw that does not show the newest window whole.

Of `ClientSession`, `ClientProofs` assumes `BoundsAssumption`: positive bounds, and a queue of at least two
messages, since a registration queues NICK and USER at once (the code's holds 20). What
the properties say of client and server depends on what is between them, so the invariant
`Inv` speaks of `Pending`, the messages on the wire followed by those still queued:

* `OneLineAtATime`: at most one line of the user waits in the event queue, and none is
  handled before the last one's messages are sent. `OneLineQueued` is its consequence
  for the queue.
* `RegistrationsOnce`: USER is pending once at most, right behind its NICK or alone after
  the server took or refused that NICK. This makes a refusal final.
* `ServerBehind`: for each state of the client, which states the server may be in and
  what must be pending to bring it there. `ServerNeverAhead` and `StatesAgree` are the
  case of something and of nothing pending.
* `QuitFirst` is kept with the events that disconnecting queues.

`StatesAgree` and `QuitFirst` except a connection on which a signal has interrupted a write;
`Registering` holds of it too, which is why `ServerNeverAhead` and `RefusedIsFinal` need no
exception (`SentRegistering`: messages that are left out of what is pending cannot make a USER
acceptable that was not).

Of `LineEditor`, the same module assumes `ConstantsAssumption` (positive sizes, and the width at the
start is one of the widths) and `NulAssumption` (the terminator is not a character that can be typed). The names
`EditorInit`, `EditorSpec` and so on are the editor's own because the two models of the client
share the module. Nothing relates the width of the window to the length of a line. The invariant
`EditorInv` consists of `EditorTypeOK`, `RearBehindHistory` (a
new command goes behind the last one), `ShownIsRun`, `HistoryReadsBack` and `NothingLeftBehind`. The
argument is about bytes:

* `StringEnds` says where a string of C ends; `LineShown` gives `ShownIsRun` column by column, up to
  the edge of the window. What follows in the slot does not matter to it, so an old command
  behind the new one cannot disturb this proof, just as it cannot disturb the screen.
* What Enter runs is another matter, since it takes the slot up to its terminator.
  `NothingLeftBehind` says why there is nothing behind the line while the history has room: slots
  that were not used yet are empty, no slot has characters behind its terminator, and saved
  commands are the same in both queues, so that restoring them changes nothing. Each part
  ends with the first edit of a saved command or the first lap of the queue, and from then on
  the code runs what it does not show.
* `CopiedText` and `RemovedItems` say what `safe_copy()` and the removal of a character leave
  at each column.
* `HistoryReadsBack` needs `RearBehindHistory`: the slot which Enter overwrites is that of the
  oldest command, which leaves the history at the same time, or one outside of it. `EditKeeps`
  adds that a slot is in `edited` once a saved command was changed in it, and
  `SlotsReloaded` that Enter restores each of those.

`FramingProofs` assumes `SizesAssumption`: the buffer has room for the terminator and a
message longer than the prefix. Its invariant `Inv` follows a byte from the sender to the
handler. `EnoughRoom` says that up to the first burst everything outstanding fits into the buffer and
ends with a terminator, so that a full buffer holds a complete message and a read is never
asked for nothing. `SentInOrder` says where: there is a function of positions (`Layout`)
such that buffer and wire together are the messages not yet handed on, one behind
the other with their terminators. A cut of the stream changes nothing in that concatenation, and
extraction takes the messages from its front. `OwnInput` says that a foreign byte is in the
buffer only before the first message of a connection is handed on. The lemmas say where
the terminators of a concatenation are and what is between two of them.

`DeliveryProofs` assumes `SizesAssumption` (positive sizes) and `NamesAssumption` (users,
channels and the server's queue have different names). A message is its number in `history`, so
order of composition is order of numbers, and the invariant `Inv` relates what has been
received to what waits:

* `QueuesRise`: each queue holds messages that were put there, in ascending order.
  `ReceivedEarlier`: what a user has got from a queue is older than all that waits in it.
  Together they are why one queue's messages come in order and once.
* `ServerQueueFirst`: answers change their queue when a user registers, and nothing of the old
  queue is left once the new one has been written.
* `MembersAreServed`: a message of a channel has been got or lost by each who was a member, or
  waits where this user still is a member, or the user has left. `EveryMemberGetsIt`
  says less and is not inductive: the message may wait in a queue that is no longer the
  user's.
* `ListsAreSets`, and `NewAreNowhere`: nobody is in a channel before it has registered. The
  proof asked for the second. The last member of a channel gets the news of its own PART over
  its own queue, which would break `ServerQueueFirst` for a user who is not registered.

Each handler has a lemma that it keeps what these parts need of the messages it composes and
the queues that it appends to (`HandlerKeepsOrder`, `HandlerKeepsMembers`). For the round of
writing, `SameOrder` is not a matter of single queues: two users who are in several channels
get them one behind the other. The proof gives an order of all messages of a round, by
queue and then by number, with the channels in the order of the ready list (`InTheRound`), shows
that it is strict (`BeforeIsStrict`) and that what is written to each user follows it
(`WrittenInOrder`). Nothing that was got before is written again (`SentIsNew`), so the new
messages extend the common order.

What the prover cannot see shaped the modules: the library's `SelectSeq` and `SetToSortSeq`
and the operators `:>` and `@@` are opaque to it, so definitions that are reasoned
about use functions and `Enumeration` instead, and a position in a list is a function of
numbers where a recursion would be shorter. Induction over numbers is done with the least
counterexample (`LeastNumber`). Linear arithmetic with `%` is left to a few lemmas
(`Remainders`, `StepsAlong`, `LessThanATurn`) that are cited with named operands.

Only model-checked:

* liveness (`ConnectionsAccepted`, `SignalStopsServer`, `MessagesArrive`, `LossNoticed`), since
  fairness and ENABLED are outside of what the prover handles;
* `SignalPipe`, whose properties follow single bytes through the buffer for lines of given
  lengths: the shortened lines are an instance, not a parameter, and what stale bytes may
  spell after a number of reads is found by enumeration.

## Not modelled

* `server/mt_core.c` with `libs/threads.c`: the Makefile of the server leaves the first out
  of the program (`server/Makefile:15`), and nothing else starts a thread.
* The text of messages and replies, and the tables of them. A message whose text
  contains the separator `|` is dropped by the server without an answer; in the models
  this is one of the refusals.
* A write that blocks because the peer does not read, on the server: it stops as in a
  blocking read. A write of the client that a signal interrupts loses its message; that the
  rest of a message which was written in part is glued to the next one is left out.
* The server's echo mode.
* Layout, colours and borders of the windows, which are drawing without state of their
  own, a terminal whose height changes, and lines that wrap over three rows or more.
* The syntax of the settings file and the options that no property tells apart.
* The conversion of addresses, and the interval timer beyond the signal that it raises.
* A batch of the log that is written in part, and both programs at once.

## Plan

Done: all modules of the table, with proofs about `RingQueue`, `IrcSession`, `ServerLoop`,
`HashTable`, `Scrollback`, `ClientSession`, `LineEditor`, `Framing`, `Delivery` and `Lifecycle`. All
invariants, action properties and refinements that the runs check of these modules are theorems;
what is left to TLC alone is liveness and `SignalPipe`.
