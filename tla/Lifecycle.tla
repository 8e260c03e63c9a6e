------------------------------- MODULE Lifecycle -------------------------------
(***************************************************************************)
(* A process of the client or of the server from main() to its end, and    *)
(* the two files that outlive it: the settings of the client, read when it *)
(* starts and written when it exits, and the log of each program, to which *)
(* the lines of a process go in batches.  Several clients may run at the   *)
(* same time; a server that becomes a daemon forks twice and each parent   *)
(* exits like any other process, with a copy of what was not yet written.  *)
(*                                                                         *)
(* A process may be killed at any step: by a signal that it has no handler *)
(* for (SIGTERM and SIGHUP in the client), by SIGKILL or by a crash.       *)
(*                                                                         *)
(* A definition marked "faulty" is a plausible slip that no specification  *)
(* uses; each is there to show that a property would notice it.            *)
(***************************************************************************)
EXTENDS Integers, FiniteSetsExt, SequencesExt

CONSTANTS
  Clients,       \* the processes that may ever run the client
  Servers,       \* the processes that may ever run the server
  Plain,         \* values of an option that is text: those without "%",
  Doubled,       \* those with "%" in pairs only,
  Directives,    \* those with a "%" and something else behind it, and
  Overlong,      \* those that with their label exceed a line of MAX_CHARS
  Account,       \* its default, the name of the user's account
  Levels,        \* log levels that an argument may name
  LogFrequency,  \* lines that are written together (20)
  MaxLines       \* bound on the lines of a running process

Debug == 0
Info == 1

ASSUME ProcessesAssumption ==
  /\ Clients \cap Servers = {}
  /\ Account \in Plain
  /\ Plain \cap (Doubled \cup Directives \cup Overlong) = {}
  /\ Doubled = {} \/ Directives # {}
  /\ Levels \subseteq Nat /\ Debug \in Levels
  /\ LogFrequency \in Nat \ {0} /\ MaxLines \in Nat

Processes == Clients \cup Servers
Programs == {"client", "server"}
ProgramOf(p) == IF p \in Clients THEN "client" ELSE "server"

\* What the option "port" may hold: a number that is printed as it is; one so
\* large that counting its digits overflows; or -1, which stands for no number.
Ports == {"number", "huge", "invalid"}

\* The option text stands for the nickname, the names of the user and the address.
Texts == Plain \cup Doubled \cup Directives \cup Overlong
Options == [text : Texts, port : Ports, level : Levels, daemon : BOOLEAN]

VARIABLES
  phase,     \* how far a process got, "none" before it starts
  options,   \* its settings
  logger,    \* its logger: "none", "open", or "broken" without a file
  buffer,    \* the lines that its logger has not written yet
  logged,    \* how many lines it has logged
  forks,     \* the forks a daemon still has to make
  file,      \* what the settings file holds: nothing, or one set of options
  loaded,    \* the settings that a client has read from it
  log,       \* the log file of each program
  history    \* clients in the order in which they started and ended

process == <<phase, options, logger, logged, forks>>
logs == <<buffer, log>>
lifecycleVars == <<process, logs, file, loaded, history>>

------------------------------------------------------------------------------
(* Settings *)

\* initialize_client_settings() before the file is read
Defaults == [text |-> Account, port |-> "number", level |-> Debug, daemon |-> FALSE]

\* initialize_server_settings(); the server has no such text, and a port of its own.
ServerDefaults == Defaults

\* get_command_line_args() of the client: of its four arguments only the log
\* level has an effect on this state.
ClientArguments(o) == {[o EXCEPT !.level = l] : l \in Levels}

\* get_command_line_args() of the server
ServerArguments(o) ==
  UNION {{[o EXCEPT !.level = l, !.daemon = d] : d \in BOOLEAN} : l \in Levels}

Arguments(p) == IF p \in Servers THEN ServerArguments(options[p]) ELSE ClientArguments(options[p])

\* uint_to_str(): the loop that counts the digits of -1 does not end, since no
\* divisor is larger.
Printable(port) == port # "invalid"

\* str_to_uint(): a huge number was printed with leading zeros, and reads as
\* another one or, with a digit above 7, as -1.
Reads(port) == IF port = "huge" THEN {"number", "invalid"} ELSE {port}

\* write_settings() gives fprintf() the line for its format.  Two "%" print one,
\* which is a directive the next time.  What a directive prints is undefined; that
\* the process may die of it is left to Kill.
Prints(text) ==
  IF text \in Plain THEN {text}
  ELSE IF text \in Doubled THEN (Doubled \cup Directives) \ {text}
  ELSE Texts \ Overlong

\* create_option_string() leaves the line before in its buffer when it has no room
\* for a text: that one is written twice, and the text keeps its default.
StoredTexts(text) == IF text \in Overlong THEN {Account} ELSE Prints(text)

\* What the file gives to read when these options are written to it.
Storable(o) == Printable(o.port)
AsRead(o) ==
  {new \in Options : /\ new.text \in StoredTexts(o.text) /\ new.port \in Reads(o.port)
                    /\ new.level = o.level /\ new.daemon = o.daemon}

\* read_settings(): the registered defaults stay where the file has nothing.
LoadedTooEarly == {Defaults}            \* faulty: registers the defaults afterwards
Loaded == IF file = {} THEN {Defaults} ELSE file

\* fopen(..., "w") has erased the file and fclose() writes it from the start.
\* Where another client has written a longer one meanwhile, the end of that
\* stays behind, and of an option that occurs twice the last one counts.
WrittenOver(new) ==
  {new} \cup UNION {{o, [new EXCEPT !.level = o.level],
                     [new EXCEPT !.port = o.port, !.level = o.level]} : o \in file}

------------------------------------------------------------------------------
(* Logging *)

\* create_logger(): under DEBUG every line is written at once.
FrequencyOf(p) == IF options[p].level = Debug THEN 1 ELSE LogFrequency

\* write_log_to_file()
FlushedTwice(p, lines) ==              \* faulty: the count is not reset
  /\ log' = [log EXCEPT ![ProgramOf(p)] = @ \o lines]
  /\ buffer' = [buffer EXCEPT ![p] = lines]
Flushed(p, lines) ==
  /\ log' = [log EXCEPT ![ProgramOf(p)] = @ \o lines]
  /\ buffer' = [buffer EXCEPT ![p] = <<>>]

\* The end of log_message() and log_error(): a full batch is written.
Add(p) ==
  LET lines == Append(buffer[p], [by |-> p, n |-> logged[p] + 1])
  IN IF logger[p] # "open" THEN UNCHANGED <<buffer, log, logged>>
     ELSE /\ logged' = [logged EXCEPT ![p] = @ + 1]
          /\ IF Len(lines) >= FrequencyOf(p)
             THEN Flushed(p, lines)
             ELSE buffer' = [buffer EXCEPT ![p] = lines] /\ UNCHANGED log

\* log_message(): lines below the level of the logger are dropped.
Message(p, level) ==
  IF options[p].level > level THEN UNCHANGED <<buffer, log, logged>> ELSE Add(p)

\* log_error(): at any level
Error(p) == Add(p)

------------------------------------------------------------------------------
(* Start *)

LifecycleInit ==
  /\ phase = [p \in Processes |-> "none"]
  /\ options = [p \in Processes |-> Defaults]
  /\ logger = [p \in Processes |-> "none"]
  /\ buffer = [p \in Processes |-> <<>>]
  /\ logged = [p \in Processes |-> 0]
  /\ forks = [p \in Processes |-> 0]
  /\ file = {}
  /\ loaded = [p \in Processes |-> Defaults]
  /\ log = [g \in Programs |-> <<>>]
  /\ history = <<>>

Moves(p, from, to) == phase[p] = from /\ phase' = [phase EXCEPT ![p] = to]

\* The programs share no file, and the model runs one of them at a time.
Only(processes) == \A q \in Processes \ processes : phase[q] = "none"

\* main() of the client up to its arguments
StartClient(p) ==
  /\ Moves(p, "none", "started")
  /\ p \in Clients /\ Only(Clients)
  /\ \E o \in Loaded :
       options' = [options EXCEPT ![p] = o] /\ loaded' = [loaded EXCEPT ![p] = o]
  /\ history' = Append(history, p)
  /\ UNCHANGED <<logger, logged, forks, logs, file>>

\* main() of the server up to its arguments: its settings are never saved.  The
\* model starts one server; what it forks comes from Fork.
StartServer(p) ==
  /\ Moves(p, "none", "started")
  /\ p \in Servers /\ Only({p})
  /\ options' = [options EXCEPT ![p] = ServerDefaults]
  /\ UNCHANGED <<logger, logged, forks, logs, file, loaded, history>>

\* create_logger() and the arguments before it
OpenLog(p) ==
  /\ Moves(p, "started", "opened")
  /\ \E o \in Arguments(p) :
       /\ options' = [options EXCEPT ![p] = o]
       /\ forks' = [forks EXCEPT ![p] = IF o.daemon THEN 2 ELSE 0]
  /\ logger' = [logger EXCEPT ![p] = "open"]
  /\ UNCHANGED <<logged, logs, file, loaded, history>>

\* An unknown argument ends the program, after those before it took effect.
WrongArgument(p) ==
  /\ Moves(p, "started", "cleanup")
  /\ \E o \in Arguments(p) : options' = [options EXCEPT ![p] = o]
  /\ UNCHANGED <<logger, logged, forks, logs, file, loaded, history>>

\* open_log_file() fails and leaves a logger that main() does not know of: its
\* lines are never written.  Under DEBUG log_error() tries to, through a file
\* pointer that was never set: the process goes on, or dies (Kill).
OpenLogFails(p) ==
  /\ Moves(p, "started", "cleanup")
  /\ \E o \in Arguments(p) : options' = [options EXCEPT ![p] = o]
  /\ logger' = [logger EXCEPT ![p] = "broken"]
  /\ UNCHANGED <<logged, forks, logs, file, loaded, history>>

\* "Server started", "Client started"
LogStart(p) ==
  /\ Moves(p, "opened", IF forks[p] > 0 THEN "detaching" ELSE "running")
  /\ Message(p, Info)
  /\ UNCHANGED <<options, logger, forks, file, loaded, history>>

\* daemonize(): the child goes on with a copy of the parent's logger, and the
\* parent exits.
Fork(p, child) ==
  /\ forks[p] > 0
  /\ child \in Servers
  /\ phase[p] = "detaching" /\ phase[child] = "none"
  /\ phase' = [phase EXCEPT ![p] = "cleanup", ![child] = "detaching"]
  /\ options' = [options EXCEPT ![child] = options[p]]
  /\ logger' = [logger EXCEPT ![child] = logger[p]]
  /\ buffer' = [buffer EXCEPT ![child] = buffer[p]]
  /\ forks' = [forks EXCEPT ![child] = forks[p] - 1]
  /\ UNCHANGED <<logged, log, file, loaded, history>>

\* "Daemon process started"
DaemonStarts(p) ==
  /\ forks[p] = 0
  /\ Moves(p, "detaching", "running")
  /\ Message(p, Info)
  /\ UNCHANGED <<options, logger, forks, file, loaded, history>>

------------------------------------------------------------------------------
(* Running *)

Log(p) ==
  /\ phase[p] = "running"
  /\ logged[p] < MaxLines
  /\ \E level \in {Debug, Info} : Message(p, level)
  /\ UNCHANGED <<phase, options, logger, forks, file, loaded, history>>

\* set_option_value() for cmd_nick(), cmd_user() and cmd_address()
SetText(p) ==
  /\ phase[p] = "running" /\ p \in Clients
  /\ \E text \in Texts : options' = [options EXCEPT ![p].text = text]
  /\ UNCHANGED <<phase, logger, logged, forks, logs, file, loaded, history>>

\* cmd_port() sets whatever str_to_uint() makes of the argument.
SetPort(p) ==
  /\ phase[p] = "running" /\ p \in Clients
  /\ \E port \in Ports : options' = [options EXCEPT ![p].port = port]
  /\ UNCHANGED <<phase, logger, logged, forks, logs, file, loaded, history>>

\* handle_se_exit_event(): exit() calls cleanup().
Exit(p) ==
  /\ Moves(p, "running", "cleanup")
  /\ UNCHANGED <<options, logger, logged, forks, logs, file, loaded, history>>

\* failed(): the error is logged at any level, then exit().
Failed(p) ==
  /\ phase[p] \in {"opened", "detaching", "running"}
  /\ phase' = [phase EXCEPT ![p] = "cleanup"]
  /\ Error(p)
  /\ UNCHANGED <<options, logger, forks, file, loaded, history>>

------------------------------------------------------------------------------
(* cleanup() *)

Ends(p) == history' = IF p \in Clients THEN Append(history, p) ELSE history

\* cleanup() of the client
ClientTerminated(p) ==
  /\ p \in Clients
  /\ Moves(p, "cleanup", "saving")
  /\ Message(p, Info)
  /\ UNCHANGED <<options, logger, forks, file, loaded, history>>

\* cleanup() of the server: a daemon and its parents log nothing.
ServerTerminated(p) ==
  /\ p \in Servers
  /\ Moves(p, "cleanup", "closing")
  /\ IF options[p].daemon THEN UNCHANGED <<buffer, log, logged>> ELSE Message(p, Info)
  /\ UNCHANGED <<options, logger, forks, file, loaded, history>>

\* write_settings() opens the file, which erases it.
EraseSettings(p) ==
  /\ Moves(p, "saving", "storing")
  /\ file' = {}
  /\ UNCHANGED <<options, logger, logged, forks, logs, loaded, history>>

\* The file cannot be opened: failed() calls exit() from within exit(), which
\* goes on behind cleanup().
SaveFails(p) ==
  /\ Moves(p, "saving", "cut")
  /\ Error(p)
  /\ Ends(p)
  /\ UNCHANGED <<options, logger, forks, file, loaded>>

\* write_settings() writes the registered options.
StoreSettings(p) ==
  /\ Storable(options[p])
  /\ Moves(p, "storing", "closing")
  /\ \E new \in AsRead(options[p]) : \E o \in WrittenOver(new) : file' = {o}
  /\ UNCHANGED <<options, logger, logged, forks, logs, loaded, history>>

\* finalize_logging()
WrittenIfFull(p) ==                    \* faulty: only full batches are written
  IF Len(buffer[p]) >= LogFrequency THEN Flushed(p, buffer[p]) ELSE UNCHANGED logs
WrittenOut(p) ==
  IF buffer[p] # <<>> THEN Flushed(p, buffer[p]) ELSE UNCHANGED logs

\* delete_logger() and the end of the process
CloseLog(p) ==
  /\ Moves(p, "closing", "exited")
  /\ WrittenOut(p)
  /\ Ends(p)
  /\ UNCHANGED <<options, logger, logged, forks, file, loaded>>

\* A client that is killed while it writes its settings is "torn", one that is
\* killed later has "saved" them.
Ended == {"exited", "cut", "killed", "torn", "saved"}
KilledIn(p) ==
  IF phase[p] = "storing" THEN "torn"
  ELSE IF phase[p] = "closing" /\ p \in Clients THEN "saved"
  ELSE "killed"

Kill(p) ==
  /\ phase[p] \notin Ended \cup {"none"}
  /\ phase' = [phase EXCEPT ![p] = KilledIn(p)]
  /\ Ends(p)
  /\ UNCHANGED <<options, logger, logged, forks, logs, file, loaded>>

Cleanup(p) ==
  \/ ClientTerminated(p) \/ EraseSettings(p) \/ SaveFails(p) \/ StoreSettings(p)
  \/ ServerTerminated(p)
  \/ CloseLog(p)

LifecycleNext ==
  \E p \in Processes :
    \/ StartClient(p) \/ StartServer(p)
    \/ OpenLog(p) \/ WrongArgument(p) \/ OpenLogFails(p) \/ LogStart(p)
    \/ \E child \in Processes : Fork(p, child)
    \/ DaemonStarts(p)
    \/ Log(p) \/ SetText(p) \/ SetPort(p) \/ Exit(p) \/ Failed(p)
    \/ Cleanup(p)
    \/ Kill(p)

\* The code of cleanup() runs on, unless the process is killed.
LifecycleSpec ==
  /\ LifecycleInit /\ [][LifecycleNext]_lifecycleVars
  /\ \A p \in Processes : WF_lifecycleVars(Cleanup(p))

------------------------------------------------------------------------------
(* Properties *)

LineSet == [by : Processes, n : Nat]
PhaseSet ==
  Ended \cup {"none", "started", "opened", "detaching", "running",
              "cleanup", "saving", "storing", "closing"}

LifecycleTypeOK ==
  /\ phase \in [Processes -> PhaseSet]
  /\ options \in [Processes -> Options]
  /\ logger \in [Processes -> {"none", "open", "broken"}]
  /\ logged \in [Processes -> Nat]
  /\ forks \in [Processes -> 0 .. 2]
  /\ file \subseteq Options /\ Cardinality(file) <= 1
  /\ loaded \in [Processes -> Options]
  /\ buffer \in [Processes -> Seq(LineSet)] /\ log \in [Programs -> Seq(LineSet)]
  /\ \A p \in Processes : Len(buffer[p]) < FrequencyOf(p)
  /\ history \in Seq(Processes)

\* The lines of a process reach its log in the order in which it logged them
\* and none is missing in between; what is missing at the end fits in the
\* buffer, and after a complete cleanup() nothing is missing: a failure loses
\* no line that leads up to it unless the process is killed, or cut short by
\* settings that cannot be saved.
OnlyTailIsLost ==
  \A p \in Processes : phase[p] # "none" =>
    LET lines == log[ProgramOf(p)]
        own == {i \in DOMAIN lines : lines[i].by = p}
        written == {lines[i].n : i \in own}
    IN /\ \A i, j \in own : i < j => lines[i].n <= lines[j].n
       /\ written = 1 .. Cardinality(written)
       /\ logged[p] - Cardinality(written) < FrequencyOf(p)
       /\ phase[p] = "exited" => Cardinality(written) = logged[p]

\* A line is in the log once.  Only the line that a server logs before it forks
\* is there up to three times, once for each process that has it in its buffer.
WrittenOnce ==
  \A g \in Programs : \A i, j \in DOMAIN log[g] :
    i < j /\ log[g][i] = log[g][j] =>
      /\ options[log[g][i].by].daemon
      /\ log[g][i].n = 1
      /\ Cardinality({k \in DOMAIN log[g] : log[g][k] = log[g][i]}) <= 3

\* The last client to start has run alone to its end.
RanAlone(p) ==
  /\ \A q \in Clients : phase[q] \in Ended \cup {"none"}
  /\ Len(history) >= 2 /\ history[Len(history)] = p /\ history[Len(history) - 1] = p

\* What comes back of the settings o: text with "%" may come back as any other,
\* and one that is too long as the default.
ComesBack(o, new) ==
  /\ new.level = o.level /\ new.port \in Reads(o.port)
  /\ o.text \in Plain => new.text = o.text
  /\ o.text \in Overlong => new.text = Account

\* A client that ran alone leaves its settings to the next one if it came to
\* write them, also if it was killed after that; if it ended before it came to
\* save them, the next one starts with the settings that this one started with;
\* and only a client that is killed while it writes them loses both.
SettingsReturn ==
  [][\A p, q \in Clients :
       StartClient(q) /\ RanAlone(p) =>
         /\ phase[p] \in {"exited", "saved"} => ComesBack(options[p], options'[q])
         /\ phase[p] \in {"killed", "cut"} => options'[q] = loaded[p]
         /\ phase[p] = "torn" => options'[q] = Defaults]_lifecycleVars

\* However a client that ran alone ends, the next one has its text, or the one it
\* had itself begun with.  The code breaks this: the file is erased before it is
\* written, and the text is used as a format.
TextIsKept ==
  [][\A p, q \in Clients :
       StartClient(q) /\ RanAlone(p) =>
         options'[q].text \in {options[p].text, loaded[p].text}]_lifecycleVars

\* main.c of the client says of cleanup(): "save settings and perform cleanup".
CleanupEnds ==
  \A p \in Processes : phase[p] = "cleanup" ~> phase[p] \in Ended
================================================================================
