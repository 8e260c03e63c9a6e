------------------------------- MODULE Framing -------------------------------
(***************************************************************************)
(* From the text of a message to the handler that is given it: composing,  *)
(* the terminator, the stream of bytes that TCP cuts anywhere, the input   *)
(* buffer of the receiver and the extraction of messages from it.  Both    *)
(* directions are here, client to server and server to client; they differ *)
(* in the size of a read, in what becomes of a message that does not fit,  *)
(* and in the descriptor the server puts before a message.                 *)
(*                                                                         *)
(* A byte of text is the number of its message, so that a message is known *)
(* by its bytes wherever they end up.  Texts hold neither terminators nor  *)
(* separators.  The buffer belongs to the client slot of the server, or to *)
(* the one TCPClient of a client, and serves one connection after another. *)
(*                                                                         *)
(* A definition marked "faulty" is a plausible slip that no specification  *)
(* uses; each is there to show that a property would notice it.            *)
(***************************************************************************)
EXTENDS Integers, FiniteSetsExt, SequencesExt, Enumeration

CONSTANTS
  MaxChars,   \* MAX_CHARS of tcp_server.c and tcp_client.c, length of the buffer
  PrefixLen,  \* length of a descriptor and the separator "|"
  MaxLines    \* bound of the model: messages composed in all

\* MAX_CHARS is two less where commands are handled and events dispatched.
Payload == MaxChars - 2

ASSUME SizesAssumption ==
  /\ MaxChars \in Nat /\ PrefixLen \in Nat /\ MaxLines \in Nat
  /\ PrefixLen >= 2 /\ Payload > PrefixLen

VARIABLES
  toServer,   \* the direction; it never changes
  conn,       \* "open", "closed" by the sender, or "free": no connection
  wire,       \* bytes written and not read
  buffer,     \* inBuffer
  composed,   \* messages composed, over all connections
  sent,       \* history: texts written to this connection, number and length
  received,   \* history: texts handed on from this connection
  discarded,  \* history: bytes of this connection were thrown away
  stale,      \* history: the buffer was not empty when the connection began
  burst       \* history: more bytes than the buffer holds were outstanding

stream == <<conn, wire, buffer>>
history == <<sent, received, discarded, stale, burst>>
vars == <<toServer, stream, composed, history>>

CR == 0
LF == -1
Lines == 1 .. MaxLines
Text(line) == [i \in 1 .. line.length |-> line.id]

Init ==
  /\ toServer \in BOOLEAN
  /\ conn = "free"
  /\ wire = <<>>
  /\ buffer = <<>>
  /\ composed = 0
  /\ sent = <<>>
  /\ received = <<>>
  /\ discarded = FALSE
  /\ stale = FALSE
  /\ burst = FALSE

------------------------------------------------------------------------------
(* Sending *)

\* create_irc_message(): what is too long is left empty, and concat_tokens()
\* keeps one place of the rest for the end of the string.
Composed(n) == IF n > Payload THEN 0 ELSE Min({n, Payload - 1})

Outstanding(bytes) == burst' = (burst \/ Len(buffer) + Len(bytes) > MaxChars)

\* client_write(), server_write(): an empty string counts as terminated, nothing
\* is written, and the client takes that for a lost connection.
Write(n) ==
  LET line == [id |-> composed + 1, length |-> Composed(n)] IN
  /\ conn = "open"
  /\ composed < MaxLines
  /\ composed' = composed + 1
  /\ IF line.length = 0
     THEN /\ conn' = IF toServer THEN "closed" ELSE conn
          /\ UNCHANGED <<wire, sent, burst>>
     ELSE /\ wire' = wire \o Text(line) \o <<CR, LF>>
          /\ sent' = Append(sent, line)
          /\ Outstanding(wire')
          /\ UNCHANGED conn
  /\ UNCHANGED <<toServer, buffer, received, discarded, stale>>

------------------------------------------------------------------------------
(* Receiving *)

\* extract_message(), until there is none
Ends(s) == {i \in 1 .. Len(s) - 1 : s[i] = CR /\ s[i + 1] = LF}
Cuts(s) == Ascending(Ends(s))
Messages(s) ==
  [k \in 1 .. Cardinality(Ends(s)) |->
    SubSeq(s, IF k = 1 THEN 1 ELSE Cuts(s)[k - 1] + 2, Cuts(s)[k] - 1)]
RemainderKept(s) == s                        \* faulty: extracts and keeps
RemainderCleared(s) == <<>>                  \* faulty: forgets a partial message
Remainder(s) == IF Ends(s) = {} THEN s ELSE SubSeq(s, Max(Ends(s)) + 2, Len(s))

\* One at a time.
FirstMessage(s) == IF Ends(s) = {} THEN <<>> ELSE <<Messages(s)[1]>>

\* process_socket_data(): the server puts the descriptor before a message, and
\* the result is cut to Payload characters.
Handed(text) ==
  IF toServer THEN SubSeq(text, 1, Min({Len(text), Payload - PrefixLen})) ELSE text

ExtractedOnce(s) == [messages |-> FirstMessage(s),             \* faulty: no loop
                     rest |-> IF Ends(s) = {} THEN s
                              ELSE SubSeq(s, Min(Ends(s)) + 2, Len(s))]
Extracted(s) == [messages |-> Messages(s), rest |-> Remainder(s)]

FitsBelow(n) == Len(buffer) + n < MaxChars        \* faulty: the last place is not used
Fits(n) == Len(buffer) + n <= MaxChars

\* The server reads one byte more than its buffer holds.  That many leave the read
\* buffer without a terminator, so their length is read from beyond it: it comes
\* out as MaxChars + 1 or more, and whatever it is, nothing fits and nothing is copied.
ReadSize == IF toServer THEN MaxChars + 1 ELSE MaxChars

\* server_read(), client_read(): safe_copy() copies all or nothing, and then the
\* buffer counts as full.  A full buffer without a terminator is erased.
Read ==
  /\ conn # "free"
  /\ \E n \in 1 .. Min({ReadSize, Len(wire)}) :
       LET filled == IF Fits(n) THEN buffer \o SubSeq(wire, 1, n) ELSE buffer
           full == ~Fits(n) \/ Len(filled) = MaxChars
           erased == Ends(filled) = {} /\ full
           out == Extracted(filled)
       IN
       /\ wire' = SubSeq(wire, n + 1, Len(wire))
       /\ buffer' = IF erased THEN <<>> ELSE out.rest
       /\ received' = received \o [k \in DOMAIN out.messages |-> Handed(out.messages[k])]
       /\ discarded' = (discarded \/ erased \/ ~Fits(n))
  /\ UNCHANGED <<toServer, conn, composed, sent, stale, burst>>

------------------------------------------------------------------------------
(* Connections *)

\* The buffer keeps what the last connection left in it.
Connect ==
  /\ conn = "free"
  /\ conn' = "open"
  /\ sent' = <<>>
  /\ received' = <<>>
  /\ discarded' = FALSE
  /\ stale' = (buffer # <<>>)
  /\ burst' = FALSE
  /\ UNCHANGED <<toServer, wire, buffer, composed>>

\* A close in order lets the receiver read the rest, a reset does not.
SenderCloses ==
  /\ conn = "open"
  /\ conn' = "closed"
  /\ wire' \in {wire, <<>>}
  /\ UNCHANGED <<toServer, buffer, composed, history>>

ReadEnd ==
  /\ conn = "closed" /\ wire = <<>>
  /\ conn' = "free"
  /\ UNCHANGED <<toServer, wire, buffer, composed, history>>

\* remove_client() or client_disconnect() for another reason, such as QUIT
ReceiverCloses ==
  /\ conn # "free"
  /\ conn' = "free"
  /\ wire' = <<>>
  /\ UNCHANGED <<toServer, buffer, composed, history>>

Next ==
  \/ \E n \in 1 .. Payload + 1 : Write(n)
  \/ Read
  \/ Connect \/ SenderCloses \/ ReadEnd \/ ReceiverCloses

\* The main loop of the receiver reads a descriptor that is ready.
Spec == Init /\ [][Next]_vars /\ WF_vars(Read)

------------------------------------------------------------------------------
(* Properties *)

TypeOK ==
  /\ toServer \in BOOLEAN
  /\ conn \in {"open", "closed", "free"}
  /\ wire \in Seq(Lines \cup {CR, LF})
  /\ buffer \in Seq(Lines \cup {CR, LF}) /\ Len(buffer) <= MaxChars
  /\ composed \in 0 .. MaxLines
  /\ sent \in Seq([id : Lines, length : 1 .. Payload - 1])
  /\ received \in Seq(Seq(Lines \cup {CR, LF}))
  /\ {discarded, stale, burst} \subseteq BOOLEAN

\* Between two reads the buffer holds no complete message and has room, so that
\* the next read can be stored and is not taken for the end of an old message.
\* (server_read, client_read, extract_message)
RoomForMore == Ends(buffer) = {} /\ Len(buffer) < MaxChars

\* However the stream is cut, as long as nothing was thrown away the texts handed
\* on are those sent, whole, in order and once each, but for the characters the
\* server cuts off at the end.  (process_socket_data)
ReceivedAsSent ==
  ~discarded /\ ~stale =>
    /\ Len(received) <= Len(sent)
    /\ \A i \in DOMAIN received : received[i] = Handed(Text(sent[i]))

\* Bytes are thrown away only if the sender was ahead of the receiver by more
\* than the buffer holds: one message at a time always gets through.
LostOnlyInBursts == discarded => burst

\* What a connection left in the buffer reaches at most the first message of the
\* next one.  (unset_client_data and terminate_session do not clear inBuffer)
OwnBytes(text) ==
  \A i \in DOMAIN text : text[i] \in {CR, LF} \/ \E j \in DOMAIN sent : text[i] = sent[j].id
StaleInputIsFirst ==
  \A i \in DOMAIN received : OwnBytes(received[i]) \/ (i = 1 /\ stale)

\* Every message gets to the receiver, unless something was thrown away before
\* or the connection ends.
MessagesArrive ==
  \A k \in Lines :
    Len(sent) >= k ~> Len(received) >= k \/ discarded \/ stale \/ conn # "open"

------------------------------------------------------------------------------
(* What the comments of the code say and the code does not keep *)

\* tcp_server.c:581: "all read data is stored in the client's buffer, and only
\* after the message is received [...] will it be parsed".
AllReadDataStored == ~discarded
==============================================================================
