------------------------------ MODULE Delivery ------------------------------
(***************************************************************************)
(* The way of a message through the server: handlers put messages into the *)
(* queues of the server, of channels and of users and note on the ready    *)
(* list who is to be served; after each round of events                    *)
(* send_socket_messages() writes what the ready queues hold, to whoever is *)
(* a member then.                                                          *)
(*                                                                         *)
(* Sessions are those of IrcSession with distinct nicknames that do not    *)
(* change and without its limits.  A message is its place in history.  The *)
(* model starts when users have registered and joined and everything was   *)
(* sent, or with nobody there.                                             *)
(*                                                                         *)
(* A definition marked "faulty" is a plausible slip that no specification  *)
(* uses; each is there to show that a property would notice it.            *)
(***************************************************************************)
EXTENDS Integers, FiniteSetsExt, SequencesExt, Enumeration

CONSTANTS
  Users,
  Channels,
  ServerQueueLen,   \* MSG_QUEUE_LEN of tcp_server.c (50)
  UserQueueLen,     \* MSG_QUEUE_LEN of user.c (20)
  ChannelQueueLen,  \* MAX_USERS_PER_CHANNEL (100)
  MaxMessages       \* bound of the model on the number of messages

ASSUME SizesAssumption ==
  {ServerQueueLen, UserQueueLen, ChannelQueueLen, MaxMessages} \subseteq Nat \ {0}
ASSUME NamesAssumption == Users \cap Channels = {} /\ "server" \notin Users \cup Channels

VARIABLES
  phase,          \* a user is "new" (not registered yet), "registered" or "gone"
  joined,         \* the UserChannels of a user: its channels, in order
  serverQueue,    \* answers to users that are not registered
  userQueue,
  channelQueue,
  readyUsers,     \* the ready list: users and channels in the order they were
  readyChannels,  \* added
  history,        \* history: all messages so far
  received,       \* history: what was written to each user
  dropped         \* history: the messages that were overwritten in a queue

queues == <<serverQueue, userQueue, channelQueue, readyUsers, readyChannels>>
vars == <<phase, joined, queues, history, received, dropped>>

\* A channel without users does not exist.
Members(c) == {u \in Users : Contains(joined[u], c)}
Ids == DOMAIN history

\* A message: its queue, the channel or user it is about, and who should get it.
Entry(from, kind, via, about, audience) ==
  [from |-> from, kind |-> kind, via |-> via, about |-> about, audience |-> audience]
AnswerTo(u) ==
  Entry(u, "answer", IF phase[u] = "new" THEN "server" ELSE u, u, {u})
News(u, kind, c, audience) == Entry(u, kind, c, c, audience)

Paths == UNION {[1 .. n -> Channels] : n \in 0 .. Cardinality(Channels)}
Init ==
  /\ phase \in [Users -> {"new", "registered"}]
  /\ joined \in [Users -> {p \in Paths : IsInjective(p)}]
  /\ \A u \in Users : phase[u] = "new" => joined[u] = <<>>
  /\ serverQueue = <<>>
  /\ userQueue = [u \in Users |-> <<>>]
  /\ channelQueue = [c \in Channels |-> <<>>]
  /\ readyUsers = <<>>
  /\ readyChannels = <<>>
  /\ history = <<>>
  /\ received = [u \in Users |-> <<>>]
  /\ dropped = {}

------------------------------------------------------------------------------
(* Queues and the ready list *)

\* enqueue(): a full queue loses its oldest items.
Enqueued(queue, size, ids) ==
  LET all == queue \o ids IN SubSeq(all, Max({0, Len(all) - size}) + 1, Len(all))
Overwritten(queue, size, ids) ==
  ToSet(queue \o ids) \ ToSet(Enqueued(queue, size, ids))

Listed(list, x) == IF Contains(list, x) THEN list ELSE Append(list, x)
Unlisted(list, x) == Only(list, ToSet(list) \ {x})

\* The handler composes these messages, in this order.
Composes(ms) ==
  /\ Len(history) + Len(ms) <= MaxMessages
  /\ history' = history \o ms
NewIds == [i \in 1 .. Len(history') - Len(history) |-> Len(history) + i]

\* add_message_to_queue() and add_user_to_ready_list()
ToUserUnready(u, ids) ==                     \* faulty: forgets the ready list
  /\ userQueue' = [userQueue EXCEPT ![u] = Enqueued(@, UserQueueLen, ids)]
  /\ UNCHANGED readyUsers
ToUser(u, ids) ==
  /\ userQueue' = [userQueue EXCEPT ![u] = Enqueued(@, UserQueueLen, ids)]
  /\ readyUsers' = Listed(readyUsers, u)
ToUserDrops(u, ids) == Overwritten(userQueue[u], UserQueueLen, ids)

\* enqueue_to_channel_queue() and add_channel_to_ready_list()
ToChannel(c, ids) ==
  /\ channelQueue' = [channelQueue EXCEPT ![c] = Enqueued(@, ChannelQueueLen, ids)]
  /\ readyChannels' = Listed(readyChannels, c)
ToChannelDrops(c, ids) == Overwritten(channelQueue[c], ChannelQueueLen, ids)

\* register_user(); the two lists of a membership, add_user_to_channel_users()
\* and add_channel_to_user_channels(), are one here.
Registered(u) == phase' = [phase EXCEPT ![u] = "registered"]
Joined(u, c) == joined' = [joined EXCEPT ![u] = Append(@, c)]
Parted(u, c) == joined' = [joined EXCEPT ![u] = Unlisted(@, c)]

\* remove_channel_data(): a channel goes with its queue.
Without(c) ==
  /\ channelQueue' = [channelQueue EXCEPT ![c] = <<>>]
  /\ readyChannels' = Unlisted(readyChannels, c)

------------------------------------------------------------------------------
(* Handlers *)

\* Any command that is refused or only answers.
Answer(u) ==
  /\ phase[u] # "gone"
  /\ Composes(<<AnswerTo(u)>>)
  /\ IF phase[u] = "new"
     THEN /\ serverQueue' = Enqueued(serverQueue, ServerQueueLen, NewIds)
          /\ dropped' = dropped \cup Overwritten(serverQueue, ServerQueueLen, NewIds)
          /\ UNCHANGED <<userQueue, readyUsers>>
     ELSE /\ ToUser(u, NewIds)
          /\ dropped' = dropped \cup ToUserDrops(u, NewIds)
          /\ UNCHANGED serverQueue
  /\ UNCHANGED <<phase, joined, channelQueue, readyChannels, received>>

\* handle_user_registration(): the welcome goes to the new user's own queue.
Register(u) ==
  /\ phase[u] = "new"
  /\ Registered(u)
  /\ Composes(<<Entry(u, "answer", u, u, {u})>>)
  /\ ToUser(u, NewIds)
  /\ UNCHANGED <<joined, serverQueue, channelQueue, readyChannels, received, dropped>>

\* register_..._channel_join(), send_channel_join_messages(): the news for the
\* channel, then topic, names and the end of names for the user.
Join(u, c) ==
  /\ phase[u] = "registered"
  /\ u \notin Members(c)
  /\ Joined(u, c)
  /\ Composes(<<News(u, "join", c, Members(c) \cup {u})>>
                \o [i \in 1 .. 3 |-> AnswerTo(u)])
  /\ ToChannel(c, <<Head(NewIds)>>)
  /\ ToUser(u, Tail(NewIds))
  /\ dropped' = dropped \cup ToChannelDrops(c, <<Head(NewIds)>>)
                        \cup ToUserDrops(u, Tail(NewIds))
  /\ UNCHANGED <<phase, serverQueue, received>>

\* handle_leave_channel(): the last member takes the channel and its queue along
\* and gets the news itself.
Part(u, c) ==
  /\ u \in Members(c)
  /\ Parted(u, c)
  /\ IF Members(c) = {u}
     THEN /\ Composes(<<Entry(u, "part", u, c, {u})>>)
          /\ ToUser(u, NewIds)
          /\ Without(c)
          /\ dropped' = dropped \cup ToUserDrops(u, NewIds)
     ELSE /\ Composes(<<News(u, "part", c, Members(c) \ {u})>>)
          /\ ToChannel(c, NewIds)
          /\ dropped' = dropped \cup ToChannelDrops(c, NewIds)
          /\ UNCHANGED <<userQueue, readyUsers>>
  /\ UNCHANGED <<phase, serverQueue, received>>

\* send_privmsg_to_channel(): the sender is one of the members.
TalkToChannel(u, c) ==
  /\ u \in Members(c)
  /\ Composes(<<News(u, "talk", c, Members(c))>>)
  /\ ToChannel(c, NewIds)
  /\ dropped' = dropped \cup ToChannelDrops(c, NewIds)
  /\ UNCHANGED <<phase, joined, serverQueue, userQueue, readyUsers, received>>

\* send_privmsg_to_user(): the queue is the recipient's, the ready user the sender.
TalkToUser(u, recipient) ==
  /\ phase[u] = "registered" /\ phase[recipient] = "registered"
  /\ Composes(<<Entry(u, "talk", recipient, recipient, {recipient})>>)
  /\ userQueue' = [userQueue EXCEPT ![recipient] = Enqueued(@, UserQueueLen, NewIds)]
  /\ readyUsers' = Listed(readyUsers, u)
  /\ dropped' = dropped \cup ToUserDrops(recipient, NewIds)
  /\ UNCHANGED <<phase, joined, serverQueue, channelQueue, readyChannels, received>>

\* cmd_privmsg(): the first argument is the name of a channel or of a user.
Talk(u) ==
  \/ \E c \in Channels : TalkToChannel(u, c)
  \/ \E recipient \in Users : TalkToUser(u, recipient)

\* cmd_quit() and the disconnect event: leave_all_channels() walks over the
\* user's channels and drops those it is alone in; then the user goes with its
\* queue.
AloneInEarly(u) ==                   \* faulty: asks before the user has left
  {c \in ToSet(joined[u]) : Cardinality(Members(c)) <= 2}
AloneIn(u) == {c \in ToSet(joined[u]) : Members(c) = {u}}

Leave(u) ==
  LET alone == AloneIn(u)
      told == Only(joined[u], Channels \ alone)
      About(c) == ItemsAt(NewIds, {i \in DOMAIN told : told[i] = c})
  IN
  /\ phase[u] # "gone"
  /\ phase' = [phase EXCEPT ![u] = "gone"]
  /\ joined' = [joined EXCEPT ![u] = <<>>]
  /\ Composes([i \in DOMAIN told |-> News(u, "quit", told[i], Members(told[i]) \ {u})])
  /\ channelQueue' = [c \in Channels |->
       IF c \in alone THEN <<>>
       ELSE Enqueued(channelQueue[c], ChannelQueueLen, About(c))]
  /\ readyChannels' =
       Only(readyChannels \o Only(told, Channels \ ToSet(readyChannels)), Channels \ alone)
  /\ dropped' = dropped \cup UNION {ToChannelDrops(c, About(c)) : c \in ToSet(told)}
  /\ userQueue' = [userQueue EXCEPT ![u] = <<>>]
  /\ readyUsers' = Unlisted(readyUsers, u)
  /\ UNCHANGED <<serverQueue, received>>

------------------------------------------------------------------------------
(* send_socket_messages() *)

FromServer(u) == Only(serverQueue, {m \in Ids : history[m].about = u})

\* The queues of a list of channels, one behind the other.
QueuesOf(channels) ==
  LET upTo[n \in 0 .. Len(channels)] ==
        IF n = 0 THEN <<>> ELSE upTo[n - 1] \o channelQueue[channels[n]]
  IN upTo[Len(channels)]
FromChannelsOwnOrder(u) ==    \* faulty: walks over the user's own list of channels
  QueuesOf(Only(joined[u], ToSet(readyChannels)))
FromChannels(u) == QueuesOf(Only(readyChannels, ToSet(joined[u])))
FromUser(u) == IF Contains(readyUsers, u) THEN userQueue[u] ELSE <<>>

WrittenServerLast(u) ==                  \* faulty: the server's queue comes last
  FromChannels(u) \o FromUser(u) \o FromServer(u)
Written(u) == FromServer(u) \o FromChannels(u) \o FromUser(u)

\* The writes go out in one step, for nothing else runs on the server's thread.
Send ==
  /\ serverQueue \o readyUsers \o readyChannels # <<>>
  /\ received' = [u \in Users |->
       IF phase[u] = "gone" THEN received[u] ELSE received[u] \o Written(u)]
  /\ serverQueue' = <<>>
  /\ channelQueue' = [c \in Channels |->
       IF Contains(readyChannels, c) THEN <<>> ELSE channelQueue[c]]
  /\ userQueue' = [u \in Users |->
       IF Contains(readyUsers, u) THEN <<>> ELSE userQueue[u]]
  /\ readyUsers' = <<>>
  /\ readyChannels' = <<>>
  /\ UNCHANGED <<phase, joined, history, dropped>>

Handler(u) ==
  \/ Answer(u)
  \/ Register(u)
  \/ \E c \in Channels : Join(u, c) \/ Part(u, c)
  \/ Talk(u)
  \/ Leave(u)

Next == Send \/ \E u \in Users : Handler(u)

Spec == Init /\ [][Next]_vars
------------------------------------------------------------------------------
(* Properties *)

\* What a message can be.
Messages ==
  [from : Users, kind : {"answer", "join", "part", "quit", "talk"},
   via : {"server"} \cup Users \cup Channels, about : Users \cup Channels,
   audience : SUBSET Users]

TypeOK ==
  /\ history \in Seq(Messages) /\ Len(history) <= MaxMessages
  /\ phase \in [Users -> {"new", "registered", "gone"}]
  /\ joined \in [Users -> Seq(Channels)]
  /\ serverQueue \in Seq(Ids) /\ Len(serverQueue) <= ServerQueueLen
  /\ userQueue \in [Users -> Seq(Ids)]
  /\ \A u \in Users : Len(userQueue[u]) <= UserQueueLen
  /\ channelQueue \in [Channels -> Seq(Ids)]
  /\ \A c \in Channels : Len(channelQueue[c]) <= ChannelQueueLen
  /\ readyUsers \in Seq(Users) /\ readyChannels \in Seq(Channels)
  /\ received \in [Users -> Seq(Ids)]
  /\ dropped \subseteq Ids

Got(u) == ToSet(received[u])

\* Any two users get the messages they both get in the same order, also those of
\* different channels.  (send_channel_queue_messages)
SameOrder ==
  \A u, v \in Users :
    \A i, j \in DOMAIN received[u], k, l \in DOMAIN received[v] :
      received[u][i] = received[v][k] /\ received[u][j] = received[v][l] => (i < j <=> k < l)

\* Nothing is written twice, and what went through one queue arrives in the order
\* it was composed, as do all answers to one user, which change their queue when
\* the user registers.  (send_socket_messages, add_message_to_queue)
InOrder ==
  \A u \in Users : \A i, j \in DOMAIN received[u] :
    LET m == received[u][i]
        n == received[u][j]
    IN i < j /\ \/ history[m].via = history[n].via
                \/ history[m].kind = "answer" /\ history[n].kind = "answer"
       => m < n

\* Whoever is in a channel when a message is queued for it gets the message,
\* unless it is still queued, was overwritten in a full queue or the user left.
\* (send_channel_queue_messages, remove_channel_data, leave_all_channels)
EveryMemberGetsIt ==
  \A m \in Ids : \A u \in history[m].audience :
    LET c == history[m].via
        left == \/ phase[u] = "gone"
                \/ \E k \in Ids : /\ k > m
                                  /\ history[k].from = u
                                  /\ history[k].kind = "part"
                                  /\ history[k].about = c
    IN c \in Channels =>
         m \in Got(u) \cup dropped \cup ToSet(channelQueue[c]) \/ left

\* Whatever is queued for a channel, and every answer queued for a user, is also
\* announced on the ready list; only private messages may wait.
\* (add_channel_to_ready_list, add_message_to_queue, remove_channel_data)
QueuedIsReady ==
  /\ \A c \in Channels : channelQueue[c] # <<>> => Contains(readyChannels, c)
  /\ \A u \in Users : \A m \in ToSet(userQueue[u]) :
       history[m].kind # "talk" => Contains(readyUsers, u)
=============================================================================
