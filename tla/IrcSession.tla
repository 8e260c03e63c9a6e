------------------------------ MODULE IrcSession ------------------------------
(***************************************************************************)
(* The session layer of the server: client slots, registered users,        *)
(* channels, the two membership lists and the ready list, with every IRC   *)
(* command a client may send.  The server runs on one thread, so a handler *)
(* is one action.  Replies, which differ only in their text, are one       *)
(* operator.                                                               *)
(*                                                                         *)
(* Lists hold pointers to User objects.  The hash table owns the objects   *)
(* and frees them, so a pointer is either the nickname of a registered     *)
(* user or Freed.  A Channel is removed from every list before it is       *)
(* freed, and its name stands for the pointer (ChannelListsAreSound).      *)
(*                                                                         *)
(* Two things stop the server for good.  FAILED() ends the process: status *)
(* becomes "exited".  A handler that reads a freed User has undefined      *)
(* behaviour: status becomes "undefined" at the first such read, and       *)
(* nothing is said of what may follow.                                     *)
(*                                                                         *)
(* A definition marked "faulty" is a plausible slip that no specification  *)
(* uses; each is there to show that a property would notice it.            *)
(***************************************************************************)
EXTENDS Integers, FiniteSetsExt, SequencesExt

CONSTANTS
  Capacity,            \* number of client slots
  Nicknames,
  Channels,            \* well-formed channel names
  Empty,               \* no nickname yet; a missing or malformed argument
  Freed,               \* a pointer to a User that was deleted
  MaxUsers,            \* size of the table of users (1024)
  MaxChannels,         \* size of the table of channels (100)
  MaxUsersPerChannel,  \* 100
  MaxChannelsPerUser,  \* 5
  MaxLists             \* bound of the model on the list of UserChannels, where
                       \* shared nicknames leave entries that nothing removes

ASSUME SizesAssumption ==
  {Capacity, MaxUsers, MaxChannels, MaxUsersPerChannel, MaxChannelsPerUser, MaxLists}
    \subseteq Nat \ {0}
ASSUME NamesAssumption ==
  /\ Empty \notin Nicknames \cup Channels
  /\ Freed \notin Nicknames \cup {Empty}

VARIABLES
  status,           \* "running", "exited" or "undefined"
  clients,          \* slot -> state and nickname; kept when the slot is freed
  users,            \* keys of the hash table of users
  channels,         \* keys of the hash table of channels
  userChannels,     \* list of UserChannels: owner, its channels and a counter
  channelUsers,     \* the ChannelUsers of a channel: its users and a counter
  readyUsers,       \* list of the users to serve on the next send
  readyChannels,    \* the channels to serve on the next send
  pendingUsers,     \* the users whose queue is not empty
  pendingChannels   \* the channels whose queue is not empty

session == <<users, channels, userChannels, channelUsers>>
outbox == <<readyUsers, readyChannels, pendingUsers, pendingChannels>>
vars == <<status, clients, session, outbox>>

Slots == 0 .. Capacity - 1
States ==
  {"DISCONNECTED", "CONNECTED", "START_REGISTRATION", "REGISTERED", "IN_CHANNEL"}
Registered == {"REGISTERED", "IN_CHANNEL"}

\* SERVER_STATES: the commands a client may send, the states it may reach.
Allowed(state, command) ==
  command \in
    CASE state = "DISCONNECTED"       -> {}
      [] state = "CONNECTED"          -> {"NICK", "QUIT"}
      [] state = "START_REGISTRATION" -> {"USER", "QUIT"}
      [] state = "REGISTERED"         -> {"NICK", "JOIN", "PRIVMSG", "QUIT"}
      [] OTHER                        -> {"NICK", "JOIN", "PRIVMSG", "PART", "QUIT"}

Init ==
  /\ status = "running"
  /\ clients = [s \in Slots |-> [state |-> "DISCONNECTED", nickname |-> Empty]]
  /\ users = {}
  /\ channels = {}
  /\ userChannels = <<>>
  /\ channelUsers = <<>>
  /\ readyUsers = <<>>
  /\ readyChannels = {}
  /\ pendingUsers = {}
  /\ pendingChannels = {}

------------------------------------------------------------------------------
(* Lists of pointers to users *)

\* A search compares from the head: it reads a freed User that is listed
\* before the one it looks for.
ReadsFreed(list, n) ==
  \E i \in DOMAIN list : list[i] = Freed /\ \A j \in 1 .. i - 1 : list[j] # n

Listed(list, n) == IF Contains(list, n) THEN list ELSE Append(list, n)

\* delete_user(): every pointer to the user is left dangling.
Dangle(list, n) == [i \in DOMAIN list |-> IF list[i] = n THEN Freed ELSE list[i]]

\* The first UserChannels whose owner has this nickname.
Owners == [i \in DOMAIN userChannels |-> userChannels[i].owner]
EntriesOf(n) == {i \in DOMAIN userChannels : userChannels[i].owner = n}
EntryOfNewest(n) == Max(EntriesOf(n))  \* faulty: the latest one
EntryOf(n) == Min(EntriesOf(n))

\* The owner of an entry is the registered user, unless registration found the
\* nickname taken: that User is in no table and is never freed.
DangleOwners(entries, n) ==
  [i \in DOMAIN entries |->
    IF entries[i].owner = n /\ entries[i].inTable
    THEN [entries[i] EXCEPT !.owner = Freed]
    ELSE entries[i]]

------------------------------------------------------------------------------
(* Outcomes of a handler *)

Nickname(s) == clients[s].nickname
State(s) == clients[s].state

Exit == status' = "exited" /\ UNCHANGED <<clients, session, outbox>>
Undefined == status' = "undefined" /\ UNCHANGED <<clients, session, outbox>>

\* No freed UserChannels owner is compared, and one is found.
FindsEntry(n) == ~ReadsFreed(Owners, n) /\ EntriesOf(n) # {}

\* find_user_channels() did not return a list: what the caller dies of.
MissingEntry(n) == IF ReadsFreed(Owners, n) THEN Undefined ELSE Exit

\* enqueue_to_user_queue() and add_user_to_ready_list()
QueueForUser(n) ==
  /\ pendingUsers' = pendingUsers \cup {n}
  /\ readyUsers' = Listed(readyUsers, n)

\* enqueue_to_channel_queue() and add_channel_to_ready_list()
QueueForChannels(cs) ==
  /\ pendingChannels' = pendingChannels \cup cs
  /\ readyChannels' = readyChannels \cup cs

\* A handler that only answers.  Before registration the answer goes to the
\* server's queue, which every send empties; a client whose user is gone gets
\* no answer.
Reply(s) ==
  /\ UNCHANGED <<clients, session, readyChannels, pendingChannels>>
  /\ IF State(s) \in Registered /\ Nickname(s) \in users
     THEN IF ReadsFreed(readyUsers, Nickname(s))
          THEN status' = "undefined" /\ UNCHANGED <<readyUsers, pendingUsers>>
          ELSE UNCHANGED status /\ QueueForUser(Nickname(s))
     ELSE UNCHANGED <<status, readyUsers, pendingUsers>>

------------------------------------------------------------------------------
(* Connections *)

\* register_connection() takes the lowest free slot.  Its nickname is what the
\* previous client left there.
Connect(s) ==
  /\ State(s) = "DISCONNECTED"
  /\ \A t \in 0 .. s - 1 : State(t) # "DISCONNECTED"
  /\ clients' = [clients EXCEPT ![s].state = "CONNECTED"]
  /\ UNCHANGED <<status, session, outbox>>

\* leave_all_channels(), remove_user_from_ready_list(), unregister_user().
\* The channels are those of the user's own list.
Emptied(cs) == {c \in cs : channelUsers[c].count = 1}

DepartedUncounted(c, n) ==             \* faulty: the counter is not adjusted
  [channelUsers[c] EXCEPT !.users = RemoveFirst(@, n)]
Departed(c, n) ==
  [users |-> RemoveFirst(channelUsers[c].users, n), count |-> channelUsers[c].count - 1]

UsersWithoutKept(n) == users           \* faulty: the nickname stays taken
UsersWithout(n) == users \ {n}

UnregisterUser(n) ==
  LET e == EntryOf(n)
      left == userChannels[e].channels
      gone == Emptied(left)
  IN
  IF ~FindsEntry(n) THEN MissingEntry(n)
  ELSE IF \/ \E c \in left : ReadsFreed(channelUsers[c].users, n)
          \/ ReadsFreed(readyUsers, n)
  THEN Undefined
  ELSE
    /\ channels' = channels \ gone
    /\ channelUsers' = [c \in DOMAIN channelUsers \ gone |->
         LET cu == IF c \in left THEN Departed(c, n) ELSE channelUsers[c]
         IN [cu EXCEPT !.users = Dangle(@, n)]]
    /\ userChannels' = DangleOwners(RemoveAt(userChannels, e), n)
    /\ users' = UsersWithout(n)
    /\ pendingChannels' = (pendingChannels \cup left) \ gone
    /\ readyChannels' = (readyChannels \cup left) \ gone
    /\ pendingUsers' = pendingUsers \ {n}
    /\ readyUsers' = RemoveFirst(readyUsers, n)
    /\ UNCHANGED status

\* remove_client() runs when the user, if there is one, was unregistered.
RemoveClient(s) ==
  clients' = IF status' = "running"
             THEN [clients EXCEPT ![s].state = "DISCONNECTED"]
             ELSE clients

\* handle_ne_client_disconnect_event(): the connection was lost.
Disconnect(s) ==
  /\ State(s) # "DISCONNECTED"
  /\ IF Nickname(s) \in users
     THEN UnregisterUser(Nickname(s))
     ELSE UNCHANGED <<status, session, outbox>>
  /\ RemoveClient(s)

\* QUIT needs a user, also from a client that is not registered yet.
Quit(s) ==
  /\ Allowed(State(s), "QUIT")
  /\ IF Nickname(s) \in users
     THEN UnregisterUser(Nickname(s)) /\ RemoveClient(s)
     ELSE Exit

------------------------------------------------------------------------------
(* Registration *)

NickRefused(s, n) ==
  /\ State(s) # "DISCONNECTED"
  /\ ~Allowed(State(s), "NICK") \/ n = Empty \/ n \in users
  /\ Reply(s)

NickFirst(s, n) ==
  /\ State(s) \notin Registered /\ Allowed(State(s), "NICK")
  /\ n \in Nicknames \ users
  /\ clients' = [clients EXCEPT ![s] = [state |-> "START_REGISTRATION", nickname |-> n]]
  /\ UNCHANGED <<status, session, outbox>>

\* change_user_in_user_channels(): the list now belongs to the copy.
RenamedEntryKept(e, n) == userChannels      \* faulty: the list keeps its owner
RenamedEntry(e, n) ==
  [userChannels EXCEPT ![e] = [@ EXCEPT !.owner = n, !.inTable = TRUE]]

\* handle_nickname_change() makes a copy of the user with an empty queue and
\* deletes the original.  The lists of users of the channels are searched for
\* the new nickname, so none of their pointers is replaced.
NickChange(s, n) ==
  LET old == Nickname(s)
      e == EntryOf(old)
      joined == userChannels[e].channels
  IN
  /\ State(s) \in Registered
  /\ n \in Nicknames \ users
  /\ IF old \notin users THEN Exit
     ELSE IF \/ ReadsFreed(Owners, old)
             \/ \E c \in DOMAIN channelUsers :
                  EntriesOf(old) # {} /\ ReadsFreed(channelUsers[c].users, n)
     THEN Undefined
     ELSE
       /\ clients' = [clients EXCEPT ![s].nickname = n]
       /\ UNCHANGED <<status, channels>>
       /\ IF EntriesOf(old) = {} THEN UNCHANGED <<session, outbox>>
          ELSE
            /\ QueueForChannels(joined)
            /\ users' = (users \ {old}) \cup {n}
            /\ userChannels' = DangleOwners(RenamedEntry(e, n), old)
            /\ channelUsers' = [c \in DOMAIN channelUsers |->
                 [channelUsers[c] EXCEPT !.users = Dangle(@, old)]]
            /\ readyUsers' = Dangle(readyUsers, old)
            /\ pendingUsers' = pendingUsers \ {old}

\* register_user(): a taken nickname or a full table leaves the table as it is,
\* the list of channels is created all the same.
UserRegisters(s) ==
  LET n == Nickname(s)
      added == n \notin users /\ Cardinality(users) < MaxUsers
      known == n \in users \/ added
  IN
  /\ Allowed(State(s), "USER")
  /\ Len(userChannels) < MaxLists
  /\ IF known /\ ReadsFreed(readyUsers, n) THEN Undefined
     ELSE
       /\ clients' = [clients EXCEPT ![s].state = "REGISTERED"]
       /\ userChannels' = Append(userChannels,
            [owner |-> n, inTable |-> added, channels |-> {}, count |-> 0])
       /\ UNCHANGED <<status, channels, channelUsers, readyChannels, pendingChannels>>
       /\ IF known THEN QueueForUser(n)
          ELSE UNCHANGED <<readyUsers, pendingUsers>>
       /\ users' = IF added THEN users \cup {n} ELSE users

------------------------------------------------------------------------------
(* Channels *)

\* add_channel_to_user_channels(): a full list drops the channel silently.
Tracking(entry, c) ==
  IF entry.count < MaxChannelsPerUser
  THEN [entry EXCEPT !.channels = @ \cup {c}, !.count = @ + 1]
  ELSE entry

\* remove_channel_in_user_channels(): the counter drops in any case.
UntrackingKept(entry, c) == [entry EXCEPT !.count = @ - 1]   \* faulty: keeps it
Untracking(entry, c) == [entry EXCEPT !.channels = @ \ {c}, !.count = @ - 1]

IsChannelFull(c) == channelUsers[c].count = MaxUsersPerChannel

\* What JOIN, PART and PRIVMSG begin with: the client's user must exist, and is
\* looked up among the users of the channel.
IfMember(s, c, Member, Stranger) ==
  LET n == Nickname(s)
      members == channelUsers[c].users
  IN
  IF n \notin users THEN Exit
  ELSE IF ReadsFreed(members, n) THEN Undefined
  ELSE IF Contains(members, n) THEN Member ELSE Stranger

\* register_..._channel_join() and send_channel_join_messages(), which reads
\* every user of the channel for the list of names.  cu is the ChannelUsers
\* found or just created.
AddToChannel(s, c, cu) ==
  LET n == Nickname(s)
      e == EntryOf(n)
  IN
  IF ~FindsEntry(n) THEN MissingEntry(n)
  ELSE IF c \notin channels /\ Cardinality(channels) >= MaxChannels THEN Exit
  ELSE IF Contains(cu.users, Freed) \/ ReadsFreed(readyUsers, n) THEN Undefined
  ELSE
    /\ channels' = channels \cup {c}
    /\ channelUsers' = [x \in DOMAIN channelUsers \cup {c} |->
         IF x = c THEN [users |-> Append(cu.users, n), count |-> cu.count + 1]
         ELSE channelUsers[x]]
    /\ userChannels' = [userChannels EXCEPT ![e] = Tracking(@, c)]
    /\ clients' = [clients EXCEPT ![s].state = "IN_CHANNEL"]
    /\ QueueForChannels({c})
    /\ QueueForUser(n)
    /\ UNCHANGED <<status, users>>

\* The command is not allowed yet, or its argument is missing or malformed.
JoinRefused(s, c) ==
  /\ State(s) # "DISCONNECTED"
  /\ ~Allowed(State(s), "JOIN") \/ c = Empty
  /\ Reply(s)

JoinNew(s, c) ==
  /\ Allowed(State(s), "JOIN")
  /\ c \in Channels \ channels
  /\ IF Nickname(s) \in users
     THEN AddToChannel(s, c, [users |-> <<>>, count |-> 0])
     ELSE Exit

\* A member that joins again gets no answer.
JoinExisting(s, c) ==
  /\ Allowed(State(s), "JOIN")
  /\ c \in channels
  /\ IfMember(s, c,
       UNCHANGED vars,
       IF IsChannelFull(c) THEN Reply(s) ELSE AddToChannel(s, c, channelUsers[c]))

\* handle_leave_channel().  The last member takes the channel along; whether it
\* is back in state REGISTERED is then read from the deleted ChannelUsers, and
\* that memory may still hold the counter or not.  A member that leaves others
\* behind stays IN_CHANNEL.
LeaveChannel(s, c) ==
  LET n == Nickname(s)
      e == EntryOf(n)
      cu == Departed(c, n)
      last == cu.count = 0
  IN
  IF ~FindsEntry(n) THEN MissingEntry(n)
  ELSE IF last /\ ReadsFreed(readyUsers, n) THEN Undefined
  ELSE
    /\ userChannels' = [userChannels EXCEPT ![e] = Untracking(@, c)]
    /\ IF last
       THEN /\ channels' = channels \ {c}
            /\ channelUsers' = [x \in DOMAIN channelUsers \ {c} |-> channelUsers[x]]
            /\ readyChannels' = readyChannels \ {c}
            /\ pendingChannels' = pendingChannels \ {c}
            /\ QueueForUser(n)
            /\ \E state \in Registered : clients' = [clients EXCEPT ![s].state = state]
       ELSE /\ channelUsers' = [channelUsers EXCEPT ![c] = cu]
            /\ QueueForChannels({c})
            /\ UNCHANGED <<clients, channels, readyUsers, pendingUsers>>
    /\ UNCHANGED <<status, users>>

PartRefused(s, c) ==
  /\ State(s) # "DISCONNECTED"
  /\ ~Allowed(State(s), "PART") \/ c \notin channels
  /\ Reply(s)

Part(s, c) ==
  /\ Allowed(State(s), "PART")
  /\ c \in channels
  /\ IfMember(s, c, LeaveChannel(s, c), Reply(s))

------------------------------------------------------------------------------
(* Messages *)

\* WHOIS and unknown commands only answer; so do USER and PRIVMSG when they are
\* not allowed, lack arguments or name nobody.
Answer(s) == State(s) # "DISCONNECTED" /\ Reply(s)

PrivmsgToChannel(s, c) ==
  /\ Allowed(State(s), "PRIVMSG")
  /\ c \in channels
  /\ IfMember(s, c,
       QueueForChannels({c}) /\
         UNCHANGED <<status, clients, session, readyUsers, pendingUsers>>,
       Reply(s))

\* The message goes to the recipient's queue, the sender to the ready list.
PrivmsgToUser(s, recipient) ==
  LET n == Nickname(s) IN
  /\ Allowed(State(s), "PRIVMSG")
  /\ recipient \in users
  /\ IF n \notin users THEN Exit
     ELSE IF ReadsFreed(readyUsers, n) THEN Undefined
     ELSE /\ pendingUsers' = pendingUsers \cup {recipient}
          /\ readyUsers' = Listed(readyUsers, n)
          /\ UNCHANGED <<status, clients, session, readyChannels, pendingChannels>>

\* send_socket_messages(): every message of a ready channel goes to each of its
\* users, then the ready users get their own; both lists are emptied.
SendMessages ==
  /\ readyUsers # <<>> \/ readyChannels # {}
  /\ IF \/ Contains(readyUsers, Freed)
        \/ \E c \in readyChannels \cap pendingChannels : Contains(channelUsers[c].users, Freed)
     THEN Undefined
     ELSE /\ pendingChannels' = pendingChannels \ readyChannels
          /\ pendingUsers' = pendingUsers \ ToSet(readyUsers)
          /\ readyUsers' = <<>>
          /\ readyChannels' = {}
          /\ UNCHANGED <<status, clients, session>>

------------------------------------------------------------------------------
ClientStep(s) ==
  \/ Connect(s)
  \/ Disconnect(s)
  \/ Quit(s)
  \/ \E n \in Nicknames \cup {Empty} : NickRefused(s, n)
  \/ \E n \in Nicknames : NickFirst(s, n) \/ NickChange(s, n)
  \/ UserRegisters(s)
  \/ \E c \in Channels \cup {Empty} : JoinRefused(s, c) \/ PartRefused(s, c)
  \/ \E c \in Channels :
       \/ JoinNew(s, c)
       \/ JoinExisting(s, c)
       \/ Part(s, c)
       \/ PrivmsgToChannel(s, c)
  \/ \E n \in Nicknames : PrivmsgToUser(s, n)
  \/ Answer(s)

Next ==
  /\ status = "running"
  /\ \/ \E s \in Slots : ClientStep(s)
     \/ SendMessages

\* The main loop sends after every round of events.
Spec == Init /\ [][Next]_vars /\ WF_vars(SendMessages /\ status = "running")
------------------------------------------------------------------------------
(* Properties *)

\* The shape of the state.  No channel ever counts more users than it may have.
TypeOK ==
  /\ status \in {"running", "exited", "undefined"}
  /\ clients \in [Slots -> [state : States, nickname : Nicknames \cup {Empty}]]
  /\ users \subseteq Nicknames
  /\ channels \subseteq Channels
  /\ userChannels \in Seq([owner : Nicknames \cup {Freed}, inTable : BOOLEAN,
                          channels : SUBSET Channels, count : Int])
  /\ DOMAIN channelUsers \subseteq Channels
  /\ \A c \in DOMAIN channelUsers :
       channelUsers[c] \in [users : Seq(Nicknames \cup {Freed}),
                           count : 0 .. MaxUsersPerChannel]
  /\ readyUsers \in Seq(Nicknames \cup {Freed})
  /\ readyChannels \subseteq Channels
  /\ pendingUsers \subseteq Nicknames
  /\ pendingChannels \subseteq Channels

\* No nickname outlives its client: a registered user belongs to a client that
\* is connected, registered and goes by that nickname, whatever clients share,
\* change or inherit a nickname.  (cmd_quit, the disconnect event, cmd_nick)
UsersHaveClients ==
  \A n \in users : \E s \in Slots : State(s) \in Registered /\ Nickname(s) = n

\* A registered user always finds a list of channels under its nickname, so
\* that JOIN and QUIT do not fail on it.  (register_user, handle_nickname_change,
\* unregister_user)
UsersHaveLists == \A n \in users : EntriesOf(n) # {}

\* The table of channels and the list of ChannelUsers name the same channels, no
\* channel is empty, and the separate counter is the length of the list although
\* it drops whether or not a user was found.  (remove_user_in_channel_users,
\* leave_all_channels, remove_channel_data)
ChannelListsAreSound ==
  /\ DOMAIN channelUsers = channels
  /\ \A c \in channels :
       channelUsers[c].count = Len(channelUsers[c].users) /\ channelUsers[c].count > 0

\* A user's own list of channels never names a channel that was deleted, and
\* the channel still lists somebody under that user's pointer or a dangling one.
TrackedChannelsExist ==
  \A i \in DOMAIN userChannels : \A c \in userChannels[i].channels :
    /\ c \in channels
    /\ \/ Contains(channelUsers[c].users, userChannels[i].owner)
       \/ Contains(channelUsers[c].users, Freed)

\* Every pointer on the channel's list is another registered user, and the list
\* of channels that a search finds under the user's nickname names the channel.
Paired(c) ==
  /\ IsInjective(channelUsers[c].users)
  /\ \A n \in ToSet(channelUsers[c].users) :
       n \in users /\ c \in userChannels[EntryOf(n)].channels

\* What breaks the pairing: a member changes its nickname, or somebody joins
\* whose own list of channels is full.
MemberRenamed(c) ==
  \E s \in Slots :
    /\ c \in channels
    /\ Contains(channelUsers[c].users, Nickname(s))
    /\ Nickname(s)' # Nickname(s)
JoinedUntracked(c) ==
  \E n \in users :
    /\ n = Last(channelUsers'[c].users)
    /\ c \in channels => ~Contains(channelUsers[c].users, n)
    /\ userChannels[EntryOf(n)].count >= MaxChannelsPerUser

\* Nothing else does.  A list of users is new or was paired before a dangling
\* pointer, a second pointer to one user or a member that does not know of its
\* membership gets there, so that the step to blame is one of these two, and no
\* registration under a taken nickname, no departure of a namesake and no list
\* left behind by one.  (cmd_join, cmd_part, cmd_user, leave_all_channels)
PairingIsKept ==
  [][\A c \in channels' :
       \/ c \in channels /\ ~Paired(c)
       \/ Paired(c)'
       \/ MemberRenamed(c)
       \/ JoinedUntracked(c)]_vars

\* Of several lists under one nickname only the first one, which every search
\* finds, counts for a channel whose list is free of dangling pointers: leaving
\* it takes the last trace of the user out of the channel.
TrackedByFirst ==
  \A i \in DOMAIN userChannels : \A c \in userChannels[i].channels :
    \/ Contains(channelUsers[c].users, Freed)
    \/ \A j \in 1 .. i - 1 : userChannels[j].owner # userChannels[i].owner

\* Queued channel messages are never forgotten: the channel is on the ready list,
\* and the ready list names no deleted channel.  (cmd_join, cmd_part, cmd_privmsg,
\* cmd_nick, cmd_quit; the reset in send_socket_messages)
PendingChannelsAreReady ==
  pendingChannels \subseteq readyChannels /\ readyChannels \subseteq channels

\* The commands set the state directly, without is_allowed_state_transition();
\* still no client takes a step that SERVER_STATES does not have.
Transitions ==
  {<<"DISCONNECTED", "CONNECTED">>, <<"CONNECTED", "START_REGISTRATION">>,
   <<"START_REGISTRATION", "REGISTERED">>, <<"REGISTERED", "IN_CHANNEL">>,
   <<"IN_CHANNEL", "REGISTERED">>} \cup (States \X {"DISCONNECTED"})
StatesFollowTable ==
  [][\A s \in Slots : State(s)' = State(s) \/ <<State(s), State(s)'>> \in Transitions]_vars

\* A channel goes only when its one member leaves, never under other members.
ChannelsOutliveMembers ==
  [][\A c \in channels \ channels' : Len(channelUsers[c].users) = 1]_vars

\* As long as the server runs, queued channel messages leave the queue.
ChannelMessagesAreSent ==
  \A c \in Channels : c \in pendingChannels ~> c \notin pendingChannels \/ status # "running"
------------------------------------------------------------------------------
(* What the comments of the code say and the code does not keep *)

\* session.c:44: the ready list "keeps track of users and channnels which have
\* messages to send".
ReadyUsersComplete == pendingUsers \subseteq ToSet(readyUsers)

\* session.c:36: ChannelUsers "keeps track of all users in a channel": who has
\* the channel on its own list is on the channel's list.
ChannelUsersComplete ==
  \A n \in users : \A c \in userChannels[EntryOf(n)].channels :
    Contains(channelUsers[c].users, n)

\* command_handler.c:130: the second client that asks for a nickname is told that
\* it is "already in use", so that registered clients have distinct nicknames.
NicknamesDistinct ==
  \A s, t \in Slots :
    State(s) \in Registered /\ State(t) \in Registered /\ Nickname(s) = Nickname(t) => s = t
==============================================================================
