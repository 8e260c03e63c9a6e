--------------------------- MODULE IrcSessionProofs ---------------------------
(***************************************************************************)
(* Proofs about IrcSession, for every number of clients, nicknames,        *)
(* channels and every limit: the safety properties of the session, from    *)
(* one inductive invariant.                                                *)
(***************************************************************************)
EXTENDS IrcSession, TLAPS, WellFoundedInduction

Pointers == Nicknames \cup {Freed}

------------------------------------------------------------------------------
(* Lists *)

\* A nonempty set of numbers has a least element: what the search of a list
\* from its head stops at.
LEMMA LeastIndex ==
  ASSUME NEW I \in SUBSET Nat, I # {}
  PROVE  Min(I) \in I /\ \A y \in I : Min(I) <= y
<1>1. PICK x \in I : \A y \in I : <<y, x>> \notin OpToRel(<, Nat)
  BY NatLessThanWellFounded, WFMin, Zenon
<1>2. ASSUME NEW y \in I, y < x PROVE FALSE
  <2>1. <<y, x>> \in {p \in Nat \X Nat : p[1] < p[2]}
    BY <1>2
  <2>2. <<y, x>> \in OpToRel(<, Nat)
    BY <2>1, Zenon DEF OpToRel
  <2> QED
    BY <1>1, <2>2
<1>3. \A y \in I : x <= y
  BY <1>2
<1> QED
  BY <1>3, Zenon DEF Min

\* remove_node() takes out one element and keeps the others in order.
LEMMA RemovedAt ==
  ASSUME NEW S, NEW list \in Seq(S), NEW k \in 1 .. Len(list)
  PROVE  /\ RemoveAt(list, k) \in Seq(S)
         /\ Len(RemoveAt(list, k)) = Len(list) - 1
         /\ \A i \in 1 .. Len(list) - 1 :
              RemoveAt(list, k)[i] = IF i < k THEN list[i] ELSE list[i + 1]
<1> DEFINE before == SubSeq(list, 1, k - 1)
           after == SubSeq(list, k + 1, Len(list))
<1>1. /\ before \in Seq(S) /\ Len(before) = k - 1
      /\ \A i \in 1 .. k - 1 : before[i] = list[i]
  OBVIOUS
<1>2. /\ after \in Seq(S) /\ Len(after) = Len(list) - k
      /\ \A i \in 1 .. Len(list) - k : after[i] = list[i + k]
  OBVIOUS
<1>3. RemoveAt(list, k) = before \o after
  BY DEF RemoveAt
<1>4. k \in Nat /\ Len(list) \in Nat /\ 1 <= k /\ k <= Len(list)
  OBVIOUS
<1> HIDE DEF before, after
<1>5. /\ before \o after \in Seq(S)
      /\ Len(before \o after) = Len(list) - 1
  <2>1. before \in Seq(S) /\ after \in Seq(S)
    BY <1>1, <1>2
  <2>2. before \o after \in Seq(S) /\ Len(before \o after) = Len(before) + Len(after)
    BY <2>1
  <2>3. (k - 1) + (Len(list) - k) = Len(list) - 1
    BY <1>4
  <2> QED
    BY <1>1, <1>2, <2>2, <2>3, Zenon
<1>6. ASSUME NEW i \in 1 .. Len(list) - 1
      PROVE  (before \o after)[i] = IF i < k THEN list[i] ELSE list[i + 1]
  <2>1. CASE i < k
    <3>1. i \in 1 .. k - 1 /\ i <= Len(before)
      BY <2>1, <1>1, <1>4
    <3> QED
      BY <3>1, <2>1, <1>1, <1>2
  <2>2. CASE ~(i < k)
    <3>1. /\ i - Len(before) \in 1 .. Len(list) - k
          /\ (i - Len(before)) + k = i + 1
          /\ ~(i <= Len(before)) /\ i \in 1 .. Len(before) + Len(after)
      BY <2>2, <1>1, <1>2, <1>4
    <3>2. (before \o after)[i] = after[i - Len(before)]
      BY <3>1, <1>1, <1>2
    <3>3. after[i - Len(before)] = list[(i - Len(before)) + k]
      BY <3>1, <1>2
    <3> QED
      BY <3>1, <3>2, <3>3, <2>2
  <2> QED
    BY <2>1, <2>2
<1> QED
  BY <1>3, <1>5, <1>6

LEMMA RemovedFirst ==
  ASSUME NEW S, NEW list \in Seq(S), NEW x
  PROVE  /\ RemoveFirst(list, x) \in Seq(S)
         /\ Len(RemoveFirst(list, x)) = IF Contains(list, x) THEN Len(list) - 1 ELSE Len(list)
         /\ \A y : y # x => (Contains(RemoveFirst(list, x), y) <=> Contains(list, y))
         /\ Contains(RemoveFirst(list, x), x) => Contains(list, x)
<1> DEFINE I == {i \in 1 .. Len(list) : list[i] = x}
           k == Min(I)
<1>1. CASE ~Contains(list, x)
  BY <1>1, Zenon DEF Contains, RemoveFirst
<1>2. CASE Contains(list, x)
  <2>1. I # {} /\ I \in SUBSET Nat
    BY <1>2 DEF Contains
  <2>2. k \in 1 .. Len(list) /\ list[k] = x
    <3>1. k \in I
      BY <2>1, LeastIndex, Zenon
    <3> QED
      BY <3>1, Zenon
  <2>3. RemoveFirst(list, x) = RemoveAt(list, k)
    BY <1>2, <2>1, Zenon DEF RemoveFirst, SelectInSeq, Contains
  <2> HIDE DEF k
  <2>4. ASSUME NEW y, y # x, Contains(list, y)
        PROVE  Contains(RemoveAt(list, k), y)
    <3>1. PICK i \in 1 .. Len(list) : list[i] = y
      BY <2>4 DEF Contains
    <3>2. i # k
      BY <3>1, <2>2, <2>4
    <3>3. CASE i < k
      <4>1. i \in 1 .. Len(list) - 1
        BY <3>1, <3>3, <2>2
      <4>2. RemoveAt(list, k)[i] = list[i]
        BY <4>1, <3>3, <2>2, RemovedAt
      <4> QED
        BY <4>1, <4>2, <3>1, <2>2, RemovedAt DEF Contains
    <3>4. CASE i > k
      <4>1. i - 1 \in 1 .. Len(list) - 1 /\ ~(i - 1 < k) /\ (i - 1) + 1 = i
        BY <3>1, <3>4, <2>2
      <4>2. RemoveAt(list, k)[i - 1] = list[i]
        BY <4>1, <2>2, RemovedAt
      <4> QED
        BY <4>1, <4>2, <3>1, <2>2, RemovedAt DEF Contains
    <3> QED
      BY <3>2, <3>3, <3>4, <2>2
  <2>5. ASSUME NEW y, Contains(RemoveAt(list, k), y)
        PROVE  Contains(list, y)
    <3>1. PICK i \in 1 .. Len(list) - 1 : RemoveAt(list, k)[i] = y
      BY <2>5, <2>2, RemovedAt DEF Contains
    <3>2. list[i] = y \/ list[i + 1] = y
      BY <3>1, <2>2, RemovedAt
    <3> QED
      BY <3>1, <3>2 DEF Contains
  <2> QED
    BY <1>2, <2>2, <2>3, <2>4, <2>5, RemovedAt
<1> QED
  BY <1>1, <1>2

\* delete_user() leaves every list as long as it was; only the pointers to that
\* user turn into dangling ones.
LEMMA Dangled ==
  ASSUME NEW S, NEW list \in Seq(S), NEW n
  PROVE  /\ Dangle(list, n) \in Seq(S \cup {Freed})
         /\ Len(Dangle(list, n)) = Len(list)
         /\ \A x : x # n /\ Contains(list, x) => Contains(Dangle(list, n), x)
         /\ Contains(list, n) => Contains(Dangle(list, n), Freed)
         /\ \A x : Contains(Dangle(list, n), x) => x = Freed \/ (x # n /\ Contains(list, x))
  BY DEF Dangle, Contains

LEMMA Appended ==
  ASSUME NEW S, NEW list \in Seq(S), NEW x \in S
  PROVE  /\ Append(list, x) \in Seq(S)
         /\ Len(Append(list, x)) = Len(list) + 1
         /\ Contains(Append(list, x), x)
         /\ \A y : Contains(list, y) => Contains(Append(list, x), y)
         /\ \A y : Contains(Append(list, x), y) => y = x \/ Contains(list, y)
  BY DEF Contains

LEMMA ContainsToSet ==
  ASSUME NEW S, NEW list \in Seq(S), NEW x
  PROVE  x \in ToSet(list) <=> Contains(list, x)
  BY DEF ToSet, Contains

LEMMA ListedType ==
  ASSUME NEW S, NEW list \in Seq(S), NEW x \in S
  PROVE  Listed(list, x) \in Seq(S)
  BY DEF Listed

\* A search that does not find its user reads a freed one if there is one.
LEMMA SearchReadsAll ==
  ASSUME NEW S, NEW list \in Seq(S), NEW n, n # Freed,
         ~ReadsFreed(list, n), Contains(list, Freed)
  PROVE  Contains(list, n)
  BY DEF ReadsFreed, Contains

------------------------------------------------------------------------------
(* The invariant *)

Entries == [owner : Pointers, inTable : BOOLEAN, channels : SUBSET Channels, count : Int]

SessionTypeOK ==
  /\ users \subseteq Nicknames
  /\ channels \subseteq Channels
  /\ userChannels \in Seq(Entries)
  /\ DOMAIN channelUsers \subseteq Channels
  /\ \A c \in DOMAIN channelUsers :
       channelUsers[c] \in [users : Seq(Pointers), count : 0 .. MaxUsersPerChannel]
  /\ readyUsers \in Seq(Pointers)
  /\ readyChannels \subseteq Channels
  /\ pendingUsers \subseteq Nicknames
  /\ pendingChannels \subseteq Channels

\* TrackedChannelsExist and TrackedByFirst in one.
TrackedSoundly ==
  \A i \in 1 .. Len(userChannels) : \A c \in userChannels[i].channels :
    /\ c \in channels
    /\ \/ Contains(channelUsers[c].users, userChannels[i].owner)
       \/ Contains(channelUsers[c].users, Freed)
    /\ \/ Contains(channelUsers[c].users, Freed)
       \/ \A j \in 1 .. i - 1 : userChannels[j].owner # userChannels[i].owner

\* A pointer to a member is a user of the table or a dangling one.
MembersAreRegistered ==
  \A c \in channels : ToSet(channelUsers[c].users) \subseteq users \cup {Freed}

\* What the handlers need of the tables and lists, and leave behind.
SessionInv ==
  /\ SessionTypeOK
  /\ UsersHaveLists
  /\ ChannelListsAreSound
  /\ MembersAreRegistered
  /\ TrackedSoundly
  /\ PendingChannelsAreReady

ClientsTypeOK ==
  /\ status \in {"running", "exited", "undefined"}
  /\ clients \in [Slots -> [state : States, nickname : Nicknames \cup {Empty}]]

\* NICK comes before USER.
ClientsAreNamed ==
  \A s \in Slots :
    State(s) \in {"START_REGISTRATION"} \cup Registered => Nickname(s) \in Nicknames

ClientsInv == ClientsTypeOK /\ ClientsAreNamed /\ UsersHaveClients

Inv == SessionInv /\ ClientsInv

\* The list of channels that the searches find, and the only one that counts.
LEMMA EntryFound ==
  ASSUME userChannels \in Seq(Entries), NEW n, EntriesOf(n) # {}
  PROVE  /\ EntryOf(n) \in 1 .. Len(userChannels)
         /\ userChannels[EntryOf(n)].owner = n
         /\ \A j \in 1 .. EntryOf(n) - 1 : userChannels[j].owner # n
<1>1. EntriesOf(n) \in SUBSET Nat
  BY DEF EntriesOf
<1>2. EntryOf(n) \in EntriesOf(n) /\ \A j \in EntriesOf(n) : EntryOf(n) <= j
  BY <1>1, LeastIndex, Zenon DEF EntryOf
<1>3. EntryOf(n) \in 1 .. Len(userChannels) /\ userChannels[EntryOf(n)].owner = n
  BY <1>2 DEF EntriesOf
<1>4. ASSUME NEW j \in 1 .. EntryOf(n) - 1, userChannels[j].owner = n
      PROVE  FALSE
  <2>1. j \in EntriesOf(n)
    BY <1>3, <1>4 DEF EntriesOf
  <2> QED
    BY <2>1, <1>2, <1>3
<1> QED
  BY <1>3, <1>4

LEMMA DangledOwners ==
  ASSUME NEW entries \in Seq(Entries), NEW n
  PROVE  /\ DangleOwners(entries, n) \in Seq(Entries)
         /\ Len(DangleOwners(entries, n)) = Len(entries)
         /\ \A i \in 1 .. Len(entries) :
              /\ DangleOwners(entries, n)[i].channels = entries[i].channels
              /\ \/ DangleOwners(entries, n)[i].owner = entries[i].owner
                 \/ entries[i].owner = n /\ DangleOwners(entries, n)[i].owner = Freed
<1> DEFINE D == DangleOwners(entries, n)
<1>1. ASSUME NEW i \in 1 .. Len(entries)
      PROVE  /\ D[i] \in Entries
             /\ D[i].channels = entries[i].channels
             /\ \/ D[i].owner = entries[i].owner
                \/ entries[i].owner = n /\ D[i].owner = Freed
  <2>1. entries[i] \in Entries
    OBVIOUS
  <2>2. D[i] = IF entries[i].owner = n /\ entries[i].inTable
               THEN [entries[i] EXCEPT !.owner = Freed] ELSE entries[i]
    BY DEF DangleOwners
  <2> HIDE DEF D
  <2>3. [entries[i] EXCEPT !.owner = Freed] =
          [owner |-> Freed, inTable |-> entries[i].inTable,
           channels |-> entries[i].channels, count |-> entries[i].count]
    BY <2>1 DEF Entries
  <2> QED
    BY <2>1, <2>2, <2>3 DEF Entries, Pointers
<1>2. D = [i \in 1 .. Len(entries) |-> D[i]] /\ Len(entries) \in Nat
  BY DEF DangleOwners
<1> HIDE DEF D
<1>3. D \in Seq(Entries) /\ Len(D) = Len(entries)
  BY <1>1, <1>2
<1> QED
  BY <1>1, <1>3 DEF D

LEMMA SessionUnchanged ==
  SessionInv /\ UNCHANGED <<session, outbox>> => SessionInv'
<1> SUFFICES ASSUME SessionInv, UNCHANGED <<session, outbox>> PROVE SessionInv'
  OBVIOUS
<1> USE DEF session, outbox
<1>1. SessionTypeOK'
  BY DEF SessionInv, SessionTypeOK
<1>2. UsersHaveLists'
  BY DEF SessionInv, UsersHaveLists, EntriesOf
<1>3. ChannelListsAreSound'
  BY DEF SessionInv, ChannelListsAreSound
<1>4. MembersAreRegistered'
  BY DEF SessionInv, MembersAreRegistered
<1>5. TrackedSoundly'
  BY DEF SessionInv, TrackedSoundly
<1>6. PendingChannelsAreReady'
  BY DEF SessionInv, PendingChannelsAreReady
<1> QED
  BY <1>1, <1>2, <1>3, <1>4, <1>5, <1>6 DEF SessionInv

------------------------------------------------------------------------------
(* Leaving for good *)

OwnChannels(n) == userChannels[EntryOf(n)].channels

\* What unregistering makes of the ChannelUsers of a channel that stays.
Remaining(c, n) ==
  LET cu == IF c \in OwnChannels(n) THEN Departed(c, n) ELSE channelUsers[c]
  IN [cu EXCEPT !.users = Dangle(@, n)]

LEMMA MembersAfterUnregister ==
  ASSUME SessionInv, NEW n \in users, FindsEntry(n),
         \A c \in OwnChannels(n) : ~ReadsFreed(channelUsers[c].users, n),
         NEW c \in channels \ Emptied(OwnChannels(n)),
         NEW rest, rest = Remaining(c, n)
  PROVE  /\ rest \in [users : Seq(Pointers), count : 0 .. MaxUsersPerChannel]
         /\ rest.count = Len(rest.users) /\ rest.count > 0
         /\ \A x : x # n /\ Contains(channelUsers[c].users, x) => Contains(rest.users, x)
         /\ \A x : Contains(rest.users, x) =>
              x = Freed \/ (x # n /\ Contains(channelUsers[c].users, x))
         /\ c \notin OwnChannels(n) /\ Contains(channelUsers[c].users, n) => Contains(rest.users, Freed)
<1> DEFINE list == channelUsers[c].users
           num == channelUsers[c].count
<1>1. /\ list \in Seq(Pointers) /\ num \in 0 .. MaxUsersPerChannel
      /\ channelUsers[c] = [users |-> list, count |-> num]
      /\ num = Len(list) /\ num > 0
  BY DEF SessionInv, SessionTypeOK, ChannelListsAreSound
<1>2. n # Freed /\ n \in Pointers /\ Pointers \cup {Freed} = Pointers
  BY NamesAssumption DEF SessionInv, SessionTypeOK, Pointers
<1>3. EntryOf(n) \in 1 .. Len(userChannels) /\ userChannels[EntryOf(n)].owner = n
  BY EntryFound DEF FindsEntry, SessionInv, SessionTypeOK
<1>4. CASE c \in OwnChannels(n)
  <2>1. Contains(list, n)
    <3>1. Contains(list, n) \/ Contains(list, Freed)
      BY <1>3, <1>4 DEF SessionInv, SessionTypeOK, TrackedSoundly, OwnChannels
    <3> QED
      BY <3>1, <1>1, <1>2, <1>4, SearchReadsAll
  <2>2. /\ Departed(c, n) = [users |-> RemoveFirst(list, n), count |-> num - 1]
        /\ num # 1
    BY <1>4 DEF Departed, Emptied
  <2>3. /\ RemoveFirst(list, n) \in Seq(Pointers)
        /\ Len(RemoveFirst(list, n)) = Len(list) - 1
        /\ \A y : y # n => (Contains(RemoveFirst(list, n), y) <=> Contains(list, y))
    BY <2>1, <1>1, RemovedFirst
  <2>4. rest = [users |-> Dangle(RemoveFirst(list, n), n), count |-> num - 1]
    BY <1>4, <2>2 DEF Remaining
  <2>5. /\ Dangle(RemoveFirst(list, n), n) \in Seq(Pointers)
        /\ Len(Dangle(RemoveFirst(list, n), n)) = Len(list) - 1
        /\ \A x : x # n /\ Contains(list, x) => Contains(Dangle(RemoveFirst(list, n), n), x)
        /\ \A x : Contains(Dangle(RemoveFirst(list, n), n), x) =>
             x = Freed \/ (x # n /\ Contains(list, x))
    BY <2>3, <1>2, Dangled
  <2> HIDE DEF list, num
  <2>6. num - 1 \in 0 .. MaxUsersPerChannel /\ num - 1 = Len(list) - 1 /\ num - 1 > 0
    BY <1>1, <2>2, SizesAssumption
  <2>7. /\ rest.users = Dangle(RemoveFirst(list, n), n) /\ rest.count = num - 1
        /\ rest \in [users : Seq(Pointers), count : 0 .. MaxUsersPerChannel]
    BY <2>4, <2>5, <2>6
  <2>8. rest.count = Len(rest.users) /\ rest.count > 0
    BY <2>5, <2>6, <2>7
  <2> QED
    BY <1>4, <2>5, <2>7, <2>8, Zenon DEF list
<1>5. CASE c \notin OwnChannels(n)
  <2>1. rest = [users |-> Dangle(list, n), count |-> num]
    BY <1>1, <1>5 DEF Remaining
  <2>2. /\ Dangle(list, n) \in Seq(Pointers)
        /\ Len(Dangle(list, n)) = Len(list)
        /\ \A x : x # n /\ Contains(list, x) => Contains(Dangle(list, n), x)
        /\ Contains(list, n) => Contains(Dangle(list, n), Freed)
        /\ \A x : Contains(Dangle(list, n), x) =>
             x = Freed \/ (x # n /\ Contains(list, x))
    BY <1>1, <1>2, Dangled
  <2> HIDE DEF list, num
  <2> QED
    BY <2>1, <2>2, <1>1 DEF list
<1> QED
  BY <1>4, <1>5

\* A channel on the user's own list has the user on its own, if searching there
\* reads nothing that was freed.
LEMMA OwnChannelsListUser ==
  ASSUME SessionInv, NEW n \in users, FindsEntry(n),
         NEW c \in OwnChannels(n),
         ~ReadsFreed(channelUsers[c].users, n)
  PROVE  /\ c \in channels
         /\ Contains(channelUsers[c].users, n)
<1>1. EntryOf(n) \in 1 .. Len(userChannels) /\ userChannels[EntryOf(n)].owner = n
  BY EntryFound DEF FindsEntry, SessionInv, SessionTypeOK
<1>2. /\ c \in channels
      /\ Contains(channelUsers[c].users, n) \/ Contains(channelUsers[c].users, Freed)
  BY <1>1 DEF SessionInv, SessionTypeOK, TrackedSoundly, OwnChannels
<1>3. channelUsers[c].users \in Seq(Pointers) /\ n # Freed
  BY <1>2, NamesAssumption DEF SessionInv, SessionTypeOK, ChannelListsAreSound
<1> QED
  BY <1>2, <1>3, SearchReadsAll

\* The entries that stay when entry e goes and the pointers to n dangle.
EntriesWithout(e, n) == DangleOwners(RemoveAt(userChannels, e), n)

LEMMA EntriesAfterUnregister ==
  ASSUME userChannels \in Seq(Entries), NEW n, NEW e \in 1 .. Len(userChannels)
  PROVE  /\ EntriesWithout(e, n) \in Seq(Entries)
         /\ Len(EntriesWithout(e, n)) = Len(userChannels) - 1
         /\ \A k \in 1 .. Len(userChannels) - 1 :
              LET i == IF k < e THEN k ELSE k + 1 IN
              /\ EntriesWithout(e, n)[k].channels = userChannels[i].channels
              /\ \/ EntriesWithout(e, n)[k].owner = userChannels[i].owner
                 \/ userChannels[i].owner = n /\ EntriesWithout(e, n)[k].owner = Freed
<1> DEFINE R == RemoveAt(userChannels, e)
<1>1. /\ R \in Seq(Entries) /\ Len(R) = Len(userChannels) - 1
      /\ \A k \in 1 .. Len(userChannels) - 1 :
           R[k] = userChannels[IF k < e THEN k ELSE k + 1]
  BY RemovedAt
<1> HIDE DEF R
<1>2. /\ DangleOwners(R, n) \in Seq(Entries) /\ Len(DangleOwners(R, n)) = Len(R)
      /\ \A k \in 1 .. Len(R) :
           /\ DangleOwners(R, n)[k].channels = R[k].channels
           /\ \/ DangleOwners(R, n)[k].owner = R[k].owner
              \/ R[k].owner = n /\ DangleOwners(R, n)[k].owner = Freed
  BY <1>1, DangledOwners
<1> QED
  BY <1>1, <1>2 DEF R, EntriesWithout

\* leave_all_channels() and unregister_user() keep the tables and lists sound.
LEMMA UnregisterKeeps ==
  ASSUME SessionInv, NEW n \in users, UnregisterUser(n)
  PROVE  SessionInv'
<1> DEFINE e == EntryOf(n)
           left == OwnChannels(n)
           gone == Emptied(left)
<1>1. CASE UNCHANGED <<session, outbox>>
  BY <1>1, SessionUnchanged
<1>2. CASE ~UNCHANGED <<session, outbox>>
  <2>1. /\ FindsEntry(n)
        /\ \A c \in left : ~ReadsFreed(channelUsers[c].users, n)
        /\ channels' = channels \ gone
        /\ channelUsers' = [c \in DOMAIN channelUsers \ gone |-> Remaining(c, n)]
        /\ userChannels' = EntriesWithout(e, n)
        /\ users' = users \ {n}
        /\ pendingChannels' = (pendingChannels \cup left) \ gone
        /\ readyChannels' = (readyChannels \cup left) \ gone
        /\ pendingUsers' = pendingUsers \ {n}
        /\ readyUsers' = RemoveFirst(readyUsers, n)
    BY <1>2, Zenon
       DEF UnregisterUser, MissingEntry, Exit, Undefined, UsersWithout, OwnChannels, Remaining,
           EntriesWithout
  <2>2. n # Freed /\ n \in Nicknames
    BY NamesAssumption DEF SessionInv, SessionTypeOK
  <2>3. /\ e \in 1 .. Len(userChannels) /\ userChannels[e].owner = n
        /\ \A j \in 1 .. e - 1 : userChannels[j].owner # n
    BY <2>1, EntryFound DEF FindsEntry, SessionInv, SessionTypeOK
  <2>4. /\ userChannels' \in Seq(Entries)
        /\ Len(userChannels') = Len(userChannels) - 1
        /\ \A k \in 1 .. Len(userChannels) - 1 :
             LET i == IF k < e THEN k ELSE k + 1 IN
             /\ userChannels'[k].channels = userChannels[i].channels
             /\ \/ userChannels'[k].owner = userChannels[i].owner
                \/ userChannels[i].owner = n /\ userChannels'[k].owner = Freed
    <3>1. userChannels \in Seq(Entries)
      BY DEF SessionInv, SessionTypeOK
    <3> HIDE DEF e
    <3>2. e \in 1 .. Len(userChannels)
      BY <2>3
    <3>3. userChannels' = EntriesWithout(e, n)
      BY <2>1
    <3>4. EntriesWithout(e, n) \in Seq(Entries)
      BY <3>1, <3>2, EntriesAfterUnregister
    <3>5. Len(EntriesWithout(e, n)) = Len(userChannels) - 1
      BY <3>1, <3>2, EntriesAfterUnregister
    <3>6. \A k \in 1 .. Len(userChannels) - 1 :
             LET i == IF k < e THEN k ELSE k + 1 IN
             /\ EntriesWithout(e, n)[k].channels = userChannels[i].channels
             /\ \/ EntriesWithout(e, n)[k].owner = userChannels[i].owner
                \/ userChannels[i].owner = n /\ EntriesWithout(e, n)[k].owner = Freed
      BY <3>1, <3>2, EntriesAfterUnregister
    <3> QED
      BY <3>3, <3>4, <3>5, <3>6
  <2>5. \A c \in left : c \in channels /\ Contains(channelUsers[c].users, n)
    BY <2>1, OwnChannelsListUser
  <2>6. DOMAIN channelUsers = channels /\ DOMAIN channelUsers' = channels'
    BY <2>1 DEF SessionInv, ChannelListsAreSound
  <2>7. ASSUME NEW c \in channels'
        PROVE  /\ channelUsers'[c] \in [users : Seq(Pointers), count : 0 .. MaxUsersPerChannel]
               /\ channelUsers'[c].count = Len(channelUsers'[c].users)
               /\ channelUsers'[c].count > 0
               /\ \A x : x # n /\ Contains(channelUsers[c].users, x)
                         => Contains(channelUsers'[c].users, x)
               /\ \A x : Contains(channelUsers'[c].users, x) =>
                    x = Freed \/ (x # n /\ Contains(channelUsers[c].users, x))
               /\ c \notin left /\ Contains(channelUsers[c].users, n)
                  => Contains(channelUsers'[c].users, Freed)
    <3>1. channelUsers'[c] = Remaining(c, n) /\ c \in channels \ gone
      BY <2>1, <2>6
    <3> QED
      BY <3>1, <2>1, MembersAfterUnregister
  <2> HIDE DEF e, left, gone
  <2>8. left \subseteq channels /\ gone \subseteq channels
    BY <2>5 DEF gone, Emptied
  <2>9. SessionTypeOK'
    <3>1. readyUsers' \in Seq(Pointers)
      BY <2>1, RemovedFirst DEF SessionInv, SessionTypeOK
    <3> QED
      BY <2>1, <2>4, <2>6, <2>7, <2>8, <3>1 DEF SessionInv, SessionTypeOK
  <2>10. ChannelListsAreSound'
    BY <2>6, <2>7 DEF ChannelListsAreSound
  <2>11. PendingChannelsAreReady'
    BY <2>1, <2>8 DEF SessionInv, PendingChannelsAreReady
  <2>12. MembersAreRegistered'
    <3> SUFFICES ASSUME NEW c \in channels', NEW x \in ToSet(channelUsers'[c].users)
                 PROVE  x \in users' \cup {Freed}
      BY DEF MembersAreRegistered
    <3>1. channelUsers'[c].users \in Seq(Pointers) /\ Contains(channelUsers'[c].users, x)
      BY <2>7, ContainsToSet
    <3>2. c \in channels /\ channelUsers[c].users \in Seq(Pointers)
      BY <2>1, <2>6 DEF SessionInv, SessionTypeOK
    <3>3. x = Freed \/ (x # n /\ x \in ToSet(channelUsers[c].users))
      BY <3>1, <3>2, <2>7, ContainsToSet
    <3> QED
      BY <3>2, <3>3, <2>1 DEF SessionInv, MembersAreRegistered
  <2>13. UsersHaveLists'
    <3> SUFFICES ASSUME NEW m \in users'
                 PROVE  \E k \in 1 .. Len(userChannels') : userChannels'[k].owner = m
      BY <2>4 DEF UsersHaveLists, EntriesOf
    <3>1. m \in users /\ m # n
      BY <2>1
    <3>2. PICK i \in 1 .. Len(userChannels) : userChannels[i].owner = m
      BY <3>1 DEF SessionInv, SessionTypeOK, UsersHaveLists, EntriesOf
    <3>3. i # e
      BY <3>1, <3>2, <2>3
    <3>4. CASE i < e
      <4>1. i \in 1 .. Len(userChannels) - 1
        BY <3>2, <3>4, <2>3
      <4> QED
        BY <4>1, <3>1, <3>2, <3>4, <2>4
    <3>5. CASE e < i
      <4>1. i - 1 \in 1 .. Len(userChannels) - 1 /\ ~(i - 1 < e) /\ (i - 1) + 1 = i
        BY <3>2, <3>5, <2>3
      <4> QED
        BY <4>1, <3>1, <3>2, <2>4
    <3> QED
      BY <3>3, <3>4, <3>5, <2>3
  <2>14. \A i \in 1 .. Len(userChannels) : \A c \in userChannels[i].channels :
           /\ c \in channels
           /\ \/ Contains(channelUsers[c].users, userChannels[i].owner)
              \/ Contains(channelUsers[c].users, Freed)
           /\ \/ Contains(channelUsers[c].users, Freed)
              \/ \A j \in 1 .. i - 1 : userChannels[j].owner # userChannels[i].owner
    BY DEF SessionInv, TrackedSoundly
  <2>15. TrackedSoundly'
    <3> SUFFICES ASSUME NEW k \in 1 .. Len(userChannels'),
                        NEW c \in userChannels'[k].channels
                 PROVE  /\ c \in channels'
                        /\ \/ Contains(channelUsers'[c].users, userChannels'[k].owner)
                           \/ Contains(channelUsers'[c].users, Freed)
                        /\ \/ Contains(channelUsers'[c].users, Freed)
                           \/ \A j \in 1 .. k - 1 :
                                userChannels'[j].owner # userChannels'[k].owner
      BY DEF TrackedSoundly
    <3> DEFINE i == IF k < e THEN k ELSE k + 1
               owner == userChannels[i].owner
               list == channelUsers[c].users
    <3>1. /\ i \in 1 .. Len(userChannels) /\ i # e
          /\ k \in 1 .. Len(userChannels) - 1
      BY <2>3, <2>4
    <3>2. /\ c \in userChannels[i].channels
          /\ \/ userChannels'[k].owner = owner
             \/ owner = n /\ userChannels'[k].owner = Freed
      BY <3>1, <2>4
    <3>3. /\ c \in channels
          /\ Contains(list, owner) \/ Contains(list, Freed)
          /\ Contains(list, Freed) \/ \A j \in 1 .. i - 1 : userChannels[j].owner # owner
      BY <3>1, <3>2, <2>14
    <3>4. list \in Seq(Pointers) /\ channelUsers[c].count = Len(list)
      BY <3>3 DEF SessionInv, SessionTypeOK, ChannelListsAreSound
    <3>5. owner = n => Contains(list, Freed)
      <4> SUFFICES ASSUME owner = n, \A j \in 1 .. i - 1 : userChannels[j].owner # owner
                   PROVE  FALSE
        BY <3>3
      <4>1. CASE i < e
        <5>1. i \in 1 .. e - 1
          BY <4>1, <3>1, <2>3
        <5> QED
          BY <5>1, <2>3
      <4>2. CASE e < i
        <5>1. e \in 1 .. i - 1
          BY <4>2, <3>1, <2>3
        <5> QED
          BY <5>1, <2>3
      <4> QED
        BY <4>1, <4>2, <3>1, <2>3
    <3> HIDE DEF i, owner, list
    <3>6. c \notin gone
      <4> SUFFICES ASSUME c \in left, Len(list) = 1
                   PROVE  FALSE
        BY <3>4 DEF gone, Emptied
      <4>1. Contains(list, n)
        BY <2>5 DEF list
      <4>2. \A x : Contains(list, x) => x = n
        BY <4>1, <3>4 DEF Contains
      <4> QED
        BY <4>2, <3>3, <3>5, <2>2
    <3>7. c \in channels'
      BY <3>3, <3>6, <2>1
    <3>8. CASE Contains(list, Freed)
      <4>1. Contains(channelUsers'[c].users, Freed)
        BY <3>7, <3>8, <2>2, <2>7 DEF list
      <4> QED
        BY <3>7, <4>1
    <3>9. CASE ~Contains(list, Freed)
      <4>1. owner # n /\ Contains(list, owner) /\ owner # Freed
        BY <3>3, <3>5, <3>9
      <4>2. userChannels'[k].owner = owner
        BY <4>1, <3>2
      <4>3. Contains(channelUsers'[c].users, owner)
        BY <4>1, <3>7, <2>7 DEF list
      <4>4. ASSUME NEW j \in 1 .. k - 1, userChannels'[j].owner = owner
            PROVE  FALSE
        <5> DEFINE ii == IF j < e THEN j ELSE j + 1
        <5>1. j \in 1 .. Len(userChannels) - 1 /\ ii \in 1 .. i - 1
          BY <3>1, <2>3, <2>4 DEF i
        <5>2. userChannels'[j].owner = userChannels[ii].owner \/ userChannels'[j].owner = Freed
          BY <5>1, <2>4
        <5> QED
          BY <5>1, <5>2, <4>1, <4>4, <3>3, <3>9
      <4> QED
        BY <3>7, <4>2, <4>3, <4>4
    <3> QED
      BY <3>8, <3>9
  <2> QED
    BY <2>9, <2>10, <2>11, <2>12, <2>13, <2>15 DEF SessionInv
<1> QED
  BY <1>1, <1>2

------------------------------------------------------------------------------
(* Handlers that only queue messages *)

LEMMA OutboxKeeps ==
  ASSUME SessionInv, UNCHANGED session, readyUsers' \in Seq(Pointers),
         pendingUsers' \subseteq Nicknames, pendingChannels' \subseteq readyChannels',
         readyChannels' \subseteq channels
  PROVE  SessionInv'
<1> USE DEF session
<1>1. SessionTypeOK'
  BY DEF SessionInv, SessionTypeOK
<1>2. UsersHaveLists'
  BY DEF SessionInv, UsersHaveLists, EntriesOf
<1>3. ChannelListsAreSound'
  BY DEF SessionInv, ChannelListsAreSound
<1>4. MembersAreRegistered'
  BY DEF SessionInv, MembersAreRegistered
<1>5. TrackedSoundly'
  BY DEF SessionInv, TrackedSoundly
<1>6. PendingChannelsAreReady'
  BY DEF PendingChannelsAreReady
<1> QED
  BY <1>1, <1>2, <1>3, <1>4, <1>5, <1>6 DEF SessionInv

LEMMA QueuedForUser ==
  ASSUME SessionTypeOK, NEW n \in users, QueueForUser(n)
  PROVE  readyUsers' \in Seq(Pointers) /\ pendingUsers' \subseteq Nicknames
<1>1. n \in Pointers /\ n \in Nicknames
  BY DEF SessionTypeOK, Pointers
<1>2. Listed(readyUsers, n) \in Seq(Pointers)
  BY <1>1, ListedType DEF SessionTypeOK
<1> QED
  BY <1>1, <1>2 DEF QueueForUser, SessionTypeOK

LEMMA ReplyKeeps ==
  ASSUME SessionInv, NEW s \in Slots, Reply(s)
  PROVE  SessionInv'
<1>1. UNCHANGED session /\ UNCHANGED <<readyChannels, pendingChannels>>
  BY DEF Reply
<1>2. readyUsers' \in Seq(Pointers) /\ pendingUsers' \subseteq Nicknames
  <2>1. CASE UNCHANGED <<readyUsers, pendingUsers>>
    BY <2>1 DEF SessionInv, SessionTypeOK
  <2>2. CASE Nickname(s) \in users /\ QueueForUser(Nickname(s))
    BY <2>2, QueuedForUser DEF SessionInv
  <2> QED
    BY <2>1, <2>2 DEF Reply
<1> QED
  BY <1>1, <1>2, OutboxKeeps DEF SessionInv, PendingChannelsAreReady

LEMMA PrivmsgToUserKeeps ==
  ASSUME SessionInv, NEW s \in Slots, NEW recipient \in Nicknames,
         PrivmsgToUser(s, recipient)
  PROVE  SessionInv'
<1>1. CASE UNCHANGED <<session, outbox>>
  BY <1>1, SessionUnchanged
<1>2. CASE ~UNCHANGED <<session, outbox>>
  <2>1. /\ Nickname(s) \in users
        /\ pendingUsers' = pendingUsers \cup {recipient}
        /\ readyUsers' = Listed(readyUsers, Nickname(s))
        /\ UNCHANGED <<session, readyChannels, pendingChannels>>
    BY <1>2, Zenon DEF PrivmsgToUser, Exit, Undefined
  <2>2. Nickname(s) \in Pointers
    BY <2>1 DEF SessionInv, SessionTypeOK, Pointers
  <2>3. readyUsers' \in Seq(Pointers)
    BY <2>1, <2>2, ListedType DEF SessionInv, SessionTypeOK
  <2> QED
    BY <2>1, <2>3, OutboxKeeps DEF SessionInv, SessionTypeOK, PendingChannelsAreReady
<1> QED
  BY <1>1, <1>2

LEMMA PrivmsgToChannelKeeps ==
  ASSUME SessionInv, NEW s \in Slots, NEW c \in Channels, PrivmsgToChannel(s, c)
  PROVE  SessionInv'
<1>1. CASE UNCHANGED <<session, outbox>>
  BY <1>1, SessionUnchanged
<1>2. CASE Reply(s)
  BY <1>2, ReplyKeeps
<1>3. CASE QueueForChannels({c}) /\ c \in channels
           /\ UNCHANGED <<status, clients, session, readyUsers, pendingUsers>>
  <2>1. UNCHANGED session /\ UNCHANGED <<readyUsers, pendingUsers>>
    BY <1>3
  <2> QED
    BY <1>3, <2>1, OutboxKeeps
       DEF QueueForChannels, SessionInv, SessionTypeOK, PendingChannelsAreReady
<1> QED
  BY <1>1, <1>2, <1>3, Zenon DEF PrivmsgToChannel, IfMember, Exit, Undefined

LEMMA SendMessagesKeeps ==
  ASSUME SessionInv, SendMessages
  PROVE  SessionInv'
<1>1. CASE UNCHANGED <<session, outbox>>
  BY <1>1, SessionUnchanged
<1>2. CASE ~UNCHANGED <<session, outbox>>
  <2>1. /\ pendingChannels' = pendingChannels \ readyChannels
        /\ pendingUsers' = pendingUsers \ ToSet(readyUsers)
        /\ readyUsers' = <<>>
        /\ readyChannels' = {}
        /\ UNCHANGED session
    BY <1>2, Zenon DEF SendMessages, Undefined
  <2> QED
    BY <2>1, OutboxKeeps DEF SessionInv, SessionTypeOK, PendingChannelsAreReady
<1> QED
  BY <1>1, <1>2

------------------------------------------------------------------------------
(* Joining and leaving *)

LEMMA ReplacedEntry ==
  ASSUME userChannels \in Seq(Entries), NEW e \in 1 .. Len(userChannels),
         NEW entry \in Entries, userChannels' = [userChannels EXCEPT ![e] = entry]
  PROVE  /\ userChannels' \in Seq(Entries)
         /\ Len(userChannels') = Len(userChannels)
         /\ userChannels'[e] = entry
         /\ \A i \in 1 .. Len(userChannels) : i # e => userChannels'[i] = userChannels[i]
  OBVIOUS

LEMMA TrackingEntry ==
  ASSUME NEW entry \in Entries, NEW c \in Channels
  PROVE  /\ Tracking(entry, c) \in Entries
         /\ Tracking(entry, c).owner = entry.owner
         /\ Tracking(entry, c).channels \subseteq entry.channels \cup {c}
         /\ Untracking(entry, c) \in Entries
         /\ Untracking(entry, c).owner = entry.owner
         /\ Untracking(entry, c).channels = entry.channels \ {c}
<1>1. /\ entry.owner \in Pointers /\ entry.inTable \in BOOLEAN
      /\ entry.channels \in SUBSET Channels /\ entry.count \in Int
  BY DEF Entries
<1>2. /\ entry.count + 1 \in Int /\ entry.count - 1 \in Int
      /\ entry.channels \cup {c} \in SUBSET Channels
      /\ entry.channels \ {c} \in SUBSET Channels
  BY <1>1
<1>3. ASSUME NEW cs \in SUBSET Channels, NEW num \in Int
      PROVE  LET new == [entry EXCEPT !.channels = cs, !.count = num] IN
             new \in Entries /\ new.owner = entry.owner /\ new.channels = cs
  BY DEF Entries
<1>4. /\ Untracking(entry, c) \in Entries
      /\ Untracking(entry, c).owner = entry.owner
      /\ Untracking(entry, c).channels = entry.channels \ {c}
  BY <1>2, <1>3 DEF Untracking
<1>5. /\ Tracking(entry, c) \in Entries
      /\ Tracking(entry, c).owner = entry.owner
      /\ Tracking(entry, c).channels \subseteq entry.channels \cup {c}
  <2>1. CASE entry.count < MaxChannelsPerUser
    BY <2>1, <1>2, <1>3 DEF Tracking
  <2>2. CASE ~(entry.count < MaxChannelsPerUser)
    BY <2>2 DEF Tracking
  <2> QED
    BY <2>1, <2>2
<1> QED
  BY <1>4, <1>5

\* A channel gains a member, or is created with one.
LEMMA AddToChannelKeeps ==
  ASSUME SessionInv, NEW s \in Slots, NEW c \in Channels, Nickname(s) \in users,
         NEW list \in Seq(Pointers), NEW num \in 0 .. MaxUsersPerChannel - 1,
         num = Len(list), c \notin channels => list = <<>>,
         c \in channels => channelUsers[c] = [users |-> list, count |-> num],
         AddToChannel(s, c, [users |-> list, count |-> num])
  PROVE  SessionInv'
<1> DEFINE n == Nickname(s)
           e == EntryOf(n)
<1>1. CASE UNCHANGED <<session, outbox>>
  BY <1>1, SessionUnchanged
<1>2. CASE ~UNCHANGED <<session, outbox>>
  <2>1. /\ FindsEntry(n)
        /\ ~Contains(list, Freed)
        /\ channels' = channels \cup {c}
        /\ channelUsers' = [x \in DOMAIN channelUsers \cup {c} |->
             IF x = c THEN [users |-> Append(list, n), count |-> num + 1]
             ELSE channelUsers[x]]
        /\ userChannels' = [userChannels EXCEPT ![e] = Tracking(@, c)]
        /\ QueueForChannels({c})
        /\ QueueForUser(n)
        /\ UNCHANGED users
    BY <1>2, Zenon DEF AddToChannel, MissingEntry, Exit, Undefined
  <2>2. n \in users /\ n \in Nicknames /\ n \in Pointers
    BY DEF SessionInv, SessionTypeOK, Pointers
  <2>3. userChannels \in Seq(Entries)
    BY DEF SessionInv, SessionTypeOK
  <2>4. /\ e \in 1 .. Len(userChannels) /\ userChannels[e].owner = n
        /\ \A j \in 1 .. e - 1 : userChannels[j].owner # n
    BY <2>1, <2>3, EntryFound DEF FindsEntry
  <2> HIDE DEF n, e
  <2>5. /\ userChannels' \in Seq(Entries)
        /\ Len(userChannels') = Len(userChannels)
        /\ \A i \in 1 .. Len(userChannels) :
             /\ userChannels'[i].owner = userChannels[i].owner
             /\ userChannels'[i].channels \subseteq
                  userChannels[i].channels \cup (IF i = e THEN {c} ELSE {})
    <3>1. userChannels[e] \in Entries
      BY <2>3, <2>4
    <3>2. userChannels' = [userChannels EXCEPT ![e] = Tracking(userChannels[e], c)]
      BY <2>1
    <3> QED
      BY <2>3, <2>4, <3>1, <3>2, TrackingEntry, ReplacedEntry
  <2>6. DOMAIN channelUsers = channels /\ DOMAIN channelUsers' = channels'
    BY <2>1 DEF SessionInv, ChannelListsAreSound
  <2> DEFINE grown == Append(list, n)
  <2>7. /\ channelUsers'[c] = [users |-> grown, count |-> num + 1]
        /\ channelUsers'[c].users = grown /\ channelUsers'[c].count = num + 1
        /\ c \in channels => channelUsers[c].users = list
        /\ \A x \in channels : x # c => channelUsers'[x] = channelUsers[x]
    BY <2>1, <2>6
  <2>8. /\ grown \in Seq(Pointers) /\ Len(grown) = Len(list) + 1
        /\ Contains(grown, n)
        /\ \A y : Contains(list, y) => Contains(grown, y)
        /\ \A y : Contains(grown, y) => y = n \/ Contains(list, y)
    BY <2>2, Appended
  <2> HIDE DEF grown
  <2>9. num + 1 \in 0 .. MaxUsersPerChannel /\ num + 1 = Len(list) + 1 /\ num + 1 > 0
    BY SizesAssumption
  <2>10. SessionTypeOK'
    <3>1. readyUsers' \in Seq(Pointers) /\ pendingUsers' \subseteq Nicknames
      BY <2>1, <2>2, QueuedForUser DEF SessionInv
    <3>2. \A x \in DOMAIN channelUsers' :
            channelUsers'[x] \in [users : Seq(Pointers), count : 0 .. MaxUsersPerChannel]
      <4>1. channelUsers'[c] \in [users : Seq(Pointers), count : 0 .. MaxUsersPerChannel]
        BY <2>7, <2>8, <2>9
      <4>2. \A x \in channels \ {c} :
              channelUsers'[x] \in [users : Seq(Pointers), count : 0 .. MaxUsersPerChannel]
        BY <2>6, <2>7 DEF SessionInv, SessionTypeOK
      <4> QED
        BY <2>1, <2>6, <4>1, <4>2
    <3> QED
      BY <2>1, <2>5, <2>6, <3>1, <3>2 DEF SessionInv, SessionTypeOK, QueueForChannels
  <2>11. UsersHaveLists'
    BY <2>1, <2>3, <2>5 DEF SessionInv, UsersHaveLists, EntriesOf
  <2>12. ChannelListsAreSound'
    BY <2>1, <2>6, <2>7, <2>8, <2>9 DEF SessionInv, ChannelListsAreSound
  <2>13. MembersAreRegistered'
    <3> SUFFICES ASSUME NEW x \in channels', NEW y \in ToSet(channelUsers'[x].users)
                 PROVE  y \in users \cup {Freed}
      BY <2>1 DEF MembersAreRegistered
    <3>1. CASE x # c
      BY <3>1, <2>1, <2>7 DEF SessionInv, MembersAreRegistered
    <3>2. CASE x = c
      <4>1. y = n \/ Contains(list, y)
        BY <3>2, <2>7, <2>8, ContainsToSet
      <4>2. CASE Contains(list, y)
        <5>1. c \in channels
          BY <4>2 DEF Contains
        <5>2. y \in ToSet(channelUsers[c].users)
          BY <5>1, <4>2, <2>7, ContainsToSet
        <5> QED
          BY <5>1, <5>2 DEF SessionInv, MembersAreRegistered
      <4> QED
        BY <4>1, <4>2, <2>2
    <3> QED
      BY <3>1, <3>2
  <2>14. \A i \in 1 .. Len(userChannels) : \A x \in userChannels[i].channels :
           /\ x \in channels
           /\ \/ Contains(channelUsers[x].users, userChannels[i].owner)
              \/ Contains(channelUsers[x].users, Freed)
           /\ \/ Contains(channelUsers[x].users, Freed)
              \/ \A j \in 1 .. i - 1 : userChannels[j].owner # userChannels[i].owner
    BY DEF SessionInv, TrackedSoundly
  <2>15. TrackedSoundly'
    <3> SUFFICES ASSUME NEW i \in 1 .. Len(userChannels'),
                        NEW x \in userChannels'[i].channels
                 PROVE  /\ x \in channels'
                        /\ \/ Contains(channelUsers'[x].users, userChannels'[i].owner)
                           \/ Contains(channelUsers'[x].users, Freed)
                        /\ \/ Contains(channelUsers'[x].users, Freed)
                           \/ \A j \in 1 .. i - 1 :
                                userChannels'[j].owner # userChannels'[i].owner
      BY DEF TrackedSoundly
    <3>1. /\ i \in 1 .. Len(userChannels)
          /\ userChannels'[i].owner = userChannels[i].owner
          /\ \A j \in 1 .. i - 1 : userChannels'[j].owner = userChannels[j].owner
      BY <2>5
    <3>2. CASE i = e /\ x = c
      BY <3>1, <3>2, <2>1, <2>4, <2>7, <2>8
    <3>3. CASE x \in userChannels[i].channels
      <4>1. /\ x \in channels
            /\ \/ Contains(channelUsers[x].users, userChannels[i].owner)
               \/ Contains(channelUsers[x].users, Freed)
            /\ \/ Contains(channelUsers[x].users, Freed)
               \/ \A j \in 1 .. i - 1 : userChannels[j].owner # userChannels[i].owner
        BY <3>1, <3>3, <2>14
      <4>2. \A y : Contains(channelUsers[x].users, y) => Contains(channelUsers'[x].users, y)
        BY <4>1, <2>7, <2>8
      <4> QED
        BY <4>1, <4>2, <3>1, <2>1
    <3> QED
      BY <3>1, <3>2, <3>3, <2>5
  <2>16. PendingChannelsAreReady'
    BY <2>1 DEF SessionInv, PendingChannelsAreReady, QueueForChannels
  <2> QED
    BY <2>10, <2>11, <2>12, <2>13, <2>15, <2>16 DEF SessionInv
<1> QED
  BY <1>1, <1>2

\* A channel loses a member, and goes with its last one.
LEMMA LeaveChannelKeeps ==
  ASSUME SessionInv, NEW s \in Slots, NEW c \in channels, Nickname(s) \in users,
         Contains(channelUsers[c].users, Nickname(s)), LeaveChannel(s, c)
  PROVE  SessionInv'
<1> DEFINE n == Nickname(s)
           e == EntryOf(n)
           list == channelUsers[c].users
           num == channelUsers[c].count
           fewer == RemoveFirst(list, n)
<1>1. CASE UNCHANGED <<session, outbox>>
  BY <1>1, SessionUnchanged
<1>2. CASE ~UNCHANGED <<session, outbox>>
  <2>1. /\ FindsEntry(n)
        /\ userChannels' = [userChannels EXCEPT ![e] = Untracking(@, c)]
        /\ IF Departed(c, n).count = 0
           THEN /\ channels' = channels \ {c}
                /\ channelUsers' = [x \in DOMAIN channelUsers \ {c} |-> channelUsers[x]]
                /\ readyChannels' = readyChannels \ {c}
                /\ pendingChannels' = pendingChannels \ {c}
                /\ QueueForUser(n)
           ELSE /\ channelUsers' = [channelUsers EXCEPT ![c] = Departed(c, n)]
                /\ QueueForChannels({c})
                /\ UNCHANGED <<channels, readyUsers, pendingUsers>>
        /\ UNCHANGED users
    BY <1>2, Zenon DEF LeaveChannel, MissingEntry, Exit, Undefined
  <2>2. n \in users /\ n \in Nicknames /\ n # Freed /\ Contains(list, n)
    BY NamesAssumption DEF SessionInv, SessionTypeOK
  <2>3. userChannels \in Seq(Entries)
    BY DEF SessionInv, SessionTypeOK
  <2>4. /\ e \in 1 .. Len(userChannels) /\ userChannels[e].owner = n
        /\ \A j \in 1 .. e - 1 : userChannels[j].owner # n
    BY <2>1, <2>3, EntryFound DEF FindsEntry
  <2>5. /\ userChannels' \in Seq(Entries)
        /\ Len(userChannels') = Len(userChannels)
        /\ \A i \in 1 .. Len(userChannels) :
             /\ userChannels'[i].owner = userChannels[i].owner
             /\ userChannels'[i].channels =
                  userChannels[i].channels \ (IF i = e THEN {c} ELSE {})
    <3> HIDE DEF n, e, list, num, fewer
    <3>1. userChannels[e] \in Entries /\ c \in Channels
      BY <2>3, <2>4 DEF SessionInv, SessionTypeOK
    <3>2. userChannels' = [userChannels EXCEPT ![e] = Untracking(userChannels[e], c)]
      BY <2>1
    <3> QED
      BY <2>3, <2>4, <3>1, <3>2, TrackingEntry, ReplacedEntry
  <2>6. DOMAIN channelUsers = channels
    BY DEF SessionInv, ChannelListsAreSound
  <2>7. /\ list \in Seq(Pointers) /\ num \in 0 .. MaxUsersPerChannel
        /\ num = Len(list) /\ num > 0
    BY <2>6 DEF SessionInv, SessionTypeOK, ChannelListsAreSound
  <2>8. /\ fewer \in Seq(Pointers) /\ Len(fewer) = Len(list) - 1
        /\ \A y : y # n => (Contains(fewer, y) <=> Contains(list, y))
        /\ Contains(fewer, n) => Contains(list, n)
    BY <2>2, <2>7, RemovedFirst
  <2>9. Departed(c, n) = [users |-> fewer, count |-> num - 1]
    BY DEF Departed
  <2>10. \A i \in 1 .. Len(userChannels) : \A x \in userChannels[i].channels :
           /\ x \in channels
           /\ \/ Contains(channelUsers[x].users, userChannels[i].owner)
              \/ Contains(channelUsers[x].users, Freed)
           /\ \/ Contains(channelUsers[x].users, Freed)
              \/ \A j \in 1 .. i - 1 : userChannels[j].owner # userChannels[i].owner
    BY DEF SessionInv, TrackedSoundly
  <2> HIDE DEF n, e, list, num, fewer
  <2>11. num - 1 \in 0 .. MaxUsersPerChannel /\ num - 1 = Len(list) - 1
    BY <2>7, SizesAssumption
  <2>12. ASSUME num - 1 = 0 PROVE Len(list) = 1
    <3>1. \A k \in 0 .. MaxUsersPerChannel : k - 1 = 0 => k = 1
      BY SizesAssumption
    <3> QED
      BY <3>1, <2>7, <2>12, Zenon
  <2>13. UsersHaveLists'
    BY <2>1, <2>3, <2>5 DEF SessionInv, UsersHaveLists, EntriesOf
  <2>14. CASE num - 1 = 0
    <3>1. /\ channels' = channels \ {c}
          /\ channelUsers' = [x \in DOMAIN channelUsers \ {c} |-> channelUsers[x]]
          /\ readyChannels' = readyChannels \ {c}
          /\ pendingChannels' = pendingChannels \ {c}
          /\ QueueForUser(n)
          /\ UNCHANGED users
      BY <2>1, <2>9, <2>14
    <3>2. /\ DOMAIN channelUsers' = channels'
          /\ \A x \in channels' : x \in channels /\ channelUsers'[x] = channelUsers[x]
      BY <3>1, <2>6
    <3>3. readyUsers' \in Seq(Pointers) /\ pendingUsers' \subseteq Nicknames
      BY <3>1, <2>2, QueuedForUser DEF SessionInv
    <3>4. SessionTypeOK'
      BY <3>1, <3>2, <3>3, <2>5, <2>6 DEF SessionInv, SessionTypeOK
    <3>5. ChannelListsAreSound' /\ MembersAreRegistered' /\ PendingChannelsAreReady'
      BY <3>1, <3>2
         DEF SessionInv, ChannelListsAreSound, MembersAreRegistered, PendingChannelsAreReady
    <3>6. TrackedSoundly'
      <4> SUFFICES ASSUME NEW i \in 1 .. Len(userChannels'),
                          NEW x \in userChannels'[i].channels
                   PROVE  /\ x \in channels'
                          /\ \/ Contains(channelUsers'[x].users, userChannels'[i].owner)
                             \/ Contains(channelUsers'[x].users, Freed)
                          /\ \/ Contains(channelUsers'[x].users, Freed)
                             \/ \A j \in 1 .. i - 1 :
                                  userChannels'[j].owner # userChannels'[i].owner
        BY DEF TrackedSoundly
      <4>1. /\ i \in 1 .. Len(userChannels) /\ x \in userChannels[i].channels
            /\ userChannels'[i].owner = userChannels[i].owner
            /\ \A j \in 1 .. i - 1 : userChannels'[j].owner = userChannels[j].owner
            /\ i = e => x # c
        BY <2>5
      <4>2. /\ x \in channels
            /\ \/ Contains(channelUsers[x].users, userChannels[i].owner)
               \/ Contains(channelUsers[x].users, Freed)
            /\ \/ Contains(channelUsers[x].users, Freed)
               \/ \A j \in 1 .. i - 1 : userChannels[j].owner # userChannels[i].owner
        BY <4>1, <2>10
      <4>3. \A y : Contains(list, y) => y = n
        <5>1. Len(list) = 1
          BY <2>12, <2>14, Zenon
        <5>2. \A y : Contains(list, y) <=> y = list[1]
          BY <5>1, <2>7 DEF Contains
        <5> QED
          BY <5>2, <2>2
      <4>4. x # c
        <5> SUFFICES ASSUME x = c PROVE FALSE
          OBVIOUS
        <5>1. ~Contains(list, Freed) /\ userChannels[i].owner = n
          BY <4>2, <4>3, <2>2 DEF list
        <5>2. i # e /\ \A j \in 1 .. i - 1 : userChannels[j].owner # n
          BY <4>1, <4>2, <5>1 DEF list
        <5>3. CASE i < e
          <6>1. i \in 1 .. e - 1
            BY <5>3, <4>1, <2>4
          <6> QED
            BY <6>1, <5>1, <2>4
        <5>4. CASE e < i
          <6>1. e \in 1 .. i - 1
            BY <5>4, <4>1, <2>4
          <6> QED
            BY <6>1, <5>2, <2>4
        <5> QED
          BY <5>2, <5>3, <5>4, <4>1, <2>4
      <4>5. x \in channels' /\ channelUsers'[x] = channelUsers[x]
        BY <4>2, <4>4, <3>1, <3>2
      <4> QED
        BY <4>1, <4>2, <4>5
    <3> QED
      BY <2>13, <3>4, <3>5, <3>6 DEF SessionInv
  <2>15. CASE num - 1 # 0
    <3>1. /\ channelUsers' = [channelUsers EXCEPT ![c] = Departed(c, n)]
          /\ QueueForChannels({c})
          /\ UNCHANGED <<users, channels, readyUsers, pendingUsers>>
      BY <2>1, <2>9, <2>15
    <3>2. /\ DOMAIN channelUsers' = channels
          /\ channelUsers'[c].users = fewer /\ channelUsers'[c].count = num - 1
          /\ channelUsers'[c] = [users |-> fewer, count |-> num - 1]
          /\ \A x \in channels : x # c => channelUsers'[x] = channelUsers[x]
      BY <3>1, <2>6, <2>9
    <3>3. SessionTypeOK'
      <4>1. \A x \in DOMAIN channelUsers' :
              channelUsers'[x] \in [users : Seq(Pointers), count : 0 .. MaxUsersPerChannel]
        <5>1. channelUsers'[c] \in [users : Seq(Pointers), count : 0 .. MaxUsersPerChannel]
          BY <3>2, <2>8, <2>11
        <5>2. \A x \in channels \ {c} :
                channelUsers'[x] \in [users : Seq(Pointers), count : 0 .. MaxUsersPerChannel]
          BY <3>2, <2>6 DEF SessionInv, SessionTypeOK
        <5> QED
          BY <3>2, <5>1, <5>2
      <4> QED
        BY <3>1, <3>2, <4>1, <2>5
           DEF SessionInv, SessionTypeOK, QueueForChannels
    <3>4. ChannelListsAreSound'
      BY <3>1, <3>2, <2>7, <2>8, <2>11, <2>15 DEF SessionInv, ChannelListsAreSound
    <3>5. MembersAreRegistered'
      <4> SUFFICES ASSUME NEW x \in channels, NEW y \in ToSet(channelUsers'[x].users)
                   PROVE  y \in users \cup {Freed}
        BY <3>1 DEF MembersAreRegistered
      <4>1. CASE x # c
        BY <4>1, <3>2 DEF SessionInv, MembersAreRegistered
      <4>2. CASE x = c
        <5>1. Contains(fewer, y)
          BY <4>2, <3>2, <2>8, ContainsToSet
        <5>2. y \in ToSet(channelUsers[c].users)
          BY <5>1, <2>7, <2>8, ContainsToSet DEF list
        <5> QED
          BY <5>2 DEF SessionInv, MembersAreRegistered
      <4> QED
        BY <4>1, <4>2
    <3>6. PendingChannelsAreReady'
      BY <3>1 DEF SessionInv, PendingChannelsAreReady, QueueForChannels
    <3>7. TrackedSoundly'
      <4> SUFFICES ASSUME NEW i \in 1 .. Len(userChannels'),
                          NEW x \in userChannels'[i].channels
                   PROVE  /\ x \in channels'
                          /\ \/ Contains(channelUsers'[x].users, userChannels'[i].owner)
                             \/ Contains(channelUsers'[x].users, Freed)
                          /\ \/ Contains(channelUsers'[x].users, Freed)
                             \/ \A j \in 1 .. i - 1 :
                                  userChannels'[j].owner # userChannels'[i].owner
        BY DEF TrackedSoundly
      <4>1. /\ i \in 1 .. Len(userChannels) /\ x \in userChannels[i].channels
            /\ userChannels'[i].owner = userChannels[i].owner
            /\ \A j \in 1 .. i - 1 : userChannels'[j].owner = userChannels[j].owner
            /\ i = e => x # c
        BY <2>5
      <4>2. /\ x \in channels
            /\ \/ Contains(channelUsers[x].users, userChannels[i].owner)
               \/ Contains(channelUsers[x].users, Freed)
            /\ \/ Contains(channelUsers[x].users, Freed)
               \/ \A j \in 1 .. i - 1 : userChannels[j].owner # userChannels[i].owner
        BY <4>1, <2>10
      <4>3. CASE x # c
        BY <4>1, <4>2, <4>3, <3>1, <3>2
      <4>4. CASE x = c /\ Contains(list, Freed)
        <5>1. Contains(channelUsers'[c].users, Freed)
          BY <4>4, <3>2, <2>2, <2>8
        <5> QED
          BY <5>1, <4>4, <3>1
      <4>5. CASE x = c /\ ~Contains(list, Freed)
        <5>1. /\ Contains(list, userChannels[i].owner) /\ i # e
              /\ \A j \in 1 .. i - 1 : userChannels[j].owner # userChannels[i].owner
          BY <4>1, <4>2, <4>5 DEF list
        <5>2. userChannels[i].owner # n
          <6> SUFFICES ASSUME userChannels[i].owner = n PROVE FALSE
            OBVIOUS
          <6>1. CASE i < e
            <7>1. i \in 1 .. e - 1
              BY <6>1, <4>1, <2>4
            <7> QED
              BY <7>1, <2>4
          <6>2. CASE e < i
            <7>1. e \in 1 .. i - 1
              BY <6>2, <4>1, <2>4
            <7> QED
              BY <7>1, <5>1, <2>4
          <6> QED
            BY <5>1, <6>1, <6>2, <4>1, <2>4
        <5>3. Contains(channelUsers'[c].users, userChannels[i].owner)
          BY <5>1, <5>2, <3>2, <2>8
        <5> QED
          BY <5>1, <5>3, <4>1, <4>5, <3>1
      <4> QED
        BY <4>3, <4>4, <4>5
    <3> QED
      BY <2>13, <3>3, <3>4, <3>5, <3>6, <3>7 DEF SessionInv
  <2> QED
    BY <2>14, <2>15
<1> QED
  BY <1>1, <1>2

------------------------------------------------------------------------------
(* Registering and renaming *)

LEMMA UserRegistersKeeps ==
  ASSUME SessionInv, NEW s \in Slots, Nickname(s) \in Nicknames, UserRegisters(s)
  PROVE  SessionInv'
<1> DEFINE n == Nickname(s)
           added == n \notin users /\ Cardinality(users) < MaxUsers
           entry == [owner |-> n, inTable |-> added, channels |-> {}, count |-> 0]
<1>1. CASE UNCHANGED <<session, outbox>>
  BY <1>1, SessionUnchanged
<1>2. CASE ~UNCHANGED <<session, outbox>>
  <2>1. /\ userChannels' = Append(userChannels, entry)
        /\ UNCHANGED <<channels, channelUsers, readyChannels, pendingChannels>>
        /\ IF n \in users \/ added THEN QueueForUser(n) ELSE UNCHANGED <<readyUsers, pendingUsers>>
        /\ users' = IF added THEN users \cup {n} ELSE users
    BY <1>2, Zenon DEF UserRegisters, Undefined
  <2>2. entry \in Entries /\ entry.owner = n /\ entry.channels = {}
    <3>1. added \in BOOLEAN
      OBVIOUS
    <3> HIDE DEF added
    <3> QED
      BY <3>1 DEF Entries, Pointers
  <2>3. userChannels \in Seq(Entries)
    BY DEF SessionInv, SessionTypeOK
  <2> HIDE DEF entry, added
  <2>4. n \in Nicknames /\ n \in Pointers
    BY DEF Pointers
  <2> HIDE DEF n
  <2>5. /\ userChannels' \in Seq(Entries)
        /\ Len(userChannels') = Len(userChannels) + 1
        /\ userChannels'[Len(userChannels) + 1] = entry
        /\ \A i \in 1 .. Len(userChannels) : userChannels'[i] = userChannels[i]
    BY <2>1, <2>2, <2>3
  <2>6. SessionTypeOK'
    <3>1. readyUsers' \in Seq(Pointers) /\ pendingUsers' \subseteq Nicknames
      <4>1. Listed(readyUsers, n) \in Seq(Pointers)
        BY <2>4, ListedType DEF SessionInv, SessionTypeOK
      <4> QED
        BY <4>1, <2>1, <2>4 DEF SessionInv, SessionTypeOK, QueueForUser
    <3> QED
      BY <2>1, <2>4, <2>5, <3>1 DEF SessionInv, SessionTypeOK
  <2>7. UsersHaveLists'
    <3> SUFFICES ASSUME NEW m \in users'
                 PROVE  \E i \in 1 .. Len(userChannels') : userChannels'[i].owner = m
      BY <2>5 DEF UsersHaveLists, EntriesOf
    <3>1. CASE m = n
      <4>1. Len(userChannels) + 1 \in 1 .. Len(userChannels')
        BY <2>3, <2>5
      <4> QED
        BY <3>1, <4>1, <2>2, <2>5
    <3>2. CASE m # n
      <4>1. PICK i \in 1 .. Len(userChannels) : userChannels[i].owner = m
        BY <3>2, <2>1, <2>3 DEF SessionInv, UsersHaveLists, EntriesOf
      <4> QED
        BY <4>1, <2>3, <2>5
    <3> QED
      BY <3>1, <3>2
  <2>8. ChannelListsAreSound' /\ PendingChannelsAreReady'
    BY <2>1 DEF SessionInv, ChannelListsAreSound, PendingChannelsAreReady
  <2>9. MembersAreRegistered'
    BY <2>1 DEF SessionInv, MembersAreRegistered
  <2>10. \A i \in 1 .. Len(userChannels) : \A x \in userChannels[i].channels :
           /\ x \in channels
           /\ \/ Contains(channelUsers[x].users, userChannels[i].owner)
              \/ Contains(channelUsers[x].users, Freed)
           /\ \/ Contains(channelUsers[x].users, Freed)
              \/ \A j \in 1 .. i - 1 : userChannels[j].owner # userChannels[i].owner
    BY DEF SessionInv, TrackedSoundly
  <2>11. TrackedSoundly'
    <3> SUFFICES ASSUME NEW i \in 1 .. Len(userChannels'),
                        NEW x \in userChannels'[i].channels
                 PROVE  /\ x \in channels'
                        /\ \/ Contains(channelUsers'[x].users, userChannels'[i].owner)
                           \/ Contains(channelUsers'[x].users, Freed)
                        /\ \/ Contains(channelUsers'[x].users, Freed)
                           \/ \A j \in 1 .. i - 1 :
                                userChannels'[j].owner # userChannels'[i].owner
      BY DEF TrackedSoundly
    <3>1. i \in 1 .. Len(userChannels)
      <4>1. i # Len(userChannels) + 1
        BY <2>2, <2>5
      <4> QED
        BY <4>1, <2>3, <2>5
    <3>2. /\ userChannels'[i] = userChannels[i]
          /\ \A j \in 1 .. i - 1 : userChannels'[j] = userChannels[j]
      BY <3>1, <2>3, <2>5
    <3> QED
      BY <3>1, <3>2, <2>1, <2>10
  <2> QED
    BY <2>6, <2>7, <2>8, <2>9, <2>11 DEF SessionInv
<1> QED
  BY <1>1, <1>2

\* The new nickname takes over the list of channels; every pointer to the old
\* user dangles.
LEMMA NickChangeKeeps ==
  ASSUME SessionInv, NEW s \in Slots, NEW n \in Nicknames \ users, NickChange(s, n)
  PROVE  SessionInv'
<1> DEFINE old == Nickname(s)
           e == EntryOf(old)
           joined == userChannels[e].channels
           entry == [userChannels[e] EXCEPT !.owner = n, !.inTable = TRUE]
           renamed == [userChannels EXCEPT ![e] = entry]
<1>1. CASE UNCHANGED <<session, outbox>>
  BY <1>1, SessionUnchanged
<1>2. CASE ~UNCHANGED <<session, outbox>>
  <2>1. /\ old \in users /\ EntriesOf(old) # {}
        /\ QueueForChannels(joined)
        /\ users' = (users \ {old}) \cup {n}
        /\ userChannels' = DangleOwners(renamed, old)
        /\ channelUsers' = [c \in DOMAIN channelUsers |->
             [channelUsers[c] EXCEPT !.users = Dangle(@, old)]]
        /\ readyUsers' = Dangle(readyUsers, old)
        /\ pendingUsers' = pendingUsers \ {old}
        /\ UNCHANGED channels
    BY <1>2, Zenon DEF NickChange, Exit, Undefined, RenamedEntry, session
  <2>2. old \in Nicknames /\ old # Freed /\ n # Freed /\ old # n /\ n \in Pointers
    BY <2>1, NamesAssumption DEF SessionInv, SessionTypeOK, Pointers
  <2>3. userChannels \in Seq(Entries)
    BY DEF SessionInv, SessionTypeOK
  <2>4. /\ e \in 1 .. Len(userChannels) /\ userChannels[e].owner = old
        /\ \A j \in 1 .. e - 1 : userChannels[j].owner # old
    BY <2>1, <2>3, EntryFound
  <2>5. /\ userChannels' \in Seq(Entries)
        /\ Len(userChannels') = Len(userChannels)
        /\ userChannels'[e].owner = n
        /\ \A i \in 1 .. Len(userChannels) :
             /\ userChannels'[i].channels = userChannels[i].channels
             /\ i # e => \/ userChannels'[i].owner = userChannels[i].owner
                         \/ userChannels[i].owner = old /\ userChannels'[i].owner = Freed
    <3>1. entry \in Entries /\ entry.owner = n /\ entry.channels = joined
      <4>1. userChannels[e] \in Entries
        BY <2>3, <2>4
      <4> HIDE DEF e
      <4> QED
        BY <4>1, <2>2 DEF Entries
    <3> HIDE DEF entry, e, old
    <3>2. /\ renamed \in Seq(Entries) /\ Len(renamed) = Len(userChannels)
          /\ renamed[e] = entry
          /\ \A i \in 1 .. Len(userChannels) : i # e => renamed[i] = userChannels[i]
      BY <2>3, <2>4, <3>1
    <3> HIDE DEF renamed
    <3>3. /\ userChannels' \in Seq(Entries) /\ Len(userChannels') = Len(renamed)
          /\ \A i \in 1 .. Len(renamed) :
               /\ userChannels'[i].channels = renamed[i].channels
               /\ \/ userChannels'[i].owner = renamed[i].owner
                  \/ renamed[i].owner = old /\ userChannels'[i].owner = Freed
      BY <2>1, <3>2, DangledOwners
    <3> QED
      BY <2>2, <2>4, <3>1, <3>2, <3>3
  <2> HIDE DEF entry, renamed
  <2>6. DOMAIN channelUsers = channels /\ DOMAIN channelUsers' = channels
    BY <2>1 DEF SessionInv, ChannelListsAreSound
  <2>7. ASSUME NEW c \in channels
        PROVE  /\ channelUsers[c].users \in Seq(Pointers)
               /\ channelUsers'[c] \in [users : Seq(Pointers), count : 0 .. MaxUsersPerChannel]
               /\ channelUsers'[c].count = channelUsers[c].count
               /\ Len(channelUsers'[c].users) = Len(channelUsers[c].users)
               /\ \A x : x # old /\ Contains(channelUsers[c].users, x)
                         => Contains(channelUsers'[c].users, x)
               /\ Contains(channelUsers[c].users, old) => Contains(channelUsers'[c].users, Freed)
               /\ \A x : Contains(channelUsers'[c].users, x) =>
                    x = Freed \/ (x # old /\ Contains(channelUsers[c].users, x))
    <3> DEFINE list == channelUsers[c].users
    <3>1. /\ list \in Seq(Pointers) /\ channelUsers[c].count \in 0 .. MaxUsersPerChannel
          /\ channelUsers[c] = [users |-> list, count |-> channelUsers[c].count]
      BY <2>6 DEF SessionInv, SessionTypeOK
    <3>2. channelUsers'[c] = [users |-> Dangle(list, old), count |-> channelUsers[c].count]
      BY <3>1, <2>1, <2>6
    <3>3. Pointers \cup {Freed} = Pointers
      BY DEF Pointers
    <3> HIDE DEF old
    <3>4. /\ Dangle(list, old) \in Seq(Pointers)
          /\ Len(Dangle(list, old)) = Len(list)
          /\ \A x : x # old /\ Contains(list, x) => Contains(Dangle(list, old), x)
          /\ Contains(list, old) => Contains(Dangle(list, old), Freed)
          /\ \A x : Contains(Dangle(list, old), x) => x = Freed \/ (x # old /\ Contains(list, x))
      BY <3>1, <3>3, Dangled
    <3> HIDE DEF list
    <3> QED
      BY <3>1, <3>2, <3>4 DEF list
  <2>8. \A i \in 1 .. Len(userChannels) : \A x \in userChannels[i].channels :
           /\ x \in channels
           /\ \/ Contains(channelUsers[x].users, userChannels[i].owner)
              \/ Contains(channelUsers[x].users, Freed)
           /\ \/ Contains(channelUsers[x].users, Freed)
              \/ \A j \in 1 .. i - 1 : userChannels[j].owner # userChannels[i].owner
    BY DEF SessionInv, TrackedSoundly
  <2> HIDE DEF e, old
  <2>9. joined \subseteq channels
    BY <2>4, <2>8
  <2>10. SessionTypeOK'
    <3>1. readyUsers' \in Seq(Pointers)
      <4>1. Pointers \cup {Freed} = Pointers
        BY DEF Pointers
      <4> QED
        BY <4>1, <2>1, Dangled DEF SessionInv, SessionTypeOK
    <3>2. users' \subseteq Nicknames
      BY <2>1, <2>2 DEF SessionInv, SessionTypeOK
    <3>3. readyChannels' \subseteq Channels /\ pendingChannels' \subseteq Channels
      BY <2>1, <2>9 DEF SessionInv, SessionTypeOK, QueueForChannels
    <3> QED
      BY <2>1, <2>5, <2>6, <2>7, <3>1, <3>2, <3>3 DEF SessionInv, SessionTypeOK
  <2>11. UsersHaveLists'
    <3> SUFFICES ASSUME NEW m \in users'
                 PROVE  \E i \in 1 .. Len(userChannels') : userChannels'[i].owner = m
      BY <2>5 DEF UsersHaveLists, EntriesOf
    <3>1. CASE m = n
      BY <3>1, <2>4, <2>5
    <3>2. CASE m # n
      <4>1. m \in users /\ m # old
        BY <3>2, <2>1
      <4>2. PICK i \in 1 .. Len(userChannels) : userChannels[i].owner = m
        BY <4>1, <2>3 DEF SessionInv, UsersHaveLists, EntriesOf
      <4> QED
        BY <4>1, <4>2, <2>4, <2>5
    <3> QED
      BY <3>1, <3>2
  <2>12. ChannelListsAreSound'
    BY <2>1, <2>6, <2>7 DEF SessionInv, ChannelListsAreSound
  <2>13. PendingChannelsAreReady'
    BY <2>1, <2>9 DEF SessionInv, PendingChannelsAreReady, QueueForChannels
  <2>14. MembersAreRegistered'
    <3> SUFFICES ASSUME NEW c \in channels, NEW x \in ToSet(channelUsers'[c].users)
                 PROVE  x \in users' \cup {Freed}
      BY <2>1 DEF MembersAreRegistered
    <3>1. Contains(channelUsers'[c].users, x)
      BY <2>7, ContainsToSet
    <3>2. x = Freed \/ (x # old /\ x \in ToSet(channelUsers[c].users))
      BY <3>1, <2>7, ContainsToSet
    <3> QED
      BY <3>2, <2>1 DEF SessionInv, MembersAreRegistered
  <2>15. TrackedSoundly'
    <3> SUFFICES ASSUME NEW i \in 1 .. Len(userChannels'),
                        NEW x \in userChannels'[i].channels
                 PROVE  /\ x \in channels'
                        /\ \/ Contains(channelUsers'[x].users, userChannels'[i].owner)
                           \/ Contains(channelUsers'[x].users, Freed)
                        /\ \/ Contains(channelUsers'[x].users, Freed)
                           \/ \A j \in 1 .. i - 1 :
                                userChannels'[j].owner # userChannels'[i].owner
      BY DEF TrackedSoundly
    <3>1. i \in 1 .. Len(userChannels) /\ x \in userChannels[i].channels
      BY <2>5
    <3>2. /\ x \in channels
          /\ \/ Contains(channelUsers[x].users, userChannels[i].owner)
             \/ Contains(channelUsers[x].users, Freed)
          /\ \/ Contains(channelUsers[x].users, Freed)
             \/ \A j \in 1 .. i - 1 : userChannels[j].owner # userChannels[i].owner
      BY <3>1, <2>8
    <3>3. x \in channels'
      BY <3>2, <2>1
    <3>4. CASE Contains(channelUsers[x].users, Freed) \/ Contains(channelUsers[x].users, old)
      <4>1. Contains(channelUsers'[x].users, Freed)
        BY <3>2, <3>4, <2>2, <2>7
      <4> QED
        BY <4>1, <3>3
    <3>5. CASE ~Contains(channelUsers[x].users, Freed) /\ ~Contains(channelUsers[x].users, old)
      <4>1. /\ Contains(channelUsers[x].users, userChannels[i].owner)
            /\ userChannels[i].owner # old /\ userChannels[i].owner # Freed
            /\ i # e
            /\ \A j \in 1 .. i - 1 : userChannels[j].owner # userChannels[i].owner
        BY <3>2, <3>5, <2>4
      <4>2. userChannels[i].owner # n
        <5>1. userChannels[i].owner \in ToSet(channelUsers[x].users)
          BY <4>1, <3>2, <2>7, ContainsToSet
        <5>2. userChannels[i].owner \in users
          BY <5>1, <4>1, <3>2 DEF SessionInv, MembersAreRegistered
        <5> QED
          BY <5>2
      <4>3. userChannels'[i].owner = userChannels[i].owner
        BY <4>1, <3>1, <2>5
      <4>4. Contains(channelUsers'[x].users, userChannels[i].owner)
        BY <4>1, <3>2, <2>7
      <4>5. ASSUME NEW j \in 1 .. i - 1, userChannels'[j].owner = userChannels[i].owner
            PROVE  FALSE
        <5>1. j \in 1 .. Len(userChannels)
          BY <3>1, <2>3
        <5>2. j # e
          BY <4>2, <4>5, <2>5
        <5>3. userChannels'[j].owner = userChannels[j].owner \/ userChannels'[j].owner = Freed
          BY <5>1, <5>2, <2>5
        <5> QED
          BY <5>3, <4>1, <4>5
      <4> QED
        BY <4>3, <4>4, <4>5, <3>3
    <3> QED
      BY <3>4, <3>5
  <2> QED
    BY <2>10, <2>11, <2>12, <2>13, <2>14, <2>15 DEF SessionInv
<1> QED
  BY <1>1, <1>2

------------------------------------------------------------------------------
(* The states of the clients *)

\* What StatesFollowTable says of one step.
TableStep ==
  \A s \in Slots : State(s)' = State(s) \/ <<State(s), State(s)'>> \in Transitions

LEMMA AllowedStates ==
  ASSUME NEW state \in States
  PROVE  /\ Allowed(state, "NICK") => state \in {"CONNECTED"} \cup Registered
         /\ Allowed(state, "USER") => state = "START_REGISTRATION"
         /\ Allowed(state, "JOIN") => state \in Registered
         /\ Allowed(state, "PART") => state = "IN_CHANNEL"
         /\ Allowed(state, "QUIT") => state # "DISCONNECTED"
  BY DEF Allowed, States, Registered

LEMMA ClientsUnchanged ==
  ASSUME ClientsInv, UNCHANGED <<clients, users>>,
         status' \in {"running", "exited", "undefined"}
  PROVE  ClientsInv' /\ TableStep
  BY DEF ClientsInv, ClientsTypeOK, ClientsAreNamed, UsersHaveClients, TableStep,
         State, Nickname

\* Joining and leaving a channel.
LEMMA RegisteredStateKeeps ==
  ASSUME ClientsInv, NEW s \in Slots, State(s) \in Registered, UNCHANGED <<users, status>>,
         NEW state \in Registered, clients' = [clients EXCEPT ![s].state = state],
         State(s) = "REGISTERED" => state = "REGISTERED" \/ state = "IN_CHANNEL"
  PROVE  ClientsInv' /\ TableStep
<1>1. clients \in [Slots -> [state : States, nickname : Nicknames \cup {Empty}]]
  BY DEF ClientsInv, ClientsTypeOK
<1>2. /\ clients' \in [Slots -> [state : States, nickname : Nicknames \cup {Empty}]]
      /\ State(s)' = state
      /\ \A t \in Slots : Nickname(t)' = Nickname(t) /\ (t # s => State(t)' = State(t))
  BY <1>1 DEF State, Nickname, States, Registered
<1>3. TableStep
  BY <1>2 DEF TableStep, Transitions, Registered
<1>4. ClientsTypeOK' /\ ClientsAreNamed' /\ UsersHaveClients'
  BY <1>2 DEF ClientsInv, ClientsTypeOK, ClientsAreNamed, UsersHaveClients
<1> QED
  BY <1>3, <1>4 DEF ClientsInv

LEMMA ConnectKeepsClients ==
  ASSUME ClientsInv, NEW s \in Slots, Connect(s)
  PROVE  ClientsInv' /\ TableStep
<1>1. clients \in [Slots -> [state : States, nickname : Nicknames \cup {Empty}]]
  BY DEF ClientsInv, ClientsTypeOK
<1>2. /\ clients' \in [Slots -> [state : States, nickname : Nicknames \cup {Empty}]]
      /\ State(s) = "DISCONNECTED" /\ State(s)' = "CONNECTED"
      /\ \A t \in Slots : Nickname(t)' = Nickname(t) /\ (t # s => State(t)' = State(t))
      /\ UNCHANGED <<users, status>>
  BY <1>1 DEF Connect, State, Nickname, States, session
<1>3. TableStep
  BY <1>2 DEF TableStep, Transitions
<1>4. ClientsTypeOK' /\ ClientsAreNamed' /\ UsersHaveClients'
  BY <1>2 DEF ClientsInv, ClientsTypeOK, ClientsAreNamed, UsersHaveClients, Registered
<1> QED
  BY <1>3, <1>4 DEF ClientsInv

LEMMA NickFirstKeepsClients ==
  ASSUME ClientsInv, SessionInv, NEW s \in Slots, NEW n \in Nicknames, NickFirst(s, n)
  PROVE  ClientsInv' /\ TableStep
<1>1. clients \in [Slots -> [state : States, nickname : Nicknames \cup {Empty}]]
  BY DEF ClientsInv, ClientsTypeOK
<1>2. State(s) = "CONNECTED"
  BY <1>1, AllowedStates DEF NickFirst, State
<1>3. /\ clients' \in [Slots -> [state : States, nickname : Nicknames \cup {Empty}]]
      /\ State(s)' = "START_REGISTRATION" /\ Nickname(s)' = n
      /\ \A t \in Slots : t # s => Nickname(t)' = Nickname(t) /\ State(t)' = State(t)
      /\ UNCHANGED <<users, status>>
  BY <1>1 DEF NickFirst, State, Nickname, States, session
<1>4. TableStep
  BY <1>2, <1>3 DEF TableStep, Transitions
<1>5. ClientsTypeOK' /\ ClientsAreNamed' /\ UsersHaveClients'
  BY <1>2, <1>3 DEF ClientsInv, ClientsTypeOK, ClientsAreNamed, UsersHaveClients, Registered
<1> QED
  BY <1>4, <1>5 DEF ClientsInv

LEMMA UserRegistersKeepsClients ==
  ASSUME ClientsInv, NEW s \in Slots, UserRegisters(s)
  PROVE  ClientsInv' /\ TableStep
<1>1. CASE status' = "undefined" /\ UNCHANGED <<clients, session, outbox>>
  BY <1>1, ClientsUnchanged DEF session
<1>2. CASE ~(status' = "undefined" /\ UNCHANGED <<clients, session, outbox>>)
  <2>1. clients \in [Slots -> [state : States, nickname : Nicknames \cup {Empty}]]
    BY DEF ClientsInv, ClientsTypeOK
  <2>2. State(s) = "START_REGISTRATION"
    BY <2>1, AllowedStates DEF UserRegisters, State
  <2>3. /\ clients' = [clients EXCEPT ![s].state = "REGISTERED"]
        /\ UNCHANGED status
        /\ users' \subseteq users \cup {Nickname(s)}
    BY <1>2 DEF UserRegisters, Undefined
  <2>4. /\ clients' \in [Slots -> [state : States, nickname : Nicknames \cup {Empty}]]
        /\ State(s)' = "REGISTERED"
        /\ \A t \in Slots : Nickname(t)' = Nickname(t) /\ (t # s => State(t)' = State(t))
    BY <2>1, <2>3 DEF State, Nickname, States
  <2>5. TableStep
    BY <2>2, <2>4 DEF TableStep, Transitions
  <2>6. ClientsTypeOK' /\ ClientsAreNamed' /\ UsersHaveClients'
    BY <2>2, <2>3, <2>4
       DEF ClientsInv, ClientsTypeOK, ClientsAreNamed, UsersHaveClients, Registered
  <2> QED
    BY <2>5, <2>6 DEF ClientsInv
<1> QED
  BY <1>1, <1>2

LEMMA NickChangeKeepsClients ==
  ASSUME ClientsInv, SessionInv, NEW s \in Slots, NEW n \in Nicknames, NickChange(s, n)
  PROVE  ClientsInv' /\ TableStep
<1>1. CASE status' \in {"exited", "undefined"} /\ UNCHANGED <<clients, session, outbox>>
  BY <1>1, ClientsUnchanged DEF session
<1>2. CASE ~(status' \in {"exited", "undefined"} /\ UNCHANGED <<clients, session, outbox>>)
  <2>1. /\ Nickname(s) \in users
        /\ clients' = [clients EXCEPT ![s].nickname = n]
        /\ UNCHANGED status
        /\ EntriesOf(Nickname(s)) # {} => users' = (users \ {Nickname(s)}) \cup {n}
        /\ State(s) \in Registered
    BY <1>2, Zenon DEF NickChange, Exit, Undefined
  <2>2. users' = (users \ {Nickname(s)}) \cup {n}
    BY <2>1 DEF SessionInv, UsersHaveLists
  <2>3. clients \in [Slots -> [state : States, nickname : Nicknames \cup {Empty}]]
    BY DEF ClientsInv, ClientsTypeOK
  <2>4. /\ clients' \in [Slots -> [state : States, nickname : Nicknames \cup {Empty}]]
        /\ Nickname(s)' = n
        /\ \A t \in Slots : State(t)' = State(t) /\ (t # s => Nickname(t)' = Nickname(t))
    BY <2>1, <2>3 DEF State, Nickname
  <2>5. TableStep
    BY <2>4 DEF TableStep
  <2>6. ClientsTypeOK' /\ ClientsAreNamed' /\ UsersHaveClients'
    BY <2>1, <2>2, <2>4
       DEF ClientsInv, ClientsTypeOK, ClientsAreNamed, UsersHaveClients
  <2> QED
    BY <2>5, <2>6 DEF ClientsInv
<1> QED
  BY <1>1, <1>2

\* A client that goes takes its user along.
LEMMA GoneClient ==
  ASSUME ClientsInv, NEW s \in Slots, UNCHANGED status,
         clients' = [clients EXCEPT ![s].state = "DISCONNECTED"],
         users' = users \ {Nickname(s)}
  PROVE  ClientsInv' /\ TableStep
<1>1. clients \in [Slots -> [state : States, nickname : Nicknames \cup {Empty}]]
  BY DEF ClientsInv, ClientsTypeOK
<1>2. /\ clients' \in [Slots -> [state : States, nickname : Nicknames \cup {Empty}]]
      /\ State(s)' = "DISCONNECTED"
      /\ \A t \in Slots : Nickname(t)' = Nickname(t) /\ (t # s => State(t)' = State(t))
  BY <1>1 DEF State, Nickname, States
<1>3. TableStep
  <2>1. \A t \in Slots : State(t) \in States
    BY <1>1 DEF State
  <2> QED
    BY <1>2, <2>1 DEF TableStep, Transitions
<1>4. ClientsTypeOK' /\ ClientsAreNamed' /\ UsersHaveClients'
  BY <1>2 DEF ClientsInv, ClientsTypeOK, ClientsAreNamed, UsersHaveClients, Registered
<1> QED
  BY <1>3, <1>4 DEF ClientsInv

\* What StatesFollowTable and ChannelsOutliveMembers say of one step.
OutliveStep == \A c \in channels \ channels' : Len(channelUsers[c].users) = 1

------------------------------------------------------------------------------
(* One step of the server *)

LEMMA LeavesKeep ==
  ASSUME Inv, NEW s \in Slots, status = "running", Disconnect(s) \/ Quit(s)
  PROVE  Inv' /\ TableStep /\ OutliveStep
<1>1. CASE UNCHANGED <<clients, session, outbox>> /\ status' \in {"exited", "undefined"}
  <2>1. SessionInv'
    BY <1>1, SessionUnchanged DEF Inv
  <2>2. ClientsInv' /\ TableStep
    BY <1>1, ClientsUnchanged DEF Inv, session
  <2> QED
    BY <1>1, <2>1, <2>2 DEF Inv, OutliveStep, session
<1>2. CASE UNCHANGED <<status, session, outbox>> /\ Nickname(s) \notin users /\ RemoveClient(s)
  <2>1. SessionInv'
    BY <1>2, SessionUnchanged DEF Inv
  <2>2. users' = users \ {Nickname(s)}
    BY <1>2 DEF session
  <2>3. ClientsInv' /\ TableStep
    BY <1>2, <2>2, GoneClient DEF Inv, RemoveClient
  <2> QED
    BY <1>2, <2>1, <2>3 DEF Inv, OutliveStep, session
<1>3. CASE /\ Nickname(s) \in users /\ UnregisterUser(Nickname(s)) /\ RemoveClient(s)
           /\ ~(UNCHANGED <<session, outbox>> /\ status' \in {"exited", "undefined"})
  <2>1. SessionInv'
    BY <1>3, UnregisterKeeps DEF Inv
  <2>2. /\ users' = users \ {Nickname(s)}
        /\ UNCHANGED status
        /\ channels' = channels \ Emptied(OwnChannels(Nickname(s)))
    BY <1>3, Zenon
       DEF UnregisterUser, MissingEntry, Exit, Undefined, UsersWithout, OwnChannels
  <2>3. ClientsInv' /\ TableStep
    BY <1>3, <2>2, GoneClient DEF Inv, RemoveClient
  <2>4. OutliveStep
    BY <2>2 DEF OutliveStep, Emptied, Inv, SessionInv, ChannelListsAreSound
  <2> QED
    BY <2>1, <2>3, <2>4 DEF Inv
<1>4. CASE /\ UnregisterUser(Nickname(s)) /\ RemoveClient(s)
           /\ UNCHANGED <<session, outbox>> /\ status' \in {"exited", "undefined"}
  <2>1. UNCHANGED clients
    BY <1>4 DEF RemoveClient
  <2> QED
    BY <1>1, <1>4, <2>1
<1> QED
  BY <1>1, <1>2, <1>3, <1>4, Zenon DEF Disconnect, Quit, Exit

LEMMA RepliesKeep ==
  ASSUME Inv, NEW s \in Slots, Reply(s)
  PROVE  Inv' /\ TableStep /\ OutliveStep
<1>1. SessionInv'
  BY ReplyKeeps DEF Inv
<1>2. status' \in {"running", "exited", "undefined"} /\ UNCHANGED <<clients, session>>
  BY DEF Reply, Inv, ClientsInv, ClientsTypeOK
<1>3. ClientsInv' /\ TableStep
  BY <1>2, ClientsUnchanged DEF Inv, session
<1> QED
  BY <1>1, <1>2, <1>3 DEF Inv, OutliveStep, session

\* Handlers that end the server change nothing else.
LEMMA StopsKeep ==
  ASSUME Inv, Exit \/ Undefined \/ UNCHANGED vars
  PROVE  Inv' /\ TableStep /\ OutliveStep
<1>1. /\ UNCHANGED <<clients, session, outbox>>
      /\ status' \in {"running", "exited", "undefined"}
  BY DEF Exit, Undefined, vars, Inv, ClientsInv, ClientsTypeOK
<1>2. SessionInv'
  BY <1>1, SessionUnchanged DEF Inv
<1>3. ClientsInv' /\ TableStep
  BY <1>1, ClientsUnchanged DEF Inv, session
<1> QED
  BY <1>1, <1>2, <1>3 DEF Inv, OutliveStep, session

LEMMA AddToChannelStep ==
  ASSUME Inv, NEW s \in Slots, NEW c \in Channels, State(s) \in Registered,
         Nickname(s) \in users,
         NEW list \in Seq(Pointers), NEW num \in 0 .. MaxUsersPerChannel - 1,
         num = Len(list), c \notin channels => list = <<>>,
         c \in channels => channelUsers[c] = [users |-> list, count |-> num],
         AddToChannel(s, c, [users |-> list, count |-> num])
  PROVE  Inv' /\ TableStep /\ OutliveStep
<1>1. CASE Exit \/ Undefined
  BY <1>1, StopsKeep
<1>2. CASE ~(Exit \/ Undefined)
  <2>1. SessionInv'
    BY AddToChannelKeeps DEF Inv
  <2>2. /\ clients' = [clients EXCEPT ![s].state = "IN_CHANNEL"]
        /\ UNCHANGED <<status, users>>
        /\ channels' = channels \cup {c}
    BY <1>2, Zenon DEF AddToChannel, MissingEntry
  <2>3. ClientsInv' /\ TableStep
    BY <2>2, RegisteredStateKeeps DEF Inv, Registered
  <2> QED
    BY <2>1, <2>2, <2>3 DEF Inv, OutliveStep
<1> QED
  BY <1>1, <1>2

LEMMA JoinsKeep ==
  ASSUME Inv, NEW s \in Slots, NEW c \in Channels, JoinNew(s, c) \/ JoinExisting(s, c)
  PROVE  Inv' /\ TableStep /\ OutliveStep
<1>1. State(s) \in Registered
  <2>1. State(s) \in States
    BY DEF Inv, ClientsInv, ClientsTypeOK, State
  <2> QED
    BY <2>1, AllowedStates DEF JoinNew, JoinExisting
<1>2. CASE JoinNew(s, c)
  <2>1. CASE Exit
    BY <2>1, StopsKeep
  <2>2. CASE Nickname(s) \in users /\ AddToChannel(s, c, [users |-> <<>>, count |-> 0])
    <3>1. <<>> \in Seq(Pointers) /\ 0 = Len(<<>>) /\ 0 \in 0 .. MaxUsersPerChannel - 1
      BY SizesAssumption
    <3>2. c \notin channels
      BY <1>2 DEF JoinNew
    <3> QED
      BY <1>1, <2>2, <3>1, <3>2, AddToChannelStep
  <2> QED
    BY <1>2, <2>1, <2>2 DEF JoinNew
<1>3. CASE JoinExisting(s, c)
  <2>1. CASE Exit \/ Undefined \/ UNCHANGED vars
    BY <2>1, StopsKeep
  <2>2. CASE Reply(s)
    BY <2>2, RepliesKeep
  <2>3. CASE /\ Nickname(s) \in users /\ c \in channels
             /\ ~IsChannelFull(c) /\ AddToChannel(s, c, channelUsers[c])
    <3> DEFINE list == channelUsers[c].users
               num == channelUsers[c].count
    <3>1. /\ list \in Seq(Pointers) /\ num \in 0 .. MaxUsersPerChannel
          /\ channelUsers[c] = [users |-> list, count |-> num]
          /\ num = Len(list)
      BY <2>3 DEF Inv, SessionInv, SessionTypeOK, ChannelListsAreSound
    <3>2. num # MaxUsersPerChannel
      BY <2>3 DEF IsChannelFull
    <3> HIDE DEF list, num
    <3>3. num \in 0 .. MaxUsersPerChannel - 1
      BY <3>1, <3>2, SizesAssumption
    <3>4. AddToChannel(s, c, [users |-> list, count |-> num])
      BY <2>3, <3>1, Zenon
    <3> QED
      BY <1>1, <2>3, <3>1, <3>3, <3>4, AddToChannelStep
  <2> QED
    BY <1>3, <2>1, <2>2, <2>3, Zenon DEF JoinExisting, IfMember
<1> QED
  BY <1>2, <1>3

LEMMA PartKeeps ==
  ASSUME Inv, NEW s \in Slots, NEW c \in Channels, Part(s, c)
  PROVE  Inv' /\ TableStep /\ OutliveStep
<1>1. CASE Exit \/ Undefined
  BY <1>1, StopsKeep
<1>2. CASE Reply(s)
  BY <1>2, RepliesKeep
<1>3. CASE /\ ~(Exit \/ Undefined)
           /\ Nickname(s) \in users /\ c \in channels
           /\ Contains(channelUsers[c].users, Nickname(s)) /\ LeaveChannel(s, c)
  <2>1. SessionInv'
    BY <1>3, LeaveChannelKeeps DEF Inv
  <2>2. State(s) = "IN_CHANNEL"
    <3>1. State(s) \in States
      BY DEF Inv, ClientsInv, ClientsTypeOK, State
    <3> QED
      BY <3>1, AllowedStates DEF Part
  <2>3. /\ \/ UNCHANGED clients
           \/ \E state \in Registered : clients' = [clients EXCEPT ![s].state = state]
        /\ UNCHANGED <<status, users>>
    BY <1>3, Zenon DEF LeaveChannel, MissingEntry
  <2>4. \/ channels' = channels
        \/ channels' = channels \ {c} /\ Departed(c, Nickname(s)).count = 0
    BY <1>3, Zenon DEF LeaveChannel, MissingEntry
  <2>5. ClientsInv' /\ TableStep
    <3>1. CASE UNCHANGED clients
      BY <3>1, <2>3, ClientsUnchanged DEF Inv, ClientsInv, ClientsTypeOK
    <3>2. CASE \E state \in Registered : clients' = [clients EXCEPT ![s].state = state]
      BY <3>2, <2>2, <2>3, RegisteredStateKeeps DEF Inv, Registered
    <3> QED
      BY <2>3, <3>1, <3>2
  <2>6. OutliveStep
    <3>1. /\ channelUsers[c].count \in 0 .. MaxUsersPerChannel
          /\ channelUsers[c].count = Len(channelUsers[c].users)
      BY <1>3 DEF Inv, SessionInv, SessionTypeOK, ChannelListsAreSound
    <3>2. CASE channels' = channels
      BY <3>2 DEF OutliveStep
    <3>3. CASE channels' = channels \ {c} /\ channelUsers[c].count - 1 = 0
      BY <3>1, <3>3, SizesAssumption DEF OutliveStep
    <3> QED
      BY <2>4, <3>2, <3>3 DEF Departed
  <2> QED
    BY <2>1, <2>5, <2>6 DEF Inv
<1> QED
  BY <1>1, <1>2, <1>3, Zenon DEF Part, IfMember

LEMMA RegistrationsKeep ==
  ASSUME Inv, NEW s \in Slots, NEW n \in Nicknames,
         NickFirst(s, n) \/ NickChange(s, n) \/ UserRegisters(s)
  PROVE  Inv' /\ TableStep /\ OutliveStep
<1>1. CASE NickFirst(s, n)
  <2>1. SessionInv'
    BY <1>1, SessionUnchanged DEF NickFirst, Inv
  <2>2. ClientsInv' /\ TableStep
    BY <1>1, NickFirstKeepsClients DEF Inv
  <2> QED
    BY <1>1, <2>1, <2>2 DEF Inv, OutliveStep, NickFirst, session
<1>2. CASE NickChange(s, n)
  <2>1. SessionInv'
    BY <1>2, NickChangeKeeps DEF NickChange, Inv
  <2>2. ClientsInv' /\ TableStep
    BY <1>2, NickChangeKeepsClients DEF Inv
  <2>3. UNCHANGED channels
    BY <1>2, Zenon DEF NickChange, Exit, Undefined, session
  <2> QED
    BY <2>1, <2>2, <2>3 DEF Inv, OutliveStep
<1>3. CASE UserRegisters(s)
  <2>1. Nickname(s) \in Nicknames
    <3>1. State(s) \in States
      BY DEF Inv, ClientsInv, ClientsTypeOK, State
    <3> QED
      BY <1>3, <3>1, AllowedStates DEF UserRegisters, Inv, ClientsInv, ClientsAreNamed
  <2>2. SessionInv'
    BY <1>3, <2>1, UserRegistersKeeps DEF Inv
  <2>3. ClientsInv' /\ TableStep
    BY <1>3, UserRegistersKeepsClients DEF Inv
  <2>4. UNCHANGED channels
    BY <1>3, Zenon DEF UserRegisters, Undefined, session
  <2> QED
    BY <2>2, <2>3, <2>4 DEF Inv, OutliveStep
<1> QED
  BY <1>1, <1>2, <1>3

LEMMA MessagesKeep ==
  ASSUME Inv, NEW s \in Slots,
         \/ \E c \in Channels : PrivmsgToChannel(s, c)
         \/ \E n \in Nicknames : PrivmsgToUser(s, n)
         \/ SendMessages
  PROVE  Inv' /\ TableStep /\ OutliveStep
<1>1. CASE Exit \/ Undefined
  BY <1>1, StopsKeep
<1>2. CASE Reply(s)
  BY <1>2, RepliesKeep
<1>3. CASE SessionInv' /\ UNCHANGED <<status, clients, session>>
  <2>1. ClientsInv' /\ TableStep
    BY <1>3, ClientsUnchanged DEF Inv, ClientsInv, ClientsTypeOK, session
  <2> QED
    BY <1>3, <2>1 DEF Inv, OutliveStep, session
<1>4. ASSUME NEW c \in Channels, PrivmsgToChannel(s, c)
      PROVE  \/ Exit \/ Undefined \/ Reply(s)
             \/ SessionInv' /\ UNCHANGED <<status, clients, session>>
  <2>1. SessionInv'
    BY <1>4, PrivmsgToChannelKeeps DEF Inv
  <2> QED
    BY <1>4, <2>1, Zenon DEF PrivmsgToChannel, IfMember
<1>5. ASSUME NEW n \in Nicknames, PrivmsgToUser(s, n)
      PROVE  \/ Exit \/ Undefined
             \/ SessionInv' /\ UNCHANGED <<status, clients, session>>
  <2>1. SessionInv'
    BY <1>5, PrivmsgToUserKeeps DEF Inv
  <2> QED
    BY <1>5, <2>1, Zenon DEF PrivmsgToUser
<1>6. ASSUME SendMessages
      PROVE  Undefined \/ (SessionInv' /\ UNCHANGED <<status, clients, session>>)
  <2>1. SessionInv'
    BY <1>6, SendMessagesKeeps DEF Inv
  <2> QED
    BY <1>6, <2>1, Zenon DEF SendMessages
<1> QED
  BY <1>1, <1>2, <1>3, <1>4, <1>5, <1>6

LEMMA InitInv == Init => Inv
<1> SUFFICES ASSUME Init PROVE Inv
  OBVIOUS
<1>1. SessionTypeOK
  BY DEF Init, SessionTypeOK, Entries, Pointers
<1>2. /\ UsersHaveLists /\ ChannelListsAreSound /\ MembersAreRegistered
      /\ TrackedSoundly /\ PendingChannelsAreReady
  BY DEF Init, UsersHaveLists, ChannelListsAreSound, MembersAreRegistered,
         TrackedSoundly, PendingChannelsAreReady
<1>3. ClientsTypeOK
  BY DEF Init, ClientsTypeOK, States
<1>4. ClientsAreNamed /\ UsersHaveClients
  BY DEF Init, ClientsAreNamed, UsersHaveClients, Registered, State
<1> QED
  BY <1>1, <1>2, <1>3, <1>4 DEF Inv, SessionInv, ClientsInv

LEMMA NextInv ==
  ASSUME Inv, [Next]_vars
  PROVE  Inv' /\ [TableStep]_vars /\ [OutliveStep]_vars
<1>1. CASE UNCHANGED vars
  BY <1>1, StopsKeep
<1>2. CASE SendMessages
  <2>1. 0 \in Slots
    BY SizesAssumption DEF Slots
  <2> QED
    BY <1>2, <2>1, MessagesKeep
<1>3. ASSUME NEW s \in Slots, ClientStep(s), status = "running"
      PROVE  Inv' /\ TableStep /\ OutliveStep
  <2>1. CASE Connect(s)
    <3>1. SessionInv'
      BY <2>1, SessionUnchanged DEF Connect, Inv
    <3>2. ClientsInv' /\ TableStep
      BY <2>1, ConnectKeepsClients DEF Inv
    <3> QED
      BY <2>1, <3>1, <3>2 DEF Inv, OutliveStep, Connect, session
  <2>2. CASE Disconnect(s) \/ Quit(s)
    BY <1>3, <2>2, LeavesKeep
  <2>3. CASE \/ \E n \in Nicknames \cup {Empty} : NickRefused(s, n)
             \/ \E c \in Channels \cup {Empty} : JoinRefused(s, c) \/ PartRefused(s, c)
             \/ Answer(s)
    <3>1. Reply(s)
      BY <2>3 DEF NickRefused, JoinRefused, PartRefused, Answer
    <3> QED
      BY <3>1, RepliesKeep
  <2>4. CASE \E n \in Nicknames : NickFirst(s, n) \/ NickChange(s, n)
    BY <2>4, RegistrationsKeep
  <2>5. CASE UserRegisters(s)
    <3>1. \E n : n \in Nicknames
      <4>1. State(s) \in States
        BY DEF Inv, ClientsInv, ClientsTypeOK, State
      <4> QED
        BY <2>5, <4>1, AllowedStates DEF UserRegisters, Inv, ClientsInv, ClientsAreNamed
    <3> QED
      BY <2>5, <3>1, RegistrationsKeep
  <2>6. CASE \E c \in Channels : JoinNew(s, c) \/ JoinExisting(s, c)
    BY <2>6, JoinsKeep
  <2>7. CASE \E c \in Channels : Part(s, c)
    BY <2>7, PartKeeps
  <2>8. CASE \/ \E c \in Channels : PrivmsgToChannel(s, c)
             \/ \E n \in Nicknames : PrivmsgToUser(s, n)
    BY <2>8, MessagesKeep
  <2> QED
    BY <1>3, <2>1, <2>2, <2>3, <2>4, <2>5, <2>6, <2>7, <2>8, Zenon DEF ClientStep
<1> QED
  BY <1>1, <1>2, <1>3 DEF Next

------------------------------------------------------------------------------
(* The two kinds of lists *)

\* What PairingIsKept says of one step.
PairStep ==
  \A c \in channels' :
    \/ c \in channels /\ ~Paired(c)
    \/ Paired(c)'
    \/ MemberRenamed(c)
    \/ JoinedUntracked(c)

LEMMA PairedUsers ==
  ASSUME SessionInv, NEW c \in channels, Paired(c)
  PROVE  /\ channelUsers[c].users \in Seq(Pointers)
         /\ IsInjective(channelUsers[c].users)
         /\ \A m : Contains(channelUsers[c].users, m) =>
              m \in users /\ c \in userChannels[EntryOf(m)].channels
<1>1. channelUsers[c].users \in Seq(Pointers)
  BY DEF SessionInv, SessionTypeOK, ChannelListsAreSound
<1> QED
  BY <1>1, ContainsToSet DEF Paired

\* Paired, of the next state.
LEMMA NowPaired ==
  ASSUME NEW c, NEW list \in Seq(Pointers), channelUsers'[c].users = list, IsInjective(list),
         \A m : Contains(list, m) => m \in users' /\ c \in userChannels'[EntryOf(m)'].channels
  PROVE  Paired(c)'
<1>1. \A m \in ToSet(list) : m \in users' /\ c \in userChannels'[EntryOf(m)'].channels
  BY ContainsToSet
<1> QED
  BY <1>1 DEF Paired

LEMMA NothingPaired ==
  ASSUME UNCHANGED session
  PROVE  PairStep
<1> SUFFICES ASSUME NEW c \in channels', Paired(c)
             PROVE  Paired(c)'
  BY DEF PairStep, session
<1>1. \A m : EntryOf(m)' = EntryOf(m)
  BY DEF EntryOf, EntriesOf, session
<1> QED
  BY <1>1 DEF Paired, session

\* A search of the lists of channels stops at the first one of the user.
LEMMA FirstOf ==
  ASSUME NEW list \in Seq(Entries), NEW m, NEW i \in 1 .. Len(list), list[i].owner = m,
         \A j \in 1 .. i - 1 : list[j].owner # m
  PROVE  Min({k \in DOMAIN list : list[k].owner = m}) = i
<1> DEFINE K == {k \in DOMAIN list : list[k].owner = m}
<1>1. K \in SUBSET Nat /\ i \in K /\ \A k \in K : ~(k < i)
  OBVIOUS
<1> HIDE DEF K
<1>2. Min(K) \in K /\ \A y \in K : Min(K) <= y
  BY <1>1, LeastIndex
<1>3. Min(K) <= i /\ ~(Min(K) < i) /\ Min(K) \in Nat /\ i \in Nat
  BY <1>1, <1>2
<1> QED
  BY <1>3 DEF K

LEMMA EntryNow ==
  ASSUME userChannels' \in Seq(Entries), NEW m, NEW i \in 1 .. Len(userChannels'),
         userChannels'[i].owner = m, \A j \in 1 .. i - 1 : userChannels'[j].owner # m
  PROVE  EntryOf(m)' = i
<1>1. Min({k \in DOMAIN userChannels' : userChannels'[k].owner = m}) = i
  BY FirstOf
<1> QED
  BY <1>1 DEF EntryOf, EntriesOf

\* As long as nobody else's list comes under the user's nickname ahead of it,
\* the user's list stays the one that is found.
LEMMA SameEntry ==
  ASSUME userChannels \in Seq(Entries), userChannels' \in Seq(Entries),
         Len(userChannels) <= Len(userChannels'), NEW m, EntriesOf(m) # {},
         \A i \in 1 .. Len(userChannels) :
           userChannels'[i].owner = m <=> userChannels[i].owner = m
  PROVE  EntryOf(m)' = EntryOf(m) /\ EntryOf(m) \in 1 .. Len(userChannels)
<1> DEFINE e == EntryOf(m)
<1>1. /\ e \in 1 .. Len(userChannels)
      /\ userChannels[e].owner = m
      /\ \A j \in 1 .. e - 1 : userChannels[j].owner # m
  BY EntryFound
<1> HIDE DEF e
<1>2. /\ e \in 1 .. Len(userChannels')
      /\ userChannels'[e].owner = m
      /\ \A j \in 1 .. e - 1 : userChannels'[j].owner # m
  BY <1>1
<1>3. EntryOf(m)' = e
  BY <1>2, EntryNow
<1> QED
  BY <1>1, <1>3 DEF e

\* One pointer to each user stays one pointer to each when a user is taken off
\* the list, which then has none to that user, or a new one is put on.
LEMMA InjectiveLists ==
  ASSUME NEW S, NEW list \in Seq(S), IsInjective(list), NEW x \in S
  PROVE  /\ IsInjective(RemoveFirst(list, x))
         /\ ~Contains(RemoveFirst(list, x), x)
         /\ ~Contains(list, x) => IsInjective(Append(list, x))
         /\ ~Contains(list, x) => Dangle(list, x) = list
<1>1. \A a, b \in 1 .. Len(list) : list[a] = list[b] => a = b
  BY DEF IsInjective
<1>2. ASSUME ~Contains(list, x)
      PROVE  /\ RemoveFirst(list, x) = list
             /\ IsInjective(Append(list, x))
             /\ Dangle(list, x) = list
  <2>1. RemoveFirst(list, x) = list
    BY <1>2, Zenon DEF RemoveFirst, Contains
  <2>2. \A a \in 1 .. Len(list) : list[a] # x
    BY <1>2 DEF Contains
  <2>3. Dangle(list, x) = list
    BY <2>2 DEF Dangle
  <2>4. ASSUME NEW a \in DOMAIN Append(list, x), NEW b \in DOMAIN Append(list, x),
               Append(list, x)[a] = Append(list, x)[b]
        PROVE  a = b
    BY <2>2, <2>4, <1>1
  <2> QED
    BY <2>1, <2>3, <2>4 DEF IsInjective
<1>3. ASSUME Contains(list, x)
      PROVE  IsInjective(RemoveFirst(list, x)) /\ ~Contains(RemoveFirst(list, x), x)
  <2> DEFINE I == {i \in 1 .. Len(list) : list[i] = x}
             k == Min(I)
  <2>1. I # {} /\ I \in SUBSET Nat
    BY <1>3 DEF Contains
  <2>2. k \in I
    BY <2>1, LeastIndex, Zenon
  <2>3. k \in 1 .. Len(list) /\ list[k] = x
    BY <2>2, Zenon
  <2>4. RemoveFirst(list, x) = RemoveAt(list, k)
    BY <1>3, <2>1, Zenon DEF RemoveFirst, SelectInSeq, Contains
  <2> HIDE DEF k, I
  <2> DEFINE rest == RemoveAt(list, k)
  <2>5. /\ rest \in Seq(S) /\ Len(rest) = Len(list) - 1
        /\ \A i \in 1 .. Len(list) - 1 : rest[i] = IF i < k THEN list[i] ELSE list[i + 1]
    BY <2>3, RemovedAt
  <2> HIDE DEF rest
  <2>6. ASSUME NEW a \in DOMAIN rest, NEW b \in DOMAIN rest, rest[a] = rest[b]
        PROVE  a = b
    <3>1. /\ a \in 1 .. Len(list) - 1 /\ b \in 1 .. Len(list) - 1
          /\ list[IF a < k THEN a ELSE a + 1] = list[IF b < k THEN b ELSE b + 1]
      BY <2>5, <2>6
    <3>2. (IF a < k THEN a ELSE a + 1) = (IF b < k THEN b ELSE b + 1)
      BY <3>1, <1>1, <2>3
    <3> QED
      BY <3>1, <3>2, <2>3
  <2>7. ASSUME NEW i \in 1 .. Len(rest), rest[i] = x
        PROVE  FALSE
    <3>1. /\ i \in 1 .. Len(list) - 1
          /\ list[IF i < k THEN i ELSE i + 1] = x
      BY <2>5, <2>7
    <3>2. (IF i < k THEN i ELSE i + 1) = k
      BY <3>1, <1>1, <2>3
    <3> QED
      BY <3>1, <3>2, <2>3
  <2> QED
    BY <2>4, <2>6, <2>7 DEF IsInjective, Contains, rest
<1> QED
  BY <1>2, <1>3

\* Whoever leaves for good is taken out of every channel on its own list, and
\* no pointer of a paired channel is left to dangle.
LEMMA UnregisterPairs ==
  ASSUME SessionInv, NEW n \in users, UnregisterUser(n)
  PROVE  PairStep
<1> DEFINE e == EntryOf(n)
           left == OwnChannels(n)
           gone == Emptied(left)
<1>1. CASE UNCHANGED session
  BY <1>1, NothingPaired
<1>2. CASE ~UNCHANGED session
  <2>1. /\ FindsEntry(n)
        /\ channels' = channels \ gone
        /\ channelUsers' = [c \in DOMAIN channelUsers \ gone |-> Remaining(c, n)]
        /\ userChannels' = EntriesWithout(e, n)
        /\ users' = users \ {n}
    BY <1>2, Zenon
       DEF UnregisterUser, MissingEntry, Exit, Undefined, UsersWithout, OwnChannels, Remaining,
           EntriesWithout
  <2>2. userChannels \in Seq(Entries) /\ n \in Pointers /\ n # Freed
    BY NamesAssumption DEF SessionInv, SessionTypeOK, Pointers
  <2>3. e \in 1 .. Len(userChannels) /\ userChannels[e].owner = n
    BY <2>1, <2>2, EntryFound DEF FindsEntry
  <2> SUFFICES ASSUME NEW c \in channels', c \in channels, Paired(c)
               PROVE  Paired(c)'
    BY <2>1 DEF PairStep
  <2> DEFINE list == channelUsers[c].users
             fewer == IF c \in left THEN RemoveFirst(list, n) ELSE list
  <2>4. /\ list \in Seq(Pointers) /\ IsInjective(list)
        /\ \A m : Contains(list, m) =>
             m \in users /\ c \in userChannels[EntryOf(m)].channels
    BY PairedUsers
  <2>5. /\ fewer \in Seq(Pointers) /\ IsInjective(fewer)
        /\ ~Contains(fewer, n)
        /\ \A m : Contains(fewer, m) => m # n /\ Contains(list, m)
    <3>1. CASE c \in left
      <4>1. /\ RemoveFirst(list, n) \in Seq(Pointers)
            /\ IsInjective(RemoveFirst(list, n)) /\ ~Contains(RemoveFirst(list, n), n)
        BY <2>2, <2>4, InjectiveLists, RemovedFirst
      <4>2. \A m : m # n => (Contains(RemoveFirst(list, n), m) <=> Contains(list, m))
        BY <2>4, RemovedFirst
      <4> QED
        BY <3>1, <4>1, <4>2
    <3>2. CASE c \notin left
      BY <3>2, <2>4 DEF OwnChannels
    <3> QED
      BY <3>1, <3>2
  <2>6. channelUsers'[c].users = fewer
    <3>1. DOMAIN channelUsers = channels /\ c \notin gone
      BY <2>1 DEF SessionInv, ChannelListsAreSound
    <3>2. /\ channelUsers[c] = [users |-> list, count |-> channelUsers[c].count]
          /\ channelUsers'[c] = Remaining(c, n)
      BY <2>1, <3>1 DEF SessionInv, SessionTypeOK
    <3>3. Remaining(c, n).users = Dangle(fewer, n)
      BY <3>2 DEF Remaining, Departed
    <3>4. Dangle(fewer, n) = fewer
      BY <2>2, <2>5, InjectiveLists
    <3> QED
      BY <3>2, <3>3, <3>4
  <2> HIDE DEF fewer, left, gone
  <2>7. ASSUME NEW m, Contains(fewer, m)
        PROVE  m \in users' /\ c \in userChannels'[EntryOf(m)'].channels
    <3> DEFINE i == EntryOf(m)
               k == IF i < e THEN i ELSE i - 1
    <3>1. m # n /\ m \in users /\ m # Freed /\ c \in userChannels[i].channels
      BY <2>4, <2>5, <2>7, NamesAssumption DEF SessionInv, SessionTypeOK
    <3>2. /\ i \in 1 .. Len(userChannels) /\ userChannels[i].owner = m
          /\ \A j \in 1 .. i - 1 : userChannels[j].owner # m
      BY <2>2, <3>1, EntryFound DEF SessionInv, UsersHaveLists
    <3>3. /\ userChannels' \in Seq(Entries)
          /\ Len(userChannels') = Len(userChannels) - 1
          /\ \A j \in 1 .. Len(userChannels) - 1 :
               LET h == IF j < e THEN j ELSE j + 1 IN
               /\ userChannels'[j].channels = userChannels[h].channels
               /\ \/ userChannels'[j].owner = userChannels[h].owner
                  \/ userChannels[h].owner = n /\ userChannels'[j].owner = Freed
      <4> HIDE DEF e
      <4>1. EntriesWithout(e, n) \in Seq(Entries)
        BY <2>2, <2>3, EntriesAfterUnregister
      <4>2. Len(EntriesWithout(e, n)) = Len(userChannels) - 1
        BY <2>2, <2>3, EntriesAfterUnregister
      <4>3. \A j \in 1 .. Len(userChannels) - 1 :
               LET h == IF j < e THEN j ELSE j + 1 IN
               /\ EntriesWithout(e, n)[j].channels = userChannels[h].channels
               /\ \/ EntriesWithout(e, n)[j].owner = userChannels[h].owner
                  \/ userChannels[h].owner = n /\ EntriesWithout(e, n)[j].owner = Freed
        BY <2>2, <2>3, EntriesAfterUnregister
      <4> QED
        BY <2>1, <4>1, <4>2, <4>3
    <3> HIDE DEF e, i
    <3>4. i # e
      BY <2>3, <3>1, <3>2
    <3>5. /\ k \in 1 .. Len(userChannels')
          /\ (IF k < e THEN k ELSE k + 1) = i
      BY <2>3, <3>2, <3>3, <3>4
    <3> HIDE DEF k
    <3>6. /\ userChannels'[k].owner = m
          /\ userChannels'[k].channels = userChannels[i].channels
      BY <3>1, <3>2, <3>3, <3>5
    <3>7. ASSUME NEW j \in 1 .. k - 1
          PROVE  userChannels'[j].owner # m
      <4>1. /\ j \in 1 .. Len(userChannels) - 1
            /\ (IF j < e THEN j ELSE j + 1) \in 1 .. i - 1
        BY <2>3, <3>2, <3>3, <3>5
      <4>2. userChannels[IF j < e THEN j ELSE j + 1].owner # m
        BY <3>2, <4>1
      <4> QED
        BY <3>1, <3>3, <4>1, <4>2
    <3>8. EntryOf(m)' = k
      BY <3>3, <3>5, <3>6, <3>7, EntryNow
    <3> QED
      BY <2>1, <3>1, <3>6, <3>8
  <2> QED
    BY <2>5, <2>6, <2>7, NowPaired
<1> QED
  BY <1>1, <1>2

\* A registration, under a taken nickname or a free one, adds its list at the end.
LEMMA UserRegistersPairs ==
  ASSUME SessionInv, SessionInv', NEW s \in Slots, UserRegisters(s)
  PROVE  PairStep
<1>1. CASE UNCHANGED session
  BY <1>1, NothingPaired
<1>2. CASE ~UNCHANGED session
  <2>1. /\ \E entry : userChannels' = Append(userChannels, entry)
        /\ UNCHANGED <<channels, channelUsers>>
        /\ users \subseteq users'
    BY <1>2 DEF UserRegisters, Undefined
  <2>2. userChannels \in Seq(Entries) /\ userChannels' \in Seq(Entries)
    BY DEF SessionInv, SessionTypeOK
  <2>3. /\ Len(userChannels) <= Len(userChannels')
        /\ \A i \in 1 .. Len(userChannels) : userChannels'[i] = userChannels[i]
    BY <2>1, <2>2
  <2> SUFFICES ASSUME NEW c \in channels, Paired(c)
               PROVE  Paired(c)'
    BY <2>1 DEF PairStep
  <2> DEFINE list == channelUsers[c].users
  <2>4. /\ list \in Seq(Pointers) /\ IsInjective(list)
        /\ \A m : Contains(list, m) =>
             m \in users /\ c \in userChannels[EntryOf(m)].channels
    BY PairedUsers
  <2>5. ASSUME NEW m, Contains(list, m)
        PROVE  m \in users' /\ c \in userChannels'[EntryOf(m)'].channels
    <3>1. m \in users /\ EntriesOf(m) # {}
      BY <2>4, <2>5 DEF SessionInv, UsersHaveLists
    <3>2. EntryOf(m)' = EntryOf(m) /\ EntryOf(m) \in 1 .. Len(userChannels)
      BY <2>2, <2>3, <3>1, SameEntry
    <3> QED
      BY <2>1, <2>3, <2>4, <2>5, <3>1, <3>2
  <2> QED
    BY <2>1, <2>4, <2>5, NowPaired
<1> QED
  BY <1>1, <1>2

\* A change of nickname touches the channels of that user only.
LEMMA NickChangePairs ==
  ASSUME Inv, SessionInv', NEW s \in Slots, NEW n \in Nicknames, NickChange(s, n)
  PROVE  PairStep
<1> DEFINE old == Nickname(s)
           e == EntryOf(old)
<1>1. CASE UNCHANGED session
  BY <1>1, NothingPaired
<1>2. CASE ~UNCHANGED session
  <2>1. /\ old \in users /\ EntriesOf(old) # {} /\ n \notin users
        /\ clients' = [clients EXCEPT ![s].nickname = n]
        /\ users' = (users \ {old}) \cup {n}
        /\ userChannels' = DangleOwners(RenamedEntry(e, n), old)
        /\ channelUsers' = [c \in DOMAIN channelUsers |->
             [channelUsers[c] EXCEPT !.users = Dangle(@, old)]]
        /\ UNCHANGED channels
    BY <1>2, Zenon DEF NickChange, Exit, Undefined
  <2>2. SessionInv /\ userChannels \in Seq(Entries) /\ userChannels' \in Seq(Entries)
    BY DEF Inv, SessionInv, SessionTypeOK
  <2>3. /\ old \in Pointers /\ old # n
        /\ e \in 1 .. Len(userChannels) /\ userChannels[e].owner = old
    BY <2>1, <2>2, EntryFound DEF Inv, SessionInv, SessionTypeOK, Pointers
  <2>4. /\ Len(userChannels') = Len(userChannels)
        /\ \A i \in 1 .. Len(userChannels) :
             /\ userChannels'[i].channels = userChannels[i].channels
             /\ \A m : m \notin {old, n, Freed} =>
                  (userChannels'[i].owner = m <=> userChannels[i].owner = m)
    <3> DEFINE entry == [userChannels[e] EXCEPT !.owner = n, !.inTable = TRUE]
               renamed == [userChannels EXCEPT ![e] = entry]
    <3>1. entry \in Entries /\ entry.owner = n /\ entry.channels = userChannels[e].channels
      <4>1. userChannels[e] \in Entries /\ n \in Pointers
        BY <2>2, <2>3 DEF Pointers
      <4> HIDE DEF e
      <4> QED
        BY <4>1 DEF Entries
    <3>2. RenamedEntry(e, n) = renamed
      BY DEF RenamedEntry
    <3> HIDE DEF entry, e, old
    <3>3. /\ renamed \in Seq(Entries) /\ Len(renamed) = Len(userChannels)
          /\ renamed[e] = entry
          /\ \A i \in 1 .. Len(userChannels) : i # e => renamed[i] = userChannels[i]
      BY <2>2, <2>3, <3>1
    <3> HIDE DEF renamed
    <3>4. /\ Len(userChannels') = Len(renamed)
          /\ \A i \in 1 .. Len(renamed) :
               /\ userChannels'[i].channels = renamed[i].channels
               /\ \/ userChannels'[i].owner = renamed[i].owner
                  \/ renamed[i].owner = old /\ userChannels'[i].owner = Freed
      BY <2>1, <3>2, <3>3, DangledOwners
    <3> QED
      BY <2>3, <3>1, <3>3, <3>4
  <2>5. Nickname(s)' # Nickname(s)
    BY <2>1, <2>3 DEF Nickname, Inv, ClientsInv, ClientsTypeOK
  <2> SUFFICES ASSUME NEW c \in channels, Paired(c), ~MemberRenamed(c)
               PROVE  Paired(c)'
    BY <2>1 DEF PairStep
  <2> DEFINE list == channelUsers[c].users
  <2>6. /\ list \in Seq(Pointers) /\ IsInjective(list)
        /\ \A m : Contains(list, m) =>
             m \in users /\ c \in userChannels[EntryOf(m)].channels
    BY <2>2, PairedUsers
  <2>7. ~Contains(list, old)
    BY <2>5 DEF MemberRenamed
  <2>8. channelUsers'[c].users = list
    <3>1. /\ DOMAIN channelUsers = channels
          /\ channelUsers[c] = [users |-> list, count |-> channelUsers[c].count]
      BY <2>2 DEF SessionInv, SessionTypeOK, ChannelListsAreSound
    <3>2. channelUsers'[c].users = Dangle(list, old)
      BY <2>1, <3>1
    <3> QED
      BY <2>3, <2>6, <2>7, <3>2, InjectiveLists
  <2>9. ASSUME NEW m, Contains(list, m)
        PROVE  m \in users' /\ c \in userChannels'[EntryOf(m)'].channels
    <3>1. /\ m \in users /\ EntriesOf(m) # {} /\ m \notin {old, n, Freed}
          /\ c \in userChannels[EntryOf(m)].channels
      BY <2>1, <2>2, <2>6, <2>7, <2>9, NamesAssumption
         DEF SessionInv, SessionTypeOK, UsersHaveLists
    <3>2. \A i \in 1 .. Len(userChannels) :
            userChannels'[i].owner = m <=> userChannels[i].owner = m
      BY <2>4, <3>1
    <3>3. Len(userChannels) <= Len(userChannels')
      BY <2>2, <2>4
    <3>4. EntryOf(m)' = EntryOf(m) /\ EntryOf(m) \in 1 .. Len(userChannels)
      BY <2>2, <3>1, <3>2, <3>3, SameEntry
    <3> QED
      BY <2>1, <2>4, <3>1, <3>4
  <2> QED
    BY <2>6, <2>8, <2>9, NowPaired
<1> QED
  BY <1>1, <1>2

\* Whoever joins goes on the channel's list and, if there is room on it, the
\* channel on the member's.
LEMMA AddToChannelPairs ==
  ASSUME SessionInv, SessionInv', NEW s \in Slots, NEW c \in Channels, Nickname(s) \in users,
         NEW list \in Seq(Pointers), NEW num \in Nat, c \notin channels => list = <<>>,
         c \in channels => channelUsers[c] = [users |-> list, count |-> num],
         ~Contains(list, Nickname(s)),
         AddToChannel(s, c, [users |-> list, count |-> num])
  PROVE  PairStep
<1>0. PICK n : n = Nickname(s)
  OBVIOUS
<1> DEFINE e == EntryOf(n)
           full == userChannels[e].count >= MaxChannelsPerUser
<1>1. CASE UNCHANGED session
  BY <1>1, NothingPaired
<1>2. CASE ~UNCHANGED session
  <2>1. /\ FindsEntry(n)
        /\ channels' = channels \cup {c}
        /\ channelUsers' = [x \in DOMAIN channelUsers \cup {c} |->
             IF x = c THEN [users |-> Append(list, n), count |-> num + 1]
             ELSE channelUsers[x]]
        /\ userChannels' = [userChannels EXCEPT ![e] = Tracking(@, c)]
        /\ UNCHANGED users
    BY <1>0, <1>2, Zenon DEF AddToChannel, MissingEntry, Exit, Undefined
  <2>2. /\ userChannels \in Seq(Entries) /\ userChannels' \in Seq(Entries)
        /\ DOMAIN channelUsers = channels
        /\ n \in users /\ n \in Pointers
    BY <1>0 DEF SessionInv, SessionTypeOK, ChannelListsAreSound, Pointers
  <2>3. e \in 1 .. Len(userChannels) /\ userChannels[e].owner = n
    BY <2>1, <2>2, EntryFound DEF FindsEntry
  <2> HIDE DEF e
  <2>4. /\ Len(userChannels') = Len(userChannels)
        /\ \A i \in 1 .. Len(userChannels) :
             /\ userChannels'[i].owner = userChannels[i].owner
             /\ userChannels[i].channels \subseteq userChannels'[i].channels
        /\ ~full => c \in userChannels'[e].channels
    <3>1. /\ userChannels[e] \in Entries
          /\ userChannels' = [userChannels EXCEPT ![e] = Tracking(userChannels[e], c)]
      BY <2>1, <2>2, <2>3
    <3>2. /\ userChannels'[e] = Tracking(userChannels[e], c)
          /\ Len(userChannels') = Len(userChannels)
          /\ \A i \in 1 .. Len(userChannels) : i # e => userChannels'[i] = userChannels[i]
      BY <2>2, <2>3, <3>1, TrackingEntry, ReplacedEntry
    <3>3. Tracking(userChannels[e], c).owner = userChannels[e].owner
      BY <3>1, TrackingEntry
    <3>4. /\ userChannels[e].channels \subseteq Tracking(userChannels[e], c).channels
          /\ ~full => c \in Tracking(userChannels[e], c).channels
      <4>1. userChannels[e].count \in Int /\ MaxChannelsPerUser \in Int
        BY <3>1, SizesAssumption DEF Entries
      <4>2. full <=> ~(userChannels[e].count < MaxChannelsPerUser)
        BY <4>1
      <4> HIDE DEF full
      <4> QED
        BY <3>1, <4>2 DEF Tracking, Entries
    <3> QED
      BY <3>2, <3>3, <3>4
  <2>5. ASSUME NEW m, m \in users
        PROVE  /\ EntryOf(m)' = EntryOf(m) /\ EntryOf(m) \in 1 .. Len(userChannels)
               /\ userChannels[EntryOf(m)].channels \subseteq userChannels'[EntryOf(m)].channels
    <3>1. EntriesOf(m) # {}
      BY <2>5 DEF SessionInv, UsersHaveLists
    <3>2. Len(userChannels) <= Len(userChannels')
      BY <2>2, <2>4
    <3>3. EntryOf(m)' = EntryOf(m) /\ EntryOf(m) \in 1 .. Len(userChannels)
      BY <2>2, <2>4, <3>1, <3>2, SameEntry
    <3> QED
      BY <2>4, <3>3
  <2> SUFFICES ASSUME NEW x \in channels', x \in channels => Paired(x), ~JoinedUntracked(x)
               PROVE  Paired(x)'
    BY DEF PairStep
  <2>6. CASE x # c
    <3> DEFINE same == channelUsers[x].users
    <3>1. x \in channels /\ channelUsers'[x].users = same
      BY <2>1, <2>2, <2>6
    <3>2. /\ same \in Seq(Pointers) /\ IsInjective(same)
          /\ \A m : Contains(same, m) =>
               m \in users /\ x \in userChannels[EntryOf(m)].channels
      BY <3>1, PairedUsers
    <3>3. \A m : Contains(same, m) => m \in users' /\ x \in userChannels'[EntryOf(m)'].channels
      BY <2>1, <2>5, <3>2
    <3> HIDE DEF same
    <3> QED
      BY <3>1, <3>2, <3>3, NowPaired
  <2>7. CASE x = c
    <3> DEFINE grown == Append(list, n)
    <3>1. channelUsers'[c].users = grown
      BY <2>1
    <3>2. /\ IsInjective(list)
          /\ \A m : Contains(list, m) =>
               m \in users /\ c \in userChannels[EntryOf(m)].channels
      <4>1. CASE c \in channels
        <5>1. channelUsers[c].users = list
          BY <4>1
        <5> QED
          BY <2>7, <4>1, <5>1, PairedUsers
      <4>2. CASE c \notin channels
        BY <4>2 DEF IsInjective, Contains
      <4> QED
        BY <4>1, <4>2
    <3>3. ~Contains(list, n)
      BY <1>0
    <3>4. /\ grown \in Seq(Pointers) /\ IsInjective(grown) /\ grown[Len(grown)] = n
          /\ \A m : Contains(grown, m) => m = n \/ Contains(list, m)
      <4>1. IsInjective(grown)
        BY <2>2, <3>2, <3>3, InjectiveLists
      <4>2. grown \in Seq(Pointers) /\ \A m : Contains(grown, m) => m = n \/ Contains(list, m)
        BY <2>2, Appended
      <4>3. grown[Len(grown)] = n
        BY <2>2
      <4> QED
        BY <4>1, <4>2, <4>3
    <3> HIDE DEF grown
    <3>5. ~full
      <4>1. n = Last(channelUsers'[c].users)
        BY <3>1, <3>4 DEF Last
      <4>2. c \in channels => ~Contains(channelUsers[c].users, n)
        BY <3>3
      <4> QED
        BY <2>2, <2>7, <4>1, <4>2 DEF JoinedUntracked, e
    <3>6. c \in userChannels'[EntryOf(n)'].channels
      <4>1. EntryOf(n)' = e
        BY <2>2, <2>5 DEF e
      <4> QED
        BY <2>4, <3>5, <4>1
    <3>7. \A m : Contains(grown, m) => m \in users' /\ c \in userChannels'[EntryOf(m)'].channels
      BY <2>1, <2>2, <2>5, <3>2, <3>4, <3>6
    <3> QED
      BY <2>7, <3>1, <3>4, <3>7, NowPaired
  <2> QED
    BY <2>6, <2>7
<1> QED
  BY <1>1, <1>2

\* Whoever leaves a channel is taken off its list, and the channel off the
\* member's.
LEMMA LeaveChannelPairs ==
  ASSUME SessionInv, SessionInv', NEW s \in Slots, NEW c \in channels, Nickname(s) \in users,
         LeaveChannel(s, c)
  PROVE  PairStep
<1> DEFINE n == Nickname(s)
           e == EntryOf(n)
<1>1. CASE UNCHANGED session
  BY <1>1, NothingPaired
<1>2. CASE ~UNCHANGED session
  <2>1. /\ FindsEntry(n)
        /\ userChannels' = [userChannels EXCEPT ![e] = Untracking(@, c)]
        /\ \/ /\ channels' = channels \ {c}
              /\ channelUsers' = [x \in DOMAIN channelUsers \ {c} |-> channelUsers[x]]
           \/ /\ channelUsers' = [channelUsers EXCEPT ![c] = Departed(c, n)]
              /\ UNCHANGED channels
        /\ UNCHANGED users
    BY <1>2, Zenon DEF LeaveChannel, MissingEntry, Exit, Undefined
  <2>2. /\ userChannels \in Seq(Entries) /\ userChannels' \in Seq(Entries)
        /\ DOMAIN channelUsers = channels /\ c \in Channels
        /\ n \in users /\ n \in Pointers
    BY DEF SessionInv, SessionTypeOK, ChannelListsAreSound, Pointers
  <2>3. e \in 1 .. Len(userChannels) /\ userChannels[e].owner = n
    BY <2>1, <2>2, EntryFound DEF FindsEntry
  <2> HIDE DEF n, e
  <2>4. /\ Len(userChannels') = Len(userChannels)
        /\ \A i \in 1 .. Len(userChannels) :
             /\ userChannels'[i].owner = userChannels[i].owner
             /\ userChannels'[i].channels =
                  userChannels[i].channels \ (IF i = e THEN {c} ELSE {})
    <3>1. userChannels[e] \in Entries
      BY <2>2, <2>3
    <3>2. userChannels' = [userChannels EXCEPT ![e] = Untracking(userChannels[e], c)]
      BY <2>1
    <3> QED
      BY <2>2, <2>3, <3>1, <3>2, TrackingEntry, ReplacedEntry
  <2>5. ASSUME NEW m, m \in users
        PROVE  /\ EntryOf(m)' = EntryOf(m) /\ EntryOf(m) \in 1 .. Len(userChannels)
               /\ userChannels[EntryOf(m)].owner = m
    <3>1. EntriesOf(m) # {}
      BY <2>5 DEF SessionInv, UsersHaveLists
    <3>2. Len(userChannels) <= Len(userChannels')
      BY <2>2, <2>4
    <3>3. EntryOf(m)' = EntryOf(m) /\ EntryOf(m) \in 1 .. Len(userChannels)
      BY <2>2, <2>4, <3>1, <3>2, SameEntry
    <3> QED
      BY <2>2, <3>1, <3>3, EntryFound
  <2> SUFFICES ASSUME NEW x \in channels', x \in channels, Paired(x)
               PROVE  Paired(x)'
    BY <2>1 DEF PairStep
  <2> DEFINE list == channelUsers[x].users
             fewer == IF x = c THEN RemoveFirst(list, n) ELSE list
  <2>6. /\ list \in Seq(Pointers) /\ IsInjective(list)
        /\ \A m : Contains(list, m) =>
             m \in users /\ x \in userChannels[EntryOf(m)].channels
    BY PairedUsers
  <2>7. /\ fewer \in Seq(Pointers) /\ IsInjective(fewer)
        /\ \A m : Contains(fewer, m) => Contains(list, m) /\ (x = c => m # n)
    <3>1. /\ RemoveFirst(list, n) \in Seq(Pointers)
          /\ IsInjective(RemoveFirst(list, n)) /\ ~Contains(RemoveFirst(list, n), n)
      BY <2>2, <2>6, InjectiveLists, RemovedFirst
    <3>2. \A m : m # n => (Contains(RemoveFirst(list, n), m) <=> Contains(list, m))
      BY <2>6, RemovedFirst
    <3> QED
      BY <2>6, <3>1, <3>2
  <2>8. channelUsers'[x].users = fewer
    BY <2>1, <2>2 DEF Departed
  <2> HIDE DEF fewer, list
  <2>9. ASSUME NEW m, Contains(fewer, m)
        PROVE  m \in users' /\ x \in userChannels'[EntryOf(m)'].channels
    <3>1. m \in users /\ x \in userChannels[EntryOf(m)].channels /\ (x = c => m # n)
      BY <2>6, <2>7, <2>9
    <3>2. /\ EntryOf(m)' = EntryOf(m) /\ EntryOf(m) \in 1 .. Len(userChannels)
          /\ userChannels[EntryOf(m)].owner = m
      BY <2>5, <3>1
    <3>3. x = c => EntryOf(m) # e
      BY <2>3, <3>1, <3>2
    <3> QED
      BY <2>1, <2>4, <3>1, <3>2, <3>3
  <2> QED
    BY <2>7, <2>8, <2>9, NowPaired
<1> QED
  BY <1>1, <1>2

LEMMA JoinsPair ==
  ASSUME Inv, Inv', NEW s \in Slots, NEW c \in Channels, JoinNew(s, c) \/ JoinExisting(s, c)
  PROVE  PairStep
<1>1. SessionInv /\ SessionInv'
  BY DEF Inv
<1>2. CASE UNCHANGED session
  BY <1>2, NothingPaired
<1>3. CASE /\ c \notin channels /\ Nickname(s) \in users
           /\ AddToChannel(s, c, [users |-> <<>>, count |-> 0])
  <2>1. <<>> \in Seq(Pointers) /\ ~Contains(<<>>, Nickname(s))
    BY DEF Contains
  <2> QED
    BY <1>1, <1>3, <2>1, AddToChannelPairs
<1>4. CASE /\ c \in channels /\ Nickname(s) \in users
           /\ ~Contains(channelUsers[c].users, Nickname(s))
           /\ AddToChannel(s, c, channelUsers[c])
  <2> DEFINE list == channelUsers[c].users
             num == channelUsers[c].count
  <2>1. /\ list \in Seq(Pointers) /\ num \in Nat
        /\ channelUsers[c] = [users |-> list, count |-> num]
    BY <1>1, <1>4 DEF SessionInv, SessionTypeOK, ChannelListsAreSound
  <2>2. ~Contains(list, Nickname(s)) /\ AddToChannel(s, c, [users |-> list, count |-> num])
    BY <1>4, <2>1, Zenon
  <2> HIDE DEF list, num
  <2> QED
    BY <1>1, <1>4, <2>1, <2>2, AddToChannelPairs
<1>5. JoinNew(s, c) => UNCHANGED session \/ (c \notin channels /\ Nickname(s) \in users
                         /\ AddToChannel(s, c, [users |-> <<>>, count |-> 0]))
  BY DEF JoinNew, Exit
<1>6. JoinExisting(s, c) => UNCHANGED session \/ (c \in channels /\ Nickname(s) \in users
                         /\ ~Contains(channelUsers[c].users, Nickname(s))
                         /\ AddToChannel(s, c, channelUsers[c]))
  BY Zenon DEF JoinExisting, IfMember, Exit, Undefined, Reply, vars, session
<1> QED
  BY <1>2, <1>3, <1>4, <1>5, <1>6

LEMMA NextPairs ==
  ASSUME Inv, [Next]_vars
  PROVE  [PairStep]_vars
<1>1. Inv' /\ SessionInv /\ SessionInv'
  <2>1. Inv'
    BY NextInv
  <2> QED
    BY <2>1 DEF Inv
<1>2. CASE UNCHANGED session
  BY <1>2, NothingPaired
<1>3. SendMessages => UNCHANGED session
  BY DEF SendMessages, Undefined, session
<1>4. ASSUME NEW s \in Slots, ClientStep(s)
      PROVE  PairStep
  <2>1. CASE Connect(s)
    BY NothingPaired, <2>1 DEF Connect, session
  <2>2. CASE Disconnect(s) \/ Quit(s)
    <3>1. UNCHANGED session \/ (Nickname(s) \in users /\ UnregisterUser(Nickname(s)))
      BY <2>2 DEF Disconnect, Quit, Exit, session
    <3> QED
      BY <1>1, NothingPaired, <3>1, UnregisterPairs
  <2>3. CASE \/ \E n \in Nicknames \cup {Empty} : NickRefused(s, n)
             \/ \E c \in Channels \cup {Empty} : JoinRefused(s, c) \/ PartRefused(s, c)
             \/ Answer(s)
    BY NothingPaired, <2>3 DEF NickRefused, JoinRefused, PartRefused, Answer, Reply, session
  <2>4. ASSUME NEW n \in Nicknames, NickFirst(s, n) \/ NickChange(s, n)
        PROVE  PairStep
    <3>1. CASE NickFirst(s, n)
      BY NothingPaired, <3>1 DEF NickFirst, session
    <3> QED
      BY <1>1, <2>4, <3>1, NickChangePairs
  <2>5. CASE UserRegisters(s)
    BY <1>1, <2>5, UserRegistersPairs
  <2>6. CASE \E c \in Channels : JoinNew(s, c) \/ JoinExisting(s, c)
    BY <1>1, <2>6, JoinsPair
  <2>7. ASSUME NEW c \in Channels, Part(s, c)
        PROVE  PairStep
    <3>1. UNCHANGED session \/ (c \in channels /\ Nickname(s) \in users /\ LeaveChannel(s, c))
      BY <2>7 DEF Part, IfMember, Exit, Undefined, Reply, session
    <3> QED
      BY <1>1, NothingPaired, <3>1, LeaveChannelPairs
  <2>8. CASE \/ \E c \in Channels : PrivmsgToChannel(s, c)
             \/ \E n \in Nicknames : PrivmsgToUser(s, n)
    <3>1. UNCHANGED session
      BY <2>8 DEF PrivmsgToChannel, PrivmsgToUser, IfMember, Exit, Undefined, Reply, session
    <3> QED
      BY NothingPaired, <3>1
  <2> QED
    BY <1>4, <2>1, <2>2, <2>3, <2>4, <2>5, <2>6, <2>7, <2>8, Zenon DEF ClientStep
<1> QED
  BY <1>2, <1>3, <1>4 DEF Next, vars

------------------------------------------------------------------------------
(* The theorems *)

LEMMA Invariance == Spec => []Inv
<1>1. Inv /\ [Next]_vars => Inv'
  BY NextInv
<1> QED
  BY <1>1, InitInv, PTL DEF Spec

\* The state always has its shape, and no channel ever has more users than the
\* limit, for every limit.
THEOREM TypeCorrect == Spec => []TypeOK
<1>1. Inv => TypeOK
  BY DEF Inv, SessionInv, SessionTypeOK, ClientsInv, ClientsTypeOK, TypeOK, Entries, Pointers
<1> QED
  BY <1>1, Invariance, PTL

\* No nickname outlives its client.
THEOREM NoOrphanedUsers == Spec => []UsersHaveClients
<1>1. Inv => UsersHaveClients
  BY DEF Inv, ClientsInv
<1> QED
  BY <1>1, Invariance, PTL

\* JOIN, PART and QUIT find a registered user's list of channels.
THEOREM ListsFound == Spec => []UsersHaveLists
<1>1. Inv => UsersHaveLists
  BY DEF Inv, SessionInv
<1> QED
  BY <1>1, Invariance, PTL

\* Both structures that hold the users of a channel agree with each other.
THEOREM ChannelsSound == Spec => []ChannelListsAreSound
<1>1. Inv => ChannelListsAreSound
  BY DEF Inv, SessionInv
<1> QED
  BY <1>1, Invariance, PTL

\* The users' own lists name existing channels, and only the first list under a
\* nickname counts.
THEOREM TrackingSound == Spec => [](TrackedChannelsExist /\ TrackedByFirst)
<1>1. Inv => TrackedChannelsExist /\ TrackedByFirst
  <2>1. ASSUME Inv PROVE DOMAIN userChannels = 1 .. Len(userChannels)
    BY <2>1 DEF Inv, SessionInv, SessionTypeOK
  <2> QED
    BY <2>1 DEF Inv, SessionInv, TrackedSoundly, TrackedChannelsExist, TrackedByFirst
<1> QED
  BY <1>1, Invariance, PTL

\* A channel with queued messages is on the ready list, and a channel on the
\* ready list exists.
THEOREM NothingForgotten == Spec => []PendingChannelsAreReady
<1>1. Inv => PendingChannelsAreReady
  BY DEF Inv, SessionInv
<1> QED
  BY <1>1, Invariance, PTL

\* No client's state takes a step that is not in the table of states.
THEOREM TableFollowed == Spec => StatesFollowTable
<1>1. Inv /\ [Next]_vars => [TableStep]_vars
  BY NextInv
<1> QED
  BY <1>1, Invariance, PTL DEF Spec, StatesFollowTable, TableStep

\* No channel is deleted under its other members.
THEOREM NoChannelDropped == Spec => ChannelsOutliveMembers
<1>1. Inv /\ [Next]_vars => [OutliveStep]_vars
  BY NextInv
<1> QED
  BY <1>1, Invariance, PTL DEF Spec, ChannelsOutliveMembers, OutliveStep

\* Only a member's change of nickname and a join with a full list of one's own
\* take the users of a channel and the channels of its users apart: no dangling
\* pointer and no second pointer to a user is left by anything else.
THEOREM PairedLists == Spec => PairingIsKept
<1>1. Inv /\ [Next]_vars => [PairStep]_vars
  BY NextPairs
<1> QED
  BY <1>1, Invariance, PTL DEF Spec, PairingIsKept, PairStep
==============================================================================
