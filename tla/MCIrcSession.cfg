SPECIFICATION Spec
CONSTANTS
  ann = ann
  bob = bob
  c1 = c1
  c2 = c2
  c3 = c3
  Capacity = 2
  Nicknames = {ann, bob}
  Channels = {c1, c2, c3}
  Empty = Empty
  Freed = Freed
  MaxUsers = 2
  MaxChannels = 2
  MaxUsersPerChannel = 2
  MaxChannelsPerUser = 1
  MaxLists = 2
INVARIANTS
  UsersHaveClients
  UsersHaveLists
  ChannelListsAreSound
  TrackedChannelsExist
PROPERTIES
  PairingIsKept
SYMMETRY Names
CHECK_DEADLOCK FALSE
