SPECIFICATION Spec
CONSTANTS
  u1 = u1
  u2 = u2
  c1 = c1
  c2 = c2
  Users = {u1, u2}
  Channels = {c1, c2}
  ServerQueueLen = 1
  UserQueueLen = 3
  ChannelQueueLen = 2
  MaxMessages = 4
INVARIANTS
  SameOrder
  InOrder
  EveryMemberGetsIt
  QueuedIsReady
SYMMETRY Names
CHECK_DEADLOCK FALSE
