SPECIFICATION Spec
CONSTANTS
  Capacity = 4
  ListenFd = 1
  MaxFd = 3
  EventCapacity = 3
  MaxMessages = 2
  MaxBacklog = 1
INVARIANTS
  ClientsHoldOpenSockets
  PollSetSound
  NoSocketForgotten
  ClientsArePolled
PROPERTIES
  ConnectionsAccepted
  SignalStopsServer
CHECK_DEADLOCK FALSE
