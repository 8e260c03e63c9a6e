SPECIFICATION Spec
CONSTANTS
  EventCapacity = 20
  MaxMessages = 20
  MaxFd = 2
  MaxWire = 2
  MaxReplies = 1
INVARIANTS
  ServerNeverAhead
  StatesAgree
  RefusedIsFinal
  QuitFirst
PROPERTIES
  LossNoticed
CHECK_DEADLOCK FALSE
