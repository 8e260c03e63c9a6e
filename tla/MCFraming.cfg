SPECIFICATION Spec
CONSTANTS
  MaxChars = 6
  PrefixLen = 2
  MaxLines = 3
INVARIANTS
  ReceivedAsSent
  LostOnlyInBursts
  StaleInputIsFirst
PROPERTIES
  MessagesArrive
CHECK_DEADLOCK FALSE
