SPECIFICATION Spec
CONSTANTS
  Rows = 2
  Multiplier = 3
  MaxLines = 11
INVARIANTS
  SafeUntilFull
  FollowsNewest
  NoticeTellsUnread
CHECK_DEADLOCK FALSE
