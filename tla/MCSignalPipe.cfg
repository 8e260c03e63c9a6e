SPECIFICATION Spec
CONSTANTS
  BufferSize = 20
  PipeSize = 24
  EventCapacity = 4
  MaxSignals = 7
INVARIANTS
  HandledUntilBatches
  OnlyTimersRecur
CHECK_DEADLOCK FALSE
