SPECIFICATION Spec
CONSTANTS
  k1 = k1  k2 = k2  k3 = k3  k4 = k4  k5 = k5
  Keys <- MCKeys
  Hash <- MCHash
  Values = {v1, v2}
  None = None
  MaxItems = 3
  Halves = 4
INVARIANTS
  CountersAgree
PROPERTIES
  IsBoundedMap
CHECK_DEADLOCK FALSE
