SPECIFICATION LifecycleSpec
CONSTANTS
  Clients = {c1, c2, c3}
  Servers = {s1, s2, s3}
  Plain = {account, ann}
  Doubled = {pairs}
  Directives = {directive}
  Overlong = {long}
  Account = account
  Levels = {0, 1}
  LogFrequency = 2
  MaxLines = 2
INVARIANTS
  OnlyTailIsLost
  WrittenOnce
PROPERTIES
  SettingsReturn
CONSTRAINT Followed
VIEW View
SYMMETRY Interchangeable
CHECK_DEADLOCK FALSE
