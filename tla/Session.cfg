SPECIFICATION LiveSpec
CONSTANTS
  MaxRetries = 2
  MaxSessions = 2
  MaxEvents = 3
  MaxFaults = 1
INVARIANTS
  KillSwitchHolds
  NothingIsForgotten
PROPERTIES
  NoDeadSession
  TeardownEnds
CHECK_DEADLOCK FALSE
