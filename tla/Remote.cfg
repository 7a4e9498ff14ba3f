SPECIFICATION LiveSpec
CONSTANTS
  MaxConns = 3
  MaxSessions = 2
  MaxRuns = 2
  MaxFaults = 2
INVARIANTS
  MenuHoldsNoTun
  OneConnection
PROPERTIES
  SplitLossIsShown
  LeftSessionEnds
CHECK_DEADLOCK FALSE
