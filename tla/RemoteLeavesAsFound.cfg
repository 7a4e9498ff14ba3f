SPECIFICATION SlowSpec
CONSTANTS
  MaxConns = 3
  MaxSessions = 2
  MaxRuns = 2
  MaxFaults = 2
INVARIANTS
  LeavesAsFound
CHECK_DEADLOCK FALSE
