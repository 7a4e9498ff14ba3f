SPECIFICATION Spec
CONSTANTS
  MaxRetries = 3
  MaxSessions = 1
  MaxEvents = 3
  MaxFaults = 0
INVARIANT
  SymptomIsRetried
CHECK_DEADLOCK FALSE
