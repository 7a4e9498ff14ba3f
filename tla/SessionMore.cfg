SPECIFICATION LiveSpec
CONSTANTS
  MaxRetries = 2
  MaxSessions = 2
  MaxEvents = 3
  MaxFaults = 1
INVARIANTS
  RestartHitsItsCore
  HealthIsOfThisCore
  OutageIsWaitedOut
PROPERTIES
  RestartsOverNothing
  ConnectEnds
CHECK_DEADLOCK FALSE
