SPECIFICATION Spec
CONSTANTS
  Loads = {l1, l2}
  MaxTag = 2
  MaxFaults = 2
INVARIANTS
  PairIsOfOneInstall
  ReturnsQuiet
PROPERTIES
  NothingIsLost
CONSTRAINT NotTorn
CHECK_DEADLOCK FALSE
