SPECIFICATION Spec
CONSTANTS
  Loads = {l1, l2}
  MaxTag = 2
  MaxFaults = 2
CONSTRAINT NotTorn
PROPERTIES
  UpToDateIsTrue
CHECK_DEADLOCK FALSE
