SPECIFICATION Spec
CONSTANTS
  LastEntry = 5
  Rules <- MCRules
  V6 <- MCV6
  ViaTun <- MCViaTun
  MaxMoves = 2
  MaxFaults = 1
  MaxCrashes = 1
PROPERTIES
  TakesBackOwn
