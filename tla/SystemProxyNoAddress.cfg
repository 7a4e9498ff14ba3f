SPECIFICATION Spec
CONSTANTS
  r1 = r1
  r2 = r2
  r3 = r3
  Runs = {r1, r2, r3}
  Desktops <- MCDesktops
  Found <- MCNoAddress
  Envs <- MCEnvs
  MaxSessions = 2
  MaxFaults = 0
  MaxOthers = 1
SYMMETRY Symmetry
INVARIANT
  UsersComeBack
CHECK_DEADLOCK FALSE
