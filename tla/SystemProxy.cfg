SPECIFICATION Spec
CONSTANTS
  r1 = r1
  r2 = r2
  r3 = r3
  Runs = {r1, r2, r3}
  Desktops <- MCDesktops
  Found <- MCFound
  Envs <- MCEnvs
  MaxSessions = 2
  MaxFaults = 1
  MaxOthers = 1
SYMMETRY Symmetry
INVARIANTS
  OneRunAtWork
  UsersComeBack
  NotLeftOnOurs
  LeftoverIsNotKept
CHECK_DEADLOCK FALSE
