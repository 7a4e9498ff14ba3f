SPECIFICATION Spec
CONSTANTS
  Runs = {r1, r2, r3}
  Pids = {p1, p2}
  Procs = {q1}
  NoOne = NoOne
  MaxKernelFaults = 0
  MaxStoreFaults = 0
  MaxBoots = 0
PROPERTIES
  HomesStayNamed
CHECK_DEADLOCK FALSE
