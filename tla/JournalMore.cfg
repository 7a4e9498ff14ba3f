SPECIFICATION Spec
CONSTANTS
  Runs = {r1, r2, r3}
  Pids = {p1, p2}
  Procs = {q1}
  NoOne = NoOne
  MaxKernelFaults = 1
  MaxStoreFaults = 1
  MaxBoots = 1
SYMMETRY Symmetry
CONSTRAINT WhileKind
INVARIANTS
  TypeOK
  DeadRecordsGo
CHECK_DEADLOCK FALSE
