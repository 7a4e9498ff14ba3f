SPECIFICATION Spec
CONSTANTS
  s1 = s1
  s2 = s2
  Subs <- MCSubs
  WithGeo <- MCWithGeo
  Core = Core
  None = None
  MaxTasks = 2
INVARIANTS
  LaterLoadStands
CHECK_DEADLOCK FALSE
