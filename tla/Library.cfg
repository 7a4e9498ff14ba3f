SPECIFICATION Spec
CONSTANTS
  s1 = s1
  s2 = s2
  Subs <- MCSubs
  WithGeo <- MCWithGeo
  Core = Core
  None = None
  MaxTasks = 2
INVARIANTS
  OpenIsLoaded
  ListIsUsers
  CopiesAreListed
CONSTRAINT NotStrayed
CHECK_DEADLOCK FALSE
