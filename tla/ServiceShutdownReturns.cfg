SPECIFICATION FairSpec
CONSTANTS
  c1 = c1
  c2 = c2
  c3 = c3
  u1 = u1
  u2 = u2
  Conns <- MCConns2
  Users <- MCUsers
  Owner <- MCOwner2
  Sessions = {s1}
  NoConn = NoConn
  NoSession = NoSession
  MaxLeft = 1
PROPERTIES
  ShutdownReturns
