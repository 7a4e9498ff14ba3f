SPECIFICATION Spec
CONSTANTS
  c1 = c1
  c2 = c2
  c3 = c3
  u1 = u1
  u2 = u2
  Conns <- MCConns
  Users <- MCUsers
  Owner <- MCOwner
  Sessions = {s1}
  NoConn = NoConn
  NoSession = NoSession
  MaxLeft = 1
SYMMETRY WindowSymmetry
INVARIANTS
  OwnerHolds
  IInv
