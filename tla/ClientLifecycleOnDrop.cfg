CONSTANTS
  a1 = a1
  a2 = a2
  b1 = b1
  a = a
  b = b
  Nobody = Nobody
  Conn <- Conns
  MaxConn = 2
  Guid <- Guids2
  GuidOf <- Players
  AuthThread = {"auth"}
  MaxNetId = 2
  MaxSlot = 0
  MaxPeer = 2
SPECIFICATION Spec
INVARIANT OnDropFollowsCreated
SYMMETRY Symmetry
CHECK_DEADLOCK FALSE
