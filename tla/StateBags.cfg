CONSTANTS
  p1 = p1
  p2 = p2
  k1 = k1
  v1 = v1
  v2 = v2
  Nil = Nil
  None = None
  Server = Server
  Peer <- TwoPeers
  Key <- OneKey
  Val <- TwoVals
  MaxWrites = 2
  MaxMoves = 4
SPECIFICATION Spec
INVARIANTS TypeOK TargetsAgree
PROPERTIES NeverBack AcceptedOrder
SYMMETRY Symmetry
CHECK_DEADLOCK FALSE
