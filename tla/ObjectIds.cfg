CONSTANTS
  c1 = c1
  c2 = c2
  None = None
  Client <- TwoClients
  Kinds <- PlainKinds
  MaxId = 1
  MaxEntity = 2
  MaxPosted = 2
SPECIFICATION Spec
INVARIANTS TypeOK  NoIdLeak CancelsOwnCreation
PROPERTIES NoGhost
CONSTRAINT NotRaced
SYMMETRY Symmetry
CHECK_DEADLOCK FALSE
