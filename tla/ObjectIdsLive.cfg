CONSTANTS
  c1 = c1
  c2 = c2
  None = None
  Client <- TwoClients
  Kinds <- KeptKinds
  MaxId = 1
  MaxEntity = 1
  MaxPosted = 1
SPECIFICATION FairSpec
PROPERTIES DeletionEnds
CONSTRAINT NotRaced
CHECK_DEADLOCK FALSE
