SPECIFICATION FairSpec
CONSTANTS
  Server = Server
  Everyone = Everyone
  c1 = c1
  c2 = c2
  a = a
  b = b
  Clients = {c1, c2}
  Event = {a}
  Sender <- CastSender
  Dest <- CastDest
  Frags <- OneOf1
  Version <- OneV1
  CountLimit <- Limits
  MaxPending = 1
  TimelyLinks = TRUE
  MaxReassemblies = 2
INVARIANT
  TypeOK
PROPERTY
  ReachesEveryTarget
  ImplementsDelivery
CHECK_DEADLOCK FALSE
