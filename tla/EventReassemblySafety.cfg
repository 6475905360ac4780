SPECIFICATION Spec
CONSTANTS
  Server = Server
  Everyone = Everyone
  c1 = c1
  c2 = c2
  a = a
  b = b
  Clients = {c1}
  Event = {a, b}
  Sender <- UpSender
  Dest <- UpDest
  Frags <- UpFrags
  Version <- UpVersion
  CountLimit <- Limits
  MaxPending = 1
  TimelyLinks = FALSE
  MaxReassemblies = 2
INVARIANTS
  FinishedMeansReceived
  AtMostOnce
  SlotsAccounted
  NoOrphanReceive
CHECK_DEADLOCK FALSE
