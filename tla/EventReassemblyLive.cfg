SPECIFICATION FairSpec
CONSTANTS
  Server = Server
  Everyone = Everyone
  c1 = c1
  c2 = c2
  a = a
  b = b
  Clients = {c1}
  Event = {a}
  Sender <- OneSender
  Dest <- OneDest
  Frags <- OneOf3
  Version <- OneV1
  CountLimit <- Limits
  MaxPending = 1
  TimelyLinks = TRUE
  MaxReassemblies = 2
PROPERTY
  SendsEnd
CHECK_DEADLOCK FALSE
