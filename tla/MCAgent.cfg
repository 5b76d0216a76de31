SPECIFICATION Spec
CONSTANTS
  Clients = {"c1", "c2"}
  Actors = {"a1", "a2"}
  Events <- MCEvents
  AccessProcs = {"p1", "p2"}
PROPERTIES
  CancelledSessionsEnd
  TokenRequestsEnd
  SignalEndsServer
CHECK_DEADLOCK FALSE
