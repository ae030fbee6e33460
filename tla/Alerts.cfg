\* Alerts that cancel one another and expire, on a line of nodes, with a lost
\* connection or a restart.
SPECIFICATION AlertSpec
CONSTANTS
  Node = {"n1", "n2", "n3"}
  Links <- MCLinks
  Alert = {"x", "y", "z"}
  nID <- MCID
  nCancel <- MCCancel
  setCancel <- MCSetCancel
  nExpiration <- MCExpiration
  nRelayUntil <- MCRelayUntil
  Scope <- MCScope
  WellFormed = {"x", "y", "z"}
  MaxInt = 7
  MaxTime = 1
  MaxFaults = 1
CHECK_DEADLOCK FALSE
INVARIANTS CancelledGone
PROPERTIES AlertsSettle
