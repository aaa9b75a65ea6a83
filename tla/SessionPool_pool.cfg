SPECIFICATION Spec
CONSTANTS
  r1 = r1
  r2 = r2
  a = a
  b = b
  Requests <- TwoRequests
  App = App
  Targets <- TwoTargets
  Proxied <- TwoTargets
  SpeaksH2 <- OneTarget
  NumSessions = 3
  PoolSize = 2
  MaxIdle = 1
  MaxEvents = 2
  NoSession = NoSession
  NoRequest = NoRequest
  NoTarget = NoTarget
INVARIANTS
  OneConnectionPerTarget
  ReapedOnce
  CleanupLeavesNothing
CHECK_DEADLOCK FALSE

  
