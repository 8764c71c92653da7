\* One host survives, the other may die, be stopped or finish at any step; leases outlast cycles.
SPECIFICATION FairSpec
CONSTANTS
  Keys = {k1}
  MaxVersion = 2
  Hosts = {h1, h2}
  Steady = {h1}
  Overrun = {}
  BatchSize = 1
  PoisonThreshold = 2
  NoHost = NoHost
  NoEvent = NoEvent
  NoExpr = NoExpr
INVARIANT ExclusiveWork
PROPERTIES EventuallySettled StopEndsHost
CHECK_DEADLOCK FALSE
