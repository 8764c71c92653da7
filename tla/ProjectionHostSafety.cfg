\* Two hosts, both may die, be stopped, and be paused past their lease.
SPECIFICATION Spec
CONSTANTS
  Keys = {k1}
  MaxVersion = 2
  Hosts = {h1, h2}
  Steady = {}
  Overrun = {h1, h2}
  BatchSize = 2
  PoisonThreshold = 2
  NoHost = NoHost
  NoEvent = NoEvent
  NoExpr = NoExpr
SYMMETRY HostSymmetry
INVARIANTS TypeOK BackedProgress FaithfulRows Converged NoResurrection DrainedSettled
PROPERTIES VersionsImmutable SettledOnce PromiseKept
CHECK_DEADLOCK FALSE
