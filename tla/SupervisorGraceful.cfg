\* The comment on graceful against a stop that arrives after the child ended.
SPECIFICATION Spec
CONSTANTS
  DrainLimit = 3
  TimeLimit = 5
  SpawnLimit = 2
  HandlerLimit = 2
INVARIANTS GracefulMeansHandled
CHECK_DEADLOCK FALSE
