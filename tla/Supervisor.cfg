\* Signals at every point of supervise; the child may hang for ever, only the supervisor and time are fair.
SPECIFICATION FairSpec
CONSTANTS
  DrainLimit = 3
  TimeLimit = 5
  SpawnLimit = 2
  HandlerLimit = 2
INVARIANTS StopReachesChild KilledOnlyAfterDrain ExitsWithinGrace ZeroMeansSuccess
PROPERTIES StopEnds RunEnds
CHECK_DEADLOCK FALSE
