\* The claim that a stop is forwarded once, against signals around Popen and inside the handler.
SPECIFICATION Spec
CONSTANTS
  DrainLimit = 3
  TimeLimit = 5
  SpawnLimit = 2
  HandlerLimit = 2
INVARIANTS ForwardedOnce
CHECK_DEADLOCK FALSE
