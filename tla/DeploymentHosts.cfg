\* One specification is planned on two hosts with different collations.
SPECIFICATION Spec
CONSTANTS
  None = None
  Profiles <- EngineProfiles
  Hosts = {"home", "abroad"}
  Home = "home"
  Collation <- TwoHosts
  Authors <- Comparing
  Programs = {}
INVARIANT PlannedAlike
CHECK_DEADLOCK FALSE
