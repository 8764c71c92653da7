\* Authors of one or two edits and programs of two engines, on one host.
SPECIFICATION Spec
CONSTANTS
  None = None
  Profiles <- EngineProfiles
  Hosts = {"home"}
  Home = "home"
  Collation <- OneHost
  Authors <- AuthorsOf
  Programs <- EnginePrograms
INVARIANTS PlacementSound PlanFaithful EnginesAdmit DefaultsServe ProvisionedAsJudged OutputsAgree
PROPERTY ProgramsEnd
CHECK_DEADLOCK FALSE
