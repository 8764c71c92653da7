\* Every pair of changes between preview and start; every call at its limit, drain and lease exactly met.
SPECIFICATION AdmissionSpec
CONSTANTS
  b1 = b1
  b2 = b2
  Bindings = {b1, b2}
  EvidenceResources = {"audit"}
  Packages = {core, evidence}
  CorePackage = core
  EvidencePackage = evidence
  Releases = {1, 2}
  Configurations <- MCConfigurations
  Inputs <- MCInputs
  MaxChanges = 2
  Claim = 2
  Load = 1
  Project = 1
  Target = 2
  Acknowledge = 1
  Complete = 2
  Release = 2
  Lag = 1
  Evidence = 1
  OverheadMs = 2
  Batch = 2
  DrainMs = 28
  LeaseMs = 29
  LeaseMarginMs = 1
  TerminationGraceMs = 30
  GraceReserve = 2
INVARIANTS AtomicGroup GatesAgree DrainsInTime LeaseOutlastsCycle
CHECK_DEADLOCK FALSE
