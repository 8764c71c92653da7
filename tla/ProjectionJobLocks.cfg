\* The document as previewed; only the two gates differ.
SPECIFICATION Spec
CONSTANTS
  b1 = b1
  b2 = b2
  Bindings = {b1, b2}
  EvidenceResources = {"audit"}
  Packages = {core, evidence}
  CorePackage = core
  EvidencePackage = evidence
  Releases = {1, 2}
  Configurations <- MCConfigurations
  Inputs <- MCInputs
  MaxChanges = 0
INVARIANTS OptionalEvidenceMayStaySeparate
CHECK_DEADLOCK FALSE
