\* A harness may name a role twice; the other documents are kept small.
SPECIFICATION Spec
CONSTANTS
  None = None
  Place <- PlaceOf
  Images = {"image@sha256:a", "image:tag"}
  Resources <- ResourceChoices
  Pins = {"sha256:a", "sha256:b", "md5:0"}
  Texts = {"daily", "empty", "over512"}
  Secrets <- SecretChoices
  CustomInputs <- CustomChoices
  MaxDeclarations = 0
  CodeUnits <- UnitRanks
  CodePoints <- PointRanks
  Index <- IndexOf
  Scalars = {"0", "-0", "0.00005"}
  Meaning <- MeaningOf
  JsText <- JsOf
  PyText <- PyOf
  SafeIntegers = {"0", "-0"}
  MaxMembers = 2
  MaxDocuments = 0
  Nodes = {n1, n2, n3}
  Root = n1
  MaxChildren = 0
  LocalProfiles <- Chosen
  Reports <- WrongReports
INVARIANT AllRolesHealthy
CHECK_DEADLOCK FALSE
