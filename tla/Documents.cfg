\* Two jobs, two documents of up to two members, the graphs of three objects, four profiles.
SPECIFICATION Spec
CONSTANTS
  None = None
  Place <- PlaceOf
  Images = {"image@sha256:a", "image:tag"}
  Resources <- ResourceChoices
  Pins = {"sha256:a", "sha256:b", "md5:0"}
  Texts = {"daily", "empty", "over512"}
  Secrets <- SecretChoices
  CustomInputs <- CustomChoices
  MaxDeclarations = 2
  CodeUnits <- UnitRanks
  CodePoints <- PointRanks
  Index <- IndexOf
  Scalars = {"0", "-0", "0.00005"}
  Meaning <- MeaningOf
  JsText <- JsOf
  PyText <- PyOf
  SafeIntegers = {"0", "-0"}
  MaxMembers = 2
  MaxDocuments = 2
  Nodes = {n1, n2, n3}
  Root = n1
  MaxChildren = 2
  LocalProfiles <- Chosen
  Reports <- WrongReports
INVARIANTS FingerprintIsWork TextIsMembers RefusedRightly PassedServes
CHECK_DEADLOCK FALSE
