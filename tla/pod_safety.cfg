SPECIFICATION Spec
CONSTANTS
  Pods = {p1}
  NumContainers = 2
  NumInit = 1
  Images = {"app:1", "lib:1"}
  URLs = {"app", "lib", "mirror"}
  Versions = {v1}
  Absent = Absent
  Specs <- TwoContainers
  Annotations = {"enabled", "override", "disabled", "invalid", "panics"}
  Mode <- MCMode
  OverrideURL <- MCOverrideURL
  ImageURL <- MCImageURL
  NumWorkers = 1
  MaxChanges = 2
INVARIANTS
  TypeOK
  SeriesAgree
  Tracked
PROPERTY VerdictKept
CHECK_DEADLOCK FALSE
