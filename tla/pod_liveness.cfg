SPECIFICATION FairSpec
CONSTANTS
  Pods = {p1}
  NumContainers = 1
  NumInit = 0
  Images = {"app:1"}
  URLs = {"app", "mirror"}
  Versions = {v1}
  Absent = Absent
  Specs <- OneContainer
  Annotations = {"enabled", "override", "disabled"}
  Mode <- MCMode
  OverrideURL <- MCOverrideURL
  ImageURL <- MCImageURL
  NumWorkers = 1
  MaxChanges = 2
PROPERTIES
  DeletedForgotten
  EnabledReported
  DisabledForgotten
  VerdictCurrent
CHECK_DEADLOCK FALSE
