SPECIFICATION FairSystem
CONSTANTS
  Pods = {p1}
  NumContainers = 2
  NumInit = 0
  Images = {"app:1.1"}
  URLs = {"app", "mirror"}
  Versions <- MCVersions
  Absent = Absent
  Specs <- OneOrTwo
  Annotations = {"plain", "override"}
  Mode <- MCMode
  OverrideURL <- MCOverrideURL
  ImageURL <- MCImageURL
  NumWorkers = 1
  MaxChanges = 1
  Options <- MCOptions
  OptionsOf <- MCOptionsOf
  Names = {"1.0", "1.1", "2.0", "3.0"}
  Version <- MCVersion
  Reference <- MCReference
  TagLists <- MCTagLists
  SHAs = {"a", "b", "c", "d"}
  Lists = {l1, l2, l3, l4}
  CacheTimeout = 1
CONSTRAINT Bounded
INVARIANT ReportedOfURL
PROPERTIES
  ImplementsPodController
  Fresh
CHECK_DEADLOCK FALSE
