SPECIFICATION FairSpec
CONSTANTS
  Versions = {"v1.28.2", "v1.29.1", "v1.29.1-gke.5", "v1.30.0"}
  Number <- MCNumber
  channel = "stable"
  ValidChannels = {"stable", "latest"}
  None = None
  MaxChanges = 2
INVARIANTS
  TypeOK
  PairsReal
PROPERTY KubeReported
