SPECIFICATION Spec
CONSTANTS
  Names = {"", "1.1.0", "v1.1", "1.2.0", "2.0.3", "1.2.0-alpha.1", "1.1.0-beta.1", "2.0.3-rc", "2.0.3.sig"}
  Parse <- MCParse
  Empty = ""
  Signatures = {"2.0.3.sig"}
  Timestamps = {1, 2}
  Lists <- ListsOf3
  Options <- MCOptions
  None = None
INVARIANTS
  TypeOK
  FoundIfAny
  StableWins
  YoungestWins
CHECK_DEADLOCK FALSE
