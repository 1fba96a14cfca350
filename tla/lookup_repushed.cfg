SPECIFICATION Spec
CONSTANTS
  Workers = {w1, w2}
  URLs = {"u", "v"}
  Options <- MCOptions
  Keys <- MCKeys
  HashIndex <- MCHashIndex
  Names = {"1.0", "1.1", "v1.1", "2.0", "latest"}
  Version <- MCVersion
  Images <- MCImages
  Deployments <- TwoVersions
  TagLists <- RepushedTagLists
  SHAs = {"a", "b", "c"}
  Lists = {l1, l2, l3, l4}
  CacheTimeout = 1
  None = None
SYMMETRY Perms
INVARIANT RepushedNotLatest
