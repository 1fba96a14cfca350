SPECIFICATION FairSpec
CONSTANTS
  Pages <- ThreePages
  Digest <- OneDigestEach
  Platforms <- OneList
  PageLimit = 3
  Permits = 2
INVARIANTS
  TypeOK
  EveryTagOnce
  DigestsKept
PROPERTIES
  LookupEnds
  ImplementsPromise
CHECK_DEADLOCK FALSE
