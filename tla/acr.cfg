SPECIFICATION FairSpec
CONSTANTS
  Workers = {w1, w2}
  Hosts = {h1, h2}
  Lifetimes = {1, 2}
  None = None
INVARIANTS
  TypeOK
  TokenOfHost
PROPERTY LookupEnds
