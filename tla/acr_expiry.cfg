SPECIFICATION Spec
CONSTANTS
  Workers = {w1}
  Hosts = {h1}
  Lifetimes = {1}
  None = None
INVARIANT NotReusedAfterExpiry
