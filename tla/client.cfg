SPECIFICATION Spec
CONSTANTS
  Workers = {w1, w2}
  URLs <- AllURLs
  Dotted <- MCDotted
  HostsOf <- MCHostsOf
  Empty = ""
  None = None
  NumFallback = 3
  MaxFlips = 2
SYMMETRY Perms
INVARIANTS
  TypeOK
  AnswersIfAny
  AskedDirectly
