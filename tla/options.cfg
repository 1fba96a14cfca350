SPECIFICATION Spec
CONSTANTS
  Containers = {"app", "sidecar"}
  Values = {"true", "false", "4", "("}
  Integer <- MCInteger
  Expressions = {"true", "false", "4"}
  Annotations <- MCAnnotations
  Absent = Absent
INVARIANTS
  TypeOK
  OptionsConsistent
  AnnotationsHonoured
CHECK_DEADLOCK FALSE
