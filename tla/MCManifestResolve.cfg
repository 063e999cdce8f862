CONSTANTS
  N = 3
  Service = {s1}
  Missing = missing
SPECIFICATION Spec
INVARIANTS
  TypeOK
  Verdict
  NoInternalError
  TargetAlive
PROPERTIES
  OrderSpec
  Unwinds
CHECK_DEADLOCK FALSE
