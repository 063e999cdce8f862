CONSTANTS
  a1 = a1
  a2 = a2
  Request = {r1, r2}
  Apply = {a1, a2}
  ServiceCount <- LightServiceCount
  MaxInstances = 2
  CmdCapacity = 2
  None = none
SPECIFICATION Spec
INVARIANT FailsOnlyWithMain
CHECK_DEADLOCK FALSE
