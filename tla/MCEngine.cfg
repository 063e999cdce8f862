CONSTANTS
  a1 = a1
  a2 = a2
  Request = {r1, r2}
  Apply = {a1, a2}
  ServiceCount <- StarvingServiceCount
  MaxInstances = 2
  CmdCapacity = 2
  None = none
SPECIFICATION Spec
INVARIANTS
  TypeOK
  ServesUntilReplaced
  PermitsBoundInstances
PROPERTIES
  CommandsResolve
  ShutdownCompletes
CHECK_DEADLOCK FALSE
