CONSTANTS
  Slice = 2
  Grace = 3
  ExecTimes <- MCExecTimes
  MaxTurn = 2
  MaxTime = 10
SPECIFICATION Spec
INVARIANT InvocationHasItsTime
CHECK_DEADLOCK FALSE
