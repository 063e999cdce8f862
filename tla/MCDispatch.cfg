CONSTANTS
  front = front
  middle = middle
  back = back
  Workload = {front, middle, back}
  Imports <- MCImports
  Limit <- MCLimit
  PoolSize <- MCPoolSize
  MaxInstances = 2
  Call = {c1, c2, c3}
  Host = host
SPECIFICATION Spec
INVARIANTS
  TypeOK
  ExhaustedByIdle
PROPERTIES
  AnswerLostForCause
  EveryCallEnds
  RetirementFrees
CHECK_DEADLOCK FALSE
