CONSTANTS
  Window = 3
  Chunk = {1, 2, 4}
  MaxSent = 6
SPECIFICATION Spec
INVARIANTS
  TypeOK
  CompleteBodiesOnly
  FinishedArrives
  InternalChecks
  PermittedWritesNeverTrap
PROPERTIES
  ResponseEnds
  BlockedWriterProceeds
CHECK_DEADLOCK FALSE
