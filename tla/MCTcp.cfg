CONSTANTS
  Conn = {c1, c2}
  Window = 1
  Chunk = {1, 2}
  MaxSent = 3
SPECIFICATION Spec
INVARIANTS
  TypeOK
  AcceptsInOrder
  EstablishedIsKept
  ToldReadyIsReady
  NoLostWakeup
  SentOnce
PROPERTIES
  WaiterWakes
CHECK_DEADLOCK FALSE
