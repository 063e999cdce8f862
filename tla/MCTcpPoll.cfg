CONSTANTS
  Conn = {c1}
  Window = 1
  Chunk = {1}
  MaxSent = 1
SPECIFICATION Spec
PROPERTIES
  PolledStreamWakes
CHECK_DEADLOCK FALSE
