SPECIFICATION Spec
CONSTANTS
  Worlds <- MCCrossing
  None = 255
INVARIANT OneHost
CHECK_DEADLOCK FALSE
