SPECIFICATION Spec
CONSTANTS
  Worlds <- MCSecondFailure
  None = 255
INVARIANT OneHost
CHECK_DEADLOCK FALSE
