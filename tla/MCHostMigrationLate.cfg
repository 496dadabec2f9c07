SPECIFICATION Spec
CONSTANTS
  Worlds <- MCLate
  None = 255
PROPERTY NoHostBesideAny
CHECK_DEADLOCK FALSE
