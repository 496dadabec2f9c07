SPECIFICATION Spec
CONSTANTS
  People = {"a", "b", "c"}
  Seats = {1, 2, 3}
  Worlds <- MCHasty
INVARIANT InStep
CHECK_DEADLOCK FALSE
