SPECIFICATION Spec
CONSTANTS
  Seats = {0, 1}
  Machines = {"a", "b", "late"}
  SeatOf <- MCSeatOf
  Latecomers = {"late"}
  Window = 1
  BatchTurns = 1
  MaxTurns = 2
  Worlds <- MCOwn
INVARIANT ReplacedByAnother
CHECK_DEADLOCK FALSE
