SPECIFICATION FairSpec
CONSTANTS
  Seats = {0, 1}
  Machines = {"a", "b", "late"}
  SeatOf <- MCSeatOf
  Latecomers = {"late"}
  Window = 1
  BatchTurns = 1
  MaxTurns = 2
  Worlds <- MCWorlds
INVARIANTS TypeOK SeatTakenOnce InStep DroppedOnce RecordHasAll OneHistory
PROPERTY Settles
CHECK_DEADLOCK FALSE
