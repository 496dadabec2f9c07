SPECIFICATION Spec
CONSTANTS
  Seats = {0, 1}
  HostSeat = 0
  Command = {c1, c2}
  Drop = Drop
  MaxLag = 1
  MaxPerTurn = 1
  MaxCarried = 2
  RefereeWindow = 2
  MaxTurns = 3
  MaxTaken = 5
SYMMETRY Interchangeable
CONSTRAINT Bounded
INVARIANTS FullTurnFirst NothingLost
CHECK_DEADLOCK FALSE
