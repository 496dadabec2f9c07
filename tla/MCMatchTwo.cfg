SPECIFICATION Spec
CONSTANTS
  Seats = {0, 1, 2}
  HostSeat = 0
  Guests = {1, 2}
  Bots = {}
  Command <- MCCommand
  Drop = Drop
  Nobody = Nobody
  MaxLag = 1
  MaxPerTurn = 1
  MaxCarried = 1
  RefereeWindow = 5
  LaggardDrop = TRUE
  StartDelay = FALSE
  ViolationLimit = 2
  HashEvery = 1
  MaxTurns = 2
  MaxCommands = 0
  MaxBroken = 1
  MaxLosses = 1
CONSTRAINT FewLosses
INVARIANTS Agreement NoGap
CHECK_DEADLOCK FALSE
