SPECIFICATION Spec
CONSTANTS
  Seats = {1}
  HostSeat = 255
  Guests = {1}
  Bots = {}
  Command <- MCCommand
  Drop = Drop
  Nobody = Nobody
  MaxLag = 1
  MaxPerTurn = 1
  MaxCarried = 1
  RefereeWindow = 5
  LaggardDrop = FALSE
  StartDelay = TRUE
  ViolationLimit = 2
  HashEvery = 2
  MaxTurns = 4
  MaxCommands = 0
  MaxBroken = 1
  MaxLosses = 1
INVARIANT DivergenceFound
CHECK_DEADLOCK FALSE
