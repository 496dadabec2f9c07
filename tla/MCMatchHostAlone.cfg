SPECIFICATION HostSpec
CONSTANTS
  Seats = {0, 1}
  HostSeat = 0
  Guests = {1}
  Bots = {}
  Command <- MCCommand
  Drop = Drop
  Nobody = Nobody
  MaxLag = 1
  MaxPerTurn = 1
  MaxCarried = 1
  RefereeWindow = 5
  LaggardDrop = TRUE
  StartDelay = FALSE
  ViolationLimit = 2
  HashEvery = 2
  MaxTurns = 3
  MaxCommands = 0
  MaxBroken = 1
  MaxLosses = 1
PROPERTY HostGetsOn
CHECK_DEADLOCK FALSE
