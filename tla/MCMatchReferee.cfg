SPECIFICATION Spec
CONSTANTS
  Seats = {1, 2}
  HostSeat = 255
  Guests = {1}
  Bots = {2}
  Command <- MCCommand
  Drop = Drop
  Nobody = Nobody
  MaxLag = 1
  MaxPerTurn = 1
  MaxCarried = 1
  RefereeWindow = 5
  LaggardDrop = FALSE
  StartDelay = TRUE
  ViolationLimit = 2
  HashEvery = 2
  MaxTurns = 4
  MaxCommands = 1
  MaxBroken = 1
  MaxLosses = 1
INVARIANTS DivergenceFound OrdersKept NoFalseAlarm
CHECK_DEADLOCK FALSE
