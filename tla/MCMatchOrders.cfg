SPECIFICATION Spec
CONSTANTS
  Seats = {0, 1}
  HostSeat = 0
  Guests = {1}
  Bots = {}
  Command <- MCCommand
  Drop = Drop
  Nobody = Nobody
  MaxLag = 0
  MaxPerTurn = 1
  MaxCarried = 1
  RefereeWindow = 5
  LaggardDrop = TRUE
  StartDelay = FALSE
  ViolationLimit = 2
  HashEvery = 2
  MaxTurns = 3
  MaxCommands = 3
  MaxBroken = 0
  MaxLosses = 1
INVARIANTS TypeOK OrdersKept DropIsLast NobodyLeftBehind
PROPERTY PlaysOneHistory
CHECK_DEADLOCK FALSE
