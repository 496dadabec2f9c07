SPECIFICATION FairSpec
CONSTANTS
  People = {"a", "b", "c"}
  Seats = {1, 2, 3}
  Worlds <- MCWorlds
INVARIANTS TypeOK LeaderIsFirst InStep
PROPERTY Settles
CHECK_DEADLOCK FALSE
