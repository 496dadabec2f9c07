SPECIFICATION FairSpec
CONSTANTS
  Worlds <- MCWorlds
  None = 255
INVARIANTS TypeOK SurvivorsAgree OneHost InStep
PROPERTIES NoHostBeside Recovers
CHECK_DEADLOCK FALSE
