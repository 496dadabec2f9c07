SPECIFICATION FairSpec
CONSTANT Settings <- MCSettings
INVARIANTS TypeOK CatchUpBounded PausesCapped HeldTimeIsReal CountdownBeforePlay VotersPresent
PROPERTIES RestartGrace PlaysOn
CHECK_DEADLOCK FALSE
