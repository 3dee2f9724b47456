SPECIFICATION FairSpec
CONSTANTS
  MaxTicks = 3
  InitialLives = 2
  Priorities = {1, 2}
  GhostCount = 2
  ResourcesMayFail = TRUE
  CallsMayFail = TRUE
INVARIANTS TypeOK OneBaton TurnExclusive NoTurnInterrupted EventFresh TickOpensSettled DispatchRespectsPriority StoppedForAReason
PROPERTY Termination
