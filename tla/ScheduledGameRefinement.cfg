SPECIFICATION FairSpec
CONSTANTS
  MaxTicks = 3
  InitialLives = 2
  Priorities = {1, 2}
  GhostCount = 1
  ResourcesMayFail = TRUE
  CallsMayFail = FALSE
PROPERTY ImplementsTurnGame
