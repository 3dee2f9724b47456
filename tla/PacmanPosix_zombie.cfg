SPECIFICATION FairSpec
CONSTANTS
  MaxTicks = 1
  InitialLives = 1
  Priorities = {1}
  GhostCount = 2
  ResourcesMayFail = FALSE
  CallsMayFail = FALSE
  Rows = 2
  Cols = 3
  Walls <- MCWalls
  Moves <- MCFewMoves
  GhostMoves <- MCFewGhostMoves
  PacmanStart <- MCPacmanStart
  GhostStart <- MCGhostStart
  PacmanMayFail = TRUE
PROPERTY NoZombie
CHECK_DEADLOCK FALSE
