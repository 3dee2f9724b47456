SPECIFICATION FairSpec
CONSTANTS
  Rows = 2
  Cols = 3
  Walls <- MCWalls
  GhostCount = 2
  GhostStart <- MCGhostStart
  PacmanStart <- MCPacmanStart
  GhostMoves <- MCGhostMoves
  InputMayFail = FALSE
  StartMayFail = TRUE
  P0MayFail = FALSE
  MaxTurns = 3
PROPERTY EndsAfterGameOver
CHECK_DEADLOCK FALSE
