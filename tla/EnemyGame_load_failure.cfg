SPECIFICATION FairSpec
CONSTANTS
  Rows = 2
  Cols = 3
  Walls <- MCWalls
  GhostCount = 2
  GhostStart <- MCGhostStart
  PacmanStart <- MCPacmanStart
  GhostMoves <- MCGhostMoves
  InputMayFail = TRUE
  StartMayFail = FALSE
  P0MayFail = FALSE
  MaxTurns = 3
PROPERTY EveryTurnAnswered
CHECK_DEADLOCK FALSE
