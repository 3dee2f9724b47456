SPECIFICATION Spec
CONSTANTS
  Rows = 2
  Cols = 3
  Walls <- MCWalls
  GhostCount = 2
  GhostStart <- MCGhostStart
  PacmanStart <- MCPacmanStart
  GhostMoves <- MCTwoRequests
  InputMayFail = FALSE
  StartMayFail = FALSE
  P0MayFail = FALSE
  MaxTurns = 3
PROPERTY RequestsReachP0
