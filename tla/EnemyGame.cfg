SPECIFICATION FairSpec
CONSTANTS
  Rows = 2
  Cols = 3
  Walls <- MCWalls
  GhostCount = 2
  GhostStart <- MCGhostStart
  PacmanStart <- MCPacmanStart
  GhostMoves <- MCGhostMoves
  InputMayFail = TRUE
  StartMayFail = TRUE
  P0MayFail = TRUE
  MaxTurns = 3
INVARIANTS TypeOK CollisionExact DetectorSeesSettledMaze GhostsKeepStep NoTokenLeft
PROPERTIES TurnAnswered Termination
CHECK_DEADLOCK FALSE
