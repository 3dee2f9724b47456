SPECIFICATION FairSpec
CONSTANTS
  MaxTicks = 3
  InitialLives = 2
  Priorities = {1, 2}
  GhostCount = 2
  ResourcesMayFail = FALSE
  CallsMayFail = FALSE
  Rows = 2
  Cols = 3
  Walls <- MCWalls
  Moves <- MCMoves
  GhostMoves <- MCGhostMoves
  PacmanStart <- MCPacmanStart
  GhostStart <- MCGhostStart
  PacmanMayFail = FALSE
INVARIANT ActsOnlyInItsTurn
PROPERTIES ChildrenAsAssumed PlaysByTheRules Termination
