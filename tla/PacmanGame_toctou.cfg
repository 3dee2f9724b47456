SPECIFICATION Spec
CONSTANTS
  Rows = 2
  Cols = 3
  Walls <- MCWalls
  Start <- MCStart
  Moves <- MCMoves
  InputMayFail = FALSE
  StartMayFail = FALSE
  P0MayFail = FALSE
  MaxTurns = 5
PROPERTIES TurnWastedOnlyWhenEmpty
