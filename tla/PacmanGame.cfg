SPECIFICATION FairSpec
CONSTANTS
  Rows = 2
  Cols = 3
  Walls <- MCWalls
  Start <- MCStart
  Moves <- MCMoves
  InputMayFail = TRUE
  StartMayFail = TRUE
  P0MayFail = TRUE
  MaxTurns = 5
INVARIANTS TypeOK OrderKept TokensCoverQueue EmptyPopOnlyAtEnd AnswerAfterPublication 
PROPERTIES PublishedStepByStep TurnAnswered Termination
CHECK_DEADLOCK FALSE
