SPECIFICATION FairSpec
CONSTANTS
  r1 = r1
  r2 = r2
  None = None
  Program <- MCProgram
  MayFail = TRUE
  MayCrash = TRUE
INVARIANTS TypeOK NothingLeft SyncOutlivesChildren OwnMemory NameHasOwner SuccessMeansPlayed
PROPERTY Termination
