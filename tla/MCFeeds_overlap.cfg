SPECIFICATION FairSpec
CONSTANTS
  w1 = w1
  w2 = w2
  Workers <- MCWorkers
  LastRow = 2
  Period = 2
  MaxAge = 2
  Limit = 1
  Upsert = FALSE
  ManualRuns = TRUE
  PeerMayFail = TRUE
  MayCrash = FALSE
  CommitsInOrder = TRUE
INVARIANTS
  NoneForgotten
PROPERTIES
  EveryRowTried
