SPECIFICATION Spec
CONSTANTS
  w1 = w1
  w2 = w2
  Workers <- MCWorkers
  LastRow = 3
  Period = 2
  MaxAge = 1
  Limit = 2
  Upsert = TRUE
  ManualRuns = FALSE
  PeerMayFail = FALSE
  MayCrash = TRUE
  CommitsInOrder = TRUE
SYMMETRY MCSymmetry
INVARIANTS
  OneRunner
  NoDuplicate
PROPERTIES
  WatermarkKept
