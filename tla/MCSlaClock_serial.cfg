SPECIFICATION Spec
CONSTANTS
  w1 = w1
  w2 = w2
  Workers <- MCOneWorker
  Classes <- MCAllClasses
  Unset = "none"
  StartOnCreate = TRUE
  Target = 2
  Levels <- MCLevels
  Windows <- MCWindows
  MaxTime = 6
  Prompt = TRUE
  StaleWritesRefused = FALSE
  MayFail = FALSE
  Null = Null
INVARIANTS
  ClockMatchesRecord
  TargetKept
  BreachedMeansLate
  EscalatedInOrder
