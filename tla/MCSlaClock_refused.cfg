SPECIFICATION Spec
CONSTANTS
  w1 = w1
  w2 = w2
  Workers <- MCWorkers
  Classes <- MCNoNone
  Unset = "run"
  StartOnCreate = TRUE
  Target = 1
  Levels <- MCCloseLevels
  Windows <- MCNoWindow
  MaxTime = 2
  Prompt = FALSE
  StaleWritesRefused = TRUE
  MayFail = TRUE
  Null = Null
SYMMETRY MCSymmetry
INVARIANTS
  BreachInOrder
PROPERTIES
  ClockNeverTorn
