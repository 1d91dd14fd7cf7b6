CONSTANTS
  Records = {r1}
  States <- MCStates
  Blank = Blank
  Transitions <- MCTransitions
  Users <- MCUsers
  Permitted <- MCPermitted
  Steps <- MCSteps
  Position <- MCPosition
  Gate <- MCGate
  Approvers <- MCApprovers
  InitialSteps <- MCParallel
  Editable = {}
  Requests = {1}
  Workers = {w1, w2}
  StaleWritesRefused = TRUE
  MayFail = FALSE
  NoJob = NoJob
SPECIFICATION Spec
INVARIANTS
  LastSignatureDecides
