CONSTANTS
  Records = {r1}
  States <- MCStates
  Blank = Blank
  Transitions <- MCTransitions
  Users <- MCUsers
  Permitted <- MCPermitted
  Steps <- MCSteps
  Position <- MCPosition
  Gate <- MCGate
  Approvers <- MCApprovers
  InitialSteps <- MCSequential
  Editable = {2, 3}
  Requests = {1, 2}
  Workers = {w1, w2}
  StaleWritesRefused = TRUE
  MayFail = TRUE
  NoJob = NoJob
SPECIFICATION MCSpec
INVARIANTS
  SignedOff
  SignedInOrder
  RejectionCancels
PROPERTIES
  DecisionFinal
  ImplementsSignOff
  GatedMoveIsSigned
