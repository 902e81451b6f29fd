SPECIFICATION Spec
CONSTANTS
  implement = implement
  Stages = {implement}
  Order <- MCOrder
  Finalizer = {}
  Approvals = {}
  Kind <- MCKind
  Target <- MCTarget
  MaxAttempts <- MCMaxAttempts
  MaxResumes = 1
  MaxCrashes = 0
INVARIANTS
  RaisedRunHasEnd
CHECK_DEADLOCK FALSE
