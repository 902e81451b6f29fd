SPECIFICATION StartsSpec
CONSTANTS
  implement = implement
  sync = sync
  gate = gate
  approve = approve
  judge = judge
  reflect = reflect
  Stages <- MCStages
  Order <- MCOrder
  Kind <- MCKind
  Target <- MCTarget
  MaxAttempts <- MCMaxAttempts
  Approvals = {approve}
  Finalizer = {reflect}
  MaxResumes = 2
  MaxCrashes = 1
  i1 = i1
  i2 = i2
  r1 = r1
  r2 = r2
  p1 = p1
  p2 = p2
  p3 = p3
  NoItem = NoItem
  NoRun = NoRun
  NoProc = NoProc
SYMMETRY RunSymmetry
INVARIANTS
  TypeOK
  ReturnedRunHasEnd
  PassedStagesAreDone
  ResumesAreFenced
  StartsAreFenced
PROPERTIES
  CompletedIsComplete
  PassIsApproved
  AttemptsAreFresh
  StagesRefined
CHECK_DEADLOCK FALSE
