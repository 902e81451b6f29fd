SPECIFICATION Spec
CONSTANTS
  i1 = i1
  r1 = r1
  r2 = r2
  p1 = p1
  p2 = p2
  p3 = p3
  NoItem = NoItem
  NoRun = NoRun
  NoProc = NoProc
  Items <- MCItems
  Runs <- MCRuns
  Procs <- FaultProcs
  Deps <- MCDeps
  Roles <- FaultRoles
  Outcomes <- AllOutcomes
  MaxEdits = 1
  MaxFaults = 1
  MaxCrashes = 0
SYMMETRY RunSymmetry
INVARIANTS
  SnapshotRunsOnce
  OneRunnerPerRun
  ExecutingRunKeepsRow
CHECK_DEADLOCK FALSE
