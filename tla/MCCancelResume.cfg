SPECIFICATION Spec
CONSTANTS
  i1 = i1
  r1 = r1
  r2 = r2
  p1 = p1
  p2 = p2
  p3 = p3
  NoItem = NoItem
  NoRun = NoRun
  NoProc = NoProc
  Items <- MCItems
  Runs <- MCRuns
  Procs <- MCProcs
  Deps <- MCDeps
  Roles <- CancelRoles
  Outcomes <- AllOutcomes
  MaxEdits = 0
  MaxFaults = 0
  MaxCrashes = 0
INVARIANTS
  SettledItemNotStuck
CHECK_DEADLOCK FALSE
