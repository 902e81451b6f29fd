SPECIFICATION SettlesSpec
CONSTANTS
  i1 = i1
  r1 = r1
  p1 = p1
  p2 = p2
  p3 = p3
  d1 = d1
  d2 = d2
  c1 = c1
  NoItem = NoItem
  NoRun = NoRun
  NoProc = NoProc
  NoDelivery = NoDelivery
  Dead = Dead
  Deliveries <- MCDeliveries
  Procs <- MCProcs
  Kind <- MCKind
  Domain <- MCDomain
  Cursor <- MCCursor
  Restarted = {}
  Publishes = FALSE
  WakeLimit = 2
  MaxPasses = 3
  MaxSends = 3
  MaxFaults = 0
PROPERTIES
  EndedRunLeavesRunning
  StoredIsSettled
  RunnerReturns
CHECK_DEADLOCK FALSE
