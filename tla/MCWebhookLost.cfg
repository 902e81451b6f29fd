SPECIFICATION Spec
CONSTANTS
  d1 = d1
  d2 = d2
  p1 = p1
  NoDelivery = NoDelivery
  NoProc = NoProc
  Dead = Dead
  Deliveries <- Activations
  Procs <- OneServer
  Cursor <- MCCursor
  Kind <- MCKind
  Domain <- MCDomain
  WakeLimit = 2
  Restarted = {}
  Publishes = FALSE
  MaxPasses = 3
  MaxSends = 2
  MaxFaults = 0
INVARIANTS
  ActivationKept
CHECK_DEADLOCK FALSE
