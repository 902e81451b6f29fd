SPECIFICATION Spec
CONSTANTS
  k1 = k1
  k2 = k2
  u1 = u1
  u2 = u2
  x1 = x1
  y1 = y1
  p1 = p1
  p2 = p2
  s1 = s1
  NoName = "no name"
  NoKey = NoKey
  NoHead = NoHead
  Mutation <- MCMutation
  Keys <- TwoPublishers
  Procs <- OneProc
  Strangers = {}
  MaxFaults = 0
INVARIANTS
  FirstPublishProceeds
CHECK_DEADLOCK FALSE
