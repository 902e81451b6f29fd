SPECIFICATION ServicesSpec
CONSTANTS
  k1 = k1
  k2 = k2
  u1 = u1
  u2 = u2
  x1 = x1
  y1 = y1
  s1 = s1
  d1 = d1
  d2 = d2
  p1 = p1
  p2 = p2
  NoName = "no name"
  NoKey = NoKey
  NoHead = NoHead
  NoDelivery = NoDelivery
  NoProc = NoProc
  Dead = Dead
  Mutation <- MCMutation
  Keys <- MCKeys
  Procs <- MCProcs
  Strangers = {s1}
  MaxFaults = 1
INVARIANTS
  TypeOK
  OneClaimPerDomain
  EffectOnce
  FreshEffect
  RecordedHeadIsLatest
  OthersTypeOK
  CompletedHasTask
  CatchUpIsBounded
  OneAtATime
PROPERTIES
  LeadIsNewest
  NoBlindPush
  MutationsRefined
  OnlyOwnerEndsLease
  TakenTaskKept
  NothingPassedOver
  NoWorkTwice
  NothingLeftPending
SYMMETRY MCSymmetry
CHECK_DEADLOCK FALSE
