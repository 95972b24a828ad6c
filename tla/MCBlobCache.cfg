SPECIFICATION LiveSpec
CONSTANTS
  p1 = p1
  p2 = p2
  a = a
  c = c
  NoProc = NoProc
  Procs = {p1, p2}
  Digests = {a, c}
  Deliveries <- Honest
  Limits <- LargeAndSmall
  Faults <- AllFaults
  MaxCrashes = 1
INVARIANTS
  TypeOK
  UsedSizeExact
  CountExact
  MutualExclusion
  HitIsWhole
  AccessIsCurrent
  NoTmpLeak
PROPERTIES
  PutWithinLimit
  EvictsOldestOnDemand
  ImplementsBlobStore
  CallsReturn
