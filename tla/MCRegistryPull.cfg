SPECIFICATION LiveSpec
CONSTANTS
  r1 = r1
  r2 = r2
  d1 = d1
  x = x
  y = y
  g = g
  NoProc = noProc
  Procs = {r1, r2, d1}
  Pullers = {r1, r2}
  Tunnelled = {r2}
  Consoles = {d1}
  Images = {x, y, g}
  GhcrImages = {g}
  Requests <- MCRequests
  Candidates = 1
  MaxRequests = 2
INVARIANTS
  TypeOK
  PoolSound
  OutcomesWhole
  TokenForImage
  EveryOutcomeOnce
PROPERTIES
  ServedIsPassedOn
  AbandonedEnds
  StoreCallsReturn
  ImplementsOutcomeStore
