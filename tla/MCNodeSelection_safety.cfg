SPECIFICATION Spec
CONSTANTS
  a = a
  b = b
  NoNode = noNode
  Nodes = {a, b}
  Procs = {r1}
  Lists <- AnyList
  Replies <- MCReplies
  Tests <- MCTests
  Probes <- MCProbe
  Waits <- MCWaits
  MaxEvents = 6
  MaxDays = 1
  MaxReloads = 1
  MaxFaults = 1
  Latencies = {0, 1, 2, 333, 999, 1000, 1001, 30000}
  Speeds = {0, 1, 4095, 102399, 102400, 102401, 900000}
  MaxTotal = 4
  Outcomes <- MCOutcomes
INVARIANTS
  TypeOK
  SomeNodeIsTried
  QuietSelectionIsBest
  ScoreInRange
  BetterNeverLowers
