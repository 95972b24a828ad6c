SPECIFICATION Spec
CONSTANTS
  a = a
  b = b
  NoNode = noNode
  Nodes = {a, b}
  Procs = {r1, r2}
  Lists <- OnlyBoth
  Replies <- MCReplies
  Tests <- None
  Probes <- None
  Waits <- None
  MaxEvents = 6
  MaxDays = 0
  MaxReloads = 0
  MaxFaults = 0
  Latencies = {0, 1, 2, 333, 999, 1000, 1001, 30000}
  Speeds = {0, 1, 4095, 102399, 102400, 102401, 900000}
  MaxTotal = 4
  Outcomes <- MCOutcomes
INVARIANT SuccessIsRate
