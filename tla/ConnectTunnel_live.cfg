SPECIFICATION LiveSpec
CONSTANTS
  Hosts = {"registry", "other"}
  EarlyData = TRUE
  MaxSend = 3
INVARIANTS
  TypeOK
  SignalNeverBlocks
PROPERTIES
  NothingLeaks
  OpenTunnelDelivers
  ImplementsPipe
