SPECIFICATION LiveSpec
CONSTANTS
  Hosts = {"registry", "other"}
  EarlyData = FALSE
  MaxSend = 1
PROPERTY TunnelIsTransparent
