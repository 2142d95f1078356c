SPECIFICATION Spec
CONSTANTS
  AgentDevs <- MCAgentDevs
  WifiDevs = {"w"}
  StreamCount = 2
  Channels = 2
  MaxSessions = 3
INVARIANTS
  PortsInv
  OwnServerOnly
PROPERTIES
  TunnelOnlyWhenFull
CHECK_DEADLOCK FALSE
