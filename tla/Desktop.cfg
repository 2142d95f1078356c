SPECIFICATION DesktopSpec
CONSTANTS
  Windows = {w1}
  h1 = h1
  a = a
  Hosts = {h1}
  Wireless = {a}
  Wired = {}
  HostOf <- MCHostOf
  AgentHosts = {h1}
  Bases = {0, 1}
  NoWindow = NoWindow
  NoSession = NoSession
  Refused = Refused
  AgentDevs <- MCAgentDevs
  WifiDevs = {}
  StreamCount = 2
  Channels = 1
  MaxSessions = 2
INVARIANTS
  DesktopInv
CHECK_DEADLOCK FALSE
