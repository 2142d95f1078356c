SPECIFICATION ChooserSpec
CONSTANTS
    Windows = {w1}
    h1 = h1
    h2 = h2
    a1 = a1
    a2 = a2
    b1 = b1
    Hosts = {h1, h2}
    Wireless = {a1, a2, b1}
    Wired = {}
    HostOf <- MCHostOf
    AgentHosts = {h1}
    Bases = {1}
    NoWindow = NoWindow
    NoSession = NoSession
    Refused = Refused
INVARIANTS
    ChooserInv
PROPERTIES
    BackgroundEnds
CHECK_DEADLOCK FALSE
