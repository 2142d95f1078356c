SPECIFICATION Spec
CONSTANTS
  Serials = {"usb", "wifi", "bad"}
  Wireless = {"wifi", "bad"}
  Malformed = {"bad"}
  Ips = {"lan"}
  MaxSlots = 2
  MaxListeners = 5
  MaxFwds = 6
  AdbBase = 5
  StreamBase = 20
  StreamCount = 2
  LocOffset = 100
  TcpipPort = 1
  DiscoveryPort = 2
  NoStream = FALSE
  BindMayFail = TRUE
  AdbMayFail = TRUE
  MaxChanges = 2
INVARIANTS
  RoutingInv
  ListedIsBound
  CleanExit
PROPERTIES
  ListingFollowsDevices
  TablesOnlyGrow
  StopExits
