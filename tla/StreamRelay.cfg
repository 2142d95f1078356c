SPECIFICATION Spec
CONSTANTS
  Order <- TwoChannels
  Probes = {"probe"}
  MaxSent = 3
  PreCap = 2
  SlowAdb = TRUE
INVARIANTS
  GroupInv
  ReplayIsFaithful
  RolesAreTheSession
PROPERTIES
  RelayWaitsEnd
