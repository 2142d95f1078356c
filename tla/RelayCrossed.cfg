SPECIFICATION Spec
CONSTANTS
  Order <- ThreeChannels
  Probes = {}
  MaxSent = 1
  PreCap = 2
  SlowAdb = FALSE
INVARIANTS
  StreamingInOrder
