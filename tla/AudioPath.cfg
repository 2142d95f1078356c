SPECIFICATION Spec
CONSTANTS
  RingSize = 3
  Pulls = {1, 2}
  Decoded = {0, 2, 4}
  SocketSize = 2
  MaxPackets = 3
INVARIANTS
  RingInv
  LifetimesHold
PROPERTIES
  ImplementsQueue
  AudioWaitsEnd
CHECK_DEADLOCK FALSE
