SPECIFICATION Spec
CONSTANTS
  Sizes = {"tall", "wide"}
  MaxFrames = 4
INVARIANTS
  WakeupInv
  PlanesOutliveUse
PROPERTIES
  ImplementsNewestFrame
  LastFrameIsShown
