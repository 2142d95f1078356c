SPECIFICATION Spec
CONSTANTS
  Sizes <- MCSizes
  MaxSize = 36
  Widgets <- MCWidgets
  Screens <- MCScreens
  Limits = {0, 1920, 1280, 1024, 800}
  CheckEvery = 2
  WireCap = 2
  MaxTurns = 2
INVARIANTS
  PacketInv
  PointerInv
  PictureInv
  RebuiltForTurns
PROPERTIES
  PictureCatchesUp
