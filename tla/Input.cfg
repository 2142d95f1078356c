SPECIFICATION Spec
CONSTANTS
  Letters = {"a"}
  Digits = {}
  Tabs = {"tab"}
  Navs = {"esc"}
  NavButtons = {"esc", "home"}
  MouseButtons = {"left", "right"}
  DeviceActions = {"rotate"}
  TextLens = {3}
  MaxText = 2
  WireCap = 2
INVARIANTS
  ChannelInv
  KeysHold
  TouchHolds
