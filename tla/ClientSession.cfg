SPECIFICATION Spec
CONSTANTS
  Options <- MCOptions
  MetaStalls = FALSE
INVARIANTS
  ResourceInv
  EndsClean
  WorkersHoldLiveObjects
  StartedIsComplete
PROPERTIES
  CloseCompletes
  StartReturns
