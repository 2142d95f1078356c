SPECIFICATION Spec
CONSTANTS
  Options <- MCOptions
  MetaStalls = TRUE
PROPERTIES
  CloseCompletes
