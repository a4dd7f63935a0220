SPECIFICATION Spec
CONSTANTS
  INT_RANGE = 16
  MaxOthers = 2
  MaxFaults = 1
  Paths <- MCPaths
  OtherDirs <- MCOtherDirs
  Trees <- MCTrees
  Commands <- MCCommands

  
  
PROPERTY
  RemovesOnlyNamed
