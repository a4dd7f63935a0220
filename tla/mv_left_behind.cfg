SPECIFICATION Spec
CONSTANTS
  Paths <- MCPaths
  Inodes <- MCInodes
  NONE = NONE
  Device <- MCDevice
  StartAt <- MCAt
  StartFiles <- MCFiles
  Blocks <- MCBlocks
  Commands <- MCCommands
  Terminal = TRUE
  MaxFaults = 0
  MaxOthers = 0
INVARIANT
  NothingLeftBehind
