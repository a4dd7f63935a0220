SPECIFICATION Spec
CONSTANTS
  Paths <- MCPaths
  Inodes <- MCInodes
  NONE = NONE
  Device <- MCDevice
  StartAt <- MCAt
  StartFiles <- MCFiles
  Blocks <- MCBlocks
  Commands <- MCCommands
  Terminal = TRUE
  MaxFaults = 2
  MaxOthers = 2
INVARIANTS
  TypeOK
  SetidOnlyForOwner
  
  OverwritesConfirmedOnly
PROPERTY
  Replaces
