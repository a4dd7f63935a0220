SPECIFICATION Spec
CONSTANTS
  Bases <- MCBases
  Blocks <- MCBlocks
  NONE = NONE
  StartFiles <- MCStart
  Commands <- MCCommands
  Terminal = TRUE
  MaxFaults = 3
INVARIANTS
  TypeOK
  SetidOnlyForOwner
  NoHalfOutput
  
PROPERTY
  Replaces
