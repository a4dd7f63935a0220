SPECIFICATION Spec
CONSTANTS
  Bases <- MCBases
  Blocks <- MCBlocks
  NONE = NONE
  StartFiles <- MCStart
  Commands <- MCCommands
  Terminal = TRUE
  MaxFaults = 0
INVARIANT
  BadInputDestroysNothing
