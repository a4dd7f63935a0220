SPECIFICATION Spec
CONSTANTS
  PRIO_MIN <- MCPrioMin
  PRIO_MAX = 3
  NICE_MIN <- MCNiceMin
  NICE_MAX = 4
  NICE_DEF = 2
  MaxOthers = 2
  MaxFaults = 1
  Options <- MCOptions
  Programs = {"util"}
  Increment <- MCIncrement
  Assignment <- MCAssignment
  platform_siglist <- MCsiglist
  platform_sigaliases <- MCsigaliases
  SignalNumber <- MCSignalNumber
  CChars = {"eof", "eol"}
  Saved <- MCSaved
  Speeds = {0, 1}
  Settings <- MCSettings
  Commands <- MCCommands
INVARIANTS
  LaunchedAsAsked
  

  
