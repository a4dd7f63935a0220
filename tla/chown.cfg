SPECIFICATION MCSpec
CONSTANTS
  Dirs <- MCDirs
  Leaves <- MCLeaves
  Names <- MCNames
  NONE = NONE
  LinkTo <- MCLinkTo
  Root = "up"
  Tree <- MCTree
  StartModes <- AnyModes
  StartDir = "s"
  ArgLists <- MCArgs
  OptionSets <- MCOptions
  LockedSets <- MCLocked
  MaxOthers = 1
  Replacements <- MCReplacements
  MaxFds = 5
INVARIANTS
  TypeOK
  FdsBalanced
  OperandsIndependent
  ReachesWholeHierarchy
  EntriesLookedUpInPlace
PROPERTY
  Terminates
