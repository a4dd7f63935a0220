SPECIFICATION Spec
CONSTANTS
  Dirs <- MCDirs
  Leaves <- MCLeaves
  Names <- MCNames
  NONE = NONE
  LinkTo <- MCLinkTo
  Root = "up"
  Tree <- MCTree
  StartModes <- Readable
  StartDir = "s"
  ArgLists <- OneTree
  OptionSets <- PhysicalOptions
  LockedSets <- Unlocked
  MaxOthers = 0
  Replacements <- MCReplacements
  MaxFds = 5
INVARIANT
  StaysInHierarchy
