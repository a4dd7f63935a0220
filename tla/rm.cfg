SPECIFICATION MCSpec
CONSTANTS
  Dirs <- MCDirs
  Leaves <- MCLeaves
  Names <- MCNames
  NONE = NONE
  LinkTo <- MCLinkTo
  Root = "top"
  StartTree <- MCLinkTree
  StartModes <- MCReadOnly
  StartDir = "top"
  ArgLists <- MCArgs
  FlagLists <- QuietFlags
  Terminal = TRUE
  MaxFds = 10
  MaxOthers = 2
INVARIANTS
  TypeOK
  RemovesEverything
  ConfirmedBeforeRemoved
  CwdFollowsTraversal
  FdsBalanced
  
  
PROPERTY
  Terminates
