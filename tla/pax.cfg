SPECIFICATION FairSpec
CONSTANTS
  HDR = 2
  HUGE = 1000
  WORD = 6
  OUTBUF_SZ = 3
  Ratio = 2
  BlockSize = 4
  Pipe = TRUE
  Archives <- MCArchives
INVARIANTS
  ListsWhatWasRead
  
  DataInPlace
PROPERTY
  Terminates
