SPECIFICATION Spec
CONSTANTS
  MaxFaults = 2
  BUFSZ = 3
  BUFLEN = 4
  INBUF = 3
  MaxPieces = 4
  UUE_BUF_SZ = 24
  LN_MAX = 6
  CHUNK_SZ = 3
  INTROSORT = 3
  MAX_RECURSE = 8
  WIDTH = 4
  Commands <- MCCommands
INVARIANTS
  
  
  OutputsIndependent
