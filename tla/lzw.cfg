\* Two letters, codes of 2 to 4 bits, groups of two codes.  With -b 3 the
\* table is full after five entries, so data of ten letters takes in
\* widening, a full table, CLEAR and KwKwK; -b 1 and 2 correspond to -b 1 to
\* 9, where the width passes maxbits.
SPECIFICATION Spec
CONSTANTS
  Letters = 2
  GroupSize = 2
  INIT_BITS = 2
  BITS = 3
  CHECK_GAP = 5
  BitOptions = {1, 2, 3}
  Chunks = {2}
  MaxLength = 10
INVARIANTS
  TypeOK
  WidthFits

  
