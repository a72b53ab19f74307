SPECIFICATION Spec
CONSTANTS
  max_size = 2
  MaxIndex = 6
  MaxArg = 4
  MaxPair = 3
  MaxStart = 0
  LateChunks = FALSE
INVARIANT Verified
PROPERTY IsASet
