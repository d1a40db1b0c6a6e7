SPECIFICATION FairSpec
CONSTANTS
  kWordSize = 2
  MemSize = 18
INVARIANTS Copied StoresAligned
PROPERTY Terminates
CHECK_DEADLOCK FALSE
