SPECIFICATION Spec
CONSTANTS
  WordMod = 8
  FRAME_MS = 10
  MaxLag = 3
  None = None
  MaxKeys = 3
INVARIANT KeysInterrupt
CHECK_DEADLOCK FALSE
