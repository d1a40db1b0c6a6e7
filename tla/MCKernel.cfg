SPECIFICATION FairSpec
CONSTANTS
  WordMod = 8
  FRAME_MS = 10
  MaxLag = 3
  None = None
  MaxKeys = 3
INVARIANTS TypeOK WaitExact KeysInOrder PanicJustified
PROPERTIES BootEnds FramesGoOn KeysHandled
CHECK_DEADLOCK FALSE
