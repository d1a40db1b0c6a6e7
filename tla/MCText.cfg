SPECIFICATION FairSpec
CONSTANTS
  heap_max = 56
  Align = 4
  FirstCap = 8
  FramebufferSizes = {10, 57}
  Bits <- MCBits
  Char <- MCChar
  Requests <- MCRequests
  NullText = NullText
  Behind <- MCBehind
  StackDepth = 3
  None = None
INVARIANTS TypeOK TextIsRight TextsApart OneRetry
PROPERTIES PassEnds
CHECK_DEADLOCK FALSE
