SPECIFICATION FairSpec
CONSTANTS
  BOARD_WIDTH = 4
  BOARD_HEIGHT = 4
  Int8Mod = 26
INVARIANT ClosedForm
PROPERTY Terminates
CHECK_DEADLOCK FALSE
