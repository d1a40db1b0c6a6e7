SPECIFICATION FairSpec
CONSTANTS
  NumPieces = 2
  PieceDefs <- MCPieceDefs
  SPAWN_X = 0
  BOARD_WIDTH = 4
  BOARD_HEIGHT = 5
  Int8Mod = 26
  Framebuffers <- MCFramebuffers
  WordMod = 1073741824
INVARIANTS HeldInside OverlapOnlyAtSpawn NeverClimbs NoGap NoFullRow RotationExact FrameOnScreen PartsApart
PROPERTIES TilesConserved PiecesKeepComing
