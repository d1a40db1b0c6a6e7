SPECIFICATION Spec
CONSTANTS
  FRAMES_PER_SECOND = 3
  INITIAL_FRAMES_PER_DROP = 8
  MIN_FRAMES_PER_DROP = 2
  LINES_PER_LEVEL = 2
  FRAMES_PER_LEVEL = 2
  line_scores <- MCLineScores
  WordMod = 25
  MaxLines = 9
INVARIANT SpeedInRange
