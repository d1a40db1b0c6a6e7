SPECIFICATION Spec
CONSTANTS
  NumPieces = 4
INVARIANT DroughtBounded
PROPERTIES BagSpec ShownUnlessEmpty
