SPECIFICATION FairSpec
CONSTANTS
  KB_BUFFER_SIZE = 3
  MaxBytes = 6
  k1 = k1
  Key <- MCKey
  E0 = E0
  F0 = F0
  Zero = Zero
INVARIANTS OneByteBehind EventsMatchBytes
PROPERTIES HeldNotOverwritten FifoSpec EventuallyTaken
