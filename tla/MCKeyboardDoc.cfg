SPECIFICATION Spec
CONSTANTS
  KB_BUFFER_SIZE = 3
  MaxBytes = 3
  k1 = k1
  Key <- MCKey
  E0 = E0
  F0 = F0
  Zero = Zero
INVARIANT QueueForwarded
