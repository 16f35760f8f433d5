SPECIFICATION Spec
CONSTANTS
  Elem = {a, b}
  Zero = Zero
  InitialSize = 2
  MaxLength = 5
PROPERTY FifoSpec
