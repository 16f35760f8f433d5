SPECIFICATION Spec
CONSTANTS
  Block = {a, b, c}
  Value = {v}
  Sizes = {1}
  RootSizes = {1}
  MaxEntries = 2
SYMMETRY Symmetric
INVARIANTS CopiedOnce NothingLost GraphKept BarrierRestored
