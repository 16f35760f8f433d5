SPECIFICATION Spec
CONSTANTS
  Thread = {t1}
  Transient = {x1}
  Value = {v}
  NoWord = NoWord
  NoThread = NoThread
  CyclicFulfill = TRUE
SYMMETRY Symmetric
INVARIANT RefsResolve
CHECK_DEADLOCK FALSE
