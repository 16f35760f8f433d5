SPECIFICATION FairSpec
CONSTANTS
  Thread = {t1, t2}
  Transient = {x1, x2}
  Value = {v}
  NoWord = NoWord
  NoThread = NoThread
  CyclicFulfill = FALSE
INVARIANTS RunQueueExact WaitQueueExact OneResolver RefsResolve
PROPERTIES DataflowSpec NoStarvation WaitersRun
CHECK_DEADLOCK FALSE
