SPECIFICATION FairSpec
CONSTANTS
  Thread = {t1, t2, t3}
  NoThread = NoThread
  MaxSync = 5
  MaxDepth = 2
INVARIANTS MutualExclusion OwnerExact
PROPERTY WaiterServed
CHECK_DEADLOCK FALSE
