SPECIFICATION Spec
CONSTANTS
  Thread = {t1, t2}
  Future = {f1, f2, f3}
  Reader = {r1}
  Writer = {w1}
  Socket = {s1}
  Listener = {l1}
  Fd = {0, 1}
  Ops = {"Read", "Write", "Close", "DoBlock", "server", "client", "accept", "close"}
  NoThread = NoThread
  NoDesc = NoDesc
  NoFuture = NoFuture
INVARIANTS WaitersRegistered EntriesLive RightStream
PROPERTIES SelectServesAll NoLostWakeup
CHECK_DEADLOCK FALSE
