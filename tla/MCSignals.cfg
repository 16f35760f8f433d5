SPECIFICATION FairSpec
CONSTANTS
  Signal = {s1}
  Closure = {c1, c2}
  Alarm = {a1, a2}
  MaxTime = 2
  MaxPending = 2
INVARIANTS HandlersOneShot
PROPERTIES AlarmsInOrder AlarmsFire HandlersStart SlicesEnd
