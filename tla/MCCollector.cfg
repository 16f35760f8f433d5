SPECIFICATION Spec
CONSTANTS
    NGlobals = 2
    MaxSteps = 3
    MaxGC = 2
    TableSize = 2
    WordSize = 32
INVARIANTS OldToYoungRecorded MapsFindKeys
PROPERTIES GraphPreserved FinalizedExact
CHECK_DEADLOCK FALSE
