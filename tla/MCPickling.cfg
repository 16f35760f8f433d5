SPECIFICATION Spec
CONSTANTS
    Radix = 4
    NameNode = 4
    Graphs <- MCGraphs
    Assigned <- MCAssigned
    MaxChanges = 1
    Cycles = FALSE
    BufferSize = 14
    READ_BUFFER_SIZE = 4
    Cuts = {0, 1, 6}
INVARIANTS RoundTrip FrameFits CorruptExact
PROPERTIES Ends
CHECK_DEADLOCK FALSE
