CONSTANTS
    Functions <- MCFunctions
    Externals <- MCExternals
    Futures <- MCFutures
    FutValues <- MCFutValues
    Machines = {"abstract", "hotspot"}
    Entries <- MCEntries
    Form = "sharing"
SPECIFICATION Spec
INVARIANT SameOutcome
CHECK_DEADLOCK FALSE
