CONSTANTS
    Functions <- MCFunctions
    Externals <- MCExternals
    Futures <- MCFutures
    FutValues <- MCFutValues
    Machines = {"abstract", "hotspot"}
    Entries <- MCEntries
    Form = "regular"
SPECIFICATION Spec
INVARIANT SameOutcome
PROPERTY BothEnd
