SPECIFICATION FairSpec
CONSTANTS
    exit = exit
    c1 = c1
    Calls <- MCCalls
    Threaded <- MCThreaded
    MaxRuns = 2
    Policies <- MCPolicies
    ExitCall = exit
    NoCall = NoCall
INVARIANTS
    TypeOK
    DirectoryErased
    NothingLeftBehind
PROPERTIES
    NothingNewAfterTerminate
    TurnsReturn
CHECK_DEADLOCK FALSE
