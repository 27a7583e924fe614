SPECIFICATION Spec
CONSTANTS
    c1 = c1
    c2 = c2
    c3 = c3
    workspace = workspace
    pending_action = pending_action
    v1 = v1
    v2 = v2
    Callers <- MCCallers
    Keys <- MCKeys
    Values <- MCValues
    Missing = Missing
    Backends <- MCBackends
INVARIANTS
    TypeOK
    KeysAreIndexed
PROPERTIES
    RefinesStore
