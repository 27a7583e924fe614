SPECIFICATION FairSpec
CONSTANTS
    a1 = a1
    a2 = a2
    a3 = a3
    e1 = e1
    e2 = e2
    o1 = o1
    o2 = o2
    Attaches <- MCAttaches
    Ends = {}
    Owners <- MCOwners
    OwnerOf <- MCOwnerOf
    NoOwner = NoOwner
    MaxSandboxes = 4
    Options <- MCAttachOptions
    LeaseConfigs = {TRUE}
    Reenters = FALSE
    ReconnectWakes = TRUE
    Faults = {"lease", "boot", "pause", "cancel", "crash"}
INVARIANTS
    TypeOK
    ExclusiveAttach
    NothingLeftOver
PROPERTIES
    EveryCallReturns
