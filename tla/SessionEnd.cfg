SPECIFICATION EndFairSpec
CONSTANTS
    a1 = a1
    a2 = a2
    a3 = a3
    e1 = e1
    e2 = e2
    o1 = o1
    o2 = o2
    Attaches <- MCTwoAttaches
    Ends <- MCOneEnd
    Owners <- MCOwners
    OwnerOf <- MCOwnerOf
    NoOwner = NoOwner
    MaxSandboxes = 2
    Options <- MCEndOptions
    LeaseConfigs = {TRUE, FALSE}
    Reenters = TRUE
    ReconnectWakes = FALSE
    Faults = {"store", "lease", "cancel", "slow"}
INVARIANTS
    LateAttachRefused
    NothingLeftOver
PROPERTIES
    EndAlwaysWins
