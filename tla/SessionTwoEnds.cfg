SPECIFICATION Spec
CONSTANTS
    a1 = a1
    a2 = a2
    a3 = a3
    e1 = e1
    e2 = e2
    o1 = o1
    o2 = o2
    Attaches <- MCTwoAttaches
    Ends <- MCTwoEnds
    Owners <- MCOwners
    OwnerOf <- MCOwnerOf
    NoOwner = NoOwner
    MaxSandboxes = 3
    Options <- MCAttachOptions
    LeaseConfigs = {TRUE}
    Reenters = FALSE
    ReconnectWakes = TRUE
    Faults = {}
INVARIANTS
    LateAttachRefused
