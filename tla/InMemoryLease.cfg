SPECIFICATION FairSpec
CONSTANTS
    t1 = t1
    t2 = t2
    t3 = t3
    o1 = o1
    o2 = o2
    Tasks <- MCTasks
    Owners <- MCOwners
    OwnerOf <- MCOwnerOf
    NoOwner = NoOwner
    TTL = 2
    Wait = 1
    MaxCalls = 4
INVARIANTS
    TypeOK
    GenerationsFence
    HolderUnlessSuperseded
PROPERTIES
    RefinesLease
    RenewOnlyNewest
    TimedWaitEnds
    OnlyHoldersKeepWaiting
