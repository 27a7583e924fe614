SPECIFICATION Spec
CONSTANTS
    REDIS_URL = REDIS_URL
    REDIS_LEASE_URL = REDIS_LEASE_URL
    UrlNames <- MCUrlNames
    E2BKey = E2B_API_KEY
    StasoKey = STASO_API_KEY
    Picks <- MCPicks
    MaxChanges = 2
    Nothing = Nothing
SYMMETRY MCSymmetry
PROPERTIES
    WizardBundlesLoad
    LoadFailsFast
    SharedAsChosen
