SPECIFICATION Spec
CONSTANTS
    c1 = c1
    c2 = c2
    c3 = c3
    Calls <- MCCalls
    MaxWorkspaces = 2
    MaxSandboxes = 4
    Backends = {"docker", "e2b"}
    Lazies = {TRUE, FALSE}
    Faults = {"provider", "timeout", "cancel"}
SYMMETRY MCSymmetry
INVARIANTS
    TypeOK
    SandboxesAccountedFor
PROPERTIES
    KeepsItsSandbox
