SPECIFICATION Spec
CONSTANTS
    Host = {1, 2, 3}
    Links <- CarefulLinks
    Manual = {3}
    Run = {r1}
    StartPort = 30000
    Mishaps = {}
INVARIANTS
    TypeOK
    FileWellFormed
    NeverReassigned
    AllocationsStick
PROPERTIES
    ImplementsPortPlan
