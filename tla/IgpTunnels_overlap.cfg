SPECIFICATION Spec
CONSTANTS
    Host = {1, 2, 3}
    Links <- OverlapLinks
    Manual = {}
    Run = {r1, r2}
    StartPort = 30000
    Mishaps = {"overlap"}
INVARIANTS
    NeverReassigned
