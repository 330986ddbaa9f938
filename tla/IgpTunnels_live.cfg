SPECIFICATION FairSpec
CONSTANTS
    Host = {1, 2, 3}
    Links <- LiveLinks
    Manual = {}
    Run = {r1}
    StartPort = 30000
    Mishaps = {"remove", "uncommitted"}
PROPERTIES
    Converges
INVARIANTS
    FileWellFormed
