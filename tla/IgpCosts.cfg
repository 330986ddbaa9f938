SPECIFICATION FairSpec
CONSTANTS
    Neighbour = {1, 2}
    Lines <- MCLines
    PingCount = 2
    LossPenalty = 100
    BaseCost = 10
    FallbackCost = 10000
    MaxRtt = 1000
    MaxEdits = 1
    MaxMishaps = 1
INVARIANTS
    TypeOK
    IdleRunsConf
    CostsInPlace
    SilentIsWorst
PROPERTY
    Heals
