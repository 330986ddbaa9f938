SPECIFICATION FairSpec
CONSTANTS
    Host = {1, 2, 3}
    Managed = {1}
    Cron = {1}
    Port = {pa, pb}
    NoPort = NoPort
    Links <- HubLinks
INVARIANTS
    TypeOK
    NoListenClash
    IdleRunsConf
PROPERTIES
    Converges
    FailedRecover
