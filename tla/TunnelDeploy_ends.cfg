SPECIFICATION Spec
CONSTANTS
    Host = {1, 2}
    Managed = {1, 2}
    Cron = {1, 2}
    Port = {pa, pb}
    NoPort = NoPort
    Links <- OneLink
INVARIANTS
    EndpointsAgree
