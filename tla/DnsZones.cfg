SPECIFICATION Spec
CONSTANTS
    Confs <- MCConfs
    Registries <- MCRegistries
    Dn42Names <- MCDn42Names
    MaxEdits = 2
    MaxMishaps = 1
INVARIANTS
    TypeOK
    OwnAddressesNamed
    ServesFiles
    ClashesAreMisnamed
    RegistryMeaning
    FailsForCause
