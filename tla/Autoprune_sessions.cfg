SPECIFICATION Spec
CONSTANTS
    i1 = i1
    i2 = i2
    i3 = i3
    as1 = as1
    as2 = as2
    as3 = as3
    Peer = {i1, i2, i3}
    Iface <- MCIface
    Asn = {as1, as2, as3}
    Families <- TwoSessions
    AsnOf <- MCAsnOf
    Overlap = FALSE
PROPERTIES
    MarksOnlyInactive
