SPECIFICATION Spec
CONSTANTS
    pa = pa
    pb = pb
    pbb = pbb
    pd = pd
    ia = ia
    ib = ib
    id = id
    as1 = as1
    Peer = {pa, pb, pbb, pd}
    Iface <- MCIface
    Asn = {as1}
    Run = {r1, r2}
    Command <- MCCommand
    Overlap = TRUE
SYMMETRY Symmetry
INVARIANTS
    TypeOK
    UniqueNames
PROPERTIES
    LeavesOnlyIfTold
    RemovesLoneMatches
    StepsOfBook
