SPECIFICATION Spec
CONSTANTS
    dn42a = dn42a
    dn42b = dn42b
    iga = iga
    bad = bad
    ra = ra
    rb = rb
    Name = {dn42a, dn42b, iga, bad}
    LegalNames = {dn42a, dn42b, iga}
    ExternalNames = {dn42a, dn42b}
    Asn <- MCAsn
    Router = {ra, rb}
    NoRouter = NoRouter
    Trees <- MCTrees
CHECK_DEADLOCK FALSE
INVARIANTS
    TypeOK
    VerdictRight
    SessionsRender
    GeneratedPass
