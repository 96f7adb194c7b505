CONSTANTS
    Procs = {p1, p2}
    CacheTTL = 2
    Grace = 1
    CASLag = 1
    ExpiresAt = 4
    MaxTime = 4
    MaxToken = 2
    MaxVersion = 2
SYMMETRY Symm
SPECIFICATION Spec
INVARIANTS TypeOK PublishedStateHolds BoundedStaleness GraceHonoured
