SPECIFICATION Spec
CONSTANTS
    r1 = r1
    r2 = r2
    n1 = n1
    n2 = n2
    c1 = c1
    c2 = c2
    NoName = NoName
    NoCred = NoCred
    Reqs <- MCReqs
    Names <- MCNames
    Creds <- MCCreds
    Home <- MCHome
    RPID <- MCRPID
    RPOrigins <- MCRPOrigins
    OriginPatterns <- MCOriginPatterns
    MaxDerived = 1
    FlowTTL = 2
    Skew = 1
    MaxIds = 3
SYMMETRY Symmetric
INVARIANTS
    TypeOK
    AccountsAreWhole
    SessionsAreEarned
    CeremonyKeepsRP
PROPERTIES
    FlowConsumedOnce
