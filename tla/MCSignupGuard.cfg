SPECIFICATION Spec
CONSTANTS
    ip1 = ip1
    ip2 = ip2
    Keys <- MCKeys
    Rate = 1
    Cost = 2
    Burst = 2
    SweepInterval = 2
    SiteRate = 1
    SiteCost = 1
    SiteBurst = 2
    MaxTime = 6
    MaxInFlight = 1
SYMMETRY Symmetric
INVARIANTS
    TypeOK
    OnlyRecentKeysTracked
    NoisyClientCannotDrainSite
    SiteWideCap
PROPERTIES
    SweepChangesNoDecision
    TokensConserved
