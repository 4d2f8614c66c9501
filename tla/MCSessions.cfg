SPECIFICATION Spec
CONSTANTS
    t1 = t1
    t2 = t2
    Tabs <- MCTabs
    Expiring = TRUE
    MaxSessions = 2
    MaxAbandoned = 1
INVARIANTS
    TypeOK
    SignedOutMeansRevoked
PROPERTIES
    FaultsNeverSignOut
    StaleTabNotices
