SPECIFICATION Spec
CONSTANTS
    p1 = p1
    p2 = p2
    Procs = {p1, p2}
    Embedded <- MCEmbedded
    Servers = {p1}
    Retained = {"csp"}
    Aging = {"csp"}
    Sent <- MCSent
    MaxReports = 2
INVARIANTS
    TypeOK
    NoBootRace
    BootedSeesSchema
    PoolOutlivesItsUsers
    ReportsAreIndependent
PROPERTIES
    AppliedInOrder
    BootsEnd
    SignalledEnds
    StaleRowsGo
