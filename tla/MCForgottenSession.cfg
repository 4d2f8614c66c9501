SPECIFICATION Spec
CONSTANTS
    t1 = t1
    t2 = t2
    Tabs <- MCTabs
    Expiring = FALSE
    MaxSessions = 2
    MaxAbandoned = 1
PROPERTY
    OnlyLogoutForgetsLiveSession
