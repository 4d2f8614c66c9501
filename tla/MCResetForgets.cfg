SPECIFICATION Spec
CONSTANTS
    p1 = p1
    Pages <- MCPages
    MaxDelta = 2
    MaxStreak = 2
    MaxLoads = 2
    MaxSolves = 2
    MaxResets = 1
    MaxFaults = 1
    MaxAbandoned = 1
CHECK_DEADLOCK FALSE
INVARIANT
    ResetForgets
