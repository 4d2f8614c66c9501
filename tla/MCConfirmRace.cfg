SPECIFICATION Spec
CONSTANTS
    r1 = r1
    r2 = r2
    s1 = s1
    s2 = s2
    NoSecret = NoSecret
    Reqs <- MCReqs
    Secrets <- MCSecrets
    NumRecovery = 1
    CodeSteps = {0, 1}
    MaxStep = 1
SYMMETRY Symmetric
INVARIANT
    ConfirmProvesPossession
