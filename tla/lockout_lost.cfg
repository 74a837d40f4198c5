SPECIFICATION Spec
CONSTANTS
    ana = ana
    bia = bia
    a1 = a1
    a2 = a2
    a3 = a3
    NoRow = NoRow
    Voters = {ana}
    Attempts = {a1, a2}
    MaxFailures = 2
    LockTime = 1
    CodeTime = 2
    MaxTime = 1
    MaxCodes = 1
INVARIANTS
    FailuresLock
CHECK_DEADLOCK FALSE
