SPECIFICATION Spec
SYMMETRY SameAttempts
CONSTANTS
    ana = ana
    bia = bia
    a1 = a1
    a2 = a2
    a3 = a3
    NoRow = NoRow
    Voters = {ana, bia}
    Attempts = {a1, a2, a3}
    MaxFailures = 2
    LockTime = 1
    CodeTime = 2
    MaxTime = 2
    MaxCodes = 2
INVARIANTS
    TypeOK
    LockWithFullCount
    LockHasCause
    SpentCodeGone
    VerifiedHasProof
PROPERTY
    ImplementsOneTime
CHECK_DEADLOCK FALSE
