SPECIFICATION Spec
SYMMETRY SameCalls
CONSTANTS
    a = a
    c1 = c1
    c2 = c2
    Processes = {a}
    Redis = Redis
    Calls = {c1, c2}
    Max = 2
    Window = 4
    Second = 2
    Patience = 1
    MaxRequests = 4
    MaxTime = 5
INVARIANTS
    TypeOK
    BudgetKept
    SharedBudget
    RefusedOverBudget
    WaitSuffices
