SPECIFICATION FairSpec
CONSTANTS
    super = super
    ana = ana
    p1 = p1
    p2 = p2
    c1 = c1
    c2 = c2
    NoRow = NoRow
    Accounts = {super, ana}
    Super = super
    Processes = {p1, p2}
    Calls = {c1, c2}
    MaxCodes = 2
    MaxVersion <- VersionBound
INVARIANTS
    TypeOK
    SuperStays
PROPERTIES
    RevokedForGood
    ImplementsOneTime
    StartRecovers
