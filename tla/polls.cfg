SPECIFICATION FairSpec
CONSTANTS
    p1 = p1
    c1 = c1
    c2 = c2
    NoRow = NoRow
    NoEntry = NoEntry
    Polls = {p1}
    Calls = {c1, c2}
    Windows <- FourTexts
    MaxAnswers = 2
    MaxVotes = 2
    MaxTime = 4
INVARIANTS
    TypeOK
    
    FreshUnlessRaced
    StatsNotBehind
PROPERTIES
    CachesCatchUp
