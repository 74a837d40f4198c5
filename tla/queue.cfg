SPECIFICATION FairSpec
CONSTANTS
    ana = ana
    bia = bia
    q1 = q1
    q2 = q2
    q3 = q3
    poll = poll
    good = good
    bad = bad
    Voters = {ana}
    Polls = {poll}
    Ballots = {good}
    Illegal = {}
    Requests = {q1, q2, q3}
    BatchSize = 2
    WorkerConns = 2
    MaxFaults = 1
INVARIANTS
    TypeOK
    OneVotePerVoter
    MarkerMeansVote
    RefusedNeverCounted
    NothingDroppedUndecided
PROPERTIES
    ImplementsLedger
    EveryEntryRead
CHECK_DEADLOCK FALSE
