SPECIFICATION Spec
CONSTANTS
    ana = ana
    bia = bia
    q1 = q1
    q2 = q2
    q3 = q3
    poll = poll
    good = good
    bad = bad
    Voters = {ana}
    Polls = {poll}
    Ballots = {good, bad}
    Illegal = {bad}
    Requests = {q1, q2}
    BatchSize = 2
    WorkerConns = 2
    MaxFaults = 0
INVARIANTS
    SkippedHasVote
CHECK_DEADLOCK FALSE
