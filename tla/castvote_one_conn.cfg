SPECIFICATION FairSpec
CONSTANTS
    ana = ana
    bia = bia
    r1 = r1
    r2 = r2
    r3 = r3
    api = api
    ui = ui
    radio = radio
    check = check
    x = x
    y = y
    z = z
    NoPoll = NoPoll
    Nobody = Nobody
    Requests = {r2}
    MaxConns = 1
    MaxTime = 1
    Voters = {ana}
    Polls = {radio, check}
    Answers = {x, y, z}
    Ballots <- OneBallot
    Hosts = {api, ui}
    HostOf <- MCHostOf
    RadioPolls = {radio}
    Offered <- MCOffered
    OpensAt <- MCOpensAt
    ClosesAt <- AlwaysOpen
PROPERTIES
    EveryRequestAnswered
CHECK_DEADLOCK FALSE
