SPECIFICATION Spec
CONSTANTS
    ana = ana
    bia = bia
    r1 = r1
    r2 = r2
    r3 = r3
    api = api
    ui = ui
    radio = radio
    check = check
    x = x
    y = y
    z = z
    NoPoll = NoPoll
    Nobody = Nobody
    Requests = {r1, r2, r3}
    MaxConns = 2
    MaxTime = 1
    Voters = {ana}
    Polls = {radio, check}
    Answers = {x, y, z}
    Ballots <- OneBallot
    Hosts = {api, ui}
    HostOf <- MCHostOf
    RadioPolls = {radio}
    Offered <- MCOffered
    OpensAt <- MCOpensAt
    ClosesAt <- AlwaysOpen
INVARIANTS
    TypeOK
    OneVotePerVoter
    CheckedVoterStaysFree
    AcceptedIffStored
    ConflictIsTrue
    LiveCodeUsable
PROPERTIES
    ImplementsLedger
CHECK_DEADLOCK FALSE
