SPECIFICATION FairSpec
CONSTANTS
    None = None
    run = run
    tab1 = tab1
    tab2 = tab2
    Runs = {run}
    Followers = {tab1, tab2}
    Follows <- MCFollows
    AttendedFor = 2
    KeepAlive = 1
    Calls = 1
    ParkTimeout = 2
    DecisionTimeout = 6
    RenewEvery = 1
    LeaseTimeout = 5
    MaxFaults = 1
INVARIANTS
    Consistent
    AnswerIsKept
    ParkIsNotSwept
PROPERTIES
    WatchedParkLasts
    WaitsEnd
CHECK_DEADLOCK FALSE
