SPECIFICATION FairSpec
CONSTANTS
    c1 = c1
    c2 = c2
    c3 = c3
    None = None
    Clients = {c1, c2, c3}
    Capacities = {1, 2}
    Budget = 4
    Cost <- MCCost
    Wants = {1,4}
    MaxParked = 1
    QueuePerSlot = 1
    MaxRounds = 1
INVARIANTS
    Consistent
PROPERTIES
    Drains
    CommitFits
    NoOvertaking
CHECK_DEADLOCK FALSE
