CONSTANTS
    owner = owner
    guest = guest
    t1 = t1
    t2 = t2
    w1 = w1
    w2 = w2
    None = None
    Accounts = {owner}
    JobAccounts <- OwnerOnly
    Managed = {}
    Loading = {}
    Tasks = {t1}
    AccountOf <- OneAccount
    Workers = {w1, w2}
    MayStop = {w1}
    MaxRuns = 1
    MaxClock = 2
    MaxTasks = 2
    HistoryLimit = 1
    StaleAfter = 1
    SettleAttempts = 2
    MaxFaults = 3
    Schedules <- OneSchedule
    RunAfter <- MCNextRunAfter
SPECIFICATION MCSpec
PROPERTIES
    RunsSettle
    StopEnds
CHECK_DEADLOCK FALSE
