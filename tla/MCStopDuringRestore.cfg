CONSTANTS
    owner = owner
    guest = guest
    t1 = t1
    t2 = t2
    w1 = w1
    w2 = w2
    None = None
    Accounts = {owner, guest}
    JobAccounts <- OwnerAndGuest
    Managed = {guest}
    Loading = {owner}
    Tasks = {t1, t2}
    AccountOf <- TwoAccounts
    Workers = {w1}
    MayStop = {w1}
    MaxRuns = 2
    MaxClock = 1
    MaxTasks = 2
    HistoryLimit = 1
    StaleAfter = 0
    SettleAttempts = 2
    MaxFaults = 0
    Schedules <- OneSchedule
    RunAfter <- MCNextRunAfter
SPECIFICATION Spec
PROPERTY
    NoRunBeginsAfterStop
CHECK_DEADLOCK FALSE
