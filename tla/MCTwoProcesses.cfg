CONSTANTS
    owner = owner
    guest = guest
    t1 = t1
    t2 = t2
    w1 = w1
    w2 = w2
    None = None
    Accounts = {owner}
    JobAccounts <- OwnerOnly
    Managed = {}
    Loading = {}
    Tasks = {t1}
    AccountOf <- OneAccount
    Workers = {w1, w2}
    MayStop = {w1, w2}
    MaxRuns = 1
    MaxClock = 2
    MaxTasks = 2
    HistoryLimit = 1
    StaleAfter = 1
    SettleAttempts = 2
    MaxFaults = 1
    Schedules <- OneSchedule
    RunAfter <- MCNextRunAfter
SPECIFICATION Spec
SYMMETRY SafetySymmetry
INVARIANTS
    Consistent
    ExecutedOnce
    EndedOwnsNothing
PROPERTIES
    StoreSpec
    RunContract
CHECK_DEADLOCK FALSE
