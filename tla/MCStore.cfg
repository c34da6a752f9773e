CONSTANTS
    owner = owner
    t1 = t1
    t2 = t2
    w1 = w1
    w2 = w2
    None = None
    Accounts = {owner}
    Tasks = {t1}
    Workers = {w1}
    MaxRuns = 3
    MaxClock = 2
    MaxTasks = 2
    HistoryLimit = 1
    AccountOf <- MCAccountOf
    Schedules <- MCSchedules
    RunAfter <- MCNextRunAfter
SPECIFICATION Spec
INVARIANTS
    Consistent
    OneActiveRun
    OccurrenceOnce
PROPERTY
    DeletedChatStays
CHECK_DEADLOCK FALSE
