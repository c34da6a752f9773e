SPECIFICATION MCSpec
CONSTANTS
    None = None
    r1 = r1
    c1 = c1
    t1 = t1
    p1 = p1
    Runs = {r1}
    Threads = {t1}
    Prompts = {p1}
    ThreadOf <- MCThreadOf
    PromptOf <- MCPromptOf
    Clients = {c1}
    Follows <- MCFollows
    ReadLimit = 2
    MaxPending = 2
    MaxChunks = 2
    MaxBeats = 1
    Retried = TRUE
    MaxFaults = 1
    MaxCrashes = 1
INVARIANTS
    Consistent
    OutputInOrder
    FollowerSeesLog
PROPERTIES
    StoreSpec
    NothingLeftBehind
    RunsEnd
    FollowersReturn
CHECK_DEADLOCK FALSE
