SPECIFICATION Spec
CONSTANTS
    r1 = r1
    r2 = r2
    t1 = t1
    p1 = p1
    Runs = {r1, r2}
    Threads = {t1}
    Prompts = {p1}
    ThreadOf <- MCThreadOf
    PromptOf <- MCPromptOf
    Batches <- MCBatches
    MaxEvents = 3
INVARIANTS
    Consistent
    StopIsHonoured
    MessageFollowsRun
PROPERTY
    RecordsStay
CHECK_DEADLOCK FALSE
