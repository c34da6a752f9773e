SPECIFICATION FairSpec
CONSTANTS
    request = request
    Watchdog = Watchdog
    Requests = {request}
    MaxRetries = 1
    MaxAttempts = 1
    MaxRevisions = 2
    MaxTroubles = 1
INVARIANTS
    Consistent
PROPERTIES
    StopIsFinal
    ReplyNeverGoesBack
    OnlyAskedRunsStop
    StopEnds
    AbandonedRunStops
CHECK_DEADLOCK FALSE
