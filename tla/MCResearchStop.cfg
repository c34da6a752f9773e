SPECIFICATION Spec
CONSTANTS
    request = request
    Watchdog = Watchdog
    Requests = {request}
    MaxRetries = 1
    MaxAttempts = 1
    MaxRevisions = 2
    MaxTroubles = 0
INVARIANT CancelledWasAsked
CHECK_DEADLOCK FALSE
