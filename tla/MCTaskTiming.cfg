CONSTANTS
    None = None
    DayLength = 6
    WeekLength = 3
    MonthLengths <- Months
    Zones <- MCZones
    Timings <- MCTimings
    Start = 12
    Horizon = 56
SPECIFICATION Spec
INVARIANT
    NextIsFirst
CHECK_DEADLOCK FALSE
