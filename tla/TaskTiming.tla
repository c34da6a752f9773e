----------------------------- MODULE TaskTiming -----------------------------
(***************************************************************************)
(* One task's next_run_at over time: the route that sets it                *)
(* (routes/scheduled_tasks.py, _next_run), a clock, and a claim that may   *)
(* come any time after it is due (scheduled_tasks_db.py, _claim), so that  *)
(* runs are missed.  Every value is what next_run_after answers, and is    *)
(* held against what the calendar says.                                    *)
(***************************************************************************)
EXTENDS Schedule

CONSTANTS
    Zones,      \* time zones a task may be in
    Timings,    \* schedules it may have
    Start,      \* the first instant, some days into the calendar
    Horizon     \* bound: the last instant of the clock

VARIABLES
    zone, schedule,     \* of the task
    now,        \* now_ms()
    next,       \* next_run_at
    first,      \* history: where an hourly task's cadence starts
    asked       \* history: the instant next was computed for

vars == <<zone, schedule, now, next, first, asked>>

CadenceFrom(at) == IF schedule.kind = "hourly" THEN at ELSE None

Init ==
    /\ zone \in Zones
    /\ schedule \in Timings
    /\ now = Start
    /\ asked = now
    /\ next = NextRunAfter(schedule, zone, now, None)
    /\ first = CadenceFrom(next)

Tick ==
    /\ now < Horizon
    /\ now' = now + 1
    /\ UNCHANGED <<zone, schedule, next, first, asked>>

Claim ==
    /\ next # None
    /\ next <= now
    /\ next' = NextRunAfter(schedule, zone, Larger(now, next), next)
    /\ asked' = now
    /\ UNCHANGED <<zone, schedule, now, first>>

(* A change of another timing field and back: the task starts over.         *)
SetAgain ==
    /\ asked' = now
    /\ next' = NextRunAfter(schedule, zone, now, None)
    /\ first' = CadenceFrom(next')
    /\ UNCHANGED <<zone, schedule, now>>

Next == Tick \/ Claim \/ SetAgain
Spec == Init /\ [][Next]_vars

-----------------------------------------------------------------------------
(* What the calendar says, without a formula for the offset: a local minute *)
(* happens when the clocks first show it, and a minute the clocks skip is   *)
(* as long after the change as it would have been.                          *)
Shown(instant) == instant + Offset(zone, instant)
Moment(day, time) ==
    LET wall == day * DayLength + time
        passes == {i \in (wall - DayLength)..(wall + DayLength) : Shown(i) = wall}
    IN  IF passes = {} THEN wall - zone.before ELSE Min(passes)

LastDay == Horizon \div DayLength + 2 * (Max({MonthLengths[m] : m \in DOMAIN MonthLengths}) + 1)

ScheduledOn(day) ==
    \/ schedule.kind = "once" /\ day = schedule.day
    \/ schedule.kind = "daily"
    \/ schedule.kind = "weekly" /\ day % WeekLength \in schedule.days
    \/ /\ schedule.kind = "monthly"
       /\ \E m \in 0..day :
            LET past == day - MonthStart[m] + 1
            IN  /\ past \in 1..MonthLength(m)
                /\ past = schedule.day \/ (past = MonthLength(m) /\ past < schedule.day)

Occurrences ==
    IF schedule.kind = "hourly"
    THEN {first + k * schedule.hours : k \in 0..Horizon}
    ELSE {Moment(day, schedule.time) : day \in {d \in 0..LastDay : ScheduledOn(d)}}

(* "The first run strictly after after_ms, or None once a schedule has none *)
(* left": nothing is skipped but what passed before the claim, nothing runs *)
(* twice in a repeated hour, and an hourly task keeps its cadence.          *)
NextIsFirst ==
    LET later == {i \in Occurrences : i > asked}
    IN  next = IF later = {} THEN None ELSE Min(later)

=============================================================================
