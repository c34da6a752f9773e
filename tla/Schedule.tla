------------------------------ MODULE Schedule ------------------------------
(***************************************************************************)
(* core/scheduled_tasks/schedule.py: when a task runs next.                 *)
(*                                                                          *)
(* Instants and wall clocks are whole ticks; a day has DayLength of them    *)
(* and a week WeekLength days, so that a calendar with its clock changes    *)
(* fits in a few dozen instants.  A zone has one UTC offset and, from its   *)
(* change on, another: enough for a gap and for a repeated hour.            *)
(***************************************************************************)
EXTENDS Integers, Sequences, FiniteSetsExt

CONSTANTS
    DayLength,      \* ticks in a day
    WeekLength,     \* days in a week
    MonthLengths,   \* lengths of the months of the year, in days
    None

Offset(zone, instant) == IF instant < zone.change THEN zone.before ELSE zone.since
LocalDay(zone, instant) == (instant + Offset(zone, instant)) \div DayLength

Larger(x, y) == IF x < y THEN y ELSE x

(* _utc with fold = 0: a skipped wall time is read with the offset before   *)
(* the change, which moves it past the gap; so is a repeated one, which     *)
(* picks its first pass.                                                    *)
Utc(day, time, zone) ==
    LET wall == day * DayLength + time
    IN  wall - IF wall < zone.change + Larger(zone.before, zone.since)
               THEN zone.before ELSE zone.since

Weekday(day) == day % WeekLength

MonthLength(month) == MonthLengths[(month % Len(MonthLengths)) + 1]
MonthStart[month \in Nat] ==
    IF month = 0 THEN 0 ELSE MonthStart[month - 1] + MonthLength(month - 1)
MonthOf(day) == CHOOSE m \in 0..day : MonthStart[m] <= day /\ day < MonthStart[m + 1]
(* A month without the day runs on its last day.                            *)
DayOfMonth(month, day) ==
    MonthStart[month] + (IF day <= MonthLength(month) THEN day ELSE MonthLength(month)) - 1

(* _next_after: the first of the candidate days whose instant is after.     *)
FirstAfter(days, time, zone, after) ==
    LET later == {d \in days : Utc(d, time, zone) > after}
    IN  IF later = {} THEN None ELSE Utc(Min(later), time, zone)

(* One weekday too few: the same weekday a week on is out of reach.         *)
CandidateDaysShort(s, today) ==
    CASE s.kind = "once"    -> {s.day}
      [] s.kind = "daily"   -> today..(today + WeekLength - 1)
      [] s.kind = "weekly"  -> {d \in today..(today + WeekLength - 1) : Weekday(d) \in s.days}
      [] s.kind = "monthly" -> {DayOfMonth(m, s.day) : m \in MonthOf(today)..(MonthOf(today) + 1)}

(* The days _next_after looks at.                                           *)
CandidateDays(s, today) ==
    CASE s.kind = "once"    -> {s.day}
      [] s.kind = "daily"   -> today..(today + WeekLength)
      [] s.kind = "weekly"  -> {d \in today..(today + WeekLength) : Weekday(d) \in s.days}
      [] s.kind = "monthly" -> {DayOfMonth(m, s.day) : m \in MonthOf(today)..(MonthOf(today) + 1)}

(* Elapsed intervals since the anchor; missed occurrences are skipped.      *)
HourlyAfter(interval, after, anchor) ==
    IF anchor = None
    THEN after + interval
    ELSE anchor + Larger(0, (after - anchor) \div interval + 1) * interval

NextRunAfter(s, zone, after, anchor) ==
    IF s.kind = "hourly"
    THEN HourlyAfter(s.hours, after, anchor)
    ELSE FirstAfter(CandidateDays(s, LocalDay(zone, after)), s.time, zone, after)

=============================================================================
