----------------------- MODULE MCScheduledTaskStore -------------------------
(* Small instances of ScheduledTaskStore for TLC.                           *)
EXTENDS ScheduledTaskStore, TLC

CONSTANTS owner, t1, t2, w1, w2

(* One tick is an hour, a day is one tick long: enough for hourly tasks and *)
(* for a task that runs once.                                               *)
Calendar == INSTANCE Schedule WITH DayLength <- 1, WeekLength <- 1, MonthLengths <- <<1>>
UTC == [change |-> 0, before |-> 0, since |-> 0]

MCSchedules == {[kind |-> "hourly", hours |-> 1], [kind |-> "once", day |-> 2, time |-> 0]}
MCNextRunAfter(s, after, anchor) == Calendar!NextRunAfter(s, UTC, after, anchor)
MCAccountOf == [t \in Tasks |-> owner]

Symmetry == Permutations(Tasks)
=============================================================================
