---------------------- MODULE MCScheduledTaskScheduler ----------------------
(* Small instances of ScheduledTaskScheduler for TLC.                       *)
EXTENDS ScheduledTaskScheduler, TLC

CONSTANTS owner, guest, t1, t2, w1, w2

(* One tick is an hour and a day, as in MCScheduledTaskStore.               *)
Calendar == INSTANCE Schedule WITH DayLength <- 1, WeekLength <- 1, MonthLengths <- <<1>>
UTC == [change |-> 0, before |-> 0, since |-> 0]

MCSchedules == {[kind |-> "hourly", hours |-> 1], [kind |-> "once", day |-> 2, time |-> 0]}
OneSchedule == {[kind |-> "hourly", hours |-> 1]}
MCNextRunAfter(s, after, anchor) == Calendar!NextRunAfter(s, UTC, after, anchor)
OneAccount == [t \in Tasks |-> owner]
TwoAccounts == [t \in Tasks |-> IF t = t1 THEN owner ELSE guest]
OwnerOnly == <<owner>>
OwnerAndGuest == <<owner, guest>>

(* Calls that fail and a process that may stop are too large together:      *)
(* calls fail once w1 is gone.                                              *)
CallsFailAlone == faults' # faults => sched[w1].proc = "gone"
MCNext == Next /\ CallsFailAlone
MCSpec == Init /\ [][MCNext]_vars /\ Fairness

SafetySymmetry == Permutations(Workers)
=============================================================================
