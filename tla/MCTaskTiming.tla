---------------------------- MODULE MCTaskTiming ----------------------------
(* Small calendars for TaskTiming: days of six ticks, weeks of three days,  *)
(* months of three to five days, clocks that change by two ticks.           *)
EXTENDS TaskTiming

Months == <<4, 3, 5>>

Zone(change, before, since) == [change |-> change, before |-> before, since |-> since]

(* No change; clocks forward and back at noon; forward at the start of a    *)
(* day, as in Beirut; back from midnight, as in Nuuk in October.            *)
MCZones ==
    {Zone(0, 0, 0), Zone(38, 0, 2), Zone(39, 2, 0), Zone(36, 0, 2), Zone(36, 0, -2)}

MCTimings ==
    {[kind |-> "once", day |-> d, time |-> t] : d \in {1, 6}, t \in {0, 3}}
    \cup {[kind |-> "hourly", hours |-> h] : h \in {1, 4}}
    \cup {[kind |-> "daily", time |-> t] : t \in 0..5}
    \cup {[kind |-> "weekly", days |-> D, time |-> t] : D \in {{0}, {1, 2}}, t \in {0, 3}}
    \cup {[kind |-> "monthly", day |-> d, time |-> t] : d \in {1, 3, 5}, t \in {0, 3}}
=============================================================================
