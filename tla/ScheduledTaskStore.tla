------------------------- MODULE ScheduledTaskStore -------------------------
(***************************************************************************)
(* The tables of storage/scheduled_tasks_db.py and what its transactions    *)
(* do to them.  Every operation below is one SQLite transaction ("BEGIN     *)
(* IMMEDIATE", so transactions are serial); its guard is the operation's    *)
(* early returns and exceptions, and a transaction that changes nothing is  *)
(* a stuttering step.                                                       *)
(*                                                                          *)
(* Each account has its own studio.db.  The module holds all of them at     *)
(* once: AccountOf says whose database a task is in, and an operation of    *)
(* one database looks at that account's tasks only.                         *)
(*                                                                          *)
(* A run's chat id is derived from the run id (chat_id_for_run), so the     *)
(* chats are indexed by the run.  Run ids are never reused; they are        *)
(* numbered in the order the rows are inserted, which stands for the order  *)
(* by (created_at, rowid).                                                  *)
(***************************************************************************)
EXTENDS Integers, FiniteSets

CONSTANTS
    Accounts,       \* the accounts of the installation
    Tasks,          \* task ids ever created
    AccountOf,      \* the account whose database holds the task
    Schedules,      \* (schedule, time zone) pairs a task may be given
    Workers,        \* worker ids, one per scheduler object
    MaxRuns,        \* bound: run rows ever inserted
    MaxClock,       \* bound: the last instant of the clock
    MaxTasks,       \* MAX_TASKS
    HistoryLimit,   \* RUN_HISTORY_LIMIT
    None,           \* SQL NULL
    RunAfter(_, _, _)   \* next_run_after(schedule, after, anchor)

RunIds == 1..MaxRuns
Times == Nat \cup {None}

ASSUME NoneAssumption ==
    None \notin Nat /\ None \notin Tasks /\ None \notin Workers /\ None # "schedule"
ASSUME AccountAssumption == AccountOf \in [Tasks -> Accounts]
ASSUME BoundAssumption ==
    /\ MaxRuns \in Nat
    /\ MaxClock \in Nat
    /\ MaxTasks \in Nat
    /\ HistoryLimit \in Nat \ {0}
(* next_run_after answers "the first run strictly after after_ms, or None"; *)
(* the module Schedule defines it and shows that it does.                   *)
ASSUME NextRunAssumption ==
    \A s \in Schedules, after \in 0..MaxClock, anchor \in (0..MaxClock) \cup {None} :
        /\ RunAfter(s, after, anchor) \in Times
        /\ RunAfter(s, after, anchor) # None => RunAfter(s, after, anchor) > after

VARIABLES
    tasks,      \* scheduled_tasks
    runs,       \* scheduled_task_runs
    made,       \* number of run rows ever inserted
    chats,      \* chat_threads and their tombstones, by run
    clock,      \* now_ms()
    done        \* history: occurrences claimed, and not given back, since
                \* the task's timing was last set

vars == <<tasks, runs, made, chats, clock, done>>

Unborn == [state |-> "unborn", enabled |-> FALSE, schedule |-> None, next |-> None]
Deleted == [Unborn EXCEPT !.state = "deleted"]
NoRow == [status |-> "none", task |-> None, source |-> None, scheduledFor |-> None,
          heartbeat |-> None, worker |-> None, thread |-> FALSE]

Live == {t \in Tasks : tasks[t].state = "live"}
ActiveRunning(rs, t) == {r \in RunIds : rs[r].task = t /\ rs[r].status = "running"}
Active(rs, t) == {r \in RunIds : rs[r].task = t /\ rs[r].status \in {"queued", "running"}}
Finished(rs, t) == {r \in RunIds : rs[r].task = t /\ rs[r].status \in {"succeeded", "failed"}}
InAccount(r, a) == runs[r].task # None /\ AccountOf[runs[r].task] = a

QueuedOrRunning(a) == {r \in RunIds : runs[r].status \in {"queued", "running"} /\ InAccount(r, a)}
Queued(a) == {r \in RunIds : runs[r].status = "queued" /\ InAccount(r, a)}
StaleReversed(a, before) ==
    {r \in RunIds : runs[r].status = "running" /\ InAccount(r, a) /\ runs[r].heartbeat > before}
Stale(a, before) ==
    {r \in RunIds : runs[r].status = "running" /\ InAccount(r, a) /\ runs[r].heartbeat < before}
Due(a, now) ==
    {t \in Live : /\ AccountOf[t] = a
                  /\ tasks[t].enabled
                  /\ tasks[t].next # None
                  /\ tasks[t].next <= now
                  /\ Active(runs, t) = {}}

-----------------------------------------------------------------------------
(* Chats, as this store and save_chat use them.                             *)

ChatExists(r) == chats[r] \in {"empty", "full"}

(* delete_chat_threads_in: the row goes (the run's thread_id is set NULL)   *)
(* and the id is tombstoned, whether or not there was a row.                *)
WithoutChats(cs, R) == [r \in RunIds |-> IF r \in R THEN "deleted" ELSE cs[r]]
LinksKept(rs, R) == rs
Unlinked(rs, R) ==
    [r \in RunIds |-> IF r \in R /\ rs[r].thread THEN [rs[r] EXCEPT !.thread = FALSE] ELSE rs[r]]

UpsertAnyChat(r) ==
    /\ chats' = [chats EXCEPT ![r] = IF ChatExists(r) THEN chats[r] ELSE "empty"]
    /\ UNCHANGED <<tasks, runs, made, clock, done>>

(* upsert_chat_thread raises ChatThreadDeletedError on a tombstoned id.     *)
UpsertChat(r) ==
    /\ chats[r] # "deleted"
    /\ chats' = [chats EXCEPT ![r] = IF chats[r] = "none" THEN "empty" ELSE chats[r]]
    /\ UNCHANGED <<tasks, runs, made, clock, done>>

(* sync_chat_messages: the messages' foreign key needs the thread.          *)
SyncChat(r) ==
    /\ ChatExists(r)
    /\ chats' = [chats EXCEPT ![r] = "full"]
    /\ UNCHANGED <<tasks, runs, made, clock, done>>

DeleteChat(r) ==
    /\ chats' = WithoutChats(chats, {r})
    /\ runs' = Unlinked(runs, {r})
    /\ UNCHANGED <<tasks, made, clock, done>>

-----------------------------------------------------------------------------
(* Requests.  A route reads now_ms() before its transaction, so now may be  *)
(* older than the clock when the transaction runs.                          *)

(* _next_run: a paused task has no next run, and a schedule with nothing    *)
(* left is refused (400) for an enabled one.                                *)
NextFromNow(s, enabled, now) == IF enabled THEN RunAfter(s, now, None) ELSE None
Refused(s, enabled, now) == enabled /\ RunAfter(s, now, None) = None

CreateTask(t, s, enabled, now) ==
    /\ tasks[t].state = "unborn"
    /\ ~Refused(s, enabled, now)
    /\ Cardinality({u \in Live : AccountOf[u] = AccountOf[t]}) < MaxTasks
    /\ tasks' = [tasks EXCEPT ![t] = [state |-> "live", enabled |-> enabled, schedule |-> s,
                                      next |-> NextFromNow(s, enabled, now)]]
    /\ UNCHANGED <<runs, made, chats, clock, done>>

(* update_task; an update that changes no timing field keeps next_run_at    *)
(* and every other field modelled here.                                     *)
UpdateTask(t, s, enabled, now) ==
    /\ t \in Live
    /\ <<s, enabled>> # <<tasks[t].schedule, tasks[t].enabled>>
    /\ ~Refused(s, enabled, now)
    /\ tasks' = [tasks EXCEPT ![t] = [state |-> "live", enabled |-> enabled, schedule |-> s,
                                      next |-> NextFromNow(s, enabled, now)]]
    /\ done' = [done EXCEPT ![t] = {}]
    /\ UNCHANGED <<runs, made, chats, clock>>

(* delete_task: its rows cascade; chats of runs in progress go with them.   *)
DeleteTask(t) ==
    /\ t \in Live
    /\ LET running == {r \in RunIds : runs[r].task = t /\ runs[r].status = "running"}
       IN  chats' = WithoutChats(chats, running)
    /\ tasks' = [tasks EXCEPT ![t] = Deleted]
    /\ runs' = [r \in RunIds |-> IF runs[r].task = t THEN NoRow ELSE runs[r]]
    /\ done' = [done EXCEPT ![t] = {}]
    /\ UNCHANGED <<made, clock>>

RequestRun(t) ==
    /\ t \in Live
    /\ Active(runs, t) = {}
    /\ made < MaxRuns
    /\ made' = made + 1
    /\ runs' = [runs EXCEPT ![made + 1] =
                   [NoRow EXCEPT !.status = "queued", !.task = t, !.source = "manual"]]
    /\ UNCHANGED <<tasks, chats, clock, done>>

-----------------------------------------------------------------------------
(* The scheduler's transactions.                                            *)

(* _trim_history: of a task's finished runs the newest HistoryLimit stay.   *)
Outdated(rs, t) ==
    {r \in Finished(rs, t) : Cardinality({q \in Finished(rs, t) : q > r}) >= HistoryLimit}
Trimmed(rs, T) ==
    [r \in RunIds |-> IF \E t \in T : r \in Outdated(rs, t) THEN NoRow ELSE rs[r]]

(* _fail_stale                                                              *)
FailStale(a, before) ==
    LET stale == Stale(a, before)
        failed == [r \in RunIds |->
                      IF r \in stale
                      THEN [runs[r] EXCEPT !.status = "failed", !.worker = None, !.heartbeat = None]
                      ELSE runs[r]]
    IN  /\ stale # {}
        /\ runs' = Trimmed(Unlinked(failed, stale), {runs[r].task : r \in stale})
        /\ chats' = WithoutChats(chats, stale)
        /\ UNCHANGED <<tasks, made, clock, done>>

(* _claim, first branch: the oldest queued run.                             *)
ClaimQueued(r, a, w, now) ==
    /\ r \in Queued(a)
    /\ \A q \in Queued(a) : r <= q
    /\ runs' = [runs EXCEPT ![r] = [@ EXCEPT !.status = "running", !.heartbeat = now,
                                             !.worker = w]]
    /\ UNCHANGED <<tasks, made, chats, clock, done>>

Later(x, y) == IF x < y THEN y ELSE x

(* The task's next run once it is claimed.                                  *)
NotAdvanced(t, now) == tasks[t].next
Following(t, now) ==
    RunAfter(tasks[t].schedule, Later(now, tasks[t].next), tasks[t].next)

(* _claim, second branch: the most overdue task.                            *)
ClaimDue(t, a, w, now) ==
    /\ Queued(a) = {}
    /\ t \in Due(a, now)
    /\ \A u \in Due(a, now) : tasks[t].next <= tasks[u].next
    /\ made < MaxRuns
    /\ made' = made + 1
    /\ runs' = [runs EXCEPT ![made + 1] =
                   [status |-> "running", task |-> t, source |-> "schedule",
                    scheduledFor |-> tasks[t].next, heartbeat |-> now, worker |-> w,
                    thread |-> FALSE]]
    /\ tasks' = [tasks EXCEPT ![t].next = Following(t, now)]
    /\ done' = [done EXCEPT ![t] = @ \cup {tasks[t].next}]
    /\ UNCHANGED <<chats, clock>>

(* "the run is no longer this worker's": the guard of heartbeat,            *)
(* release_claim and finish_run.                                            *)
Owns(w, r) == runs[r].status = "running" /\ runs[r].worker = w

Heartbeat(r, w) ==
    /\ Owns(w, r)
    /\ runs' = [runs EXCEPT ![r].heartbeat = clock]
    /\ UNCHANGED <<tasks, made, chats, clock, done>>

(* release_claim of a Run now: it is queued again.                          *)
Requeue(r, w) ==
    /\ Owns(w, r)
    /\ runs[r].source = "manual"
    /\ runs' = [runs EXCEPT ![r] = [@ EXCEPT !.status = "queued", !.heartbeat = None,
                                             !.worker = None]]
    /\ UNCHANGED <<tasks, made, chats, clock, done>>

(* release_claim of a scheduled run: the row goes and its occurrence is due *)
(* again, unless next_run_at is no longer what the claim set.               *)
GiveBack(r, w, claimedNext) ==
    LET t == runs[r].task
        restore == tasks[t].enabled /\ tasks[t].next = claimedNext
    IN  /\ Owns(w, r)
        /\ runs[r].source = "schedule"
        /\ runs' = [runs EXCEPT ![r] = NoRow]
        /\ tasks' = [tasks EXCEPT ![t].next = IF restore THEN runs[r].scheduledFor ELSE @]
        /\ done' = [done EXCEPT ![t] = @ \ {runs[r].scheduledFor}]
        /\ UNCHANGED <<made, chats, clock>>

(* finish_run; worker_id and heartbeat_at, which nothing reads in a         *)
(* finished row, are forgotten.                                             *)
FinishRun(r, w, status, link, discard) ==
    LET cs == IF discard THEN WithoutChats(chats, {r}) ELSE chats
        row == [runs[r] EXCEPT !.status = status, !.heartbeat = None, !.worker = None,
                               !.thread = link /\ cs[r] \in {"empty", "full"}]
    IN  /\ Owns(w, r)
        /\ chats' = cs
        /\ runs' = Trimmed([runs EXCEPT ![r] = row], {runs[r].task})
        /\ UNCHANGED <<tasks, made, clock, done>>

Tick ==
    /\ clock < MaxClock
    /\ clock' = clock + 1
    /\ UNCHANGED <<tasks, runs, made, chats, done>>

-----------------------------------------------------------------------------
Init ==
    /\ tasks = [t \in Tasks |-> Unborn]
    /\ runs = [r \in RunIds |-> NoRow]
    /\ made = 0
    /\ chats = [r \in RunIds |-> "none"]
    /\ clock = 0
    /\ done = [t \in Tasks |-> {}]

(* The most general client: any transaction whenever its guard holds.  A    *)
(* worker links a chat only to a run that succeeded, discards it only for   *)
(* one that did not, and saves chats of runs that were made; a claim given  *)
(* back may name any next run, of which 0 stands for one no task has.       *)
Request ==
    \E t \in Tasks :
        \/ \E s \in Schedules, enabled \in BOOLEAN, now \in 0..clock :
              CreateTask(t, s, enabled, now) \/ UpdateTask(t, s, enabled, now)
        \/ DeleteTask(t)
        \/ RequestRun(t)

Chat == \E r \in 1..made : UpsertChat(r) \/ SyncChat(r) \/ DeleteChat(r)

Claim ==
    \E a \in Accounts, now \in 0..clock :
        \/ FailStale(a, now)
        \/ \E r \in RunIds, w \in Workers : ClaimQueued(r, a, w, now)
        \/ \E t \in Tasks, w \in Workers : ClaimDue(t, a, w, now)

Settle ==
    \E r \in RunIds, w \in Workers :
        \/ Heartbeat(r, w)
        \/ Requeue(r, w)
        \/ \E claimedNext \in {tasks[t].next : t \in Live} \cup {None, 0} :
              GiveBack(r, w, claimedNext)
        \/ FinishRun(r, w, "succeeded", TRUE, FALSE)
        \/ \E discard \in BOOLEAN : FinishRun(r, w, "failed", FALSE, discard)

Next == Request \/ Chat \/ Claim \/ Settle \/ Tick
Spec == Init /\ [][Next]_vars

-----------------------------------------------------------------------------
(* Type invariant of the tables.                                            *)
Row == [status : {"none", "queued", "running", "succeeded", "failed"},
        task : Tasks \cup {None}, source : {"manual", "schedule", None},
        scheduledFor : Times, heartbeat : Times, worker : Workers \cup {None},
        thread : BOOLEAN]
Task == [state : {"unborn", "live", "deleted"}, enabled : BOOLEAN,
         schedule : Schedules \cup {None}, next : Times]

(* What a row's status says of the rest of it.                              *)
RowOK(row) ==
    /\ row.status = "none" => row = NoRow
    /\ row.status # "none" => row.task # None
    /\ row.status = "running" <=> row.worker # None
    /\ row.status = "running" <=> row.heartbeat # None
    /\ row.status = "queued" => row.source = "manual"
    /\ row.source = "schedule" => row.scheduledFor # None

TypeOK ==
    /\ tasks \in [Tasks -> Task]
    /\ \A t \in Tasks : tasks[t].state = "live" => tasks[t].schedule \in Schedules
    /\ runs \in [RunIds -> Row]
    /\ \A r \in RunIds : RowOK(runs[r])
    /\ made \in 0..MaxRuns
    /\ chats \in [RunIds -> {"none", "empty", "full", "deleted"}]
    /\ clock \in 0..MaxClock
    /\ done \in [Tasks -> SUBSET Nat]

(* A task never has two runs queued or in progress, although Run now, the   *)
(* claim of a due occurrence and a claim given back all make one            *)
(* (request_run, _claim, release_claim).                                    *)
OneActiveRun ==
    \A q, r \in RunIds :
        /\ runs[q].status \in {"queued", "running"}
        /\ runs[r].status \in {"queued", "running"}
        /\ runs[q].task = runs[r].task
        => q = r

(* An occurrence is run at most once: whatever a task ran since its timing  *)
(* was last set is earlier than its next run, also after missed             *)
(* occurrences are collapsed and claims are given back (_claim,             *)
(* release_claim, update_task).                                             *)
OccurrenceOnce ==
    \A t \in Live : tasks[t].next # None => \A x \in done[t] : x < tasks[t].next

(* A paused task is never due: no transaction leaves it a next run          *)
(* (update_task through _next_run, and release_claim).                      *)
PausedIsNotDue == \A t \in Live : ~tasks[t].enabled => tasks[t].next = None

(* A run links a chat only while the chat exists, and only once it          *)
(* succeeded (finish_run and the foreign key on thread_id).                 *)
LinkedChatExists ==
    \A r \in RunIds : runs[r].thread => runs[r].status = "succeeded" /\ ChatExists(r)

(* What a single row says agrees with the rest of it and with the chats.    *)
Consistent == TypeOK /\ PausedIsNotDue /\ LinkedChatExists

(* A chat that was deleted never comes back: a late save of a run that was  *)
(* swept, discarded or deleted cannot recreate it (tombstones).             *)
DeletedChatStays == [][\A r \in RunIds : chats[r] = "deleted" => chats'[r] = "deleted"]_vars

=============================================================================
