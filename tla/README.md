# TLA+ models of Unsloth Studio

The repository is two things. `src/unsloth/` is a training library: Triton
kernels, patched model classes, quantised saving, all of it numeric code in one
thread. `src/studio/` is Unsloth Studio, a server with a web front end
(`studio/frontend`) and a desktop shell (`studio/src-tauri`). The concurrent,
persistent, restartable logic is in the Python server, `src/studio/backend`
(paths below are relative to it), and that is what these modules model, one
subsystem at a time. Five are done:

* **scheduled tasks**: a user writes a prompt and a schedule, and the server runs
  the prompt unattended at the times the schedule names and leaves the answer in
  a chat;
* **durable chat runs**: an answer in a chat is generated by the server, not by
  the tab that asked for it; its output goes to an event log that tabs follow, and
  a run survives reloads, several tabs, and (as a failed run) the server's restart;
* **llama admission**: who may use the slots and the token cache of one llama-server,
  and when a request has to wait for them;
* **tool approvals**: a tool call waits for the user's Allow or Deny, for as long as
  somebody follows the run;
* **deep research**: a run of many steps that a worker plans, the user approves, the
  worker carries out, and a watchdog stops when nobody looks at it any more.

## Inventory

| component | state it keeps | operations | what is hard | what makes it correct |
|---|---|---|---|---|
| scheduled tasks, tables (`storage/scheduled_tasks_db.py`) | rows of tasks and runs in each account's SQLite file | create, update, delete, Run now, poll (sweep, claim), heartbeat, release, finish | several processes on one file; crashes between transactions; edits between a claim and its release | one active run per task, an occurrence runs once, bounded history |
| scheduled tasks, calendar (`core/scheduled_tasks/schedule.py`) | none | `next_run_after` | clock changes, month ends, missed runs | the first run after an instant |
| scheduled tasks, scheduler (`core/scheduled_tasks/scheduler.py`) | the loop's coroutine, the active run and its cancel event, the pending model swap, threads nobody can cancel | start, stop, claim pass, execute, save, settle, heartbeat, cancel | stop and cancel at every await; a thread that outlives its coroutine; retries; requests that race the activation of a run | a chat stands only for a succeeded run; no run lost, none executed twice; stop returns |
| scheduled tasks, routes (`routes/scheduled_tasks.py`) | none | the requests above, then wake or cancel | commit first, cancel after | an unwanted run is cancelled |
| chat store (`storage/studio_db.py`) | threads, messages, tombstones | upsert, sync, delete | late saves of deleted chats | a deleted chat stays deleted |
| accounts (`routes/accounts.py`, `core/training/account_jobs.py`) | active accounts, retired ids | disable, enable, delete | jobs that start while they are retired | nothing runs for a disabled account |
| tool approvals (`state/tool_approvals.py`) | a slot per pending call, the thread that waits for it, full-access grants, the lease of the run | ask, wait, resolve, abort, renew | the answer against Stop, expiry and a closed stream; a park longer than the run's lease | a call runs only if allowed, the answer given is the one acted on, every wait ends |
| run subscribers (`state/run_subscribers.py`) | a stamp per follower of a run | mark seen, depart, ask | a tab that closes while another one stays; a stream that breaks off | a run with an open stream counts as attended |
| active generations (`state/active_generations.py`) | running generations per account, fences | register, cancel, fence | registration during the sweep | nothing of a fenced account stays registered |
| durable chat runs, tables (`storage/chat_generation_runs_db.py`, the message guards of `storage/studio_db.py`) | runs, event logs, tombstones, the assistant message | create, append, mark running, request cancel, finish, reconcile, touch; save, edit, delete | any of these in any order, from tabs with an old view of the run | logs without gaps that end with the run; a run ends once, as cancelled if that was asked for; the message follows the log |
| durable chat runs, supervisor and sweeper (`core/inference/chat_generation_runs.py`) | an asyncio task per run, its cancel event, the chunks pending and being written, threads nobody can cancel | start, produce, cancel, sweep, force-cancel, stop, reconcile at boot | cancellation at every await; appends that fail or land late; an engine that hangs | output whole and in order; no second producer; every run ends |
| durable chat runs, routes (`routes/chat_generation_runs.py`) | a cursor per stream | create, cancel, follow | a repeated request; a stream that reads events and state in two transactions | a follower sees every event once and its stream ends |
| research runs, tables (`storage/research_runs_db.py`) | a chat's run: status, attempt, plan and its approval, lease | create, rebind, set plan, approve, cancel, retry, claim, heartbeat, finish, write the reply | one id for many attempts; a lease that runs out; users who edit while the planner writes | only the approved plan is carried out; a stopped attempt ends as stopped |
| research runs, supervisor and routes (`core/research_runs.py`, `routes/research_runs.py`) | the worker's attempt, cancel events, lost leases | claim, plan, research, report, finish, tell; the requests | the request commits first and tells later; the run goes on to another attempt in between | a stop ends the run it was for, and no other |
| unattended runs (`state/unattended_runs.py`) | a watch per run, a thread that samples them | watch, rearm, check, stop | the run is retried or asked anew while the check is under way | stops what its owner asked to stop, and that for certain |
| data recipe jobs (`core/data_recipe/jobs/manager.py`) | one job, its process, its event queue | start, stop, pump | pump thread against stop and restart | events go to the job that caused them |
| checkpoint backup (`core/training/checkpoint_backup/`) | a queue of checkpoints, a remote manifest | enqueue, upload, verify, prune | crash between upload and prune | never prunes the last good checkpoint |
| GPU arbiter, model slots (`core/inference/gpu_arbiter.py`, `model_slots.py`) | owner of the GPU, leases, loaded models | acquire, release, evict | hand-over during a load | one owner; evicted before the next one loads |
| llama admission (`core/inference/llama_admission.py`) | slots, committed tokens, the line, tickets of resuming requests, a lease per request | reserve, cancel, park, erase, unpark, recost, release, resize | release from another thread at any point; several requests judged against the same tokens | slots and tokens are given back once; nobody is overtaken; everybody leaves |
| keep-warm (`core/inference/llama_keepwarm.py`) | in-flight counts, gates | enter, leave, switch, unload | a switch while requests wait | no request on an unloaded model |
| hub downloads (`hub/utils/download_registry.py`, `hub/services/download_lifecycle.py`) | jobs, manifests on disk | start, cancel, resume, delete | a cancel and a restart of the same download | one worker per file set |
| retrieval (`core/rag/job_leases.py`, `ingestion.py`, `folder_sync.py`) | leases, documents, index | claim, renew, ingest, sync | a lease that expires during a write | one writer per document |
| training, export, inference orchestration (`core/*/orchestrator.py`, `core/training/training.py`) | subprocesses and their pipes | start, stop, poll | a subprocess that dies half way | a job is never reported twice |
| authentication (`auth/storage.py`) | users, tokens | CRUD | little | reads what was written |
| training library, CLI, front end, desktop shell | tensors; arguments; views | | not a model checker's matter | |

How they interact: routes run in a thread pool and call the store, then `wake()`
or cancel the scheduler that lives on the server's event loop; the scheduler
hands each database call to a thread, asks the inference stack for an answer
(admission, GPU arbiter, slots), and writes the chat through the chat store.
Accounts have separate databases; disabling one calls into the scheduler.
`main.py` starts the scheduler with the server and stops it at shutdown. Two
servers may run on the same files (a second process, or a restart that overlaps
the first one's exit), which is what worker ids and heartbeats are for. Durable chat
runs share the chat store with scheduled tasks (threads, messages, tombstones) and
nothing else: a scheduled run writes its chat when it has succeeded, a durable one
fills its message as it goes. Deleting a chat stops its runs. A durable run's engine
asks for approvals; the thread that waits renews the run's lease, and the streams of
the run are what counts as following it. A request to llama-server gives its slot back
while its tool call waits for approval (parks) and takes another one afterwards.
A research run answers in a message of its chat through the chat store; the watchdog
asks run subscribers who follows it.

## Modules

```
ScheduledTaskStore ----------- ScheduledTaskStoreProofs   theorems
  |  (INSTANCE Store)
ScheduledTaskScheduler --(refines)--> ScheduledRunContract
  |                    \-- ScheduledTaskSchedulerProofs   theorems
MCScheduledTaskScheduler       Schedule --- TaskTiming
MCScheduledTaskStore ---(Calendar)---^        MCTaskTiming

ChatGenerationStore ---------- ChatGenerationStoreProofs  theorems
  |  (INSTANCE Store)   |
ChatGenerationRuns    MCChatGenerationStore
  |          \-- ChatGenerationRunsProofs -- ChatGenerationOutputProofs   theorems
MCChatGenerationRuns

ResearchStore                  RunSubscribers       LlamaAdmission
  |  (EXTENDS)                   |  (EXTENDS)         |
ResearchRuns - ResearchRunsProofs  ToolApprovals -     LlamaAdmissionProofs   theorems
  |                              |   ToolApprovalsProofs
MCResearchRuns                 MCToolApprovals      MCLlamaAdmission
```

**`ScheduledTaskStore`** is the tables. One action per transaction: they are
`BEGIN IMMEDIATE`, or one statement, so they are serial, and a transaction
that raises changes nothing. `tasks` are the rows of `scheduled_tasks` (state, enabled, the pair
of schedule and time zone, `next_run_at`), `runs` those of `scheduled_task_runs`,
`chats` the threads of runs and their tombstones, indexed by the run because a
chat's id is derived from its run's. Rows of finished runs forget `worker_id` and
`heartbeat_at`, which nothing reads in them. Titles, prompts, models and error
codes are left out. Run ids are numbered as the rows are inserted; the code orders by
`(created_at, rowid)`, which is the same unless a pass read its clock before a
manual run was requested and inserted after it. `next_run_after` is a constant
operator with one assumption, that it answers a later instant or nothing; TLC
gets `Schedule` for it. The variable `done` is history: the occurrences a task
has run since its timing was set. A transaction's clock reading may be older than
the clock (`now \in 0..clock`), as routes and the claim pass read it first.

**`Schedule`** is `schedule.py` as operators, over instants in ticks, with a zone
that changes its offset once. `zoneinfo` is external: its answer for `fold=0` is
"the offset before the change" for skipped and repeated local times.
**`TaskTiming`** sets a task, lets its claims come late, sets it again, and
compares every answer with the calendar: what each local minute's first
appearance is, found by searching for it and not by the formula.

**`ScheduledTaskScheduler`** is the scheduler's coroutine (`pc`), the thread of
the claim pass (`claimer`) and the thread of `save_chat` (`saver`), per worker; a
step runs up to the next await. The threads have a position of their own because
`stop()` can cancel the coroutine and not them. Requests come from any process
that is up; deleting a task and disabling an account are two steps, the commit
and the cancel call. `Fault` is a database call that raises. `Exit` is a crash or
the end of the process, at any step. `_settle`'s retries, `finish_run` returning
False, the removal of a chat no run stands for, the swap of another account's
model and cancellation at each await are all there. A pass keeps the accounts it has
still to poll as a set (`todo`); `Polled` is the next of them in the order in which
`_accounts` lists them, beginning after the account served last.
`generate_answer` is one await with two ends, an answer or none: which model it
loads and how it waits are not modelled. The sleep between passes is not modelled:
the loop may start its next pass at any time, and the fairness says that it does.

**`ScheduledRunContract`** is what a run promises whoever looks at it: queued, in
progress, settled or gone, and its chat appears in the one step that settles it
as succeeded. `ScheduledTaskScheduler` implements it through the refinement
mapping `Contract` (a chat counts as shown once its run is no longer in
progress), and implements `ScheduledTaskStore` as it is (`StoreSpec`).

**`ChatGenerationStore`** is the tables of durable chat runs, again one action per
`BEGIN IMMEDIATE` transaction, with any caller at any time. `runs` are the rows:
status, `cancel_requested`, `last_event_seq`, and `stale`. `stale` stands for
the lease: the code compares `COALESCE(progress_at, started_at, created_at)` with
now minus the lease, here the comparison's outcome is a bit that time sets
(`LeaseRunsOut`) and every write of `progress_at` clears, so a lease may run out
between any two steps. `events` is the log by run, numbered by `seq`; an event is
the status it reports or the n-th chunk of output. `tombstones` are the ids of
deleted runs, `messages` what the assistant message's metadata says; its text is
the log up to `generationSeq`, so the number is all that is kept. A run's worker
token is drawn when its row is inserted; since an id is never inserted twice
(`NeverReused`) the guard "`id` and `worker_token` match" is "the row is there".

**`ChatGenerationRuns`** is one server process over these tables, and its
restarts. `job` is `_produce_run`, one `pc` per stretch between two awaits, with
what it keeps: `pending_events`, the append in flight (`wtask`, a thread the task
waits for by `asyncio.wait`, so it goes on when the task is cancelled), the held
cancellation of `settle_write`, the cancel event and `_shutdown_runs`. A
database call the task was cancelled out of stays behind in `orphans` and lands at
any later time or never. The engine yields text, a final chunk, an error or an end
at any time, raises, or hangs. `Told` is the cancel event being set: by the cancel
route, by the sweep, by the deletion of the chat, by a model switch
(`LifecycleCancel`) or by shutdown; each of the first three commits first and tells
later (`signals`). `ForceCancel` is `task.cancel()` after the grace. `Create` and
`Start` are two steps under the lifecycle gate; with `Retried` the request is
repeated for a run it reads as queued. `Sweep`, `Boot` and the producer's calls may
meet the one database call that raises (`Fault`). `Stop` tells every task at once:
the code has no await in that loop. A stream (`views`) reads events, then the
state, then sends, in three steps; connections break at any of them and the client
asks again from the last event it has. The watch over unattended runs is a cancel
request at any time.

**`LlamaAdmission`** is the queue of one llama-server and the leases of the requests
that wait for it. Its steps are what the code does under the queue's or the lease's
lock; `release()` may come from another thread when the request is anywhere, so
what a thread carries from one lock to the next is a variable (`hand`), and a
released lease tells the queue in a step of its own (`Return`). Every
operation of the queue ends with `_grant_waiters_locked`, hence the operator
`GrantWaiters` in each of them. `at` follows a request through waiting, parking (the slot
goes, the tokens stay until their cells are erased), the ticket of a resume, and
growth (`recost`: tokens given back, then waited for). The first reservation
finds a queue of one slot and may resize it. Where the code takes two locks with nothing
in between that another thread could see (the flag of an unpark, the removal of a
ticket after its slot was taken), the two are one step; a refused park changes
nothing and is a stutter. `allow_yield` is on. The requests are a finite set
(`ClientsAssumption`), since the queue's counters are sums over them.

**`RunSubscribers`** is the stamps of followers; **`ToolApprovals`** adds the loop that asks
(`loops`, with the full-access grant of `LiveToolPermissions`), the slots of
`_pending`, the thread in `wait_tool_decision` (`waiters`), Stop, the sweeper's lease, and
`answers` and `verdicts`, which are history: what the user was told was recorded, and what the loop was
told. Time is counted in polls of the waiting thread; an answer may land between
the poll that decided to give up and the lock of `_settle`. Whether the run is
a durable one or one a browser waits for is chosen at the start. While the loop thinks,
its lease may have any age; the assumption `TimesAssumption` says that the lease
is longer than a park nobody follows, a failed renewal included. The configured lease
(`UNSLOTH_STUDIO_CHAT_RUN_LEASE_TIMEOUT_S`, `chat_generation_runs.py:374`) is not
checked against the park's 300 seconds: below about that, a run would be swept while it waits.

**`ResearchStore`** is the row of a chat's research run. An attempt is a retry or a new
question of the same id, which is what `retry_count` counts; `consent` and
`reply.attempt` are history: the plan the user approved last, and the attempt that wrote the
reply last. The owner of a lease is the process's worker or one of a process that is
gone; `live` says that the lease has not run out. Evidence, steps, events, the
phases of a run and its report are left out, and so is the status `paused`, which nothing
sets. **`ResearchRuns`** is one server process over it: `work` is `_process`, from claim to
the last look at its event; `signal` is the cancel event of the run's id; a request
(`calls`) commits, sets the event, writes the reply and puts the watch in separate steps;
`watch` and `pass` are the watchdog's entry and the check of it under way. `Interrupted`
is any of the worker's checks finding that it has to stop. The process may stop
or crash at any step and starts again; then leases of the dead worker run out and the
run is claimed again (`recover_expired` is that claim).
Steps merged because nothing can change between them that they would tell apart:
the claim and the read of the row it claimed, the read before a guarded write of the
reply and the write, the watchdog's look at its entry, the row and the followers (what it
decides from these is another step). A heartbeat that fails after the worker's
last check changes nothing any more and is left out.

Definitions whose comment begins with "Variant", and the ones whose names end in a
wrong behaviour (`ActiveRunning`, `NeverUnsaved`, `AfterClaimSwapped`, ...), are
the definition after them with a plausible mistake in it. No specification uses them; each property is shown to
fail when the variant takes its definition's place, so that each is known to
depend on that piece of code.

## Runs

| run | instance | shows |
|---|---|---|
| `store` | 1 task, 3 runs, clock 0..2, history of 1, an hourly and a one-time schedule | types, links and paused tasks (`Consistent`), one active run, an occurrence runs once, deleted chats stay deleted |
| `timing` | days of 6 ticks, weeks of 3 days, months of 3 to 5 days, 5 zones, 22 schedules, 44 instants | `next_run_at` is always the first run after the instant it was asked for |
| `two_processes` | 2 workers, 1 run, 1 failing call, 2 settle attempts | chats stand for succeeded runs only, no run executed by two workers, nothing left in progress by an orderly end, both refinements |
| `two_accounts` | 2 accounts with a task each, one can be disabled, one loads its model | unwanted runs cancelled, swaps put back before another account's run |
| `liveness` | 2 workers; one may stop or crash, and once it is gone 3 calls may fail | queued runs start, runs in progress settle or are swept, stop returns |
| `chat_store` | 2 runs for one prompt, batches of 1 and 2 chunks, output while the log is at most 3 long | logs, messages, one active run, stops, tombstones, under any order of transactions |
| `chat_runs` | 1 run; either 2 chunks, 1 renewal, 1 failing call and 1 shutdown or crash, or repeated create requests, or 1 tab | output whole, once and in order, the store's specification is implemented, a stopped producer leaves nothing behind, every run ends; a tab sees each event once and its stream ends |
| `llama_admission` | 3 requests, 1 or 2 slots, a cache of 4 tokens, 1 may park, 1 park or growth each | slots and counters agree with what the requests hold, admission within the cache, nobody overtaken, everybody leaves |
| `tool_approvals` | 1 run, 2 tabs, a park of 2 polls, a deadline of 6, a lease of 5, 1 failing renewal | the user's answer is what the loop acts on, a followed park lasts, a park is not swept, every wait ends |
| `research` | 1 request in flight, 2 attempts, 2 plans, 1 trouble (a failing call, a lost lease, an end of the process) | only the approved plan is carried out, a stop is final, the reply does not go back, the watchdog stops only what asked for it, stops end, abandoned runs stop |
| `stop_during_restore` | as `two_accounts` | violated: see findings |
| `research_stop` | as `research`, without trouble | violated: see findings |

`Consistent` is, in each module, its type invariant with the small invariants that say that
its variables agree with each other; `RecordsStay` is `LogOnlyGrows` and
`SettledIsFinal`.

Bounds. `MaxRuns`, `MaxClock` and `MaxFaults` bound counters the code does not
bound; `HistoryLimit` is 1 where the code has 20, `SettleAttempts` 2 where it
has 3, `StaleAfter` one tick. The hazards are between two runs of a task at most (the one in
progress and the one before it), between two processes, and over two ticks (a
run becomes stale one tick after its last heartbeat), so a third run is needed
only for the history, in `store`. One failing call is enough to take each
error path; `liveness` has three, so that every attempt of a settle may fail. `two_processes`
is symmetric in the workers, whose names nothing orders. The runs end when their
clock and runs are used up, hence `CHECK_DEADLOCK FALSE`.

In the chat modules `MaxChunks`, `MaxBeats`, `MaxFaults`, `MaxCrashes` and
`MaxEvents` are bounds of the model; `ReadLimit` is 2 where `list_events` has a
page, and `MaxPending` 2 where `_MAX_PENDING_EVENTS` is 4096, so that both limits are
met. Two chunks are enough for one to be written while the next is pending, which
is what the writes can get wrong; one chat and one run are enough for the supervisor,
whose tasks share nothing but the gate, and `chat_store` has the two runs that meet in
one chat. A follower meets a page limit with the three events of a one-chunk run. The three
scenarios of `chat_runs` are one run because they are the same instance with other
things switched off: together their product is too large.
All chats can be deleted and all bounds used up, hence `CHECK_DEADLOCK FALSE` here too.

`llama_admission`: three requests are what a hand-over takes (one that holds, one that
resumes or grows, one in line), and with 4 tokens requests of 1 and 4 do and do not
fit together. A second park or growth of a request begins where the first one
began. `tool_approvals`: the park, the deadline and the lease have the order of
the code's 300 s, an hour, and the lease, and two tabs are what it takes
for one to leave while another stays. `research`: with one more attempt and one more plan (2.5 million
states) the safety properties hold as well; the run has the smaller instance because of
the liveness properties. One request in flight at a time is enough for a request to be
overtaken, since worker, watchdog and process are others; what two requests can do to each
other is under "Not modelled".
Requests that have gone, loops that are closed and bounds that are used up end these runs
too, so deadlock is not checked; that nobody waits for ever is `Drains`, `WaitsEnd` and `StopEnds`.

Fairness (`FairSpec`). Weak fairness of each scheduler's own work: the event loop
runs ready coroutines, threads finish, and `_RUN_TIMEOUT_SECONDS` ends an answer;
of the cancel call after a commit; and of the clock. No fairness of requests,
heartbeats, stops, crashes or failing calls. At least one process (`w2`) stays up: with none, nothing runs.
`RunsSettle` allows for a bounded clock that ends before a run is stale.

`ChatGenerationRuns!FairSpec`: time passes (a lease that nobody renews runs out), the
sweeper sweeps on and the failures it meets end, a process that is stopping exits
(its waits have timeouts), a process that is down is started again, and the server
goes on reading and sending for a stream that is open. Nothing is assumed of the
engine, the producer, the client or any request: a producer that hangs in its
engine is what `RunsEnd` is about.

`LlamaAdmission!FairSpec`: a round ends and releases its lease (the generator's
`finally`), the user answers or the approval expires (`ToolApprovals!WaitsEnd`), a request
to llama-server comes back, waiting threads poll, and one that waits to grow gives up at its
deadline. None of requests, parks, growth or Stop. `ToolApprovals!FairSpec`: the waiting thread
is scheduled, an open stream goes through its loop, time passes; none of the user, Stop or
the sweeper. `ResearchRuns!FairSpec`: the worker claims and, when it has been
stopped or has ended, goes on to its end; leases nobody renews run out; requests go on to
their end; the grace passes, the watchdog visits, a server that is down is started. Nothing is
assumed of the model (a worker may stay in planning or research for ever), of
the user, or of the tab.

## Findings

* `scheduler.py:888` says that past the check of `_stopping` nothing awaits
  before the run is active. `_restore_swap()` is awaited there (line 895) when
  another account's model is still loaded. A stop in that await cancels nothing,
  and the run starts after it. If the stop's grace ends first, the claim is
  neither run nor given back, and waits for the sweep of another process.
* `ResearchSupervisor.cancel()` sets the event of the run's id, and makes one if there is
  none (`research_runs.py:1134`). A stop that commits while the worker is at its last
  steps reaches it after the worker has dropped the event (2183), and nothing clears
  it: a retry or the next question of the same id starts with it set (2118, 1154) and
  ends as cancelled, though nobody asked to stop it. `research_runs_db.py:777` says that
  an attempt "can never be cancelled on its predecessor's behalf".

### Scheduled tasks: two cases the runs leave out

* `release_claim` recognises an edit only by its `next_run_at`
  (`scheduled_tasks_db.py:388`). A schedule
  changed to one with the same next run as the claim left is overwritten with the
  claim's occurrence, which `test_a_claim_given_back_keeps_a_schedule_changed_since`
  (`test_scheduled_tasks.py:2370`) says does not happen. The edited task
  then runs once for an occurrence of the schedule it had before.
* `next_run_after` promises the first run after an instant. It starts at the
  instant's local day (`schedule.py:122`, `151`); where clocks go forward in a day's last hour
  (America/Nuuk: 23:00 on the last Saturday of March becomes 00:00), a run at
  23:30 is moved to 00:30 of the next day, and asked at 00:10 the code skips it.
  The zones of `timing` change at noon and at midnight, not in the evening. (In zones
  of the past whose clocks went back across midnight, a weekly task
  could find no next run at all; no current zone does that.)

### Durable chat runs: a case the runs leave out

`mark_running` answers TRUE for a run that is running already. A repeated create
request that read the run as queued calls `start`, which looks only for a producer that
is registered now. If the first producer marked the run, wrote some of its output,
failed, could not record that (`finish_run` raised) and was gone before the repeated
request reached `start`, a second producer finds the run running and writes the
output once more behind the first one's. It takes a failing database call and a
repeated request together, and `OutputInOrder` fails when both may happen in one
behaviour. No comment or test of the repository promises otherwise, so this is recorded here and
among the hazards and is not a finding; `chat_runs` has the fault in its scenario "engine" and
the repeated request in its scenario "again". A repeated request may also start a
producer for a run that has ended: `mark_running` answers FALSE and it leaves.

### Llama admission: growing and resuming requests

Two requests that have given their tokens back and wait to grow close the line and keep
`reclaim_would_admit` from erasing the cache of a third one that is parked
(`llama_admission.py:779`); when the tokens of that third one are what they wait for, and it
in turn waits for one of their slots, all three stand until the growth's timeout (300 s, which the
comment at line 51 calls generous because "legit waits are bounded by the longest
round"). `Drains` holds because of the timeout. And a request that gives up takes
back what it held whether it fits or not, so that for a while more than the cache is
committed with two holders; `tests/test_llama_admission_stress.py:4` says that "committed stays
within budget except one escape holder". `CommitFits` therefore names that step
as an exception, besides the request that has the cache to itself.

## Proofs

`ScheduledTaskStoreProofs` proves, for every set of tasks, accounts, schedules
and workers, every bound, and every `next_run_after` that satisfies
`NextRunAssumption`: the type invariant and then, from it,

* `OneActiveRun`: every transaction either starts no run (each active row was
  active, for the same task), or starts one for a task with none;
* `OccurrenceOnce`: not inductive alone. Giving a claim back makes its occurrence
  due again, so the claim must be the task's latest: `OnceInv` adds that a
  scheduled run in progress is not earlier than anything its task ran
  (`LatestClaim`), which holds because of `OneActiveRun`, and that a task without
  a row has run nothing (`DoneIsLive`);
* `PausedIsNotDue`, `LinkedChatExists`, with them `Consistent`, and the action property
  `DeletedChatStays`.

`ChatGenerationStoreProofs` proves every property of `chat_store`, for every set of
runs, chats and prompts and any batches of output. A transaction may touch many rows (a sweep, a
deletion, a prompt with several answers), but what happens to one row is one of
eight things: nothing, its lease moves, its message is saved, it is created, it
takes output, its status advances, it ends, it goes (`RowStep`, with
`EveryRowSteps` saying that there is no ninth). Over these the invariant is
proved part by part, and it has to be proved together: that a settled message is not
overtaken needs that an active run's message is not settled; that a log ends with the run
needs that it has no gap, so that the terminal event has the highest number; that an
unused id can be created without touching a settled message needs
`UnusedIsUnmanaged`, and that an ended row never changes needs `EndedIsFresh`. The two
action properties, `LogOnlyGrows` and `SettledIsFinal` (`RecordsStay`), follow from the same invariant.

`ChatGenerationRunsProofs` and `ChatGenerationOutputProofs` prove every safety property of
`chat_runs`, for any number of runs, chats and tabs, any output, and any number of calls
that fail, repeated requests, stops and crashes. The inductive invariant (`Inv`) is the
store's own and, run by run, `RunInv`: what the process keeps of a run is of a run that was created and goes with
the process (`Registry`); the chunks a producer has in hand are the last ones the engine
gave, first those its thread writes, then those pending (`Flow`); a queued run has no
output and nobody who produces any (`Unwritten`); what the log has and what producers may still send fits
twice an engine's output (`LogFits`: a repeated request may bring a second producer, a
third would have to find the run queued); a `finish_run` left to itself finds its run over, or nobody
else writing (`LeftToItself`); and who works for a run that is no longer running was told
(`ToldOf`). `LogFits` is what bounds the log: without it `ImplementsStore` could not say that
an append stays within the store's `MaxEvents`.

* `ImplementsStore`: every step is one transaction of the tables or leaves them alone, whatever
  call lands after its task was cancelled. With it the theorems of
  `ChatGenerationStoreProofs` hold of the server, and `Inv` uses them.
* `ConsistentHolds` follows from `Inv` and from what is known of the streams.
* `FollowerSeesLogHolds`: a follower's events are numbered 1, 2, 3 ... and its batch goes on
  where they end (`Views`). That needs what a read answers: as the log has no gap, the events after the
  cursor are as many as there are numbers after it, so the i-th of them is `cursor + i`
  (`InOrderFacts`, over the library's theorems on bijections). That a stream which ends has delivered the
  end needs that the state is read after the events: what it says of an ended run stays true.
* `OutputInOrderHolds` and `NothingLeftBehindHolds` are for one producer at a time
  (`OneWriter`: no repeated create request, or no failing call); with both the property is
  false, see "a case the runs leave out". `Output` says of an active run that its log holds the chunks
  1 to k in this order (`Ordered`), that k is what its producer has sent, not counting a failed
  write that is to be written again, and that an orphaned `finish_run` begins after k. Where no call fails,
  a producer that goes leaves no active run with output behind; where no request is repeated, none is asked
  for after it: either way a new producer begins with an empty log. `NothingLeftBehind` adds
  that a producer ends its run only by `finish_run` (`EndsByFinish`), which is handed all it has.

`EventsAfter` picks its events by counting (`InOrder`), since a sort of the community modules is
a recursive definition, about which nothing could be proved.

`ScheduledTaskSchedulerProofs` proves every safety property of the runs `two_processes` and
`two_accounts`, for any number of processes, tasks and accounts, any bounds, and any
number of failing calls, stops and crashes. `Inv` has three parts with content. `Tables` says
of rows that the run in progress is its task's newest, that a queued run has no chat, that a
failed one has none and a succeeded one keeps its chat. `Schedulers` says, of each
scheduler, what its positions mean for its variables (`Shape`) and what is known of the run in its
hand (`Hand`): it owns the row, or the row has ended or is gone; before `save_chat` began
it has no chat; while a thread is at its chat it still owns the row, or the chat was
deleted; once saved it has its chat. `OneHand` says that no run is in two hands. They have to be proved
together: what a sweep may take from a hand is decided by rows, and what a row may
become by what the hand that finishes it knows of the chat.

* `ImplementsStore`: every step is one transaction of the tables or leaves them alone.
* `RunContractHolds`: over the run's own row and chat a step is one of six kinds (`AllMove`,
  `EveryRunMoves`): outside it, its chat saved, given back, settled, claimed, made. Each is a step of
  `ScheduledRunContract` or a stutter, for all runs together.
* `ConsistentHolds`, `ExecutedOnceHolds` and `SwapIsOwnHolds`, from `Inv`.
* `UnwantedIsCancelledHolds` is for one process (`Workers = {u}`): a request cancels the run
  of its own process, and a second process finds out at its next check. The invariant
  extends the property to the position between the check and the answer (`UnwantedInv`).
* `EndedOwnsNothingHolds` is for installations where no run leaves a model that another
  account's run puts back (`Loading` holds no account beside others): with it the property is false, which is the finding
  about `_restore_swap`. `EndInv` says that, before any call failed, a scheduler that is there owns the
  run in its hand and no other.

`ToolApprovalsProofs` proves the safety properties of `tool_approvals`, for any number of runs, calls and tabs
and any times that satisfy `TimesAssumption`. `AnswerIsKept` compares two histories, what
the user was told and what the loop was told, so `ApprovalInv` follows an answer through
the slot, the waiting thread and the verdict: a slot holds the recorded answer for as long as the call is in the
making (`SlotSays`), and what the waiter has settled is what the slot says and is not
overtaken (`WaiterSays`). `ParkIsNotSwept` needs how old a lease can be (`LeaseFollows`): at most
one unwatched park and what is left of a renewal's interval before it, and as much again
for each renewal that failed. `WatchedParkLasts` needs that an open stream has stamped no longer
than one of its turns ago (`FollowersInv`).

`ResearchRunsProofs` proves four properties of `research`, for any number of requests,
attempts, retries, plans and troubles, in two layers. `StoreInv` is inductive for the
transactions of `ResearchStore` alone: an approval is of the plan there is, so a run that is
queued or running has its approved plan (`ApprovalCurrent`); leases are held only in
statuses a worker works in (`LeaseFits`), so what a worker finishes was approved; a requested stop shows in
the status (`StopShows`), so `finish` cannot write anything else; the reply is not ahead of
the run (`ReplyBehind`). `EveryStepStores` says that each step of the worker, the routes, the watchdog
and the process is one of these transactions or leaves the tables alone, whatever
the process remembers; that gives `ImplementsStore`, `Spec => StoreSpec`, and carries
the store's facts over to the server. `OnlyAskedRunsStop` has an invariant of its own: whatever
a watch, a pass or a request remembers of an attempt, that attempt is over or asked to stop
(`AskedInv`). The types of the process's own variables
are proved beside it, since the writes to the reply are typed by what a
request remembers.

`LlamaAdmissionProofs` proves the safety properties of `llama_admission`, for any finite set of
requests, any costs, budget, capacities and bounds. The books of the queue are sums and counts over the requests
(`Balanced`): the slots in use are the union of what the requests hold, and no two hold
the same; `committed` is the sum of their tokens; `parked`, `reclaimable`, `reparking` and the
shares of the parking bound count the requests they are for. That is not inductive alone. What an
operation gives back depends on where the request is, so `Fields` says what it has at each
position: who parks has no slot, who waits to grow has no tokens, a share is
taken only while parked, what a released lease still has to return. And a grant moves the head
of a line, so `Lines` says that whoever is queued or resuming is in its line exactly once. Each
operation then changes what one request holds and each book by that much (`Step`,
`BooksMove`), and the grants after it change what those hold that are served
(`GrantKeeps`), also when `reserve` grew the pool.

* `ConsistentHolds` and `NothingLeftHolds` follow from the invariant (`IInv`). The second is
  stated with the proofs: when nobody is busy, every slot is free, nothing is committed,
  parked or waiting for, and the lines are empty.
* `NoOvertakingHolds` and `CommitFitsHolds` are about steps: they need which request an operation
  can move (`Operates`) and that the grants serve a prefix of the line, each within the
  tokens that those before it have left (`GrantsServeInOrder`, `GrantsFit`).

A sum is a fold of the community modules, that is a recursive definition. What is needed of it
is proved all the same: a fold over a finite set unfolds in one way only
(`UnfoldsOnce`, by a smallest set on which two unfoldings differ), and the number of
units in all amounts unfolds like the sum, so that the two are equal (`SumIsCount`) and facts about
cardinality do the rest.

Assumptions on constants are in the modules that declare them and TLC evaluates them in the
runs. Only model-checked: the calendar (`NextIsFirst` of `TaskTiming`), and
liveness, which is outside the prover's reach. `NextIsFirst` rests on a calendar built month
by month, an induction over data, and is true only of the zones of `timing`, not of
every zone (see "two cases the runs leave out"). `next_run_after` answers a later instant
by assumption (`NextRunAssumption`), which the run `timing` checks of `Schedule`.

## Not modelled

Of scheduled tasks: request validation, listing and the activity feed (reads),
the sleep and `wake()`, `generate_answer`'s choice of models, schedules that stop
resolving (they behave as a one-time one), retired and
deleted accounts, and the bound on a task's history (`_trim_history` is modelled, that
it is called on every path is not stated). A clock that steps back would make heartbeats of the future that are never stale
(`scheduled_tasks_db.py:60`).

Of durable chat runs: the lease's clock
(see above), request sanitising, images and what the chunks say, the hand-off to
research runs, tool approvals inside a run (these are in `ToolApprovals`), accounts (each has
its own database), the first-token budget, deleting a prompt as a request (it is in
the store), a chunk that the engine yielded while the producer was told to stop,
which the code drops by intent, and the pool of 32 threads that followers share.

Of llama admission: a queue without token accounting (budget `None`), admission
switched off, the registry that makes and evicts queues, event loops that have
gone, a future cancelled from outside, the configuration, and who wakes whom (a waiter that
polls sees the same). Keep-warm is a module of its own.

Of tool approvals: the refusals of a confirmation from another session or account, host
access of API keys, the policy of full access and its configuration, `browser_actions.py`.

Of research runs: what the model writes, evidence, steps and the event log; thread claims
and accounts; a second process on the same files; two requests of a user in flight at
once, where a slow retry's `watch(replace=True)` may replace the watch of the attempt
after it; a request's stale `cancelling` that overwrites the text "Research cancelled."
in a reply of the same attempt; a crash between `finish` and the update of the reply, which
leaves the reply at its earlier status; and when exactly the watchdog samples: a tab that
comes and goes between two samples does not restart the grace.

Of the rest: everything marked so in the inventory; kernels,
CLI, front end and shell are not concurrent or not checkable. Two parts not modelled yet have
races worth naming. The checkpoint backup's `_enqueue` puts a checkpoint into `_pending` and
reports "queued" afterwards, outside the lock, so that it can overwrite what the worker
has reported by then, and a checkpoint queued after the worker's last look stays "queued".
The GPU arbiter reads `handover_in_progress` without its lock (`gpu_arbiter.py:245`) while an
acquire evicts one owner and registers the next.

## Plan

1. `SchedulerWake`: the sleep, `_due` and `wake()`: no due task sleeps past the
   poll interval, every account is served in turn.
2. `ActiveGenerations`, and `JobLeases` of the retrieval jobs, where the lease has an owner and a
   renewal may come after its end.
3. `DurableRunContract`: what a durable run promises a tab (queued, running, ended once;
   a log that grows and ends), implemented by `ChatGenerationRuns`.
4. `CheckpointBackup`, `GpuArbiter`, `DataRecipeJobs`, the download registry.
5. Proofs: `NextIsFirst` for zones without a gap in a day's last hours, once the calendar is
   stated by month lengths and not by a recursive function.

A new module should share a run with one of the same instance size where it can, so that the
whole project stays quick to check.
