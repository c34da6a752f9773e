----------------------- MODULE ScheduledTaskScheduler -----------------------
(***************************************************************************)
(* ScheduledTaskScheduler of core/scheduled_tasks/scheduler.py over the     *)
(* tables of ScheduledTaskStore: the loop, its claim pass, the execution    *)
(* of a run, shutdown and crashes, with the requests that race them.        *)
(*                                                                          *)
(* A worker is one scheduler object and its process.  Its coroutine is at   *)
(* "pc"; a step of it runs up to the next await.  Work it hands to a thread *)
(* (asyncio.to_thread) cannot be cancelled: when stop() cancels the         *)
(* coroutine the thread goes on, so the two threads that write in several   *)
(* steps, the claim pass and save_chat, have a position of their own.       *)
(***************************************************************************)
EXTENDS Integers, FiniteSets

CONSTANTS
    Accounts, Tasks, AccountOf, Schedules, Workers, None,
    MaxRuns, MaxClock, MaxTasks, HistoryLimit, RunAfter(_, _, _),
    JobAccounts,        \* the accounts in the order job_accounts lists them
    StaleAfter,         \* _STALE_RUN_MS
    SettleAttempts,     \* _SETTLE_ATTEMPTS
    MayStop,            \* workers whose process may stop or crash
    Managed,            \* accounts that may be disabled
    Loading,            \* accounts whose tasks may load their model
    MaxFaults           \* bound: database calls that raise

VARIABLES
    tasks, runs, made, chats, clock, done,  \* the store
    active,     \* accounts that are active
    cancelling, \* requests between their commit and their cancel call
    sched,      \* the schedulers, by worker
    faults      \* database calls that raised so far

Store == INSTANCE ScheduledTaskStore

store == <<tasks, runs, made, chats, clock, done>>
vars == <<store, active, cancelling, sched, faults>>

ASSUME SchedulerAssumption ==
    /\ StaleAfter \in Nat
    /\ SettleAttempts \in Nat \ {0}
    /\ MaxFaults \in Nat
    /\ MayStop \subseteq Workers

(* What the store assumes of the constants it is given.                     *)
ASSUME StoreAssumption ==
    /\ None \notin Nat \cup Tasks \cup Workers \cup Accounts /\ None # "schedule"
    /\ AccountOf \in [Tasks -> Accounts]
    /\ MaxRuns \in Nat /\ MaxClock \in Nat /\ MaxTasks \in Nat
    /\ HistoryLimit \in Nat \ {0}
    /\ \A s \in Schedules, after \in 0..MaxClock, anchor \in (0..MaxClock) \cup {None} :
        /\ RunAfter(s, after, anchor) \in Nat \cup {None}
        /\ RunAfter(s, after, anchor) # None => RunAfter(s, after, anchor) > after

Off == [proc |-> "off",     \* off, up, stopping (_stopping), cancelled, gone
        pc |-> "off",       \* the coroutine of _run_loop and _execute
        claimer |-> "none", \* the thread of _claim
        saver |-> "none",   \* the thread of save_chat
        now |-> 0, todo |-> {},                     \* the pass of _claim
        run |-> 0, task |-> None, next |-> None,    \* what it claimed
        cancel |-> FALSE,                           \* cancel_event
        saving |-> FALSE, outcome |-> "failed", tries |-> 0,
        swap |-> None,      \* _swap_account, when a swap is pending
        last |-> None]      \* _last_account

(* Positions at which self._active is set.                                  *)
ExecutingOnceWanted == {"answer", "check", "save"}
Executing == {"wanted", "told", "answer", "check", "save"}
IsActive(w) == sched[w].pc \in Executing
Running(w) == sched[w].proc \notin {"off", "gone"}
StoppingOnceCancelled(w) == sched[w].proc = "cancelled"
Stopping(w) == sched[w].proc \in {"stopping", "cancelled"}
(* What stays of a scheduler between two runs.                              *)
Free(w) == [Off EXCEPT !.proc = sched[w].proc, !.swap = sched[w].swap, !.last = sched[w].last]

Only(w, me) == sched' = [sched EXCEPT ![w] = me]
Goto(w, pc) == Only(w, [sched[w] EXCEPT !.pc = pc])

(* A database call raises: the disk is full, the file is locked too long.   *)
Fault ==
    /\ faults < MaxFaults
    /\ faults' = faults + 1
    /\ UNCHANGED store
Quiet == UNCHANGED <<store, active, cancelling, faults>>
Served == UNCHANGED <<active, cancelling, faults>>

-----------------------------------------------------------------------------
(* The loop and the claim pass.                                             *)

Start(w) ==
    /\ sched[w].proc = "off"
    /\ Only(w, [Off EXCEPT !.proc = "up", !.pc = "loop"])
    /\ Quiet

Listed == {JobAccounts[i] : i \in DOMAIN JobAccounts}
Place(a) == CHOOSE i \in DOMAIN JobAccounts : JobAccounts[i] = a

(* _accounts: of the accounts still to poll, the next in the order of       *)
(* job_accounts, counted from the one that was served last, which a pass    *)
(* that lists it polls last.                                                *)
Polled(w) ==
    LET todo == sched[w].todo
        last == sched[w].last
        after == {a \in todo : last \in todo /\ Place(a) > Place(last)}
        first == IF after = {} THEN todo ELSE after
    IN  CHOOSE a \in first : \A b \in first : Place(a) <= Place(b)

BeginPass(w) ==
    /\ sched[w].pc = "loop"
    /\ sched[w].proc = "up"
    /\ Only(w, [sched[w] EXCEPT !.pc = "claiming", !.claimer = "poll",
                                !.now = clock, !.todo = active \cap Listed])
    /\ Quiet

EndLoop(w) ==
    /\ sched[w].pc = "loop"
    /\ Stopping(w)
    /\ Goto(w, "ended")
    /\ Quiet

NextAccount(w) == [sched[w] EXCEPT !.claimer = "poll", !.todo = @ \ {Polled(w)}]
Claimed(w, claimer, r, t, next) ==
    [sched[w] EXCEPT !.claimer = claimer, !.now = 0, !.todo = {}, !.run = r, !.task = t,
                     !.next = next]

(* The pass is over with nothing claimed: no account left, or shutdown.     *)
PassEmpty(w) ==
    /\ sched[w].claimer = "poll"
    /\ sched[w].todo = {} \/ Stopping(w)
    /\ Only(w, Claimed(w, "back", 0, None, None))
    /\ Quiet

Polling(w, stages) ==
    /\ sched[w].claimer \in stages
    /\ sched[w].todo # {}
    /\ sched[w].claimer = "poll" => ~Stopping(w)

(* A run whose heartbeat is older than this was left behind.                *)
StaleBefore(w) == sched[w].now - StaleAfter

(* poll: the sweep in a transaction of its own, if there is a stale run.    *)
PollSweep(w) ==
    /\ Polling(w, {"poll"})
    /\ Store!FailStale(Polled(w), StaleBefore(w))
    /\ Only(w, [sched[w] EXCEPT !.claimer = "swept"])
    /\ Served

NothingStale(w) ==
    sched[w].claimer = "poll" => Store!Stale(Polled(w), StaleBefore(w)) = {}

(* poll: the read of what is due and the claim, which looks again; so the   *)
(* read decides nothing the claim does not.                                 *)
PollQueued(w) ==
    /\ Polling(w, {"poll", "swept"})
    /\ NothingStale(w)
    /\ \E r \in Store!Queued(Polled(w)) :
        /\ Store!ClaimQueued(r, Polled(w), w, sched[w].now)
        /\ Only(w, Claimed(w, "got", r, runs[r].task, tasks[runs[r].task].next))
    /\ Served

PollDue(w) ==
    /\ Polling(w, {"poll", "swept"})
    /\ NothingStale(w)
    /\ \E t \in Store!Due(Polled(w), sched[w].now) :
        /\ Store!ClaimDue(t, Polled(w), w, sched[w].now)
        /\ Only(w, Claimed(w, "got", made + 1, t, tasks'[t].next))
    /\ Served

PollNothing(w) ==
    /\ Polling(w, {"poll", "swept"})
    /\ NothingStale(w)
    /\ Store!Queued(Polled(w)) = {}
    /\ Store!Due(Polled(w), sched[w].now) = {} \/ made = MaxRuns
    /\ Only(w, NextAccount(w))
    /\ Quiet

PollFails(w) ==
    /\ Polling(w, {"poll", "swept"})
    /\ Fault
    /\ Only(w, NextAccount(w))
    /\ UNCHANGED <<active, cancelling>>

ReleaseNothing(w) == Quiet

(* release_claim of what w claimed; a run no longer w's is left alone, and  *)
(* an exception is only logged.                                             *)
Release(w) ==
    \/ (Store!Requeue(sched[w].run, w) \/ Store!GiveBack(sched[w].run, w, sched[w].next)) /\ Served
    \/ ~Store!Owns(w, sched[w].run) /\ Quiet
    \/ Fault /\ UNCHANGED <<active, cancelling>>

(* The claim thread looks at _stopping once more after the claim.           *)
ClaimerReturns(w) ==
    /\ sched[w].claimer = "got"
    /\ ~Stopping(w)
    /\ Only(w, [sched[w] EXCEPT !.claimer = "back", !.last = AccountOf[sched[w].task]])
    /\ Quiet

ClaimerReleases(w) ==
    /\ sched[w].claimer = "got"
    /\ Stopping(w)
    /\ Release(w)
    /\ Only(w, Claimed(w, "back", 0, None, None))

(* _run_loop takes the answer of the pass.                                  *)
SwappedByOther(w) == sched[w].swap \notin {None, AccountOf[sched[w].task]}

(* Nothing claimed: the swap is put back, and the loop sleeps.              *)
Idle(w) ==
    /\ sched[w].pc = "claiming" /\ sched[w].claimer = "back" /\ sched[w].run = 0
    /\ Only(w, [Free(w) EXCEPT !.pc = "loop", !.swap = None])
    /\ Quiet

AfterClaimSwapped(w) == IF Stopping(w) THEN "release" ELSE "wanted"
AfterClaim(w) ==
    IF Stopping(w) THEN "release" ELSE IF SwappedByOther(w) THEN "restore" ELSE "wanted"

TakeClaim(w) ==
    /\ sched[w].pc = "claiming" /\ sched[w].claimer = "back" /\ sched[w].run # 0
    /\ Only(w, [sched[w] EXCEPT !.claimer = "none", !.pc = AfterClaim(w)])
    /\ Quiet

GiveClaimBack(w) ==
    /\ sched[w].pc = "release"
    /\ Release(w)
    /\ Only(w, [Free(w) EXCEPT !.pc = "ended"])

(* await self._restore_swap() for another account's swap; then _execute.    *)
RestoreSwap(w) ==
    /\ sched[w].pc = "restore"
    /\ Only(w, [sched[w] EXCEPT !.pc = "wanted", !.swap = None])
    /\ Quiet

-----------------------------------------------------------------------------
(* _execute: a run, from the moment self._active names it.                  *)

Settling(w, outcome) == [sched[w] EXCEPT !.pc = "settle", !.outcome = outcome, !.cancel = FALSE]

StillWanted(w) == sched[w].task \in Store!Live /\ AccountOf[sched[w].task] \in active

(* _still_wanted reads in a thread, after self._active is set; the          *)
(* coroutine goes on with its answer a step later.                          *)
CheckWanted(w) ==
    /\ sched[w].pc = "wanted"
    /\ IF StillWanted(w) THEN Goto(w, "told") ELSE Only(w, Settling(w, "failed"))
    /\ Quiet

BeginAnswer(w) ==
    /\ sched[w].pc = "told"
    /\ Goto(w, "answer")
    /\ Quiet

(* generate_answer, with the wait for other inference before it: an answer  *)
(* is returned only when the run is not cancelled by then.                  *)
Answer(w) ==
    /\ sched[w].pc = "answer"
    /\ ~sched[w].cancel
    /\ Goto(w, "check")
    /\ Quiet

(* No answer: RunFailed, an exception, or the run's own cancellation.  The  *)
(* model it may have loaded is left to be swapped back either way.          *)
NoAnswer(w) ==
    /\ sched[w].pc = "answer"
    /\ Only(w, Settling(w, "failed"))
    /\ Quiet

(* task_exists; then save_chat is handed to its thread.                     *)
CheckTask(w) ==
    /\ sched[w].pc = "check"
    /\ IF sched[w].task \in Store!Live
       THEN Only(w, [sched[w] EXCEPT !.pc = "save", !.saving = TRUE, !.saver = "upsert"])
       ELSE Only(w, Settling(w, "failed"))
    /\ Quiet

(* A read of the database raises: the run fails.                            *)
CheckFails(w) ==
    /\ sched[w].pc \in {"wanted", "check"}
    /\ Fault
    /\ Only(w, Settling(w, "failed"))
    /\ UNCHANGED <<active, cancelling>>

Saver(w, saver) == Only(w, [sched[w] EXCEPT !.saver = saver])

(* save_chat: the chat, then its messages; when those fail, the chat goes.  *)
SaverUpserts(w) ==
    /\ sched[w].saver = "upsert"
    /\ \/ Store!UpsertChat(sched[w].run) /\ Saver(w, "sync") /\ Served
       \/ chats[sched[w].run] = "deleted" /\ Saver(w, "raised") /\ Quiet
       \/ Fault /\ Saver(w, "raised") /\ UNCHANGED <<active, cancelling>>

SaverSyncs(w) ==
    /\ sched[w].saver = "sync"
    /\ \/ Store!SyncChat(sched[w].run) /\ Saver(w, "saved") /\ Served
       \/ ~Store!ChatExists(sched[w].run) /\ Saver(w, "discard") /\ Quiet
       \/ Fault /\ Saver(w, "discard") /\ UNCHANGED <<active, cancelling>>

SaverDiscards(w) ==
    /\ sched[w].saver = "discard"
    /\ Saver(w, "raised")
    /\ \/ Store!DeleteChat(sched[w].run) /\ Served
       \/ Fault /\ UNCHANGED <<active, cancelling>>

SavedAnyway(w) == "succeeded"
SaveOutcome(w) == IF sched[w].saver = "saved" THEN "succeeded" ELSE "failed"

TakeSaved(w) ==
    /\ sched[w].pc = "save"
    /\ sched[w].saver \in {"saved", "raised"}
    /\ Only(w, [Settling(w, SaveOutcome(w)) EXCEPT !.saver = "none"])
    /\ Quiet

(* The end of _execute: the loop goes on, unless it is being cancelled.  A  *)
(* run may leave its account's swap to be put back later.                   *)
LoopOn(w) ==
    IF sched[w].proc = "cancelled"
    THEN Goto(w, "ended")
    ELSE \E swap \in {sched[w].swap} \cup ({AccountOf[sched[w].task]} \cap Loading) :
            Only(w, [Free(w) EXCEPT !.pc = "loop", !.swap = swap])

NeverUnsaved(w) == FALSE
Unsaved(w) == sched[w].saving /\ sched[w].outcome # "succeeded"
FinishLinked(w) == Store!FinishRun(sched[w].run, w, sched[w].outcome, TRUE, FALSE)
Finish(w) ==
    Store!FinishRun(sched[w].run, w, sched[w].outcome, sched[w].outcome = "succeeded", Unsaved(w))

(* One attempt of _settle.                                                  *)
Settle(w) ==
    /\ sched[w].pc = "settle"
    /\ Finish(w)
    /\ LoopOn(w)
    /\ Served

(* finish_run answers False: the run was swept or deleted meanwhile.        *)
NotSettled(w) ==
    /\ sched[w].pc = "settle"
    /\ ~Store!Owns(w, sched[w].run)
    /\ IF sched[w].saving THEN Goto(w, "discard") ELSE LoopOn(w)
    /\ Quiet

SettleFails(w) ==
    /\ sched[w].pc = "settle"
    /\ Fault
    /\ IF sched[w].tries + 1 < SettleAttempts
       THEN Only(w, [sched[w] EXCEPT !.tries = @ + 1])
       ELSE IF sched[w].saving THEN Goto(w, "discard") ELSE LoopOn(w)
    /\ UNCHANGED <<active, cancelling>>

(* A chat no run could be settled for is removed, best effort.              *)
Discard(w) ==
    /\ sched[w].pc = "discard"
    /\ LoopOn(w)
    /\ \/ Store!DeleteChat(sched[w].run) /\ Served
       \/ Fault /\ UNCHANGED <<active, cancelling>>

(* _heartbeat runs beside the coroutine until the run is settled.           *)
Heartbeat(w) ==
    /\ IsActive(w) \/ sched[w].pc = "settle"
    /\ Store!Heartbeat(sched[w].run, w)
    /\ UNCHANGED <<active, cancelling, sched, faults>>

-----------------------------------------------------------------------------
(* Shutdown: stop() sets _stopping and the cancel event of the active run;  *)
(* if the loop has not ended after the grace, its task is cancelled once.   *)

Stop(w) ==
    /\ sched[w].proc = "up"
    /\ w \in MayStop
    /\ Only(w, [sched[w] EXCEPT !.proc = "stopping", !.cancel = IsActive(w)])
    /\ Quiet

(* A coroutine whose awaited thread is done, or that sleeps after stop()    *)
(* woke it, runs before the grace is over.                                  *)
Awaiting(w) ==
    /\ sched[w].pc \notin {"off", "loop", "told", "ended", "lastFinish", "gone"}
    /\ sched[w].pc = "claiming" => sched[w].claimer # "back"
    /\ sched[w].pc = "save" => sched[w].saver \notin {"saved", "raised"}

(* CancelledError is raised at the await the coroutine is at.  A thread     *)
(* that was awaited goes on: the claim pass and save_chat as before, the    *)
(* others are their coroutine's last step.                                  *)
AfterCancel(w) ==
    CASE sched[w].pc \in {"claiming", "restore"} -> {"ended"}
      [] sched[w].pc \in {"release", "discard"} -> {sched[w].pc}
      [] sched[w].pc = "settle" -> {"lastFinish"} \cup (IF sched[w].tries > 0 THEN {"ended"} ELSE {})
      [] OTHER -> {"settle"}

CancelLoop(w) ==
    /\ sched[w].proc = "stopping"
    /\ Awaiting(w)
    /\ \E pc \in AfterCancel(w) :
          Only(w, [sched[w] EXCEPT !.proc = "cancelled", !.pc = pc, !.cancel = FALSE])
    /\ Quiet

(* The finish_run a cancelled _settle was waiting for.                      *)
LastFinish(w) ==
    /\ sched[w].pc = "lastFinish"
    /\ Goto(w, "ended")
    /\ \/ Finish(w) /\ Served
       \/ ~Store!Owns(w, sched[w].run) /\ Quiet
       \/ Fault /\ UNCHANGED <<active, cancelling>>

(* The process exits or crashes, wherever its threads are.                  *)
Exit(w) ==
    /\ Running(w)
    /\ w \in MayStop
    /\ Only(w, [Off EXCEPT !.proc = "gone", !.pc = "gone"])
    /\ cancelling' = {c \in cancelling : c.by # w}
    /\ UNCHANGED <<store, active, faults>>

-----------------------------------------------------------------------------
(* Requests, served by any process that is up.  Delete and disable commit   *)
(* first and then cancel the run their own scheduler is executing.          *)

Serving(w) == sched[w].proc = "up"

EditTasks ==
    /\ \E w \in Workers : Serving(w)
    /\ \E t \in Tasks, s \in Schedules, enabled \in BOOLEAN :
          Store!CreateTask(t, s, enabled, clock) \/ Store!UpdateTask(t, s, enabled, clock)
    /\ UNCHANGED <<active, cancelling, sched, faults>>

RunNow ==
    /\ \E w \in Workers : Serving(w)
    /\ \E t \in Tasks : Store!RequestRun(t)
    /\ UNCHANGED <<active, cancelling, sched, faults>>

DeleteTask(w, t) ==
    /\ Serving(w)
    /\ Store!DeleteTask(t)
    /\ cancelling' = cancelling \cup {[by |-> w, task |-> t]}
    /\ UNCHANGED <<active, sched, faults>>

(* set_account_active(False); cancel_account follows.                       *)
DisableAccount(w, a) ==
    /\ Serving(w)
    /\ a \in active \cap Managed
    /\ active' = active \ {a}
    /\ cancelling' = cancelling \cup {[by |-> w, task |-> t] : t \in {u \in Tasks : AccountOf[u] = a}}
    /\ UNCHANGED <<store, sched, faults>>

EnableAccount(a) ==
    /\ \E w \in Workers : Serving(w)
    /\ a \notin active
    /\ active' = active \cup {a}
    /\ UNCHANGED <<store, cancelling, sched, faults>>

(* cancel_task_run and cancel_account: the active run, if it is the task's. *)
CancelRun(c) ==
    /\ c \in cancelling
    /\ cancelling' = cancelling \ {c}
    /\ sched' = [sched EXCEPT ![c.by].cancel = @ \/ (IsActive(c.by) /\ sched[c.by].task = c.task)]
    /\ UNCHANGED <<store, active, faults>>

DeleteChat ==
    /\ \E w \in Workers : Serving(w)
    /\ \E r \in Store!RunIds : Store!ChatExists(r) /\ Store!DeleteChat(r)
    /\ UNCHANGED <<active, cancelling, sched, faults>>

Tick == Store!Tick /\ UNCHANGED <<active, cancelling, sched, faults>>

-----------------------------------------------------------------------------
Init ==
    /\ Store!Init
    /\ active = Accounts
    /\ cancelling = {}
    /\ sched = [w \in Workers |-> Off]
    /\ faults = 0

Pass(w) ==
    BeginPass(w) \/ PassEmpty(w) \/ PollSweep(w) \/ PollQueued(w) \/ PollDue(w) \/ PollNothing(w)
    \/ PollFails(w) \/ ClaimerReturns(w) \/ ClaimerReleases(w) \/ Idle(w) \/ TakeClaim(w)
Execute(w) ==
    CheckWanted(w) \/ BeginAnswer(w) \/ Answer(w) \/ NoAnswer(w) \/ CheckTask(w) \/ CheckFails(w) \/ TakeSaved(w)
    \/ Settle(w) \/ NotSettled(w) \/ SettleFails(w) \/ Discard(w)
Save(w) == SaverUpserts(w) \/ SaverSyncs(w) \/ SaverDiscards(w)
Shutdown(w) == EndLoop(w) \/ GiveClaimBack(w) \/ LastFinish(w) \/ CancelLoop(w)
Work(w) == Start(w) \/ Pass(w) \/ RestoreSwap(w) \/ Execute(w) \/ Save(w) \/ Shutdown(w)

Requests ==
    \/ EditTasks \/ RunNow \/ DeleteChat
    \/ \E w \in Workers, t \in Tasks : DeleteTask(w, t)
    \/ \E w \in Workers, a \in Accounts : DisableAccount(w, a)
    \/ \E a \in Accounts : EnableAccount(a)
    \/ \E c \in cancelling : CancelRun(c)

Next ==
    \/ \E w \in Workers : Work(w) \/ Heartbeat(w) \/ Stop(w) \/ Exit(w)
    \/ Requests
    \/ Tick

Spec == Init /\ [][Next]_vars

-----------------------------------------------------------------------------
Scheduler ==
    [proc : {"off", "up", "stopping", "cancelled", "gone"},
     pc : {"off", "loop", "claiming", "release", "restore", "wanted", "told", "answer", "check",
           "save", "settle", "discard", "lastFinish", "ended", "gone"},
     claimer : {"none", "poll", "swept", "got", "back"},
     saver : {"none", "upsert", "sync", "discard", "saved", "raised"},
     now : 0..MaxClock, todo : SUBSET Accounts, run : 0..MaxRuns, task : Tasks \cup {None},
     next : Nat \cup {None}, cancel : BOOLEAN, saving : BOOLEAN,
     outcome : {"failed", "succeeded"}, tries : 0..(SettleAttempts - 1),
     swap : Accounts \cup {None}, last : Accounts \cup {None}]

(* Type invariant of the schedulers; the tables have their own.             *)
TypeOK ==
    /\ Store!TypeOK
    /\ active \subseteq Accounts
    /\ cancelling \subseteq [by : Workers, task : Tasks]
    /\ sched \in [Workers -> Scheduler]
    /\ faults \in 0..MaxFaults

(* Every step of the schedulers and of the requests that race them is a     *)
(* transaction of the store or leaves it alone: what the store promises     *)
(* holds here.                                                              *)
StoreSpec == Store!Spec

(* "A chat stands only for a succeeded run": a run recorded as failed has   *)
(* no chat, at any moment, whatever thread of whichever process is still    *)
(* saving it (finish_run's discard, the sweep, the tombstones).             *)
FailedRunHasNoChat ==
    \A r \in Store!RunIds : runs[r].status = "failed" => ~Store!ChatExists(r)

(* A run recorded as succeeded links its whole chat, unless the chat was    *)
(* deleted since (save_chat before finish_run, the settle retries, the      *)
(* discard of a chat no run could be settled for).                          *)
SucceededKeepsChat ==
    \A r \in Store!RunIds : runs[r].status = "succeeded" =>
        \/ chats[r] = "full" /\ runs[r].thread
        \/ chats[r] = "deleted"

(* A run's record and its chat agree at every moment.                       *)
Consistent == TypeOK /\ FailedRunHasNoChat /\ SucceededKeepsChat

(* What a user sees of a run: its chat counts once the run is no longer in  *)
(* progress, and a row that was inserted and is no longer there is gone.    *)
Phase(r) ==
    IF runs[r].status # "none" THEN runs[r].status ELSE IF r <= made THEN "gone" ELSE "none"
Contract == INSTANCE ScheduledRunContract WITH
    Runs <- Store!RunIds,
    phase <- [r \in Store!RunIds |-> Phase(r)],
    shown <- {r \in Store!RunIds : Store!ChatExists(r) /\ Phase(r) \notin {"queued", "running"}}

(* The schedulers, with their threads, retries and crashes, implement the   *)
(* contract of a run: its chat appears exactly when it is recorded as       *)
(* succeeded (save_chat and finish_run are separate transactions).          *)
RunContract == Contract!Spec

(* A run is executed by one scheduler only, although claims are given back, *)
(* swept and left behind by threads nobody can cancel.                      *)
ExecutedOnce ==
    \A v, w \in Workers : (IsActive(v) /\ IsActive(w) /\ sched[v].run = sched[w].run) => v = w

(* A scheduler that ended, with no database call having failed and no       *)
(* thread of its own still at work, leaves no run in progress: a claim is   *)
(* executed and settled, or given back (stop, _claim, _run_loop).  This is  *)
(* said of installations where no run leaves a model that another account's *)
(* run puts back first: a shutdown that cancels the coroutine while it puts *)
(* the model back leaves the claim to the sweep (NoRunBeginsAfterStop).     *)
EndedOwnsNothing ==
    \A w \in Workers :
        (sched[w].pc = "ended" /\ sched[w].claimer \in {"none", "back"} /\ faults = 0)
        => \A r \in Store!RunIds : ~Store!Owns(w, r)

(* A run that is being answered for a task that was deleted, or an account  *)
(* that was disabled, is cancelled by the time the request returned: the    *)
(* run is made active before it asks whether it is wanted, the request      *)
(* commits before it looks for an active run (_execute, delete_task,        *)
(* cancel_task_run, cancel_account).  For requests to the scheduler's own   *)
(* process: the runs of it have one worker.                                 *)
UnwantedIsCancelled ==
    \A w \in Workers :
        (sched[w].pc = "answer" /\ ~StillWanted(w) /\ [by |-> w, task |-> sched[w].task] \notin cancelling)
        => sched[w].cancel

(* "Past here nothing awaits before the run is active": past the check of   *)
(* _stopping a run does not become active once shutdown began (_run_loop).  *)
NoRunBeginsAfterStop ==
    [][\A w \in Workers : Stopping(w) /\ ~IsActive(w) => ~IsActive(w)']_vars

(* A run does not start on a model another account's run left loaded: that  *)
(* swap is put back first (_run_loop, _restore_swap).                       *)
SwapIsOwn == \A w \in Workers : IsActive(w) => ~SwappedByOther(w)

-----------------------------------------------------------------------------
(* Liveness, while one process stays up.                                    *)

Fairness ==
    /\ \A w \in Workers : WF_vars(Work(w))
    /\ WF_vars(\E c \in cancelling : CancelRun(c))
    /\ WF_vars(Tick)
FairSpec == Spec /\ Fairness

(* A queued run does not wait forever: it is claimed, or its task deleted,  *)
(* also when the worker that claimed it first gave it back while stopping   *)
(* (_claim, release_claim).  And no run stays in progress forever, whatever *)
(* its worker died of or failed to record (_settle, _fail_stale), unless    *)
(* the bounded clock ends before it is stale.                               *)
InProgress(r) == runs[r].status = "running"
NeverStale(r) == InProgress(r) /\ runs[r].heartbeat + StaleAfter >= MaxClock
RunsSettle ==
    \A r \in Store!RunIds :
        /\ runs[r].status = "queued" ~> runs[r].status # "queued"
        /\ <>[]InProgress(r) => <>[]NeverStale(r)

(* stop() is not kept waiting forever by a run, a claim or a save.          *)
StopEnds ==
    \A w \in Workers : sched[w].proc = "stopping" ~> sched[w].pc \in {"ended", "gone"}

=============================================================================
