---------------------------- MODULE ResearchRuns ----------------------------
(***************************************************************************)
(* core/research_runs.py (ResearchSupervisor), routes/research_runs.py and  *)
(* state/unattended_runs.py over the row of ResearchStore: one server       *)
(* process that may stop, crash and start again, the worker that plans and  *)
(* researches, the user's requests, the tab that follows the run, and the   *)
(* watchdog that stops a run nobody follows if its owner asked for that.    *)
(***************************************************************************)
EXTENDS ResearchStore

CONSTANTS
    Requests,       \* the user's requests in flight
    Watchdog,       \* the watchdog's call of cancel, one more of the callers
    MaxTroubles     \* bound: database calls that fail, leases lost while their worker lives,
                    \* and ends of the process

ASSUME RequestsAssumption == Watchdog \notin Requests /\ MaxTroubles \in Nat

VARIABLES
    work,       \* the attempt in _process
    signal,     \* _cancel_events: the run's event exists and is set
    lost,       \* the run is in _lost_leases
    calls,      \* where each request, and the watchdog's cancel, is
    watch,      \* _WATCHES: the run's entry
    pass,       \* check_once at an entry
    attended,   \* run_subscribers.is_attended
    up,         \* the process runs
    troubles    \* calls that failed, leases lost while the worker lived, ends of the process

memory == <<work, signal, lost, calls, watch, pass, attended>>
vars == <<storeVars, memory, up, troubles>>

Callers == Requests \cup {Watchdog}
Idle == [at |-> "idle", attempt |-> 0, status |-> "none"]
NoCall == [at |-> "none", arms |-> FALSE, attempt |-> 0, status |-> "none", stops |-> FALSE]
NoWatch == [made |-> FALSE, attempt |-> 0, overdue |-> FALSE]
NoPass == [at |-> "sleeping", attempt |-> 0]

Attempts == 0..MaxAttempts
Working == {"claimed", "planning", "researching", "reported"}
Ending == {"stopping", "failing", "losing"}

TypeOK ==
    /\ StoreTypeOK
    /\ work \in [at : {"idle", "closing", "telling"} \cup Working \cup Ending,
                 attempt : Attempts, status : Statuses \cup {"none"}]
    /\ {signal, lost, attended, up} \subseteq BOOLEAN
    /\ calls \in [Callers -> [at : {"none", "signal", "sync", "arm"}, arms : BOOLEAN,
                              attempt : Attempts, status : Statuses \cup {"none"}, stops : BOOLEAN]]
    /\ watch \in [made : BOOLEAN, attempt : Attempts, overdue : BOOLEAN]
    /\ pass \in [at : {"sleeping", "stopping", "cancelling", "dropping"}, attempt : Attempts]
    /\ troubles \in 0..MaxTroubles

Init ==
    /\ StoreInit
    /\ work = Idle /\ signal = FALSE /\ lost = FALSE
    /\ calls = [c \in Callers |-> NoCall]
    /\ watch = NoWatch /\ pass = NoPass /\ attended = FALSE
    /\ up = TRUE /\ troubles = 0

-----------------------------------------------------------------------------
(* The worker.                                                              *)

Trouble == troubles < MaxTroubles /\ troubles' = troubles + 1

inWorker == <<calls, watch, pass, attended, up>>
Goes(at) == work' = [work EXCEPT !.at = at]

(* _check_active: what it raises, or "go".                                  *)
Verdict ==
    IF lost THEN "losing"
    ELSE IF run.cancelRequested THEN "stopping"
    ELSE IF ~Owns THEN "losing"
    ELSE IF signal THEN "stopping"
    ELSE "go"

(* It also sets the event when the row says that the run is cancelled.      *)
Raises ==
    /\ Verdict # "go"
    /\ Goes(Verdict)
    /\ signal' = (signal \/ (~lost /\ run.cancelRequested))
    /\ UNCHANGED <<storeVars, lost>>

Claim ==
    /\ up /\ work.at = "idle"
    /\ claim_next
    /\ work' = [at |-> "claimed", attempt |-> run.attempt, status |-> run'.status]
    /\ UNCHANGED <<signal, lost, troubles, inWorker>>

(* The start of _process.                                                   *)
Start ==
    /\ work.at = "claimed"
    /\ \/ Raises
       \/ /\ Verdict = "go"
          /\ Goes(IF work.status = "planning" THEN "planning" ELSE "researching")
          /\ UNCHANGED <<storeVars, signal, lost>>
    /\ UNCHANGED <<troubles, inWorker>>

(* Any check, or refused write, between the steps of planning and research; *)
(* the request in flight is watched for the event as well.                  *)
Interrupted ==
    /\ work.at \in {"planning", "researching"}
    /\ Raises
    /\ UNCHANGED <<troubles, inWorker>>

(* The planner's result; a refusal is looked into by Interrupted.           *)
Planned ==
    /\ work.at = "planning"
    /\ set_plan(TRUE)
    /\ Goes("closing")
    /\ UNCHANGED <<signal, lost, troubles, inWorker>>

Fails ==
    /\ work.at \in {"planning", "researching"}
    /\ Goes("failing")
    /\ UNCHANGED <<storeVars, signal, lost, troubles, inWorker>>

(* The lease is renewed and the report put in the reply, before the run is   *)
(* ended.  A reply that cannot be made raises; a refused renewal is looked   *)
(* into by Interrupted.                                                     *)
Reported ==
    /\ work.at = "researching" /\ Owns
    /\ write_reply(work.attempt, "completed", TRUE)
    /\ Goes(IF ~reply.made /\ ~MayMake("completed", TRUE) THEN "failing" ELSE "reported")
    /\ UNCHANGED <<signal, lost, troubles, inWorker>>

Completed ==
    /\ work.at = "reported"
    /\ finish("completed", FALSE)
    /\ work' = [work EXCEPT !.status = Ended("completed", FALSE),
                            !.at = CASE Ended("completed", FALSE) = "none" -> "losing"
                                     [] Ended("completed", FALSE) = "cancelled" -> "telling"
                                     [] OTHER -> "closing"]
    /\ UNCHANGED <<signal, lost, troubles, inWorker>>

(* The handlers of RunCancelled, of other errors and of LeaseLost.          *)
Asked(at) == IF at = "stopping" THEN "cancelled" ELSE "failed"
EndedAt(at) == Ended(Asked(at), at = "losing")

End ==
    /\ work.at \in Ending
    /\ finish(Asked(work.at), work.at = "losing")
    /\ work' = [work EXCEPT !.status = EndedAt(work.at),
                            !.at = IF EndedAt(work.at) \in {"cancelled", "failed"} THEN "telling"
                                   ELSE IF work.at = "failing" THEN "losing" ELSE "closing"]
    /\ UNCHANGED <<signal, lost, troubles, inWorker>>

(* The database stays locked: an error handled as a failure, and then one   *)
(* that leaves the row as it is.  A lost lease is retried without end.      *)
FinishFails ==
    /\ work.at \in {"reported", "stopping", "failing"}
    /\ Trouble
    /\ Goes(IF work.at = "reported" THEN "failing" ELSE "closing")
    /\ UNCHANGED <<storeVars, signal, lost, inWorker>>

(* Nothing is told of the run once it is on another attempt: _run_moved_on,  *)
(* and the write makes sure of that again.                                  *)
Tell ==
    /\ work.at = "telling"
    /\ write_reply(work.attempt, work.status, FALSE)
    /\ Goes("closing")
    /\ UNCHANGED <<signal, lost, troubles, inWorker>>

(* The end of _process: the event and the mark are dropped.                 *)
Closed ==
    /\ work.at = "closing"
    /\ work' = Idle
    /\ signal' = FALSE
    /\ lost' = FALSE
    /\ UNCHANGED <<storeVars, troubles, inWorker>>

(* _heartbeat: a refused renewal, or ten that raise.  Later than this its    *)
(* marks are not looked at.                                                 *)
BeatRefused ==
    /\ work.at \in {"claimed", "planning", "researching"} /\ ~lost
    /\ \/ ~Owns /\ UNCHANGED troubles
       \/ Trouble
    /\ lost' = TRUE
    /\ signal' = TRUE
    /\ UNCHANGED <<storeVars, work, inWorker>>

(* A lease runs out unless its worker is at work on the run, and even then  *)
(* if the process was suspended.                                            *)
Neglected == run.owner = "gone" \/ work.at = "idle"

Expires ==
    /\ LeaseExpires
    /\ \/ Neglected /\ UNCHANGED troubles
       \/ Trouble
    /\ UNCHANGED <<memory, up>>

-----------------------------------------------------------------------------
(* The routes.                                                              *)

inCall == <<work, lost, pass, attended, up, troubles>>

Free(r) == up /\ calls[r].at = "none"
Then(c, at) == calls' = [calls EXCEPT ![c].at = at]

Arming == [at |-> "arm", arms |-> TRUE, attempt |-> run'.attempt, status |-> run'.status,
           stops |-> run'.stops]

(* create_research_run: a chat's first run, or its stopped one.             *)
Create(r) ==
    /\ Free(r)
    /\ \E stops, named \in BOOLEAN : create_run(stops, named) \/ rebind_cancelled(stops, named)
    /\ calls' = [calls EXCEPT ![r] = Arming]
    /\ UNCHANGED <<signal, watch, inCall>>

UpdatePlan(r) ==
    /\ Free(r)
    /\ set_plan(FALSE)
    /\ Then(r, "sync")
    /\ UNCHANGED <<signal, watch, inCall>>

Approve(r) ==
    /\ Free(r)
    /\ \E revision \in 1..run.revision : approve(revision)
    /\ Then(r, "sync")
    /\ UNCHANGED <<signal, watch, inCall>>

(* The row first, then the event if there is a worker to tell.              *)
AfterCancel == IF Cancelled = "cancelling" THEN "signal" ELSE "sync"

Cancel(r) ==
    /\ Free(r) /\ run.status # "none"
    /\ request_cancel
    /\ Then(r, AfterCancel)
    /\ UNCHANGED <<signal, watch, inCall>>

Retry(r) ==
    /\ Free(r)
    /\ retry
    /\ calls' = [calls EXCEPT ![r].at = "sync", ![r].arms = TRUE]
    /\ UNCHANGED <<signal, watch, inCall>>

(* ResearchSupervisor.cancel makes the event if the run has none.           *)
Signal(c) ==
    /\ calls[c].at = "signal"
    /\ signal' = TRUE
    /\ Then(c, "sync")
    /\ UNCHANGED <<storeVars, watch, inCall>>

(* The run is read and its reply written; a retry goes on to watch the run   *)
(* as it was read.                                                          *)
Sync(c) ==
    /\ calls[c].at = "sync"
    /\ write_reply(run.attempt, run.status, FALSE)
    /\ calls' = [calls EXCEPT ![c] = IF @.arms THEN Arming ELSE NoCall]
    /\ UNCHANGED <<signal, watch, inCall>>

(* _watch_if_unattended_stop(replace = True), with the run that was read.   *)
Watched(attempt) == [made |-> TRUE, attempt |-> attempt, overdue |-> FALSE]
CanBeStopped(status) == status \in ACTIVE_STATUSES \ {"cancelling"}

Arm(r) ==
    /\ calls[r].at = "arm"
    /\ watch' = IF ~calls[r].stops THEN NoWatch
                ELSE IF CanBeStopped(calls[r].status) THEN Watched(calls[r].attempt) ELSE watch
    /\ calls' = [calls EXCEPT ![r] = NoCall]
    /\ UNCHANGED <<storeVars, signal, inCall>>

(* research_events: the follower arms a watch that is missing.              *)
Rearmed ==
    IF ~watch.made /\ run.stops /\ CanBeStopped(run.status) THEN Watched(run.attempt) ELSE watch

Attach ==
    /\ up /\ ~attended /\ run.status # "none"
    /\ attended' = TRUE
    /\ watch' = Rearmed
    /\ UNCHANGED <<storeVars, work, signal, lost, calls, pass, up, troubles>>

Leave ==
    /\ attended
    /\ attended' = FALSE
    /\ UNCHANGED <<storeVars, work, signal, lost, calls, watch, pass, up, troubles>>

-----------------------------------------------------------------------------
(* The watchdog: check_once takes an entry, asks settled() in a thread,      *)
(* looks for followers, and stops the run if none came for the grace.  What  *)
(* it reads is one step, what it does of it another: in between the run may  *)
(* be retried or rebound, and its watch replaced.                           *)

inPass == <<work, lost, attended, up>>

GraceEnds ==
    /\ watch.made /\ ~watch.overdue
    /\ watch' = [watch EXCEPT !.overdue = TRUE]
    /\ UNCHANGED <<storeVars, signal, calls, pass, troubles, inPass>>

IsSettled == ~CanBeStopped(run.status) \/ run.attempt # watch.attempt

Visit ==
    /\ up /\ pass.at = "sleeping" /\ watch.made
    /\ \/ /\ IsSettled
          /\ pass' = [at |-> "dropping", attempt |-> watch.attempt]
          /\ UNCHANGED watch
       \/ /\ ~IsSettled /\ attended
          /\ watch' = [watch EXCEPT !.overdue = FALSE]
          /\ UNCHANGED pass
       \/ /\ ~IsSettled /\ ~attended /\ watch.overdue
          /\ pass' = [at |-> "stopping", attempt |-> watch.attempt]
          /\ UNCHANGED watch
    /\ UNCHANGED <<storeVars, signal, calls, troubles, inPass>>

(* Variant: whatever entry the run has.                                     *)
AnyEntry == TRUE
(* The entry of this pass is still the one in the table.  Entries of an     *)
(* attempt never replace each other, so its attempt tells.                  *)
IsEntry == watch.made /\ watch.attempt = pass.attempt

(* Variant: the run, whatever attempt it is on.                             *)
Unexpected == TRUE
(* Its cancel() names the attempt that it watches, and does nothing of a    *)
(* later one.                                                               *)
Expected == run.attempt = pass.attempt

StopUnattended ==
    /\ pass.at = "stopping"
    /\ IF Expected
         THEN /\ request_cancel
              /\ Then(Watchdog, AfterCancel)
              /\ pass' = [pass EXCEPT !.at = "cancelling"]
         ELSE /\ pass' = [pass EXCEPT !.at = "dropping"]
              /\ UNCHANGED <<storeVars, calls>>
    /\ UNCHANGED <<signal, watch, troubles, inPass>>

(* A cancel that raises is tried again in the next pass.                    *)
StopFails ==
    /\ pass.at = "stopping"
    /\ Trouble
    /\ pass' = NoPass
    /\ UNCHANGED <<storeVars, signal, calls, watch, inPass>>

Drop ==
    /\ \/ pass.at = "dropping"
       \/ pass.at = "cancelling" /\ calls[Watchdog].at = "none"
    /\ watch' = IF IsEntry THEN NoWatch ELSE watch
    /\ pass' = NoPass
    /\ UNCHANGED <<storeVars, signal, calls, troubles, inPass>>

-----------------------------------------------------------------------------
(* The process.                                                             *)

Forgotten ==
    /\ up' = FALSE
    /\ Trouble
    /\ work' = Idle /\ signal' = FALSE /\ lost' = FALSE /\ attended' = FALSE
    /\ calls' = [c \in Callers |-> NoCall]
    /\ watch' = NoWatch /\ pass' = NoPass

(* The leases are given back, once the task that held them is cancelled.    *)
Stop == up /\ release_worker_leases /\ Forgotten

Crash == up /\ OwnerDies /\ Forgotten

(* rearm_unattended_research_runs.                                          *)
Restart ==
    /\ ~up /\ up' = TRUE
    /\ watch' = Rearmed
    /\ UNCHANGED <<storeVars, work, signal, lost, calls, pass, attended, troubles>>

-----------------------------------------------------------------------------

(* What a process does by itself, once something is there to be done.       *)
Ends == Start \/ Interrupted \/ Completed \/ End \/ Tell \/ Closed
Advances == Planned \/ Reported \/ Fails
Answers(c) == Signal(c) \/ Sync(c)
Watches == Visit \/ StopUnattended \/ Drop

Next ==
    \/ Claim \/ Ends \/ Advances \/ FinishFails \/ BeatRefused \/ Expires
    \/ \E r \in Requests : Create(r) \/ UpdatePlan(r) \/ Approve(r) \/ Cancel(r) \/ Retry(r) \/ Arm(r)
    \/ \E c \in Callers : Answers(c)
    \/ Attach \/ Leave
    \/ GraceEnds \/ Watches \/ StopFails
    \/ Stop \/ Crash \/ Restart

Spec == Init /\ [][Next]_vars

(* Nothing is assumed of the model, the user or the tab: a worker whose     *)
(* model hangs is still in the middle of its step.                          *)
FairSpec ==
    /\ Spec
    /\ WF_vars(Claim) /\ WF_vars(Ends)
    /\ WF_vars(Neglected /\ Expires)
    /\ \A c \in Callers : WF_vars(Answers(c))
    /\ \A r \in Requests : WF_vars(Arm(r))
    /\ WF_vars(GraceEnds) /\ WF_vars(Watches) /\ WF_vars(Restart)

-----------------------------------------------------------------------------

(* The row and the supervisor have their types, and what is carried out is  *)
(* what was approved.                                                       *)
Consistent == TypeOK /\ ApprovedPlanOnly

(* The watchdog stops only a run whose owner asked for that: not the next   *)
(* question, asked without it under the same id while a pass was under way.  *)
OnlyAskedRunsStop ==
    [][calls'[Watchdog] # calls[Watchdog] /\ run'.cancelRequested # run.cancelRequested => run.stops]_vars

(* A run that was told to stop does, although its worker dies, loses its    *)
(* lease or cannot write, and whatever its model does.                      *)
StopEnds == run.status = "cancelling" ~> run.status = "cancelled"

(* A run whose owner asked for it does not stay active with no tab to       *)
(* follow it, through retries, new questions, restarts and failed stops.    *)
AbandonedRunStops ==
    []<>~(run.stops /\ run.status \in ACTIVE_STATUSES /\ ~attended)

(* request_cancel: a retry or rebind that commits first "can never be       *)
(* cancelled on its predecessor's behalf": an attempt is cancelled only if  *)
(* somebody asked for it in that attempt.                                   *)
CancelledWasAsked == run.status = "cancelled" => run.cancelRequested
=============================================================================
