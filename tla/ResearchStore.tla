---------------------------- MODULE ResearchStore ---------------------------
(***************************************************************************)
(* storage/research_runs_db.py: the row of a chat's deep research run and   *)
(* the reply that shows it.  A chat has one run (research_thread_claims);   *)
(* a stopped one is pointed at the next question, a failed or stopped one   *)
(* can be retried, and each of these is a new attempt of the same id.       *)
(* Every action is a transaction.                                           *)
(***************************************************************************)
EXTENDS Naturals

CONSTANTS
    MaxRetries,     \* retries of a question: max_retries of retry()
    MaxAttempts,    \* bound: attempts of the run, over all its questions
    MaxRevisions    \* bound: plans written

ASSUME StoreAssumption == MaxRetries \in Nat /\ MaxAttempts \in Nat /\ MaxRevisions \in Nat

VARIABLES
    run,        \* the row of research_runs, and whether a run.approved event is kept for it
    consent,    \* the revision of the plan the user approved last
    reply       \* the assistant message bound to the run: the attempt that wrote it last

storeVars == <<run, consent, reply>>

Claimable == {"planning", "queued", "running", "cancelling"}
ACTIVE_STATUSES == Claimable \cup {"awaiting_approval"}
TERMINAL_STATUSES == {"cancelled", "completed", "failed"}
Statuses == ACTIVE_STATUSES \cup TERMINAL_STATUSES

(* The owner of the lease: the supervisor of this process, or a worker id   *)
(* of a process that is gone.                                               *)
Owners == {"none", "worker", "gone"}

StoreTypeOK ==
    /\ run \in [status : Statuses \cup {"none"}, attempt : 0..MaxAttempts, revision : 0..MaxRevisions,
                planned : BOOLEAN, approved : BOOLEAN, cancelRequested : BOOLEAN, spent : 0..MaxRetries,
                owner : Owners, live : BOOLEAN, stops : BOOLEAN]
    /\ consent \in 0..MaxRevisions
    /\ reply \in [made : BOOLEAN, attempt : 0..MaxAttempts]

StoreInit ==
    /\ run = [status |-> "none", attempt |-> 0, revision |-> 0, planned |-> FALSE, approved |-> FALSE,
              cancelRequested |-> FALSE, spent |-> 0, owner |-> "none", live |-> FALSE, stops |-> FALSE]
    /\ consent = 0
    /\ reply = [made |-> FALSE, attempt |-> 0]

Owns == run.owner = "worker" /\ run.live

(* _bind_assistant_locked and _unbind_assistant_locked: the request names   *)
(* its reply, or none is bound until one is found or made.                  *)
Bound(named, attempt) == [made |-> named, attempt |-> attempt]

create_run(stops, named) ==
    /\ run.status = "none"
    /\ run' = [run EXCEPT !.status = "planning", !.stops = stops]
    /\ reply' = Bound(named, run.attempt)
    /\ UNCHANGED consent

(* A rebound run has no plan and no approval: neither was for this question. *)
Rebound(stops) ==
    [run EXCEPT !.status = "planning", !.cancelRequested = FALSE, !.planned = FALSE, !.approved = FALSE,
                !.revision = @ + 1, !.attempt = @ + 1, !.spent = 0, !.owner = "none", !.live = FALSE,
                !.stops = stops]

rebind_cancelled(stops, named) ==
    /\ run.status = "cancelled"
    /\ run.attempt < MaxAttempts /\ run.revision < MaxRevisions
    /\ run' = Rebound(stops)
    /\ reply' = Bound(named, run.attempt + 1)
    /\ UNCHANGED consent

(* The plan is the planner's, which must still own the run, or the user's,  *)
(* who may write over the planner.  Either ends the planner's lease.        *)
MayPlan(byWorker) ==
    IF byWorker
      THEN run.status = "planning" /\ Owns /\ ~run.cancelRequested
      ELSE run.status \in {"planning", "awaiting_approval"}

set_plan(byWorker) ==
    /\ MayPlan(byWorker)
    /\ run.revision < MaxRevisions
    /\ run' = [run EXCEPT !.planned = TRUE, !.revision = @ + 1, !.status = "awaiting_approval",
                          !.owner = "none", !.live = FALSE]
    /\ UNCHANGED <<consent, reply>>

(* The user approves what was shown: the revision and its hash.             *)
Shown(revision) == run.planned /\ run.revision = revision

approve(revision) ==
    /\ Shown(revision)
    /\ \/ /\ run.status = "awaiting_approval"
          /\ run' = [run EXCEPT !.status = "queued", !.approved = TRUE]
          /\ consent' = revision
       \/ /\ run.status \in {"queued", "running", "completed"}
          /\ UNCHANGED <<run, consent>>
    /\ UNCHANGED reply

(* request_cancel: Cancelled is the status it answers.                      *)
Cancelled ==
    IF run.status \in {"awaiting_approval", "queued"} THEN "cancelled"
    ELSE IF run.status \in {"planning", "running"} THEN "cancelling" ELSE run.status

CancelledRun ==
    [run EXCEPT !.status = Cancelled,
                !.cancelRequested = @ \/ run.status \in ACTIVE_STATUSES \ {"cancelling"}]

request_cancel ==
    /\ run' = CancelledRun
    /\ UNCHANGED <<consent, reply>>

(* Variant: a plan is taken for an approved one.                            *)
RetriedWithPlan == IF run.planned THEN "queued" ELSE "planning"
RetriedStatus ==
    IF ~run.planned THEN "planning" ELSE IF run.approved THEN "queued" ELSE "awaiting_approval"

retry ==
    /\ run.status \in {"failed", "cancelled"}
    /\ run.spent < MaxRetries
    /\ run.attempt < MaxAttempts
    /\ run' = [run EXCEPT !.status = RetriedStatus, !.cancelRequested = FALSE, !.attempt = @ + 1,
                          !.spent = @ + 1, !.owner = "none", !.live = FALSE]
    /\ UNCHANGED <<consent, reply>>

(* Variant: only a lease that was given back.                               *)
GivenBack == run.owner = "none"
Unowned == run.owner = "none" \/ ~run.live

claim_next ==
    /\ run.status \in Claimable
    /\ Unowned
    /\ run' = [run EXCEPT !.status = IF @ = "queued" THEN "running" ELSE @, !.owner = "worker", !.live = TRUE]
    /\ UNCHANGED <<consent, reply>>

(* Variant: a stop that comes after the worker's last check is too late.    *)
EndedAsAsked(status, allowExpired) ==
    IF run.owner # "worker" \/ (~allowExpired /\ ~run.live) THEN "none" ELSE status
(* What finish() writes for an asked status; "none" when it writes nothing. *)
Ended(status, allowExpired) ==
    IF \/ run.owner # "worker"
       \/ ~allowExpired /\ ~run.cancelRequested /\ ~run.live
      THEN "none"
      ELSE IF run.cancelRequested \/ run.status = "cancelling" THEN "cancelled" ELSE status

finish(status, allowExpired) ==
    /\ run' = IF Ended(status, allowExpired) = "none" THEN run
              ELSE [run EXCEPT !.status = Ended(status, allowExpired), !.owner = "none", !.live = FALSE]
    /\ UNCHANGED <<consent, reply>>

(* A lease that is not renewed runs out; a worker that stops gives its own  *)
(* back, and one that dies leaves it to run out.                            *)
LeaseExpires ==
    /\ run.live
    /\ run' = [run EXCEPT !.live = FALSE]
    /\ UNCHANGED <<consent, reply>>

release_worker_leases ==
    /\ run' = IF run.owner = "worker" THEN [run EXCEPT !.owner = "none", !.live = FALSE] ELSE run
    /\ UNCHANGED <<consent, reply>>

OwnerDies ==
    /\ run' = IF run.owner = "worker" THEN [run EXCEPT !.owner = "gone"] ELSE run
    /\ UNCHANGED <<consent, reply>>

(* _sync_assistant and _update_assistant, which write what was read of an   *)
(* attempt.  A reply that exists is written while the run is on that        *)
(* attempt (upsert_chat_message); one is made for an ended run only, or     *)
(* for one that its worker is about to complete                             *)
(* (create_and_bind_terminal_fallback).                                     *)
(* Variant: whatever attempt the run is on.                                 *)
AnyAttempt(attempt) == TRUE
StillOn(attempt) == run.attempt = attempt

MayMake(status, completing) ==
    \/ status \in TERMINAL_STATUSES /\ run.status = status
    \/ completing /\ run.status = "running" /\ Owns /\ ~run.cancelRequested

MayWrite(attempt, status, completing) ==
    StillOn(attempt) /\ (reply.made \/ MayMake(status, completing))

write_reply(attempt, status, completing) ==
    /\ reply' = IF MayWrite(attempt, status, completing)
                  THEN [made |-> TRUE, attempt |-> attempt] ELSE reply
    /\ UNCHANGED <<run, consent>>

StoreNext ==
    \/ \E stops, named \in BOOLEAN : create_run(stops, named) \/ rebind_cancelled(stops, named)
    \/ \E byWorker \in BOOLEAN : set_plan(byWorker)
    \/ \E revision \in 1..MaxRevisions : approve(revision)
    \/ request_cancel \/ retry \/ claim_next
    \/ \E status \in TERMINAL_STATUSES, allowExpired \in BOOLEAN : finish(status, allowExpired)
    \/ LeaseExpires \/ release_worker_leases \/ OwnerDies
    \/ \E attempt \in 0..MaxAttempts, status \in Statuses \cup {"none"}, completing \in BOOLEAN :
            write_reply(attempt, status, completing)

StoreSpec == StoreInit /\ [][StoreNext]_storeVars

-----------------------------------------------------------------------------

(* No plan is carried out but the one the user approved, through edits,     *)
(* stops, retries and new questions of the same run.                        *)
ApprovedPlanOnly ==
    run.status \in {"queued", "running"} => run.planned /\ consent = run.revision

(* An attempt ends once, and one that was told to stop ends as cancelled:   *)
(* it is never reported completed or failed afterwards, whatever its worker *)
(* was about to write.                                                      *)
StopIsFinal ==
    [][run'.attempt = run.attempt =>
         /\ run.status \in TERMINAL_STATUSES => run'.status = run.status
         /\ run.cancelRequested => run'.cancelRequested /\ run'.status \in {"cancelling", "cancelled"}]_run

(* The reply never goes back to an earlier attempt: what a slow request or  *)
(* worker says of an attempt does not land on the next question's answer.   *)
ReplyNeverGoesBack == [][reply'.attempt >= reply.attempt]_reply
=============================================================================
