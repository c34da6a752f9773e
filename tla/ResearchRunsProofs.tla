------------------------- MODULE ResearchRunsProofs -------------------------
(***************************************************************************)
(* Proofs about ResearchRuns: every step of the supervisor, the routes and  *)
(* the watchdog is a transaction of ResearchStore or leaves the row alone,  *)
(* so what the transactions keep holds of the whole.                        *)
(***************************************************************************)
EXTENDS ResearchRuns, TLAPS

(* What every transaction keeps.  An approval is of the plan there is, and  *)
(* does not outlast it; a lease is held in the statuses a worker works in;  *)
(* a stop that was asked for shows in the status; the reply was last        *)
(* written for this attempt or an earlier one.                              *)
ApprovalCurrent ==
    /\ run.approved => /\ run.planned /\ consent = run.revision
                       /\ run.status \notin {"none", "planning", "awaiting_approval"}
    /\ run.status \in {"queued", "running"} => run.approved
LeaseFits == run.owner # "none" => run.status \in {"planning", "running", "cancelling"}
StopShows ==
    /\ run.cancelRequested => run.status \in {"cancelling", "cancelled"}
    /\ run.status = "cancelling" => run.cancelRequested
ReplyBehind == reply.attempt <= run.attempt
StoreInv == StoreTypeOK /\ ApprovalCurrent /\ LeaseFits /\ StopShows /\ ReplyBehind

RunRow ==
    [status : Statuses \cup {"none"}, attempt : 0..MaxAttempts, revision : 0..MaxRevisions,
     planned : BOOLEAN, approved : BOOLEAN, cancelRequested : BOOLEAN, spent : 0..MaxRetries,
     owner : Owners, live : BOOLEAN, stops : BOOLEAN]

LEMMA InitStoreInv == StoreInit => StoreInv
    BY StoreAssumption
    DEF StoreInit, StoreInv, StoreTypeOK, ApprovalCurrent, LeaseFits, StopShows, ReplyBehind,
                           Owners

(* What a transaction does to the row, and what it never does: an attempt   *)
(* that ended or was told to stop stays so.                                 *)
StaysStopped ==
    run'.attempt = run.attempt =>
         /\ run.status \in TERMINAL_STATUSES => run'.status = run.status
         /\ run.cancelRequested => run'.cancelRequested /\ run'.status \in {"cancelling", "cancelled"}
Kept == StoreInv' /\ StaysStopped /\ reply'.attempt >= reply.attempt

LEMMA NothingKeeps ==
    ASSUME StoreInv, UNCHANGED storeVars
    PROVE  Kept
<1>1. StoreInv'
    BY DEF StoreInv, StoreTypeOK, ApprovalCurrent, LeaseFits, StopShows, ReplyBehind, storeVars
<1>2. StaysStopped /\ reply'.attempt >= reply.attempt
    BY DEF StoreInv, StoreTypeOK, StopShows, StaysStopped, storeVars
<1> QED
    BY <1>1, <1>2 DEF Kept

(* create_run and rebind_cancelled: neither a plan nor an approval is there. *)
LEMMA CreateKeeps ==
    ASSUME StoreInv, NEW stops \in BOOLEAN, NEW named \in BOOLEAN, create_run(stops, named)
    PROVE  Kept
<1>0. /\ run.attempt \in 0..MaxAttempts /\ run.attempt \in Nat
      /\ reply.attempt \in Nat /\ reply.attempt <= run.attempt
    BY StoreAssumption DEF StoreInv, StoreTypeOK, ReplyBehind
<1>1. run \in RunRow /\ run.status \in Statuses \cup {"none"}
    BY DEF StoreInv, StoreTypeOK, RunRow
<1>2. /\ run'.status = "planning"
      /\ run'.approved = run.approved
      /\ run'.planned = run.planned
      /\ run'.revision = run.revision
      /\ run'.cancelRequested = run.cancelRequested
      /\ run'.owner = run.owner
      /\ run'.attempt = run.attempt
      /\ consent' = consent
      /\ reply' = Bound(named, run.attempt)
      /\ run.status = "none"
    BY <1>1 DEF create_run, Bound, RunRow
<1>3. StoreTypeOK'
    <2>1. run' \in RunRow
        BY <1>0, <1>1 DEF create_run, Bound, RunRow, Owners, Statuses, ACTIVE_STATUSES, Claimable
    <2>2. reply' \in [made : BOOLEAN, attempt : 0..MaxAttempts]
        BY <1>0, <1>2 DEF Bound
    <2>3. consent' \in 0..MaxRevisions
        BY <1>2 DEF StoreInv, StoreTypeOK
    <2> QED
        BY <2>1, <2>2, <2>3 DEF StoreTypeOK, RunRow
<1>4. ApprovalCurrent'
    BY <1>1, <1>2 DEF StoreInv, ApprovalCurrent, LeaseFits
<1>5. LeaseFits' /\ ReplyBehind'
    BY <1>0, <1>1, <1>2 DEF StoreInv, StoreTypeOK, LeaseFits, ReplyBehind, Bound
<1>6. StopShows'
    BY <1>1, <1>2 DEF StoreInv, StopShows, LeaseFits
<1>7. StaysStopped
    BY <1>1, <1>2 DEF StoreInv, StopShows, LeaseFits, StaysStopped, TERMINAL_STATUSES
<1>8. reply'.attempt >= reply.attempt
    BY <1>0, <1>2 DEF Bound
<1> QED
    BY <1>3, <1>4, <1>5, <1>6, <1>7, <1>8 DEF Kept, StoreInv

LEMMA RebindKeeps ==
    ASSUME StoreInv, NEW stops \in BOOLEAN, NEW named \in BOOLEAN, rebind_cancelled(stops, named)
    PROVE  Kept
<1>0. /\ run.attempt + 1 \in 0..MaxAttempts /\ run.attempt \in Nat /\ run.attempt + 1 # run.attempt
      /\ run.revision + 1 \in 0..MaxRevisions
      /\ reply.attempt \in Nat /\ reply.attempt <= run.attempt /\ 0 \in 0..MaxRetries
    BY StoreAssumption DEF StoreInv, StoreTypeOK, ReplyBehind, rebind_cancelled
<1>1. run \in RunRow /\ run.status \in Statuses \cup {"none"}
    BY DEF StoreInv, StoreTypeOK, RunRow
<1>2. /\ run'.status = "planning"
      /\ run'.approved = FALSE
      /\ run'.planned = FALSE
      /\ run'.revision = run.revision + 1
      /\ run'.cancelRequested = FALSE
      /\ run'.owner = "none"
      /\ run'.attempt = run.attempt + 1
      /\ consent' = consent
      /\ reply' = Bound(named, run.attempt + 1)
      /\ run.status = "cancelled"
    BY <1>1 DEF rebind_cancelled, Rebound, Bound, RunRow
<1>3. StoreTypeOK'
    <2>1. run' \in RunRow
        BY <1>0, <1>1
        DEF rebind_cancelled, Rebound, Bound, RunRow, Owners, Statuses, ACTIVE_STATUSES, Claimable
    <2>2. reply' \in [made : BOOLEAN, attempt : 0..MaxAttempts]
        BY <1>0, <1>2 DEF Bound
    <2>3. consent' \in 0..MaxRevisions
        BY <1>2 DEF StoreInv, StoreTypeOK
    <2> QED
        BY <2>1, <2>2, <2>3 DEF StoreTypeOK, RunRow
<1>4. ApprovalCurrent'
    BY <1>1, <1>2 DEF StoreInv, ApprovalCurrent, LeaseFits
<1>5. LeaseFits' /\ ReplyBehind'
    BY <1>0, <1>1, <1>2 DEF StoreInv, StoreTypeOK, LeaseFits, ReplyBehind, Bound
<1>6. StopShows'
    BY <1>1, <1>2 DEF StoreInv, StopShows, LeaseFits
<1>7. StaysStopped
    BY <1>0, <1>2 DEF StaysStopped
<1>8. reply'.attempt >= reply.attempt
    BY <1>0, <1>2 DEF Bound
<1> QED
    BY <1>3, <1>4, <1>5, <1>6, <1>7, <1>8 DEF Kept, StoreInv

LEMMA PlanKeeps ==
    ASSUME StoreInv, NEW byWorker \in BOOLEAN, set_plan(byWorker)
    PROVE  Kept
<1>0. run.revision + 1 \in 0..MaxRevisions
    BY StoreAssumption DEF StoreInv, StoreTypeOK, set_plan
<1>1. run \in RunRow /\ run.status \in Statuses \cup {"none"}
    BY DEF StoreInv, StoreTypeOK, RunRow
<1>2. /\ run'.status = "awaiting_approval"
      /\ run'.approved = run.approved
      /\ run'.planned = TRUE
      /\ run'.revision = run.revision + 1
      /\ run'.cancelRequested = run.cancelRequested
      /\ run'.owner = "none"
      /\ run'.attempt = run.attempt
      /\ consent' = consent
      /\ reply' = reply
      /\ run.status \in {"planning", "awaiting_approval"}
    BY <1>1 DEF set_plan, MayPlan, RunRow
<1>3. StoreTypeOK'
    BY <1>0, <1>1, <1>2 DEF StoreInv, StoreTypeOK, set_plan, MayPlan, RunRow, Owners,
        Statuses, ACTIVE_STATUSES, Claimable, TERMINAL_STATUSES
<1>4. ApprovalCurrent'
    BY <1>1, <1>2 DEF StoreInv, ApprovalCurrent, LeaseFits
<1>5. LeaseFits' /\ ReplyBehind'
    BY <1>0, <1>1, <1>2 DEF StoreInv, StoreTypeOK, LeaseFits, ReplyBehind
<1>6. StopShows'
    BY <1>1, <1>2 DEF StoreInv, StopShows, LeaseFits
<1>7. StaysStopped
    BY <1>1, <1>2 DEF StoreInv, StopShows, LeaseFits, StaysStopped, TERMINAL_STATUSES
<1>8. reply'.attempt >= reply.attempt
    BY <1>0, <1>1, <1>2 DEF StoreInv, StoreTypeOK, ReplyBehind
<1> QED
    BY <1>3, <1>4, <1>5, <1>6, <1>7, <1>8 DEF Kept, StoreInv

LEMMA CancelKeeps ==
    ASSUME StoreInv, request_cancel
    PROVE  Kept
<1>1. run \in RunRow /\ run.status \in Statuses \cup {"none"}
    BY DEF StoreInv, StoreTypeOK, RunRow
<1>2. /\ run'.status = Cancelled
      /\ run'.approved = run.approved
      /\ run'.planned = run.planned
      /\ run'.revision = run.revision
      /\ run'.cancelRequested = (run.cancelRequested \/ run.status \in ACTIVE_STATUSES \ {"cancelling"})
      /\ run'.owner = run.owner
      /\ run'.attempt = run.attempt
      /\ consent' = consent
      /\ reply' = reply
    BY <1>1 DEF request_cancel, CancelledRun, Cancelled, RunRow
<1>3. StoreTypeOK'
    BY <1>1, <1>2
    DEF StoreInv, StoreTypeOK, request_cancel, CancelledRun, Cancelled, RunRow, Owners,
        Statuses, ACTIVE_STATUSES, Claimable, TERMINAL_STATUSES
<1>4. ApprovalCurrent'
    BY <1>1, <1>2
    DEF StoreInv, ApprovalCurrent, LeaseFits, Cancelled, ACTIVE_STATUSES, Claimable
<1>5. LeaseFits' /\ ReplyBehind'
    BY <1>1, <1>2
    DEF StoreInv, StoreTypeOK, LeaseFits, ReplyBehind, Cancelled, ACTIVE_STATUSES, Claimable
<1>6. StopShows'
    BY <1>1, <1>2
    DEF StoreInv, StopShows, LeaseFits, Cancelled, ACTIVE_STATUSES, Claimable
<1>7. StaysStopped
    BY <1>1, <1>2
    DEF StoreInv, StopShows, LeaseFits, StaysStopped, Cancelled, ACTIVE_STATUSES, Claimable, TERMINAL_STATUSES
<1>8. reply'.attempt >= reply.attempt
    BY <1>1, <1>2 DEF StoreInv, StoreTypeOK, ReplyBehind
<1> QED
    BY <1>3, <1>4, <1>5, <1>6, <1>7, <1>8 DEF Kept, StoreInv

LEMMA RetryKeeps ==
    ASSUME StoreInv, retry
    PROVE  Kept
<1>0. /\ run.attempt + 1 \in 0..MaxAttempts /\ run.attempt \in Nat /\ run.attempt + 1 # run.attempt
      /\ run.spent + 1 \in 0..MaxRetries
    BY StoreAssumption DEF StoreInv, StoreTypeOK, retry
<1>1. run \in RunRow /\ run.status \in Statuses \cup {"none"}
    BY DEF StoreInv, StoreTypeOK, RunRow
<1>2. /\ run'.status = RetriedStatus
      /\ run'.approved = run.approved
      /\ run'.planned = run.planned
      /\ run'.revision = run.revision
      /\ run'.cancelRequested = FALSE
      /\ run'.owner = "none"
      /\ run'.attempt = run.attempt + 1
      /\ consent' = consent
      /\ reply' = reply
      /\ run.status \in {"failed", "cancelled"}
    BY <1>1 DEF retry, RetriedStatus, RunRow
<1>3. StoreTypeOK'
    BY <1>0, <1>1, <1>2 DEF StoreInv, StoreTypeOK, retry, RetriedStatus, RunRow, Owners,
        Statuses, ACTIVE_STATUSES, Claimable, TERMINAL_STATUSES
<1>4. ApprovalCurrent'
    BY <1>1, <1>2 DEF StoreInv, ApprovalCurrent, LeaseFits, RetriedStatus
<1>5. LeaseFits' /\ ReplyBehind'
    BY <1>0, <1>1, <1>2 DEF StoreInv, StoreTypeOK, LeaseFits, ReplyBehind, RetriedStatus
<1>6. StopShows'
    BY <1>1, <1>2 DEF StoreInv, StopShows, LeaseFits, RetriedStatus
<1>7. StaysStopped
    BY <1>0, <1>2 DEF StaysStopped
<1>8. reply'.attempt >= reply.attempt
    BY <1>0, <1>1, <1>2 DEF StoreInv, StoreTypeOK, ReplyBehind
<1> QED
    BY <1>3, <1>4, <1>5, <1>6, <1>7, <1>8 DEF Kept, StoreInv

LEMMA ClaimKeeps ==
    ASSUME StoreInv, claim_next
    PROVE  Kept
<1>1. run \in RunRow /\ run.status \in Statuses \cup {"none"}
    BY DEF StoreInv, StoreTypeOK, RunRow
<1>2. /\ run'.status = (IF run.status = "queued" THEN "running" ELSE run.status)
      /\ run'.approved = run.approved
      /\ run'.planned = run.planned
      /\ run'.revision = run.revision
      /\ run'.cancelRequested = run.cancelRequested
      /\ run'.owner = "worker"
      /\ run'.attempt = run.attempt
      /\ consent' = consent
      /\ reply' = reply
      /\ run.status \in Claimable
    BY <1>1 DEF claim_next, RunRow
<1>3. StoreTypeOK'
    BY <1>1, <1>2 DEF StoreInv, StoreTypeOK, claim_next, RunRow, Owners,
        Statuses, ACTIVE_STATUSES, Claimable, TERMINAL_STATUSES
<1>4. ApprovalCurrent'
    BY <1>1, <1>2 DEF StoreInv, ApprovalCurrent, LeaseFits, Claimable
<1>5. LeaseFits' /\ ReplyBehind'
    BY <1>1, <1>2 DEF StoreInv, StoreTypeOK, LeaseFits, ReplyBehind, Claimable
<1>6. StopShows'
    BY <1>1, <1>2 DEF StoreInv, StopShows, LeaseFits, Claimable
<1>7. StaysStopped
    BY <1>1, <1>2
    DEF StoreInv, StopShows, LeaseFits, StaysStopped, Claimable, TERMINAL_STATUSES
<1>8. reply'.attempt >= reply.attempt
    BY <1>1, <1>2 DEF StoreInv, StoreTypeOK, ReplyBehind
<1> QED
    BY <1>3, <1>4, <1>5, <1>6, <1>7, <1>8 DEF Kept, StoreInv

LEMMA ApproveKeeps ==
    ASSUME StoreInv, NEW revision \in 1..MaxRevisions, approve(revision)
    PROVE  Kept
<1>1. run \in RunRow /\ run.status \in Statuses \cup {"none"}
    BY DEF StoreInv, StoreTypeOK, RunRow
<1>2. CASE UNCHANGED <<run, consent, reply>>
    BY <1>2, NothingKeeps DEF storeVars
<1>3. CASE /\ Shown(revision) /\ run.status = "awaiting_approval"
           /\ run' = [run EXCEPT !.status = "queued", !.approved = TRUE]
           /\ consent' = revision /\ reply' = reply
    <2>1. /\ run'.status = "queued" /\ run'.approved = TRUE /\ run'.planned = run.planned
          /\ run'.revision = run.revision /\ run'.cancelRequested = run.cancelRequested
          /\ run'.owner = run.owner /\ run'.attempt = run.attempt
        BY <1>1, <1>3 DEF RunRow
    <2>2. StoreTypeOK'
        <3>1. revision \in 0..MaxRevisions
            BY StoreAssumption
        <3> QED
            BY <1>1, <1>3, <3>1
            DEF StoreInv, StoreTypeOK, RunRow, Statuses, ACTIVE_STATUSES, Claimable
    <2>3. ApprovalCurrent' /\ LeaseFits' /\ StopShows'
        BY <1>3, <2>1 DEF StoreInv, ApprovalCurrent, LeaseFits, StopShows, Shown
    <2>4. ReplyBehind' /\ reply'.attempt >= reply.attempt
        BY <1>3, <2>1 DEF StoreInv, StoreTypeOK, ReplyBehind
    <2>5. StaysStopped
        BY <1>3, <2>1 DEF StoreInv, StopShows, StaysStopped, TERMINAL_STATUSES
    <2> QED
        BY <2>2, <2>3, <2>4, <2>5 DEF Kept, StoreInv
<1> QED
    BY <1>2, <1>3 DEF approve

LEMMA FinishKeeps ==
    ASSUME StoreInv, NEW status \in TERMINAL_STATUSES, NEW allowExpired \in BOOLEAN,
           finish(status, allowExpired)
    PROVE  Kept
<1>1. run \in RunRow /\ run.status \in Statuses \cup {"none"}
    BY DEF StoreInv, StoreTypeOK, RunRow
<1>2. CASE Ended(status, allowExpired) = "none"
    BY <1>2, NothingKeeps DEF finish, storeVars
<1>3. CASE Ended(status, allowExpired) # "none"
    <2> DEFINE ended == Ended(status, allowExpired)
    <2>1. /\ ended \in TERMINAL_STATUSES
          /\ run.cancelRequested \/ run.status = "cancelling" => ended = "cancelled"
          /\ run.owner = "worker"
        BY <1>3 DEF Ended, TERMINAL_STATUSES
    <2>2. run' = [run EXCEPT !.status = ended, !.owner = "none", !.live = FALSE]
          /\ UNCHANGED <<consent, reply>>
        BY <1>3 DEF finish
    <2> HIDE DEF ended
    <2>3. /\ run'.status = ended /\ run'.approved = run.approved /\ run'.planned = run.planned
          /\ run'.revision = run.revision /\ run'.cancelRequested = run.cancelRequested
          /\ run'.owner = "none" /\ run'.attempt = run.attempt
        BY <1>1, <2>2 DEF RunRow
    <2>4. StoreTypeOK'
        BY <1>1, <2>1, <2>2 DEF StoreInv, StoreTypeOK, RunRow, Owners, Statuses
    <2>5. ApprovalCurrent' /\ LeaseFits' /\ StopShows'
        BY <2>1, <2>2, <2>3 DEF StoreInv, ApprovalCurrent, LeaseFits, StopShows, TERMINAL_STATUSES
    <2>6. ReplyBehind' /\ reply'.attempt >= reply.attempt
        BY <2>2, <2>3 DEF StoreInv, StoreTypeOK, ReplyBehind
    <2>7. StaysStopped
        BY <2>1, <2>3 DEF StoreInv, LeaseFits, StaysStopped, TERMINAL_STATUSES
    <2> QED
        BY <2>4, <2>5, <2>6, <2>7 DEF Kept, StoreInv
<1> QED
    BY <1>2, <1>3

(* Whoever loses the lease, the row says the same of everything else.       *)
LEMMA LeaseKeeps ==
    ASSUME StoreInv, LeaseExpires \/ release_worker_leases \/ OwnerDies
    PROVE  Kept
<1>1. run \in RunRow
    BY DEF StoreInv, StoreTypeOK, RunRow
<1>2. /\ run'.status = run.status /\ run'.approved = run.approved /\ run'.planned = run.planned
      /\ run'.revision = run.revision /\ run'.cancelRequested = run.cancelRequested
      /\ run'.attempt = run.attempt
      /\ run'.owner # "none" => run.owner # "none"
      /\ UNCHANGED <<consent, reply>>
    BY <1>1 DEF LeaseExpires, release_worker_leases, OwnerDies, RunRow
<1>3. StoreTypeOK'
    BY <1>1
    DEF StoreInv, StoreTypeOK, RunRow, Owners, LeaseExpires, release_worker_leases, OwnerDies
<1>4. ApprovalCurrent' /\ LeaseFits' /\ StopShows'
    BY <1>2 DEF StoreInv, ApprovalCurrent, LeaseFits, StopShows
<1>5. ReplyBehind' /\ reply'.attempt >= reply.attempt
    BY <1>2 DEF StoreInv, StoreTypeOK, ReplyBehind
<1>6. StaysStopped
    BY <1>2 DEF StoreInv, StopShows, StaysStopped
<1> QED
    BY <1>3, <1>4, <1>5, <1>6 DEF Kept, StoreInv

(* A reply is written for the attempt the run is on.                        *)
LEMMA ReplyKeeps ==
    ASSUME StoreInv, NEW attempt \in 0..MaxAttempts, NEW status, NEW completing,
           write_reply(attempt, status, completing)
    PROVE  Kept
<1>1. UNCHANGED <<run, consent>>
    BY DEF write_reply
<1>2. reply' = reply \/ reply' = [made |-> TRUE, attempt |-> run.attempt]
    BY DEF write_reply, MayWrite, StillOn
<1>3. /\ run.attempt \in 0..MaxAttempts /\ run.attempt \in Nat
      /\ reply.attempt \in Nat /\ reply.attempt <= run.attempt
    BY StoreAssumption DEF StoreInv, StoreTypeOK, ReplyBehind
<1>4. StoreTypeOK'
    <2>1. reply \in [made : BOOLEAN, attempt : 0..MaxAttempts]
        BY DEF StoreInv, StoreTypeOK
    <2>2. [made |-> TRUE, attempt |-> run.attempt] \in [made : BOOLEAN, attempt : 0..MaxAttempts]
        BY <1>3
    <2>3. reply' \in [made : BOOLEAN, attempt : 0..MaxAttempts]
        BY <1>2, <2>1, <2>2, Zenon
    <2> QED
        BY <1>1, <2>3 DEF StoreInv, StoreTypeOK
<1>5. ReplyBehind' /\ reply'.attempt >= reply.attempt
    BY <1>1, <1>2, <1>3 DEF ReplyBehind
<1>6. ApprovalCurrent' /\ LeaseFits' /\ StopShows'
    BY <1>1 DEF StoreInv, ApprovalCurrent, LeaseFits, StopShows
<1>7. StaysStopped
    BY <1>1 DEF StoreInv, StopShows, StaysStopped
<1> QED
    BY <1>4, <1>5, <1>6, <1>7 DEF Kept, StoreInv

LEMMA StoreKeeps == StoreInv /\ [StoreNext]_storeVars => Kept
    BY NothingKeeps, CreateKeeps, RebindKeeps, PlanKeeps, ApproveKeeps, CancelKeeps, RetryKeeps, ClaimKeeps,
       FinishKeeps, LeaseKeeps, ReplyKeeps DEF StoreNext

-----------------------------------------------------------------------------

(* Every step of the supervisor, the routes and the watchdog is one of the  *)
(* transactions, for a retry or a request as for a worker whose lease ran   *)
(* out.                                                                     *)
LEMMA EveryStepStores == TypeOK /\ [Next]_vars => [StoreNext]_storeVars
<1> SUFFICES ASSUME TypeOK, Next PROVE [StoreNext]_storeVars
    BY DEF vars
<1>1. /\ work.attempt \in 0..MaxAttempts /\ work.status \in Statuses \cup {"none"}
      /\ run.attempt \in 0..MaxAttempts /\ run.status \in Statuses \cup {"none"}
      /\ run.revision \in 0..MaxRevisions
    BY DEF TypeOK, StoreTypeOK, Attempts
<1>2. CASE Claim \/ Planned
    BY <1>2 DEF Claim, Planned, StoreNext
<1>3. CASE Start \/ Interrupted
    BY <1>3 DEF Start, Interrupted, Raises
<1>4. CASE Completed \/ End
    BY <1>4 DEF Completed, End, Asked, StoreNext, TERMINAL_STATUSES
<1>5. CASE Tell
    BY <1>1, <1>5 DEF Tell, StoreNext
<1>6. CASE Reported
    BY <1>1, <1>6 DEF Reported, StoreNext, Statuses, TERMINAL_STATUSES
<1>7. CASE Closed \/ Fails \/ FinishFails \/ BeatRefused
    BY <1>7 DEF Closed, Fails, FinishFails, BeatRefused
<1>8. CASE Expires
    BY <1>8 DEF Expires, StoreNext
<1>9. ASSUME NEW r \in Requests, Create(r) \/ UpdatePlan(r) \/ Cancel(r) \/ Retry(r)
      PROVE  StoreNext
    BY <1>9 DEF Create, UpdatePlan, Cancel, Retry, StoreNext
<1>10. ASSUME NEW r \in Requests, Approve(r) PROVE StoreNext
    <2>1. PICK revision \in 1..run.revision : approve(revision)
        BY <1>10 DEF Approve
    <2>2. revision \in 1..MaxRevisions
        BY <1>1, StoreAssumption
    <2> QED
        BY <2>1, <2>2 DEF StoreNext
<1>11. ASSUME NEW r \in Requests, Arm(r) PROVE UNCHANGED storeVars
    BY <1>11 DEF Arm
<1>12. ASSUME NEW c \in Callers, Answers(c) PROVE [StoreNext]_storeVars
    BY <1>1, <1>12 DEF Answers, Signal, Sync, StoreNext
<1>13. CASE Attach \/ Leave \/ GraceEnds \/ StopFails \/ Restart
    BY <1>13 DEF Attach, Leave, GraceEnds, StopFails, Restart
<1>14. CASE Watches
    BY <1>14 DEF Watches, Visit, StopUnattended, Drop, StoreNext
<1>15. CASE Stop \/ Crash
    BY <1>15 DEF Stop, Crash, StoreNext
<1> QED
    BY <1>2, <1>3, <1>4, <1>5, <1>6, <1>7, <1>8, <1>9, <1>10, <1>11, <1>12, <1>13, <1>14, <1>15
    DEF Next, Ends, Advances

(* The parts of the type invariant that are not the row.                    *)
WorkType ==
    work \in [at : {"idle", "closing", "telling"} \cup Working \cup Ending,
             attempt : Attempts, status : Statuses \cup {"none"}]
Call ==
    [at : {"none", "signal", "sync", "arm"}, arms : BOOLEAN, attempt : Attempts,
     status : Statuses \cup {"none"}, stops : BOOLEAN]
WatchType ==
    /\ watch \in [made : BOOLEAN, attempt : Attempts, overdue : BOOLEAN]
    /\ pass \in [at : {"sleeping", "stopping", "cancelling", "dropping"}, attempt : Attempts]
FlagsType == {signal, lost, attended, up} \subseteq BOOLEAN /\ troubles \in 0..MaxTroubles

LEMMA TypeParts ==
    TypeOK <=> StoreTypeOK /\ WorkType /\ FlagsType /\ calls \in [Callers -> Call] /\ WatchType
    BY DEF TypeOK, WorkType, FlagsType, Call, WatchType

LEMMA RowFacts ==
    ASSUME StoreTypeOK
    PROVE  /\ run.attempt \in Attempts /\ run.status \in Statuses \cup {"none"} /\ run.stops \in BOOLEAN
    BY DEF StoreTypeOK, Attempts

LEMMA TypeInit == Init => TypeOK
<1> SUFFICES ASSUME Init PROVE TypeOK
    OBVIOUS
<1>1. 0 \in Attempts /\ 0 \in 0..MaxTroubles
    BY StoreAssumption, RequestsAssumption DEF Attempts
<1>2. StoreTypeOK
    BY InitStoreInv DEF Init, StoreInv
<1>3. WorkType /\ WatchType /\ FlagsType
    BY <1>1 DEF Init, WorkType, WatchType, FlagsType, Idle, NoWatch, NoPass
<1>4. calls \in [Callers -> Call]
    BY <1>1 DEF Init, Call, NoCall
<1> QED
    BY <1>2, <1>3, <1>4, TypeParts

LEMMA WorkStep == TypeOK /\ StoreTypeOK' /\ [Next]_vars => WorkType'
<1> SUFFICES ASSUME TypeOK, StoreTypeOK', [Next]_vars PROVE WorkType'
    OBVIOUS
<1>1. WorkType /\ StoreTypeOK
    BY TypeParts
<1>2. CASE UNCHANGED work
    BY <1>1, <1>2 DEF WorkType
<1>3. CASE Claim
    BY <1>3, <1>1, RowFacts DEF Claim, WorkType, Working, StoreTypeOK, Attempts
<1>4. CASE \E at \in {"closing"} \cup Working \cup Ending : Goes(at)
    BY <1>1, <1>4 DEF Goes, WorkType
<1>5. ASSUME NEW at \in {"closing", "telling"} \cup Working \cup Ending, NEW status \in Statuses \cup {"none"},
             work' = [work EXCEPT !.status = status, !.at = at]
      PROVE  WorkType'
    BY <1>1, <1>5 DEF WorkType
<1>6. CASE work' = Idle
    BY <1>6, StoreAssumption DEF Idle, WorkType, Attempts
<1>7. CASE UNCHANGED vars
    BY <1>2, <1>7 DEF vars, memory
<1>8. CASE Completed
    <2>1. Ended("completed", FALSE) \in Statuses \cup {"none"}
        BY DEF Ended, Statuses, TERMINAL_STATUSES
    <2> QED
        BY <1>5, <1>8, <2>1 DEF Completed, Ending
<1>9. CASE End
    <2>1. EndedAt(work.at) \in Statuses \cup {"none"}
        BY DEF EndedAt, Asked, Ended, Statuses, TERMINAL_STATUSES
    <2> QED
        BY <1>5, <1>9, <2>1 DEF End, Ending
<1>10. CASE Start \/ Interrupted
    BY <1>4, <1>10 DEF Start, Interrupted, Raises, Verdict, Working, Ending
<1>11. CASE Planned \/ Reported \/ Fails \/ FinishFails \/ Tell
    BY <1>4, <1>11 DEF Planned, Reported, Fails, FinishFails, Tell, Working, Ending
<1>12. CASE Closed \/ Stop \/ Crash
    BY <1>6, <1>12 DEF Closed, Stop, Crash, Forgotten
<1>13. CASE \/ BeatRefused \/ Expires \/ Attach \/ Leave \/ GraceEnds \/ Watches \/ StopFails \/ Restart
            \/ \E r \in Requests : Create(r) \/ UpdatePlan(r) \/ Approve(r) \/ Cancel(r) \/ Retry(r) \/ Arm(r)
            \/ \E c \in Callers : Answers(c)
    BY <1>2, <1>13 DEF BeatRefused, Expires, memory, Attach, Leave, GraceEnds, Watches, Visit, StopUnattended,
        Drop, StopFails, Restart, inPass, Create, UpdatePlan, Approve, Cancel, Retry, Arm, inCall, Answers,
        Signal, Sync
<1> QED
    BY <1>3, <1>7, <1>10, <1>11, <1>12, <1>13, <1>8, <1>9 DEF Next, Ends, Advances

LEMMA CallsStep == TypeOK /\ StoreTypeOK' /\ [Next]_vars => calls' \in [Callers -> Call]
<1> SUFFICES ASSUME TypeOK, StoreTypeOK', [Next]_vars PROVE calls' \in [Callers -> Call]
    OBVIOUS
<1>1. calls \in [Callers -> Call] /\ Requests \subseteq Callers /\ Watchdog \in Callers
    BY TypeParts DEF Callers
<1>2. NoCall \in Call /\ Arming \in Call
    BY StoreAssumption, RowFacts DEF NoCall, Arming, Call, Attempts, StoreTypeOK
<1>3. ASSUME NEW c \in Callers, NEW call \in Call, calls' = [calls EXCEPT ![c] = call]
      PROVE  calls' \in [Callers -> Call]
    BY <1>1, <1>3
<1>4. ASSUME NEW c \in Callers, NEW at \in {"signal", "sync"}, Then(c, at)
      PROVE  calls' \in [Callers -> Call]
    <2>1. [calls[c] EXCEPT !.at = at] \in Call
        BY <1>1 DEF Call
    <2> QED
        BY <1>3, <1>4, <2>1 DEF Then
<1>5. CASE UNCHANGED calls
    BY <1>1, <1>5
<1>6. CASE \E r \in Requests : Create(r) \/ UpdatePlan(r) \/ Approve(r) \/ Cancel(r) \/ Arm(r)
    BY <1>1, <1>2, <1>3, <1>4, <1>6 DEF Create, UpdatePlan, Approve, Cancel, AfterCancel, Arm
<1>7. ASSUME NEW r \in Requests, Retry(r) PROVE calls' \in [Callers -> Call]
    <2>1. calls' = [calls EXCEPT ![r] = [calls[r] EXCEPT !.at = "sync", !.arms = TRUE]]
        BY <1>1, <1>7 DEF Retry, Call
    <2>2. [calls[r] EXCEPT !.at = "sync", !.arms = TRUE] \in Call
        BY <1>1 DEF Call
    <2> QED
        BY <1>1, <1>3, <2>1, <2>2
<1>8. CASE \E c \in Callers : Answers(c)
    BY <1>1, <1>2, <1>3, <1>4, <1>8 DEF Answers, Signal, Sync
<1>9. CASE Watches
    BY <1>1, <1>4, <1>5, <1>9 DEF Watches, Visit, StopUnattended, AfterCancel, Drop
<1>10. CASE Stop \/ Crash
    BY <1>2, <1>10 DEF Stop, Crash, Forgotten
<1>11. CASE \/ Claim \/ Ends \/ Advances \/ FinishFails \/ BeatRefused \/ Expires
            \/ Attach \/ Leave \/ GraceEnds \/ StopFails \/ Restart
    BY <1>5, <1>11 DEF Claim, Ends, Start, Interrupted, Completed, End, Tell, Closed, Advances, Planned,
        Reported, Fails, FinishFails, BeatRefused, inWorker, Expires, memory, Attach, Leave, GraceEnds,
        StopFails, Restart
<1>12. CASE UNCHANGED vars
    BY <1>5, <1>12 DEF vars, memory
<1> QED
    BY <1>6, <1>7, <1>8, <1>9, <1>10, <1>11, <1>12 DEF Next

LEMMA WatchStep == TypeOK /\ StoreTypeOK' /\ [Next]_vars => WatchType'
<1> SUFFICES ASSUME TypeOK, StoreTypeOK', [Next]_vars PROVE WatchType'
    OBVIOUS
<1>1. WatchType /\ run.attempt \in Attempts /\ 0 \in Attempts
    BY TypeParts, RowFacts, StoreAssumption DEF Attempts
<1>2. CASE UNCHANGED <<watch, pass>>
    BY <1>1, <1>2 DEF WatchType
<1>3. \A attempt \in Attempts : Watched(attempt) \in [made : BOOLEAN, attempt : Attempts, overdue : BOOLEAN]
    BY DEF Watched
<1>4. NoWatch \in [made : BOOLEAN, attempt : Attempts, overdue : BOOLEAN]
    BY <1>1 DEF NoWatch
<1>5. NoPass \in [at : {"sleeping", "stopping", "cancelling", "dropping"}, attempt : Attempts]
    BY <1>1 DEF NoPass
<1>6. ASSUME NEW r \in Requests, Arm(r) PROVE WatchType'
    <2>1. calls[r].attempt \in Attempts
        BY TypeParts DEF Callers, Call
    <2> QED
        BY <1>1, <1>3, <1>4, <1>6, <2>1 DEF Arm, inCall, WatchType
<1>7. CASE Attach \/ Restart
    BY <1>1, <1>3, <1>7 DEF Attach, Restart, Rearmed, WatchType
<1>8. CASE GraceEnds \/ Visit
    <2>1. watch' \in [made : BOOLEAN, attempt : Attempts, overdue : BOOLEAN]
        <3>1. /\ [watch EXCEPT !.overdue = TRUE] \in [made : BOOLEAN, attempt : Attempts, overdue : BOOLEAN]
              /\ [watch EXCEPT !.overdue = FALSE] \in [made : BOOLEAN, attempt : Attempts, overdue : BOOLEAN]
            BY <1>1 DEF WatchType
        <3>2. \/ watch' = watch
              \/ watch' = [watch EXCEPT !.overdue = TRUE]
              \/ watch' = [watch EXCEPT !.overdue = FALSE]
            BY <1>8, Zenon DEF GraceEnds, Visit
        <3> QED
            BY <1>1, <3>1, <3>2 DEF WatchType
    <2>2. pass' \in [at : {"sleeping", "stopping", "cancelling", "dropping"}, attempt : Attempts]
        <3>1. watch.attempt \in Attempts
            BY <1>1 DEF WatchType
        <3>2. \/ pass' = pass
              \/ pass' = [at |-> "dropping", attempt |-> watch.attempt]
              \/ pass' = [at |-> "stopping", attempt |-> watch.attempt]
            BY <1>8, Zenon DEF GraceEnds, Visit
        <3> QED
            BY <1>1, <3>1, <3>2 DEF WatchType
    <2> QED
        BY <2>1, <2>2 DEF WatchType
<1>9. CASE StopUnattended \/ StopFails
    BY <1>1, <1>5, <1>9 DEF StopUnattended, StopFails, inPass, WatchType
<1>10. CASE Drop
    BY <1>1, <1>4, <1>5, <1>10 DEF Drop, WatchType
<1>11. CASE Stop \/ Crash
    BY <1>4, <1>5, <1>11 DEF Stop, Crash, Forgotten, WatchType
<1>12. CASE \/ Claim \/ Ends \/ Advances \/ FinishFails \/ BeatRefused \/ Expires \/ Leave
            \/ \E r \in Requests : Create(r) \/ UpdatePlan(r) \/ Approve(r) \/ Cancel(r) \/ Retry(r)
            \/ \E c \in Callers : Answers(c)
    BY <1>2, <1>12 DEF Claim, Ends, Start, Interrupted, Completed, End, Tell, Closed, Advances, Planned,
        Reported, Fails, FinishFails, BeatRefused, inWorker, Expires, memory, Leave, Create, UpdatePlan,
        Approve, Cancel, Retry, inCall, Answers, Signal, Sync
<1>13. CASE UNCHANGED vars
    BY <1>2, <1>13 DEF vars, memory
<1> QED
    BY <1>6, <1>7, <1>8, <1>9, <1>10, <1>11, <1>12, <1>13 DEF Next, Watches

LEMMA FlagsStep == TypeOK /\ [Next]_vars => FlagsType'
<1> SUFFICES ASSUME TypeOK, [Next]_vars PROVE FlagsType'
    OBVIOUS
<1>1. /\ signal \in BOOLEAN /\ lost \in BOOLEAN /\ attended \in BOOLEAN /\ up \in BOOLEAN
      /\ troubles \in 0..MaxTroubles
    BY DEF TypeOK
<1>2. troubles' \in 0..MaxTroubles
    <2>1. Trouble => troubles' \in 0..MaxTroubles
        BY <1>1, RequestsAssumption DEF Trouble
    <2>2. Trouble \/ UNCHANGED troubles
        BY DEF Next, vars, memory, Claim, Ends, Start, Interrupted, Raises, Completed, End, Tell, Closed,
            Advances, Planned, Reported, Fails, FinishFails, BeatRefused, inWorker, Expires, Leave, Create,
            UpdatePlan, Approve, Cancel, Retry, Arm, inCall, Answers, Signal, Sync, Attach, Restart, GraceEnds,
            Watches, Visit, StopUnattended, Drop, StopFails, inPass, Stop, Crash, Forgotten
    <2> QED
        BY <1>1, <2>1, <2>2
<1>3. CASE UNCHANGED <<signal, lost, attended, up>>
    BY <1>1, <1>2, <1>3 DEF FlagsType
<1>4. CASE Start \/ Interrupted
    <2>1. UNCHANGED <<lost, attended, up>> /\ (UNCHANGED signal \/ signal' \in BOOLEAN)
        BY <1>4 DEF Start, Interrupted, Raises, inWorker
    <2> QED
        BY <1>1, <1>2, <2>1 DEF FlagsType
<1>5. CASE Closed
    BY <1>1, <1>2, <1>5 DEF Closed, inWorker, FlagsType
<1>6. CASE BeatRefused
    BY <1>1, <1>2, <1>6 DEF BeatRefused, inWorker, FlagsType
<1>7. CASE \E c \in Callers : Answers(c)
    BY <1>1, <1>2, <1>7 DEF Answers, Signal, Sync, inCall, FlagsType
<1>8. CASE Attach \/ Leave \/ Restart
    BY <1>1, <1>2, <1>8 DEF Attach, Leave, Restart, FlagsType
<1>9. CASE Stop \/ Crash
    BY <1>2, <1>9 DEF Stop, Crash, Forgotten, FlagsType
<1>10. CASE \/ Claim \/ Completed \/ End \/ Tell \/ Advances \/ FinishFails \/ Expires
            \/ \E r \in Requests : Create(r) \/ UpdatePlan(r) \/ Approve(r) \/ Cancel(r) \/ Retry(r) \/ Arm(r)
            \/ GraceEnds \/ Watches \/ StopFails
    BY <1>3, <1>10 DEF Claim, Completed, End, Tell, Advances, Planned, Reported, Fails, FinishFails, inWorker,
        Expires, memory, Create, UpdatePlan, Approve, Cancel, Retry, Arm, inCall, GraceEnds, Watches, Visit,
        StopUnattended, Drop, StopFails, inPass
<1>11. CASE UNCHANGED vars
    BY <1>3, <1>11 DEF vars, memory
<1> QED
    BY <1>4, <1>5, <1>6, <1>7, <1>8, <1>9, <1>10, <1>11 DEF Next, Ends

-----------------------------------------------------------------------------

(* The invariant of the whole: the types, and what the transactions keep.   *)
Inv == TypeOK /\ StoreInv

LEMMA InvInit == Init => Inv
    BY TypeInit, InitStoreInv DEF Inv, Init

LEMMA InvStep == Inv /\ [Next]_vars => Inv' /\ Kept
<1> SUFFICES ASSUME Inv, [Next]_vars PROVE Inv' /\ Kept
    OBVIOUS
<1>1. Kept
    BY EveryStepStores, StoreKeeps DEF Inv
<1>2. StoreInv' /\ StoreTypeOK'
    BY <1>1 DEF Kept, StoreInv
<1>3. WorkType' /\ calls' \in [Callers -> Call] /\ WatchType' /\ FlagsType'
    BY <1>2, WorkStep, CallsStep, WatchStep, FlagsStep DEF Inv
<1>4. TypeOK'
    BY <1>2, <1>3 DEF TypeOK, WorkType, Call, WatchType, FlagsType, Callers
<1> QED
    BY <1>1, <1>2, <1>4 DEF Inv

(* The types, and everything the transactions keep, hold always.            *)
THEOREM InvHolds == Spec => []Inv
    BY InvInit, InvStep, PTL DEF Spec

(* The supervisor, the routes, the watchdog and every end of the process    *)
(* implement the store: they change the row and the reply by its            *)
(* transactions only.                                                       *)
THEOREM ImplementsStore == Spec => StoreSpec
<1>1. Init => StoreInit
    BY DEF Init
<1>2. Inv /\ [Next]_vars => [StoreNext]_storeVars
    BY EveryStepStores DEF Inv
<1> QED
    BY <1>1, <1>2, InvHolds, PTL DEF Spec, StoreSpec

(* No plan is carried out but the one the user approved last, with any      *)
(* number of requests, retries, revisions and failures.                     *)
THEOREM ConsistentHolds == Spec => []Consistent
<1>1. Inv => Consistent
    BY DEF Inv, StoreInv, ApprovalCurrent, Consistent, ApprovedPlanOnly
<1> QED
    BY <1>1, InvHolds, PTL

(* An attempt that ended stays as it ended, and one that was told to stop   *)
(* is never reported completed or failed.                                   *)
THEOREM StopIsFinalHolds == Spec => StopIsFinal
<1>1. Inv /\ [Next]_vars =>
        [run'.attempt = run.attempt =>
           /\ run.status \in TERMINAL_STATUSES => run'.status = run.status
           /\ run.cancelRequested => run'.cancelRequested /\ run'.status \in {"cancelling", "cancelled"}]_run
    BY InvStep DEF Kept, StaysStopped
<1> QED
    BY <1>1, InvHolds, PTL DEF Spec, StopIsFinal

(* What is said of an attempt never lands on the reply of a later one.      *)
THEOREM ReplyNeverGoesBackHolds == Spec => ReplyNeverGoesBack
<1>1. Inv /\ [Next]_vars => [reply'.attempt >= reply.attempt]_reply
    BY InvStep DEF Kept
<1> QED
    BY <1>1, InvHolds, PTL DEF Spec, ReplyNeverGoesBack

-----------------------------------------------------------------------------
(* What the watchdog remembers of an attempt, its owner asked for: a watch, *)
(* a pass that is about to stop the run, and a request that is about to     *)
(* watch it all name an attempt that is over, or one that stops.            *)
StopsWhen(attempt) == attempt <= run.attempt /\ (attempt = run.attempt => run.stops)
WatchAsked == watch.made => StopsWhen(watch.attempt)
PassAsked == pass.at = "stopping" => StopsWhen(pass.attempt)
CallsAsked ==
    \A c \in Callers : calls[c].at = "arm" /\ calls[c].stops => StopsWhen(calls[c].attempt)
NotAskedYet == run.status = "none" => ~run.stops
AskedInv == NotAskedYet /\ WatchAsked /\ PassAsked /\ CallsAsked

(* The owner's wish lasts as long as the attempt.                           *)
LEMMA RowMovesOn ==
    ASSUME StoreTypeOK, NotAskedYet, [StoreNext]_storeVars
    PROVE  /\ NotAskedYet'
           /\ run.attempt \in Nat /\ run'.attempt \in Nat /\ run'.attempt >= run.attempt
           /\ run'.attempt = run.attempt /\ run.stops => run'.stops
<1>1. run \in RunRow /\ run.attempt \in Nat /\ run.status \in Statuses \cup {"none"}
    BY StoreAssumption DEF StoreTypeOK, RunRow
<1>2. CASE UNCHANGED run
    BY <1>1, <1>2 DEF NotAskedYet
<1>3. CASE \E stops, named \in BOOLEAN : create_run(stops, named)
    BY <1>1, <1>3 DEF create_run, NotAskedYet, RunRow
<1>4. CASE \E stops, named \in BOOLEAN : rebind_cancelled(stops, named)
    BY <1>1, <1>4 DEF rebind_cancelled, Rebound, NotAskedYet, RunRow
<1>5. SUFFICES ASSUME run'.stops = run.stops, run'.status = "none" => run.status = "none",
                      run'.attempt \in {run.attempt, run.attempt + 1}
               PROVE  /\ NotAskedYet' /\ run'.attempt \in Nat /\ run'.attempt >= run.attempt
                      /\ run'.attempt = run.attempt /\ run.stops => run'.stops
    <2>1. CASE (\E byWorker \in BOOLEAN : set_plan(byWorker)) \/ retry
        BY <1>1, <2>1 DEF set_plan, retry, RetriedStatus, RunRow
    <2>2. CASE \E revision \in 1..MaxRevisions : approve(revision)
        BY <1>1, <2>2 DEF approve, RunRow
    <2>3. CASE request_cancel
        BY <1>1, <2>3 DEF request_cancel, CancelledRun, Cancelled, RunRow
    <2>4. CASE claim_next \/ LeaseExpires \/ release_worker_leases \/ OwnerDies
        BY <1>1, <2>4 DEF claim_next, LeaseExpires, release_worker_leases, OwnerDies, RunRow
    <2>5. CASE \E status \in TERMINAL_STATUSES, allowExpired \in BOOLEAN : finish(status, allowExpired)
        BY <1>1, <2>5 DEF finish, Ended, TERMINAL_STATUSES, RunRow
    <2>6. CASE \E attempt \in 0..MaxAttempts, status \in Statuses \cup {"none"}, completing \in BOOLEAN :
                  write_reply(attempt, status, completing)
        BY <1>2, <2>6 DEF write_reply
    <2> QED
        BY <1>1, <1>2, <1>3, <1>4, <2>1, <2>2, <2>3, <2>4, <2>5, <2>6 DEF StoreNext, storeVars
<1> QED
    BY <1>1, <1>5 DEF NotAskedYet

(* So an attempt that was remembered stays well remembered.                 *)
StopsNext(attempt) == attempt <= run'.attempt /\ (attempt = run'.attempt => run'.stops)

LEMMA RememberedLast ==
    ASSUME StoreTypeOK, NotAskedYet, [StoreNext]_storeVars
    PROVE  /\ \A a \in Nat : StopsWhen(a) => StopsNext(a)
           /\ run'.stops => StopsNext(run'.attempt)
    BY RowMovesOn DEF StopsWhen, StopsNext

LEMMA AskedInit == Init => AskedInv
    BY DEF Init, StoreInit, NoWatch, NoPass, NoCall, AskedInv, NotAskedYet, WatchAsked, PassAsked, CallsAsked

LEMMA AskedStep == Inv /\ AskedInv /\ [Next]_vars => AskedInv'
<1> SUFFICES ASSUME Inv, AskedInv, [Next]_vars PROVE AskedInv'
    OBVIOUS
<1>1. /\ StoreTypeOK /\ NotAskedYet /\ [StoreNext]_storeVars /\ NotAskedYet'
      /\ \A a \in Nat : StopsWhen(a) => StopsNext(a)
      /\ run'.stops => StopsNext(run'.attempt)
    BY EveryStepStores, RowMovesOn, RememberedLast DEF Inv, TypeOK, AskedInv
<1>2. /\ WatchType /\ watch.attempt \in Nat /\ pass.attempt \in Nat
      /\ \A c \in Callers : calls[c] \in Call /\ calls[c].attempt \in Nat
      /\ run.attempt \in Nat /\ run'.attempt \in Nat
    BY <1>1, RowMovesOn, TypeParts, StoreAssumption DEF Inv, WatchType, Call, Attempts
<1>3. WatchAsked'
    <2>1. SUFFICES ASSUME watch'.made PROVE StopsNext(watch'.attempt)
        BY <2>1 DEF WatchAsked, StopsWhen, StopsNext
    <2>2. CASE UNCHANGED watch
        BY <1>1, <1>2, <2>1, <2>2 DEF AskedInv, WatchAsked
    <2>3. CASE GraceEnds \/ Visit
        <3>1. watch'.made = watch.made /\ watch'.attempt = watch.attempt
            BY <1>2, <2>3 DEF GraceEnds, Visit, WatchType
        <3> QED
            BY <1>1, <1>2, <2>1, <3>1 DEF AskedInv, WatchAsked
    <2>4. CASE Attach \/ Restart
        <3>1. \/ watch' = watch
              \/ watch' = Watched(run.attempt) /\ run.stops
            BY <2>4 DEF Attach, Restart, Rearmed
        <3>2. StopsWhen(run.attempt) <=> run.stops
            BY <1>2 DEF StopsWhen
        <3> QED
            BY <1>1, <1>2, <2>2, <3>1, <3>2 DEF Watched
    <2>5. ASSUME NEW r \in Requests, Arm(r) PROVE StopsNext(watch'.attempt)
        <3>1. \/ watch' = watch \/ watch' = NoWatch
              \/ watch' = Watched(calls[r].attempt) /\ calls[r].at = "arm" /\ calls[r].stops
            BY <2>5 DEF Arm
        <3> QED
            BY <1>1, <1>2, <2>1, <2>2, <3>1 DEF AskedInv, CallsAsked, Callers, Watched, NoWatch
    <2>6. CASE Drop \/ Stop \/ Crash
        <3>1. watch' = watch \/ watch' = NoWatch
            BY <2>6 DEF Drop, Stop, Crash, Forgotten
        <3> QED
            BY <2>1, <2>2, <3>1 DEF NoWatch
    <2>7. CASE \/ Claim \/ Ends \/ Advances \/ FinishFails \/ BeatRefused \/ Expires \/ Leave
               \/ StopUnattended \/ StopFails
               \/ \E r \in Requests : Create(r) \/ UpdatePlan(r) \/ Approve(r) \/ Cancel(r) \/ Retry(r)
               \/ \E c \in Callers : Answers(c)
        BY <2>2, <2>7 DEF Claim, Ends, Start, Interrupted, Completed, End, Tell, Closed, Advances, Planned,
            Reported, Fails, FinishFails, BeatRefused, inWorker, Expires, memory, Leave, Create, UpdatePlan,
            Approve, Cancel, Retry, Answers, Signal, Sync, StopUnattended, StopFails
    <2>8. CASE UNCHANGED vars
        BY <2>2, <2>8 DEF vars, memory
    <2> QED
        BY <2>3, <2>4, <2>5, <2>6, <2>7, <2>8 DEF Next, Watches
<1>4. PassAsked'
    <2>1. SUFFICES ASSUME pass'.at = "stopping" PROVE StopsNext(pass'.attempt)
        BY <2>1 DEF PassAsked, StopsWhen, StopsNext
    <2>2. CASE UNCHANGED pass
        BY <1>1, <1>2, <2>1, <2>2 DEF AskedInv, PassAsked
    <2>3. CASE Visit
        <3>1. \/ pass' = pass
              \/ pass' = [at |-> "dropping", attempt |-> watch.attempt]
              \/ pass' = [at |-> "stopping", attempt |-> watch.attempt] /\ watch.made
            BY <2>3 DEF Visit
        <3> QED
            BY <1>1, <1>2, <2>1, <2>2, <3>1 DEF AskedInv, WatchAsked
    <2>4. CASE StopUnattended \/ StopFails \/ Drop \/ Stop \/ Crash
        BY <1>2, <2>1, <2>4 DEF StopUnattended, StopFails, Drop, Stop, Crash, Forgotten, NoPass, WatchType
    <2>5. CASE \/ Claim \/ Ends \/ Advances \/ FinishFails \/ BeatRefused \/ Expires
               \/ \E r \in Requests : Create(r) \/ UpdatePlan(r) \/ Approve(r) \/ Cancel(r) \/ Retry(r)
               \/ \E c \in Callers : Answers(c)
        BY <2>2, <2>5 DEF Claim, Ends, Start, Interrupted, Completed, End, Tell, Closed, Advances, Planned,
            Reported, Fails, FinishFails, BeatRefused, inWorker, Expires, memory, Create, UpdatePlan,
            Approve, Cancel, Retry, inCall, Answers, Signal, Sync
    <2>6. CASE (\E r \in Requests : Arm(r)) \/ Attach \/ Leave \/ GraceEnds \/ Restart \/ UNCHANGED vars
        BY <2>2, <2>6 DEF Arm, inCall, Attach, Leave, GraceEnds, Restart, vars, memory
    <2> QED
        BY <2>3, <2>4, <2>5, <2>6 DEF Next, Watches
<1>5. CallsAsked'
    <2>1. SUFFICES ASSUME NEW c \in Callers, calls'[c].at = "arm", calls'[c].stops
                   PROVE  StopsNext(calls'[c].attempt)
        BY <2>1 DEF CallsAsked, StopsWhen, StopsNext
    <2>2. CASE calls'[c] = calls[c]
        BY <1>1, <1>2, <2>1, <2>2 DEF AskedInv, CallsAsked
    <2>3. CASE calls'[c] = Arming
        BY <1>1, <2>1, <2>3 DEF Arming
    <2>4. calls'[c] = NoCall => FALSE
        BY <2>1 DEF NoCall
    <2>5. ASSUME NEW at \in {"signal", "sync"}, calls'[c] = [calls[c] EXCEPT !.at = at] PROVE FALSE
        BY <1>2, <2>1, <2>5 DEF Call
    <2>6. calls = [d \in Callers |-> calls[d]]
        BY DEF Inv, TypeOK
    <2>7. ASSUME NEW r \in Requests, Create(r) \/ Arm(r) PROVE StopsNext(calls'[c].attempt)
        <3>1. calls'[c] = calls[c] \/ calls'[c] = Arming \/ calls'[c] = NoCall
            BY <2>6, <2>7 DEF Create, Arm, Callers
        <3> QED
            BY <2>2, <2>3, <2>4, <3>1
    <2>8. ASSUME NEW r \in Requests, UpdatePlan(r) \/ Approve(r) \/ Cancel(r)
          PROVE  StopsNext(calls'[c].attempt)
        <3>1. calls'[c] = calls[c] \/ \E at \in {"signal", "sync"} : calls'[c] = [calls[c] EXCEPT !.at = at]
            BY <2>6, <2>8 DEF UpdatePlan, Approve, Cancel, Then, AfterCancel, Callers
        <3> QED
            BY <2>2, <2>5, <3>1
    <2>9. ASSUME NEW r \in Requests, Retry(r) PROVE StopsNext(calls'[c].attempt)
        <3>1. calls'[c] = calls[c] \/ calls'[c] = [calls[c] EXCEPT !.at = "sync", !.arms = TRUE]
            BY <2>6, <2>9 DEF Retry, Callers
        <3> QED
            BY <1>2, <2>1, <2>2, <3>1 DEF Call
    <2>10. ASSUME NEW d \in Callers, Answers(d) PROVE StopsNext(calls'[c].attempt)
        <3>1. \/ calls'[c] = calls[c] \/ calls'[c] = Arming \/ calls'[c] = NoCall
              \/ calls'[c] = [calls[c] EXCEPT !.at = "sync"]
            BY <2>6, <2>10 DEF Answers, Signal, Sync, Then
        <3> QED
            BY <2>2, <2>3, <2>4, <2>5, <3>1
    <2>11. CASE StopUnattended
        <3>1. calls'[c] = calls[c] \/ \E at \in {"signal", "sync"} : calls'[c] = [calls[c] EXCEPT !.at = at]
            BY <2>6, <2>11 DEF StopUnattended, Then, AfterCancel, Callers
        <3> QED
            BY <2>2, <2>5, <3>1
    <2>12. CASE Stop \/ Crash
        BY <2>4, <2>12 DEF Stop, Crash, Forgotten
    <2>13. CASE \/ Claim \/ Ends \/ Advances \/ FinishFails \/ BeatRefused \/ Expires
                \/ Attach \/ Leave \/ GraceEnds \/ Visit \/ Drop \/ StopFails \/ Restart \/ UNCHANGED vars
        BY <2>2, <2>13 DEF Claim, Ends, Start, Interrupted, Completed, End, Tell, Closed, Advances, Planned,
            Reported, Fails, FinishFails, BeatRefused, inWorker, Expires, memory, Attach, Leave, GraceEnds,
            Visit, Drop, StopFails, Restart, vars
    <2> QED
        BY <2>7, <2>8, <2>9, <2>10, <2>11, <2>12, <2>13 DEF Next, Watches
<1> QED
    BY <1>1, <1>3, <1>4, <1>5 DEF AskedInv

LEMMA AskedHolds == Spec => []AskedInv
<1>1. Inv /\ AskedInv /\ [Next]_vars => AskedInv'
    BY AskedStep
<1> QED
    BY <1>1, AskedInit, InvHolds, PTL DEF Spec

(* The watchdog stops only a run whose owner asked for that, although what  *)
(* it read may be a pass old: cancel() names the attempt it watched.        *)
THEOREM OnlyAskedRunsStopHolds == Spec => OnlyAskedRunsStop
<1>1. ASSUME Inv, AskedInv, [Next]_vars,
             calls'[Watchdog] # calls[Watchdog], run'.cancelRequested # run.cancelRequested
      PROVE  run.stops
    <2>1. CASE StopUnattended
        <3>1. pass.at = "stopping" /\ run.attempt = pass.attempt
            BY <1>1, <2>1 DEF StopUnattended, Expected
        <3> QED
            BY <1>1, <3>1 DEF AskedInv, PassAsked, StopsWhen
    <2>2. ASSUME NEW r \in Requests,
                 Create(r) \/ UpdatePlan(r) \/ Approve(r) \/ Cancel(r) \/ Retry(r) \/ Arm(r)
          PROVE  FALSE
        <3>1. r # Watchdog
            BY RequestsAssumption
        <3>2. calls = [d \in Callers |-> calls[d]] /\ Watchdog \in Callers
            BY <1>1 DEF Inv, TypeOK, Callers
        <3> QED
            BY <1>1, <2>2, <3>1, <3>2 DEF Create, UpdatePlan, Approve, Cancel, Retry, Arm, Then
    <2>3. ASSUME NEW d \in Callers, Answers(d) PROVE FALSE
        BY <1>1, <2>3 DEF Answers, Signal, Sync, write_reply, storeVars
    <2>4. CASE Stop \/ Crash
        <3>1. run \in RunRow
            BY <1>1 DEF Inv, TypeOK, StoreTypeOK, RunRow
        <3>2. run'.cancelRequested = run.cancelRequested
            BY <2>4, <3>1 DEF Stop, Crash, release_worker_leases, OwnerDies, RunRow
        <3> QED
            BY <1>1, <3>2
    <2>5. CASE \/ Claim \/ Ends \/ Advances \/ FinishFails \/ BeatRefused \/ Expires
               \/ Attach \/ Leave \/ GraceEnds \/ Visit \/ Drop \/ StopFails \/ Restart \/ UNCHANGED vars
        BY <1>1, <2>5 DEF Claim, Ends, Start, Interrupted, Completed, End, Tell, Closed, Advances, Planned,
            Reported, Fails, FinishFails, BeatRefused, inWorker, Expires, memory, Attach, Leave, GraceEnds,
            Visit, Drop, StopFails, Restart, vars
    <2> QED
        BY <1>1, <2>1, <2>2, <2>3, <2>4, <2>5 DEF Next, Watches
<1>2. Inv /\ AskedInv /\ [Next]_vars =>
        [calls'[Watchdog] # calls[Watchdog] /\ run'.cancelRequested # run.cancelRequested => run.stops]_vars
    BY <1>1
<1> QED
    BY <1>2, InvHolds, AskedHolds, PTL DEF Spec, OnlyAskedRunsStop
=============================================================================
