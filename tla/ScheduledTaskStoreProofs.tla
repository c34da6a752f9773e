---------------------- MODULE ScheduledTaskStoreProofs ----------------------
(* Theorems about ScheduledTaskStore, for every number of tasks, runs and   *)
(* workers and every next_run_after that answers a later instant.           *)
EXTENDS ScheduledTaskStore, TLAPS

-----------------------------------------------------------------------------
(* Lemmas about the helpers.                                                *)

LEMMA NoRowIsRow == NoRow \in Row /\ RowOK(NoRow)
BY NoneAssumption DEF NoRow, Row, RowOK, Times

(* Trimming a history keeps each row or drops it.                           *)
LEMMA TrimmedRows ==
    ASSUME NEW rs, NEW T, NEW r \in RunIds
    PROVE  Trimmed(rs, T)[r] = rs[r] \/ Trimmed(rs, T)[r] = NoRow
BY DEF Trimmed

LEMMA TrimmedDomain ==
    ASSUME NEW rs, NEW T
    PROVE  Trimmed(rs, T) = [r \in RunIds |-> Trimmed(rs, T)[r]]
BY DEF Trimmed

LEMMA TrimmedType ==
    ASSUME NEW rs \in [RunIds -> Row], \A r \in RunIds : RowOK(rs[r]), NEW T
    PROVE  Trimmed(rs, T) \in [RunIds -> Row] /\ \A r \in RunIds : RowOK(Trimmed(rs, T)[r])
BY TrimmedRows, TrimmedDomain, NoRowIsRow

(* What next_run_after answers, for the instants it is asked about.         *)
LEMMA NextFromNowType ==
    ASSUME NEW s \in Schedules, NEW enabled \in BOOLEAN, NEW now \in 0..MaxClock
    PROVE  NextFromNow(s, enabled, now) \in Times
BY NextRunAssumption DEF NextFromNow, Times

-----------------------------------------------------------------------------
(* The type invariant.                                                      *)

LEMMA TypeInit == Init => TypeOK
BY NoRowIsRow, NoneAssumption, BoundAssumption
   DEF Init, TypeOK, Unborn, Task, Times, RunIds

(* The three ways an operation writes a row it does not remove.             *)
LEMMA StartedRow ==
    ASSUME NEW row \in Row, RowOK(row), row.status \in {"queued", "running"},
           NEW now \in Nat, NEW w \in Workers
    PROVE  LET new == [row EXCEPT !.status = "running", !.heartbeat = now, !.worker = w]
           IN  new \in Row /\ RowOK(new)
BY NoneAssumption DEF Row, RowOK, Times

LEMMA StoppedRow ==
    ASSUME NEW row \in Row, RowOK(row), row.status = "running",
           NEW status \in {"succeeded", "failed"}, NEW thread \in BOOLEAN
    PROVE  LET new == [row EXCEPT !.status = status, !.heartbeat = None, !.worker = None,
                                  !.thread = thread]
           IN  new \in Row /\ RowOK(new)
BY NoneAssumption DEF Row, RowOK, Times

LEMMA UnlinkedType ==
    ASSUME NEW rs \in [RunIds -> Row], \A r \in RunIds : RowOK(rs[r]), NEW R
    PROVE  Unlinked(rs, R) \in [RunIds -> Row] /\ \A r \in RunIds : RowOK(Unlinked(rs, R)[r])
<1> SUFFICES ASSUME NEW r \in RunIds, rs[r].thread
             PROVE  LET new == [rs[r] EXCEPT !.thread = FALSE] IN new \in Row /\ RowOK(new)
    BY DEF Unlinked
<1> rs[r].status # "none"
    BY DEF RowOK, NoRow
<1> QED
    BY DEF Row, RowOK

LEMMA WithoutChatsType ==
    ASSUME NEW cs \in [RunIds -> {"none", "empty", "full", "deleted"}], NEW R
    PROVE  WithoutChats(cs, R) \in [RunIds -> {"none", "empty", "full", "deleted"}]
BY DEF WithoutChats

LEMMA TypeRequest == ASSUME TypeOK, Request PROVE TypeOK'
<1> USE DEF TypeOK
<1>1. ASSUME NEW t \in Tasks, NEW s \in Schedules, NEW enabled \in BOOLEAN,
             NEW now \in 0..clock, CreateTask(t, s, enabled, now) \/ UpdateTask(t, s, enabled, now)
      PROVE  TypeOK'
    <2>1. NextFromNow(s, enabled, now) \in Times
        BY NextFromNowType, BoundAssumption
    <2> DEFINE new == [state |-> "live", enabled |-> enabled, schedule |-> s,
                       next |-> NextFromNow(s, enabled, now)]
    <2>2. new \in Task
        BY <2>1 DEF Task
    <2>3. tasks' = [tasks EXCEPT ![t] = new]
        BY <1>1 DEF CreateTask, UpdateTask
    <2>4. tasks' \in [Tasks -> Task]
          /\ \A u \in Tasks : tasks'[u].state = "live" => tasks'[u].schedule \in Schedules
        BY <2>2, <2>3
    <2>5. done' \in [Tasks -> SUBSET Nat] /\ UNCHANGED <<runs, made, chats, clock>>
        BY <1>1 DEF CreateTask, UpdateTask
    <2> QED
        BY <2>4, <2>5
<1>2. ASSUME NEW t \in Tasks, DeleteTask(t) PROVE TypeOK'
    <2>1. Deleted \in Task /\ Deleted.state # "live"
        BY DEF Deleted, Unborn, Task, Times
    <2> QED
        BY <1>2, <2>1, NoRowIsRow, WithoutChatsType DEF DeleteTask
<1>3. ASSUME NEW t \in Tasks, RequestRun(t) PROVE TypeOK'
    <2> DEFINE new == [NoRow EXCEPT !.status = "queued", !.task = t, !.source = "manual"]
    <2>1. new \in Row /\ RowOK(new)
        BY NoneAssumption DEF NoRow, Row, RowOK, Times
    <2>2. made + 1 \in RunIds /\ made + 1 \in 0..MaxRuns
        BY <1>3, BoundAssumption DEF RequestRun, RunIds
    <2> QED
        BY <1>3, <2>1, <2>2 DEF RequestRun
<1> QED
    BY <1>1, <1>2, <1>3 DEF Request

LEMMA TypeChat == ASSUME TypeOK, Chat PROVE TypeOK'
<1> USE DEF TypeOK
<1>1. ASSUME NEW r \in RunIds, UpsertChat(r) PROVE TypeOK'
    BY <1>1 DEF UpsertChat
<1>2. ASSUME NEW r \in RunIds, SyncChat(r) PROVE TypeOK'
    BY <1>2 DEF SyncChat
<1>3. ASSUME NEW r \in RunIds, DeleteChat(r) PROVE TypeOK'
    BY <1>3, UnlinkedType, WithoutChatsType DEF DeleteChat
<1>4. 1..made \subseteq RunIds
    BY BoundAssumption DEF RunIds
<1> QED
    BY <1>1, <1>2, <1>3, <1>4 DEF Chat

(* The sweep's rows before the histories are trimmed.                       *)
LEMMA FailedType ==
    ASSUME TypeOK, NEW a, NEW before
    PROVE  LET failed == [r \in RunIds |->
                  IF r \in Stale(a, before)
                  THEN [runs[r] EXCEPT !.status = "failed", !.worker = None, !.heartbeat = None]
                  ELSE runs[r]]
           IN  failed \in [RunIds -> Row] /\ \A r \in RunIds : RowOK(failed[r])
<1> SUFFICES ASSUME NEW r \in RunIds, runs[r].status = "running"
             PROVE  LET new == [runs[r] EXCEPT !.status = "failed", !.worker = None, !.heartbeat = None]
                    IN  new \in Row /\ RowOK(new)
    BY DEF TypeOK, Stale
<1> QED
    BY NoneAssumption DEF TypeOK, Row, RowOK, Times

(* The next run of a task that is due is an instant that has passed, and    *)
(* what follows it is later.                                                *)
LEMMA DueNext ==
    ASSUME TypeOK, NEW a, NEW now \in 0..clock, NEW t \in Due(a, now)
    PROVE  LET following == Following(t, now)
           IN  /\ tasks[t].next \in 0..now
               /\ following \in Times
               /\ following # None => following > tasks[t].next
<1>1. tasks[t].schedule \in Schedules /\ tasks[t].next \in 0..now
    BY NoneAssumption, BoundAssumption DEF Due, Live, TypeOK, Task, Times
<1>2. Later(now, tasks[t].next) \in 0..MaxClock /\ Later(now, tasks[t].next) >= tasks[t].next
    BY <1>1, BoundAssumption DEF Later, TypeOK
<1>3. tasks[t].next \in 0..MaxClock
    BY <1>1, BoundAssumption DEF TypeOK
<1> QED
    BY <1>1, <1>2, <1>3, NextRunAssumption DEF Following, Times

LEMMA TypeClaim == ASSUME TypeOK, Claim PROVE TypeOK'
<1> SUFFICES ASSUME NEW a \in Accounts, NEW now \in 0..clock,
                    \/ FailStale(a, now)
                    \/ \E r \in RunIds, w \in Workers : ClaimQueued(r, a, w, now)
                    \/ \E t \in Tasks, w \in Workers : ClaimDue(t, a, w, now)
             PROVE  TypeOK'
    BY DEF Claim
<1> now \in Nat
    BY BoundAssumption DEF TypeOK
<1>1. CASE FailStale(a, now)
    BY <1>1, FailedType, UnlinkedType, TrimmedType, WithoutChatsType DEF FailStale, TypeOK
<1>2. ASSUME NEW r \in RunIds, NEW w \in Workers, ClaimQueued(r, a, w, now) PROVE TypeOK'
    BY <1>2, StartedRow DEF ClaimQueued, Queued, TypeOK
<1>3. ASSUME NEW t \in Tasks, NEW w \in Workers, ClaimDue(t, a, w, now) PROVE TypeOK'
    <2> DEFINE new == [status |-> "running", task |-> t, source |-> "schedule",
                       scheduledFor |-> tasks[t].next, heartbeat |-> now, worker |-> w,
                       thread |-> FALSE]
    <2>1. /\ tasks[t].next \in Nat
          /\ Following(t, now) \in Times
        BY <1>3, DueNext DEF ClaimDue
    <2>2. new \in Row
        BY <2>1 DEF Row, Times
    <2>3. RowOK(new)
        BY <2>1, NoneAssumption DEF RowOK
    <2>4. made + 1 \in RunIds /\ made + 1 \in 0..MaxRuns
        BY <1>3, BoundAssumption DEF ClaimDue, RunIds, TypeOK
    <2> QED
        <3>1. runs' \in [RunIds -> Row] /\ (\A r \in RunIds : RowOK(runs'[r]))
            BY <1>3, <2>2, <2>3, <2>4 DEF ClaimDue, TypeOK
        <3>2. tasks' \in [Tasks -> Task]
              /\ \A u \in Tasks : tasks'[u].state = "live" => tasks'[u].schedule \in Schedules
            BY <1>3, <2>1 DEF ClaimDue, TypeOK, Task
        <3>3. done' \in [Tasks -> SUBSET Nat]
            BY <1>3, <2>1 DEF ClaimDue, TypeOK
        <3> QED
            BY <1>3, <2>4, <3>1, <3>2, <3>3 DEF ClaimDue, TypeOK
<1> QED
    BY <1>1, <1>2, <1>3

LEMMA TypeSettle == ASSUME TypeOK, Settle PROVE TypeOK'
<1> SUFFICES ASSUME NEW r \in RunIds, NEW w \in Workers,
                    \/ Heartbeat(r, w)
                    \/ Requeue(r, w)
                    \/ \E claimedNext : GiveBack(r, w, claimedNext)
                    \/ \E status \in {"succeeded", "failed"}, link, discard \in BOOLEAN :
                          FinishRun(r, w, status, link, discard)
             PROVE  TypeOK'
    BY DEF Settle
<1> runs[r] \in Row /\ RowOK(runs[r])
    BY DEF TypeOK
<1>1. CASE Heartbeat(r, w)
    <2> DEFINE new == [runs[r] EXCEPT !.heartbeat = clock]
    <2>1. new \in Row /\ RowOK(new)
        BY <1>1, NoneAssumption, BoundAssumption DEF Heartbeat, Owns, Row, RowOK, Times, TypeOK
    <2> QED
        BY <1>1, <2>1 DEF Heartbeat, TypeOK
<1>2. CASE Requeue(r, w)
    <2> DEFINE new == [runs[r] EXCEPT !.status = "queued", !.heartbeat = None, !.worker = None]
    <2>1. new \in Row /\ RowOK(new)
        BY <1>2, NoneAssumption DEF Requeue, Owns, Row, RowOK, Times
    <2> QED
        BY <1>2, <2>1 DEF Requeue, TypeOK
<1>3. ASSUME NEW claimedNext, GiveBack(r, w, claimedNext) PROVE TypeOK'
    BY <1>3, NoRowIsRow DEF GiveBack, Owns, TypeOK, Row, RowOK, Task, Times
<1>4. ASSUME NEW status \in {"succeeded", "failed"}, NEW link \in BOOLEAN, NEW discard \in BOOLEAN,
             FinishRun(r, w, status, link, discard)
      PROVE  TypeOK'
    <2> DEFINE cs == IF discard THEN WithoutChats(chats, {r}) ELSE chats
               row == [runs[r] EXCEPT !.status = status, !.heartbeat = None, !.worker = None,
                                      !.thread = link /\ cs[r] \in {"empty", "full"}]
    <2>1. cs \in [RunIds -> {"none", "empty", "full", "deleted"}]
        BY WithoutChatsType DEF TypeOK
    <2>2. row \in Row /\ RowOK(row)
        BY <1>4, StoppedRow DEF FinishRun, Owns
    <2>3. [runs EXCEPT ![r] = row] \in [RunIds -> Row]
          /\ \A q \in RunIds : RowOK([runs EXCEPT ![r] = row][q])
        BY <2>2 DEF TypeOK
    <2> QED
        BY <1>4, <2>1, <2>3, TrimmedType DEF FinishRun, TypeOK
<1> QED
    BY <1>1, <1>2, <1>3, <1>4

LEMMA TypeStep == TypeOK /\ [Next]_vars => TypeOK'
<1> SUFFICES ASSUME TypeOK, [Next]_vars PROVE TypeOK'
    OBVIOUS
<1>1. CASE Tick
    BY <1>1, BoundAssumption DEF Tick, TypeOK
<1>2. CASE UNCHANGED vars
    BY <1>2 DEF vars, TypeOK
<1> QED
    BY <1>1, <1>2, TypeRequest, TypeChat, TypeClaim, TypeSettle DEF Next

(* The tables keep their types, and each row the shape its status calls for.*)
THEOREM TypeCorrect == Spec => []TypeOK
BY TypeInit, TypeStep, PTL DEF Spec

-----------------------------------------------------------------------------
(* One active run per task.                                                 *)

Waiting(row) == row.status \in {"queued", "running"}

(* An operation that starts nothing: each row that is active was.           *)
LEMMA NoNewActive ==
    ASSUME OneActiveRun,
           \A r \in RunIds : Waiting(runs'[r]) => Waiting(runs[r]) /\ runs'[r].task = runs[r].task
    PROVE  OneActiveRun'
BY DEF OneActiveRun, Waiting

(* An operation that starts a run of a task that had none.                  *)
LEMMA NewActive ==
    ASSUME OneActiveRun, NEW t, NEW n, NEW row, row.task = t, Active(runs, t) = {},
           runs \in [RunIds -> Row], runs' = [runs EXCEPT ![n] = row]
    PROVE  OneActiveRun'
BY DEF OneActiveRun, Active

(* Dropping, unlinking or settling rows starts nothing.                     *)
LEMMA DroppedRows ==
    ASSUME OneActiveRun, NEW rs, NEW T, runs' = Trimmed(rs, T),
           \A r \in RunIds : Waiting(rs[r]) => Waiting(runs[r]) /\ rs[r].task = runs[r].task
    PROVE  OneActiveRun'
<1> ~Waiting(NoRow)
    BY DEF NoRow, Waiting
<1> QED
    BY NoNewActive, TrimmedRows

LEMMA UnlinkedRow ==
    ASSUME NEW rs \in [RunIds -> Row], NEW R, NEW r \in RunIds
    PROVE  LET new == Unlinked(rs, R)[r]
           IN  /\ new.status = rs[r].status /\ new.task = rs[r].task /\ new.source = rs[r].source
               /\ new.scheduledFor = rs[r].scheduledFor
               /\ new.thread = (rs[r].thread /\ r \notin R)
BY DEF Unlinked, Row

(* The rows a sweep leaves, and the rows finish_run leaves, before trimming.*)
LEMMA FailStaleRows ==
    ASSUME TypeOK, NEW a, NEW before, FailStale(a, before)
    PROVE  \E rs \in [RunIds -> Row], T \in SUBSET Tasks :
              /\ runs' = Trimmed(rs, T)
              /\ \A r \in RunIds :
                    IF r \in Stale(a, before)
                    THEN rs[r].status = "failed" /\ ~rs[r].thread /\ rs[r].task \in T
                    ELSE rs[r].status = runs[r].status /\ rs[r].task = runs[r].task
                         /\ rs[r].source = runs[r].source
                         /\ rs[r].scheduledFor = runs[r].scheduledFor
                         /\ rs[r].thread = runs[r].thread
<1> DEFINE stale == Stale(a, before)
           failed == [r \in RunIds |->
                  IF r \in stale
                  THEN [runs[r] EXCEPT !.status = "failed", !.worker = None, !.heartbeat = None]
                  ELSE runs[r]]
           rs == Unlinked(failed, stale)
           T == {runs[r].task : r \in stale}
<1>1. failed \in [RunIds -> Row] /\ \A r \in RunIds : RowOK(failed[r])
    BY FailedType
<1>2. rs \in [RunIds -> Row]
    BY <1>1, UnlinkedType
<1>3. T \in SUBSET Tasks
    <2> SUFFICES ASSUME NEW r \in stale PROVE runs[r].task \in Tasks
        OBVIOUS
    <2> QED
        BY DEF Stale, TypeOK, RowOK, Row
<1>4. runs' = Trimmed(rs, T)
    BY DEF FailStale
<1>5. ASSUME NEW r \in RunIds
      PROVE  IF r \in stale
             THEN rs[r].status = "failed" /\ ~rs[r].thread /\ rs[r].task \in T
             ELSE rs[r].status = runs[r].status /\ rs[r].task = runs[r].task
                  /\ rs[r].source = runs[r].source
                  /\ rs[r].scheduledFor = runs[r].scheduledFor
                  /\ rs[r].thread = runs[r].thread
    <2>1. /\ rs[r].status = failed[r].status /\ rs[r].task = failed[r].task
          /\ rs[r].source = failed[r].source
          /\ rs[r].scheduledFor = failed[r].scheduledFor
          /\ rs[r].thread = (failed[r].thread /\ r \notin stale)
        <3> HIDE DEF failed, stale
        <3> QED
            BY <1>1, UnlinkedRow, SMTT(20)
    <2>2. CASE r \in stale
        <3>1. failed[r].status = "failed" /\ failed[r].task = runs[r].task
            BY <2>2 DEF TypeOK, Row
        <3> QED
            BY <2>1, <2>2, <3>1
    <2>3. CASE r \notin stale
        <3>1. failed[r] = runs[r] /\ runs[r].thread \in BOOLEAN
            BY <2>3 DEF TypeOK, Row
        <3>2. (failed[r].thread /\ r \notin stale) = runs[r].thread
            BY <3>1, <2>3, Zenon
        <3> QED
            BY <2>1, <2>3, <3>1, <3>2, Zenon
    <2> QED
        BY <2>2, <2>3
<1> HIDE DEF stale, failed, rs, T
<1> QED
    BY <1>2, <1>3, <1>4, <1>5 DEF stale

LEMMA OneActiveStep == TypeOK /\ OneActiveRun /\ [Next]_vars => OneActiveRun'
<1> SUFFICES ASSUME TypeOK, OneActiveRun, [Next]_vars PROVE OneActiveRun'
    OBVIOUS
<1> runs \in [RunIds -> Row]
    BY DEF TypeOK
<1>1. CASE UNCHANGED runs
    BY <1>1 DEF OneActiveRun
<1>2. ASSUME NEW t \in Tasks, DeleteTask(t) PROVE OneActiveRun'
    BY <1>2, NoNewActive DEF DeleteTask, Waiting, NoRow
<1>3. ASSUME NEW t \in Tasks, RequestRun(t) PROVE OneActiveRun'
    <2> DEFINE row == [NoRow EXCEPT !.status = "queued", !.task = t, !.source = "manual"]
    <2>1. row.task = t
        BY DEF NoRow
    <2> QED
        BY <1>3, <2>1, NewActive DEF RequestRun
<1>4. ASSUME NEW r, DeleteChat(r) PROVE OneActiveRun'
    BY <1>4, NoNewActive, UnlinkedRow DEF DeleteChat, Waiting
<1>5. ASSUME NEW a, NEW now, FailStale(a, now) PROVE OneActiveRun'
    <2>1. PICK rs \in [RunIds -> Row], T \in SUBSET Tasks :
             /\ runs' = Trimmed(rs, T)
             /\ \A r \in RunIds : rs[r].status = "failed"
                   \/ (rs[r].status = runs[r].status /\ rs[r].task = runs[r].task)
        BY <1>5, FailStaleRows
    <2> QED
        BY <2>1, DroppedRows DEF Waiting
<1>6. ASSUME NEW r, NEW a, NEW w, NEW now, ClaimQueued(r, a, w, now) PROVE OneActiveRun'
    BY <1>6, NoNewActive DEF ClaimQueued, Queued, Waiting, Row
<1>7. ASSUME NEW t, NEW a, NEW w, NEW now, ClaimDue(t, a, w, now) PROVE OneActiveRun'
    <2> DEFINE row == [status |-> "running", task |-> t, source |-> "schedule",
                       scheduledFor |-> tasks[t].next, heartbeat |-> now, worker |-> w,
                       thread |-> FALSE]
    <2>1. row.task = t
        OBVIOUS
    <2> QED
        BY <1>7, <2>1, NewActive DEF ClaimDue, Due
<1>8. ASSUME NEW r \in RunIds, NEW w, Heartbeat(r, w) \/ Requeue(r, w) PROVE OneActiveRun'
    <2>1. \E row : /\ runs' = [runs EXCEPT ![r] = row]
                   /\ row.task = runs[r].task /\ Waiting(runs[r])
        <3>1. CASE Heartbeat(r, w)
            BY <1>8, <3>1 DEF Heartbeat, Owns, Waiting, Row
        <3>2. CASE Requeue(r, w)
            BY <1>8, <3>2 DEF Requeue, Owns, Waiting, Row
        <3> QED
            BY <1>8, <3>1, <3>2
    <2> QED
        BY <2>1, NoNewActive
<1>9. ASSUME NEW r \in RunIds, NEW w, NEW next, GiveBack(r, w, next) PROVE OneActiveRun'
    BY <1>9, NoNewActive DEF GiveBack, Waiting, NoRow
<1>10. ASSUME NEW r \in RunIds, NEW w, NEW status \in {"succeeded", "failed"}, NEW link, NEW discard,
              FinishRun(r, w, status, link, discard)
       PROVE  OneActiveRun'
    <2> DEFINE cs == IF discard THEN WithoutChats(chats, {r}) ELSE chats
               row == [runs[r] EXCEPT !.status = status, !.heartbeat = None, !.worker = None,
                                      !.thread = link /\ cs[r] \in {"empty", "full"}]
               rs == [runs EXCEPT ![r] = row]
    <2>1. row.status = status
        BY DEF Row
    <2>2. \A q \in RunIds : Waiting(rs[q]) => Waiting(runs[q]) /\ rs[q].task = runs[q].task
        BY <2>1 DEF Waiting
    <2>3. runs' = Trimmed(rs, {runs[r].task})
        BY <1>10 DEF FinishRun
    <2> HIDE DEF rs
    <2> QED
        BY <2>2, <2>3, DroppedRows
<1>11. CASE UNCHANGED vars
    BY <1>11 DEF vars, OneActiveRun
<1>12. CASE Request
    BY <1>12, <1>1, <1>2, <1>3 DEF Request, CreateTask, UpdateTask
<1>13. CASE Chat
    BY <1>13, <1>1, <1>4 DEF Chat, UpsertChat, SyncChat
<1>14. CASE Claim
    BY <1>14, <1>5, <1>6, <1>7 DEF Claim
<1>15. CASE Settle
    BY <1>15, <1>8, <1>9, <1>10 DEF Settle
<1>16. CASE Tick
    BY <1>16, <1>1 DEF Tick
<1> QED
    BY <1>11, <1>12, <1>13, <1>14, <1>15, <1>16 DEF Next

(* A task never has two runs queued or in progress.                         *)
THEOREM OneActiveRunHolds == Spec => []OneActiveRun
<1>1. Init => OneActiveRun
    BY DEF Init, OneActiveRun, NoRow
<1> QED
    BY <1>1, OneActiveStep, TypeInit, TypeStep, PTL DEF Spec

-----------------------------------------------------------------------------
(* An occurrence runs at most once.  The property is not inductive: giving a*)
(* claim back makes its occurrence due again, so one must also know that no *)
(* later occurrence was claimed in the meantime, which holds because a task *)
(* has one active run at a time.                                            *)

Scheduled(row) == row.status = "running" /\ row.source = "schedule"

LatestClaim ==
    \A r \in RunIds : Scheduled(runs[r]) =>
        \A x \in done[runs[r].task] : x <= runs[r].scheduledFor

DoneIsLive == \A t \in Tasks : tasks[t].state # "live" => done[t] = {}

OnceInv == TypeOK /\ OneActiveRun /\ OccurrenceOnce /\ LatestClaim /\ DoneIsLive

(* An operation that starts no scheduled run and forgets or keeps what a    *)
(* task ran.                                                                *)
LEMMA NoNewClaim ==
    ASSUME LatestClaim,
           \A r \in RunIds : Scheduled(runs'[r]) =>
                 /\ Scheduled(runs[r])
                 /\ runs'[r].task = runs[r].task
                 /\ runs'[r].scheduledFor = runs[r].scheduledFor
                 /\ done'[runs[r].task] \subseteq done[runs[r].task]
    PROVE  LatestClaim'
BY DEF LatestClaim

LEMMA DroppedClaims ==
    ASSUME LatestClaim, NEW rs, NEW T, runs' = Trimmed(rs, T), UNCHANGED done,
           \A r \in RunIds : Scheduled(rs[r]) =>
                 /\ Scheduled(runs[r])
                 /\ rs[r].task = runs[r].task
                 /\ rs[r].scheduledFor = runs[r].scheduledFor
    PROVE  LatestClaim'
<1>1. ~Scheduled(NoRow)
    BY DEF NoRow, Scheduled
<1> QED
    BY <1>1, NoNewClaim, TrimmedRows

LEMMA SameOccurrences ==
    ASSUME OccurrenceOnce, DoneIsLive, UNCHANGED <<tasks, done>>
    PROVE  OccurrenceOnce' /\ DoneIsLive'
BY DEF OccurrenceOnce, DoneIsLive, Live

LEMMA OnceRequest == ASSUME OnceInv, Request PROVE OccurrenceOnce' /\ LatestClaim' /\ DoneIsLive'
<1> USE DEF OnceInv
<1>1. ASSUME NEW t \in Tasks, NEW s \in Schedules, NEW enabled \in BOOLEAN, NEW now \in 0..clock,
             CreateTask(t, s, enabled, now) \/ UpdateTask(t, s, enabled, now)
      PROVE  OccurrenceOnce' /\ LatestClaim' /\ DoneIsLive'
    <2>1. /\ UNCHANGED runs
          /\ tasks' = [tasks EXCEPT ![t] = [state |-> "live", enabled |-> enabled, schedule |-> s,
                                            next |-> NextFromNow(s, enabled, now)]]
          /\ done' = [done EXCEPT ![t] = {}]
        <3>1. CASE CreateTask(t, s, enabled, now)
            <4>1. done[t] = {}
                BY <3>1 DEF CreateTask, DoneIsLive
            <4> QED
                BY <3>1, <4>1 DEF CreateTask, TypeOK
        <3>2. CASE UpdateTask(t, s, enabled, now)
            BY <3>2 DEF UpdateTask
        <3> QED
            BY <1>1, <3>1, <3>2
    <2>2. done'[t] = {} /\ \A u \in Tasks \ {t} : done'[u] = done[u] /\ tasks'[u] = tasks[u]
        BY <2>1 DEF TypeOK
    <2>3. \A u \in Tasks : done'[u] \subseteq done[u]
        BY <2>2
    <2>4. LatestClaim'
        <3>1. \A r \in RunIds : Scheduled(runs[r]) => runs[r].task \in Tasks
            BY DEF Scheduled, TypeOK, RowOK, Row
        <3> QED
            BY <2>1, <2>3, <3>1, NoNewClaim
    <2> QED
        BY <2>1, <2>2, <2>4 DEF OccurrenceOnce, DoneIsLive, Live, TypeOK
<1>2. ASSUME NEW t \in Tasks, DeleteTask(t) PROVE OccurrenceOnce' /\ LatestClaim' /\ DoneIsLive'
    <2>1. /\ done'[t] = {} /\ tasks'[t] = Deleted
          /\ \A u \in Tasks \ {t} : done'[u] = done[u] /\ tasks'[u] = tasks[u]
        BY <1>2 DEF DeleteTask, TypeOK
    <2>2. Deleted.state # "live"
        BY DEF Deleted, Unborn
    <2>3. ASSUME NEW r \in RunIds, Scheduled(runs'[r])
          PROVE  runs'[r] = runs[r] /\ done'[runs[r].task] = done[runs[r].task]
        <3>1. runs'[r] = runs[r] /\ runs[r].task # t
            BY <1>2, <2>3 DEF DeleteTask, Scheduled, NoRow
        <3>2. runs[r].task \in Tasks
            BY <2>3, <3>1 DEF Scheduled, TypeOK, RowOK, Row
        <3> QED
            BY <2>1, <3>1, <3>2
    <2>4. LatestClaim'
        BY <2>3, NoNewClaim
    <2> QED
        BY <2>1, <2>2, <2>4 DEF OccurrenceOnce, DoneIsLive, Live
<1>3. ASSUME NEW t \in Tasks, RequestRun(t) PROVE OccurrenceOnce' /\ LatestClaim' /\ DoneIsLive'
    <2> DEFINE row == [NoRow EXCEPT !.status = "queued", !.task = t, !.source = "manual"]
    <2>1. ~Scheduled(row)
        BY DEF Scheduled, NoRow
    <2>2. runs' = [runs EXCEPT ![made + 1] = row] /\ UNCHANGED <<tasks, done>>
        BY <1>3 DEF RequestRun
    <2> HIDE DEF row
    <2>3. LatestClaim'
        BY <2>1, <2>2, NoNewClaim DEF TypeOK
    <2> QED
        BY <2>2, <2>3, SameOccurrences
<1> QED
    BY <1>1, <1>2, <1>3 DEF Request

LEMMA OnceChat == ASSUME OnceInv, Chat PROVE OccurrenceOnce' /\ LatestClaim' /\ DoneIsLive'
<1> USE DEF OnceInv
<1>1. UNCHANGED <<tasks, done>>
    BY DEF Chat, UpsertChat, SyncChat, DeleteChat
<1>2. LatestClaim'
    <2>1. CASE UNCHANGED runs
        BY <1>1, <2>1, NoNewClaim
    <2>2. ASSUME NEW r, DeleteChat(r) PROVE LatestClaim'
        <3>1. runs' = Unlinked(runs, {r})
            BY <2>2 DEF DeleteChat
        <3> QED
            BY <1>1, <3>1, UnlinkedRow, NoNewClaim DEF Scheduled, TypeOK
    <2> QED
        BY <2>1, <2>2 DEF Chat, UpsertChat, SyncChat
<1> QED
    BY <1>1, <1>2, SameOccurrences

LEMMA OnceClaim == ASSUME OnceInv, Claim PROVE OccurrenceOnce' /\ LatestClaim' /\ DoneIsLive'
<1> USE DEF OnceInv
<1>1. ASSUME NEW a, NEW now, FailStale(a, now) PROVE OccurrenceOnce' /\ LatestClaim' /\ DoneIsLive'
    <2>1. PICK rs \in [RunIds -> Row], T \in SUBSET Tasks :
             /\ runs' = Trimmed(rs, T)
             /\ \A r \in RunIds : \/ rs[r].status = "failed"
                                  \/ /\ rs[r].status = runs[r].status
                                     /\ rs[r].task = runs[r].task
                                     /\ rs[r].source = runs[r].source
                                     /\ rs[r].scheduledFor = runs[r].scheduledFor
        BY <1>1, FailStaleRows
    <2>2. UNCHANGED <<tasks, done>>
        BY <1>1 DEF FailStale
    <2>3. LatestClaim'
        BY <2>1, <2>2, DroppedClaims DEF Scheduled
    <2> QED
        BY <2>2, <2>3, SameOccurrences
<1>2. ASSUME NEW r, NEW a, NEW w, NEW now, ClaimQueued(r, a, w, now)
      PROVE  OccurrenceOnce' /\ LatestClaim' /\ DoneIsLive'
    <2>1. UNCHANGED <<tasks, done>>
        BY <1>2 DEF ClaimQueued
    <2>2. r \in RunIds /\ runs[r].source = "manual" /\ runs \in [RunIds -> Row]
        BY <1>2 DEF ClaimQueued, Queued, TypeOK, RowOK
    <2> DEFINE row == [runs[r] EXCEPT !.status = "running", !.heartbeat = now, !.worker = w]
    <2>3. runs' = [runs EXCEPT ![r] = row]
        BY <1>2 DEF ClaimQueued
    <2>4. ~Scheduled(row)
        BY <2>2 DEF Scheduled, Row
    <2> HIDE DEF row
    <2>5. LatestClaim'
        BY <2>1, <2>2, <2>3, <2>4, NoNewClaim
    <2> QED
        BY <2>1, <2>5, SameOccurrences
<1>3. ASSUME NEW t \in Tasks, NEW a, NEW w, NEW now \in 0..clock, ClaimDue(t, a, w, now)
      PROVE  OccurrenceOnce' /\ LatestClaim' /\ DoneIsLive'
    <2> DEFINE following == Following(t, now)
               row == [status |-> "running", task |-> t, source |-> "schedule",
                       scheduledFor |-> tasks[t].next, heartbeat |-> now, worker |-> w,
                       thread |-> FALSE]
    <2>1. t \in Live /\ t \in Due(a, now) /\ Active(runs, t) = {}
        BY <1>3 DEF ClaimDue, Due
    <2>2. tasks[t].next \in Nat /\ tasks[t].next # None
          /\ following \in Times /\ (following # None => following > tasks[t].next)
        BY <2>1, DueNext, NoneAssumption
    <2>3. done[t] \subseteq Nat /\ \A x \in done[t] : x < tasks[t].next
        BY <2>1, <2>2 DEF OccurrenceOnce, TypeOK
    <2>4. /\ tasks' = [tasks EXCEPT ![t].next = following]
          /\ done' = [done EXCEPT ![t] = @ \cup {tasks[t].next}]
          /\ runs' = [runs EXCEPT ![made + 1] = row]
        BY <1>3 DEF ClaimDue
    <2>5. done'[t] = done[t] \cup {tasks[t].next}
          /\ \A u \in Tasks \ {t} : done'[u] = done[u] /\ tasks'[u] = tasks[u]
        BY <2>4 DEF TypeOK
    <2>6. tasks'[t].next = following /\ tasks'[t].state = tasks[t].state
        BY <2>4 DEF TypeOK, Task
    <2> HIDE DEF following
    <2>7. OccurrenceOnce'
        <3> SUFFICES ASSUME NEW u \in Live', tasks'[u].next # None, NEW x \in done'[u]
                     PROVE  x < tasks'[u].next
            BY DEF OccurrenceOnce
        <3>1. CASE u = t
            BY <2>2, <2>3, <2>5, <2>6, <3>1 DEF Times
        <3>2. CASE u # t
            BY <2>5, <3>2 DEF OccurrenceOnce, Live
        <3> QED
            BY <3>1, <3>2
    <2>8. DoneIsLive'
        BY <2>1, <2>5, <2>6 DEF DoneIsLive, Live
    <2>9. LatestClaim'
        <3> SUFFICES ASSUME NEW q \in RunIds, Scheduled(runs'[q]), NEW x \in done'[runs'[q].task]
                     PROVE  x <= runs'[q].scheduledFor
            BY DEF LatestClaim
        <3>1. CASE q = made + 1
            <4>1. runs'[q].task = t /\ runs'[q].scheduledFor = tasks[t].next
                BY <2>4, <3>1 DEF TypeOK
            <4> QED
                BY <2>2, <2>3, <2>5, <4>1
        <3>2. CASE q # made + 1
            <4>1. runs'[q] = runs[q]
                BY <2>4, <3>2 DEF TypeOK
            <4>2. runs[q].task \in Tasks \ {t}
                BY <2>1, <4>1 DEF Scheduled, Active, TypeOK, RowOK, Row
            <4> QED
                BY <2>5, <4>1, <4>2 DEF LatestClaim
        <3> QED
            BY <3>1, <3>2
    <2> QED
        BY <2>7, <2>8, <2>9
<1> QED
    BY <1>1, <1>2, <1>3 DEF Claim

LEMMA OnceSettle == ASSUME OnceInv, Settle PROVE OccurrenceOnce' /\ LatestClaim' /\ DoneIsLive'
<1> USE DEF OnceInv
<1>1. ASSUME NEW r \in RunIds, NEW w, Heartbeat(r, w) \/ Requeue(r, w)
      PROVE  OccurrenceOnce' /\ LatestClaim' /\ DoneIsLive'
    <2>1. UNCHANGED <<tasks, done>>
        BY <1>1 DEF Heartbeat, Requeue
    <2>2. runs[r] \in Row
        BY DEF TypeOK
    <2>3. CASE Heartbeat(r, w)
        <3> DEFINE row == [runs[r] EXCEPT !.heartbeat = clock]
        <3>1. (Scheduled(row) => Scheduled(runs[r]))
              /\ row.task = runs[r].task /\ row.scheduledFor = runs[r].scheduledFor
            BY <2>2 DEF Scheduled, Row
        <3>2. runs' = [runs EXCEPT ![r] = row]
            BY <2>3 DEF Heartbeat, TypeOK
        <3> HIDE DEF row
        <3>3. LatestClaim'
            BY <2>1, <3>1, <3>2, NoNewClaim DEF TypeOK
        <3> QED
            BY <2>1, <3>3, SameOccurrences
    <2>4. CASE Requeue(r, w)
        <3> DEFINE row == [runs[r] EXCEPT !.status = "queued", !.heartbeat = None, !.worker = None]
        <3>1. ~Scheduled(row)
            BY <2>2 DEF Scheduled, Row
        <3>2. runs' = [runs EXCEPT ![r] = row]
            BY <2>4 DEF Requeue, TypeOK
        <3> HIDE DEF row
        <3>3. LatestClaim'
            BY <2>1, <3>1, <3>2, NoNewClaim DEF TypeOK
        <3> QED
            BY <2>1, <3>3, SameOccurrences
    <2> QED
        BY <1>1, <2>3, <2>4
<1>2. ASSUME NEW r \in RunIds, NEW w, NEW next, GiveBack(r, w, next)
      PROVE  OccurrenceOnce' /\ LatestClaim' /\ DoneIsLive'
    <2> DEFINE t == runs[r].task
               sf == runs[r].scheduledFor
    <2>1. t \in Tasks /\ sf \in Nat /\ Scheduled(runs[r])
        BY <1>2, NoneAssumption DEF GiveBack, Owns, Scheduled, TypeOK, RowOK, Row, Times
    <2>2. /\ runs' = [runs EXCEPT ![r] = NoRow]
          /\ done'[t] = done[t] \ {sf}
          /\ \A u \in Tasks \ {t} : done'[u] = done[u] /\ tasks'[u] = tasks[u]
          /\ tasks'[t].state = tasks[t].state
          /\ tasks'[t].next \in {sf, tasks[t].next}
        BY <1>2, <2>1 DEF GiveBack, TypeOK, Task
    <2>3. \A x \in done[t] : x \in Nat /\ x <= sf
        BY <2>1 DEF LatestClaim, TypeOK
    <2>4. ~Scheduled(NoRow)
        BY DEF NoRow, Scheduled
    <2> HIDE DEF t, sf
    <2>5. OccurrenceOnce'
        <3> SUFFICES ASSUME NEW u \in Live', tasks'[u].next # None, NEW x \in done'[u]
                     PROVE  x < tasks'[u].next
            BY DEF OccurrenceOnce
        <3>1. CASE u = t /\ tasks'[t].next = sf
            BY <2>1, <2>2, <2>3, <3>1
        <3>2. CASE u = t /\ tasks'[t].next = tasks[t].next
            BY <2>2, <3>2 DEF OccurrenceOnce, Live
        <3>3. CASE u # t
            BY <2>2, <3>3 DEF OccurrenceOnce, Live
        <3> QED
            BY <2>2, <3>1, <3>2, <3>3
    <2>6. DoneIsLive'
        BY <2>2 DEF DoneIsLive
    <2>7. LatestClaim'
        <3>1. ASSUME NEW q \in RunIds, Scheduled(runs'[q])
              PROVE  runs'[q] = runs[q] /\ done'[runs[q].task] \subseteq done[runs[q].task]
            <4>1. runs'[q] = runs[q]
                BY <2>2, <2>4, <3>1 DEF TypeOK
            <4>2. runs[q].task \in Tasks
                BY <3>1, <4>1 DEF Scheduled, TypeOK, RowOK, Row
            <4> QED
                BY <2>2, <4>1, <4>2
        <3> QED
            BY <3>1, NoNewClaim
    <2> QED
        BY <2>5, <2>6, <2>7
<1>3. ASSUME NEW r \in RunIds, NEW w, NEW status \in {"succeeded", "failed"}, NEW link, NEW discard,
             FinishRun(r, w, status, link, discard)
      PROVE  OccurrenceOnce' /\ LatestClaim' /\ DoneIsLive'
    <2> DEFINE cs == IF discard THEN WithoutChats(chats, {r}) ELSE chats
               row == [runs[r] EXCEPT !.status = status, !.heartbeat = None, !.worker = None,
                                      !.thread = link /\ cs[r] \in {"empty", "full"}]
               rs == [runs EXCEPT ![r] = row]
    <2>1. row.status = status
        BY DEF TypeOK, Row
    <2>2. \A q \in RunIds : Scheduled(rs[q]) => rs[q] = runs[q]
        BY <2>1 DEF Scheduled, TypeOK
    <2>3. runs' = Trimmed(rs, {runs[r].task}) /\ UNCHANGED <<tasks, done>>
        BY <1>3 DEF FinishRun
    <2> HIDE DEF rs
    <2>4. LatestClaim'
        BY <2>2, <2>3, DroppedClaims
    <2> QED
        BY <2>3, <2>4, SameOccurrences
<1> QED
    BY <1>1, <1>2, <1>3 DEF Settle

LEMMA OnceStep == OnceInv /\ [Next]_vars => OnceInv'
<1> SUFFICES ASSUME OnceInv, [Next]_vars PROVE OccurrenceOnce' /\ LatestClaim' /\ DoneIsLive'
    BY TypeStep, OneActiveStep DEF OnceInv
<1>1. CASE UNCHANGED <<tasks, runs, done>>
    BY <1>1 DEF OnceInv, OccurrenceOnce, LatestClaim, DoneIsLive, Live
<1> QED
    BY <1>1, OnceRequest, OnceChat, OnceClaim, OnceSettle DEF Next, Tick, vars

(* No occurrence of a task's schedule is run twice: what ran since the      *)
(* timing was set is earlier than the next run, whatever is claimed, given  *)
(* back or edited in between.                                               *)
THEOREM OccurrenceOnceHolds == Spec => []OccurrenceOnce
<1>1. Init => OnceInv
    <2> SUFFICES ASSUME Init PROVE OnceInv
        OBVIOUS
    <2>1. OneActiveRun /\ LatestClaim
        BY DEF Init, OneActiveRun, LatestClaim, Scheduled, NoRow
    <2>2. OccurrenceOnce /\ DoneIsLive
        BY DEF Init, OccurrenceOnce, DoneIsLive, Live
    <2> QED
        BY <2>1, <2>2, TypeInit DEF OnceInv
<1>2. OnceInv => OccurrenceOnce
    BY DEF OnceInv
<1> QED
    BY <1>1, <1>2, OnceStep, PTL DEF Spec

-----------------------------------------------------------------------------
(* Paused tasks.                                                            *)

(* A paused task has no next run: no claim advances it and no claim given   *)
(* back restores one.                                                       *)
THEOREM PausedIsNotDueHolds == Spec => []PausedIsNotDue
<1>1. Init => PausedIsNotDue
    BY DEF Init, PausedIsNotDue, Live, Unborn
<1>2. TypeOK /\ PausedIsNotDue /\ [Next]_vars => PausedIsNotDue'
    <2> SUFFICES ASSUME TypeOK, PausedIsNotDue, [Next]_vars PROVE PausedIsNotDue'
        OBVIOUS
    <2>1. CASE UNCHANGED tasks
        BY <2>1 DEF PausedIsNotDue, Live
    <2>2. ASSUME NEW t \in Tasks, NEW s, NEW enabled \in BOOLEAN, NEW now,
                 CreateTask(t, s, enabled, now) \/ UpdateTask(t, s, enabled, now)
          PROVE  PausedIsNotDue'
        <3>1. tasks' = [tasks EXCEPT ![t] = [state |-> "live", enabled |-> enabled, schedule |-> s,
                                             next |-> NextFromNow(s, enabled, now)]]
            BY <2>2 DEF CreateTask, UpdateTask
        <3> QED
            BY <3>1 DEF PausedIsNotDue, Live, NextFromNow, TypeOK
    <2>3. ASSUME NEW t \in Tasks, DeleteTask(t) PROVE PausedIsNotDue'
        BY <2>3 DEF DeleteTask, PausedIsNotDue, Live, Deleted, Unborn, TypeOK
    <2>4. ASSUME NEW t \in Tasks, NEW a, NEW w, NEW now, ClaimDue(t, a, w, now) PROVE PausedIsNotDue'
        BY <2>4 DEF ClaimDue, Due, PausedIsNotDue, Live, TypeOK, Task
    <2>5. ASSUME NEW r \in RunIds, NEW w, NEW next, GiveBack(r, w, next) PROVE PausedIsNotDue'
        BY <2>5 DEF GiveBack, PausedIsNotDue, Live, TypeOK, Task
    <2>6. CASE Request
        BY <2>1, <2>2, <2>3, <2>6 DEF Request, RequestRun
    <2>7. CASE Claim
        BY <2>1, <2>4, <2>7 DEF Claim, FailStale, ClaimQueued
    <2>8. CASE Settle
        BY <2>1, <2>5, <2>8 DEF Settle, Heartbeat, Requeue, FinishRun
    <2> QED
        BY <2>1, <2>6, <2>7, <2>8 DEF Next, Chat, UpsertChat, SyncChat, DeleteChat, Tick, vars
<1> QED
    BY <1>1, <1>2, TypeInit, TypeStep, PTL DEF Spec

-----------------------------------------------------------------------------
(* Chats.                                                                   *)

(* No transaction removes a tombstone.                                      *)
LEMMA TombstoneStep ==
    TypeOK /\ [Next]_vars => \A r \in RunIds : chats[r] = "deleted" => chats'[r] = "deleted"
<1> SUFFICES ASSUME TypeOK, [Next]_vars, NEW r \in RunIds, chats[r] = "deleted"
             PROVE  chats'[r] = "deleted"
    OBVIOUS
<1>1. ASSUME NEW R, chats' = WithoutChats(chats, R) PROVE chats'[r] = "deleted"
    BY <1>1 DEF WithoutChats
<1>2. CASE UNCHANGED chats
    BY <1>2
<1>3. CASE Request
    BY <1>1, <1>2, <1>3 DEF Request, CreateTask, UpdateTask, DeleteTask, RequestRun
<1>4. ASSUME NEW q, UpsertChat(q) \/ SyncChat(q) \/ DeleteChat(q) PROVE chats'[r] = "deleted"
    <2>1. CASE UpsertChat(q)
        BY <2>1 DEF UpsertChat, TypeOK
    <2>2. CASE SyncChat(q)
        BY <2>2 DEF SyncChat, ChatExists, TypeOK
    <2>3. CASE DeleteChat(q)
        BY <1>1, <2>3 DEF DeleteChat
    <2> QED
        BY <1>4, <2>1, <2>2, <2>3
<1>5. CASE Claim
    BY <1>1, <1>2, <1>5 DEF Claim, FailStale, ClaimQueued, ClaimDue
<1>6. CASE Settle
    <2>1. ASSUME NEW q, NEW w, NEW status, NEW link, NEW discard, FinishRun(q, w, status, link, discard)
          PROVE  chats'[r] = "deleted"
        BY <1>1, <1>2, <2>1 DEF FinishRun
    <2> QED
        BY <1>2, <1>6, <2>1 DEF Settle, Heartbeat, Requeue, GiveBack
<1> QED
    BY <1>2, <1>3, <1>4, <1>5, <1>6 DEF Next, Chat, Tick, vars

(* A deleted chat is never there again, however late a save of it comes.    *)
THEOREM DeletedChatStaysHolds == Spec => DeletedChatStays
<1>1. TypeOK /\ [Next]_vars => [\A r \in RunIds : chats[r] = "deleted" => chats'[r] = "deleted"]_vars
    BY TombstoneStep
<1> QED
    BY <1>1, TypeInit, TypeStep, PTL DEF Spec, DeletedChatStays

LEMMA LinkedStep == TypeOK /\ LinkedChatExists /\ [Next]_vars => LinkedChatExists'
<1> SUFFICES ASSUME TypeOK, LinkedChatExists, [Next]_vars PROVE LinkedChatExists'
    OBVIOUS
<1> runs \in [RunIds -> Row]
    BY DEF TypeOK
<1>1. ~NoRow.thread
    BY DEF NoRow
<1>2. CASE UNCHANGED <<runs, chats>>
    BY <1>2 DEF LinkedChatExists, ChatExists
<1>3. ASSUME NEW t \in Tasks, DeleteTask(t) PROVE LinkedChatExists'
    <2> SUFFICES ASSUME NEW r \in RunIds, runs'[r].thread
                 PROVE  runs'[r].status = "succeeded" /\ ChatExists(r)'
        BY DEF LinkedChatExists
    <2>1. runs'[r] = runs[r]
        BY <1>1, <1>3 DEF DeleteTask
    <2>2. runs[r].status = "succeeded" /\ ChatExists(r)
        BY <2>1 DEF LinkedChatExists
    <2> QED
        BY <1>3, <2>1, <2>2 DEF DeleteTask, WithoutChats, ChatExists
<1>4. ASSUME NEW t \in Tasks, RequestRun(t) PROVE LinkedChatExists'
    <2> DEFINE row == [NoRow EXCEPT !.status = "queued", !.task = t, !.source = "manual"]
    <2>1. ~row.thread
        BY DEF NoRow
    <2>2. runs' = [runs EXCEPT ![made + 1] = row] /\ UNCHANGED chats
        BY <1>4 DEF RequestRun
    <2> HIDE DEF row
    <2> QED
        BY <2>1, <2>2 DEF LinkedChatExists, ChatExists
<1>5. ASSUME NEW r, UpsertChat(r) \/ SyncChat(r) PROVE LinkedChatExists'
    <2>1. CASE UpsertChat(r)
        BY <2>1 DEF UpsertChat, LinkedChatExists, ChatExists, TypeOK
    <2>2. CASE SyncChat(r)
        BY <2>2 DEF SyncChat, LinkedChatExists, ChatExists, TypeOK
    <2> QED
        BY <1>5, <2>1, <2>2
<1>6. ASSUME NEW r, DeleteChat(r) PROVE LinkedChatExists'
    <2> SUFFICES ASSUME NEW q \in RunIds, runs'[q].thread
                 PROVE  runs'[q].status = "succeeded" /\ ChatExists(q)'
        BY DEF LinkedChatExists
    <2>1. runs'[q].status = runs[q].status /\ runs'[q].thread = (runs[q].thread /\ q \notin {r})
        BY <1>6, UnlinkedRow DEF DeleteChat
    <2>2. q # r /\ runs[q].thread
        BY <2>1, Zenon
    <2>3. runs[q].status = "succeeded" /\ ChatExists(q)
        BY <2>2 DEF LinkedChatExists
    <2> QED
        BY <1>6, <2>1, <2>2, <2>3 DEF DeleteChat, WithoutChats, ChatExists
<1>7. ASSUME NEW a, NEW now, FailStale(a, now) PROVE LinkedChatExists'
    <2> SUFFICES ASSUME NEW q \in RunIds, runs'[q].thread
                 PROVE  runs'[q].status = "succeeded" /\ ChatExists(q)'
        BY DEF LinkedChatExists
    <2>1. PICK rs \in [RunIds -> Row], T \in SUBSET Tasks :
             /\ runs' = Trimmed(rs, T)
             /\ IF q \in Stale(a, now) THEN ~rs[q].thread
                ELSE rs[q].status = runs[q].status /\ rs[q].thread = runs[q].thread
        BY <1>7, FailStaleRows
    <2>2. runs'[q] = rs[q]
        BY <1>1, <2>1, TrimmedRows
    <2>3. q \notin Stale(a, now) /\ runs[q].thread /\ runs'[q].status = runs[q].status
        BY <2>1, <2>2
    <2>4. runs[q].status = "succeeded" /\ ChatExists(q)
        BY <2>3 DEF LinkedChatExists
    <2> QED
        BY <1>7, <2>3, <2>4 DEF FailStale, WithoutChats, ChatExists
<1>8. ASSUME NEW r \in RunIds, NEW row, runs[r].status # "succeeded", ~row.thread,
             runs' = [runs EXCEPT ![r] = row], UNCHANGED chats
      PROVE  LinkedChatExists'
    BY <1>8 DEF LinkedChatExists, ChatExists
<1>9. ASSUME NEW r, NEW a, NEW w, NEW now, ClaimQueued(r, a, w, now) PROVE LinkedChatExists'
    <2> DEFINE row == [runs[r] EXCEPT !.status = "running", !.heartbeat = now, !.worker = w]
    <2>1. r \in RunIds /\ runs[r].status = "queued" /\ ~runs[r].thread
        BY <1>9 DEF ClaimQueued, Queued, LinkedChatExists
    <2>2. ~row.thread
        BY <2>1 DEF Row
    <2>3. runs' = [runs EXCEPT ![r] = row] /\ UNCHANGED chats
        BY <1>9 DEF ClaimQueued
    <2> HIDE DEF row
    <2> QED
        BY <1>8, <2>1, <2>2, <2>3
<1>10. ASSUME NEW t, NEW a, NEW w, NEW now, ClaimDue(t, a, w, now) PROVE LinkedChatExists'
    <2> DEFINE row == [status |-> "running", task |-> t, source |-> "schedule",
                       scheduledFor |-> tasks[t].next, heartbeat |-> now, worker |-> w,
                       thread |-> FALSE]
    <2>1. ~row.thread
        OBVIOUS
    <2>2. runs' = [runs EXCEPT ![made + 1] = row] /\ UNCHANGED chats
        BY <1>10 DEF ClaimDue
    <2> HIDE DEF row
    <2> QED
        BY <2>1, <2>2 DEF LinkedChatExists, ChatExists
<1>11. ASSUME NEW r \in RunIds, NEW w, Heartbeat(r, w) PROVE LinkedChatExists'
    <2> DEFINE row == [runs[r] EXCEPT !.heartbeat = clock]
    <2>1. runs[r].status = "running" /\ ~runs[r].thread
        BY <1>11 DEF Heartbeat, Owns, LinkedChatExists
    <2>2. ~row.thread
        BY <2>1 DEF Row
    <2>3. runs' = [runs EXCEPT ![r] = row] /\ UNCHANGED chats
        BY <1>11 DEF Heartbeat
    <2> HIDE DEF row
    <2> QED
        BY <1>8, <2>1, <2>2, <2>3
<1>12. ASSUME NEW r \in RunIds, NEW w, Requeue(r, w) PROVE LinkedChatExists'
    <2> DEFINE row == [runs[r] EXCEPT !.status = "queued", !.heartbeat = None, !.worker = None]
    <2>1. runs[r].status = "running" /\ ~runs[r].thread
        BY <1>12 DEF Requeue, Owns, LinkedChatExists
    <2>2. ~row.thread
        BY <2>1 DEF Row
    <2>3. runs' = [runs EXCEPT ![r] = row] /\ UNCHANGED chats
        BY <1>12 DEF Requeue
    <2> HIDE DEF row
    <2> QED
        BY <1>8, <2>1, <2>2, <2>3
<1>13. ASSUME NEW r \in RunIds, NEW w, NEW next, GiveBack(r, w, next) PROVE LinkedChatExists'
    BY <1>1, <1>8, <1>13 DEF GiveBack, Owns
<1>14. ASSUME NEW r \in RunIds, NEW w, NEW status, NEW link \in BOOLEAN, NEW discard \in BOOLEAN,
              link => status = "succeeded" /\ ~discard, FinishRun(r, w, status, link, discard)
       PROVE  LinkedChatExists'
    <2> DEFINE cs == IF discard THEN WithoutChats(chats, {r}) ELSE chats
               row == [runs[r] EXCEPT !.status = status, !.heartbeat = None, !.worker = None,
                                      !.thread = link /\ cs[r] \in {"empty", "full"}]
               rs == [runs EXCEPT ![r] = row]
    <2>1. row.status = status /\ row.thread = (link /\ cs[r] \in {"empty", "full"})
        BY DEF Row
    <2>2. chats' = cs /\ \A q \in RunIds : q # r => cs[q] = chats[q]
        BY <1>14 DEF FinishRun, WithoutChats
    <2>3. runs' = Trimmed(rs, {runs[r].task})
        BY <1>14 DEF FinishRun
    <2> HIDE DEF row, cs
    <2> SUFFICES ASSUME NEW q \in RunIds, runs'[q].thread
                 PROVE  runs'[q].status = "succeeded" /\ ChatExists(q)'
        BY DEF LinkedChatExists
    <2>4. runs'[q] = rs[q]
        BY <1>1, <2>3, TrimmedRows
    <2>5. CASE q = r
        <3>1. runs'[q] = row
            BY <2>4, <2>5
        <3>2. link /\ cs[r] \in {"empty", "full"}
            BY <2>1, <3>1, Zenon
        <3> QED
            BY <1>14, <2>1, <2>2, <2>5, <3>1, <3>2 DEF ChatExists
    <2>6. CASE q # r
        BY <2>2, <2>4, <2>6 DEF LinkedChatExists, ChatExists
    <2> QED
        BY <2>5, <2>6
<1>15. CASE Request
    BY <1>2, <1>3, <1>4, <1>15 DEF Request, CreateTask, UpdateTask
<1>16. CASE Chat
    BY <1>5, <1>6, <1>16 DEF Chat
<1>17. CASE Claim
    BY <1>7, <1>9, <1>10, <1>17 DEF Claim
<1>18. CASE Settle
    BY <1>11, <1>12, <1>13, <1>14, <1>18 DEF Settle
<1> QED
    BY <1>2, <1>15, <1>16, <1>17, <1>18 DEF Next, Tick, vars

(* A run that links a chat succeeded, and the chat is there.                *)
THEOREM LinkedChatExistsHolds == Spec => []LinkedChatExists
<1>1. Init => LinkedChatExists
    BY DEF Init, LinkedChatExists, NoRow
<1> QED
    BY <1>1, LinkedStep, TypeInit, TypeStep, PTL DEF Spec

(* A row agrees with itself and with the chats: types, no next run while    *)
(* paused, no link to a chat that is not there.                             *)
THEOREM ConsistentHolds == Spec => []Consistent
<1>1. TypeOK /\ PausedIsNotDue /\ LinkedChatExists => Consistent
    BY DEF Consistent
<1> QED
    BY <1>1, TypeCorrect, PausedIsNotDueHolds, LinkedChatExistsHolds, PTL
=============================================================================
