------------------------- MODULE ChatGenerationRuns -------------------------
(***************************************************************************)
(* ChatGenerationSupervisor and ChatGenerationLeaseSweeper                  *)
(* (core/inference/chat_generation_runs.py) and the routes                  *)
(* (routes/chat_generation_runs.py) over the tables of ChatGenerationStore: *)
(* the producer of a run, whoever may stop it, the process that may shut    *)
(* down or crash, and the followers that read the run's log.                *)
(*                                                                          *)
(* A producer is an asyncio task; a step of it runs up to the next await.   *)
(* Its database calls run in threads nobody can cancel: the append is a     *)
(* thread beside the task ("wtask"), and a call the task was cancelled out  *)
(* of is left to itself (orphans).                                          *)
(***************************************************************************)
EXTENDS Integers, Sequences, FiniteSets, SequencesExt

CONSTANTS
    Runs, Threads, Prompts, ThreadOf, PromptOf, None,
    Clients,        \* tabs
    Follows,        \* the run a tab follows
    ReadLimit,      \* the limit of list_events
    MaxPending,     \* _MAX_PENDING_EVENTS
    MaxChunks,      \* bound: chunks an engine yields for one producer
    MaxBeats,       \* bound: renewals of the lease by one producer
    Retried,        \* bound: whether a create request is repeated
    MaxFaults,      \* bound: database calls that raise
    MaxCrashes      \* bound: shutdowns and crashes

VARIABLES
    threads, runs, events, tombstones, messages,    \* the store
    job,        \* _tasks, _cancel_events, _shutdown_runs and _produce_run, by run
    output,     \* how many chunks were taken from the engine for the run
    orphans,    \* database calls whose task was cancelled
    starting,   \* the run of a create request between create_run and start
    signals,    \* runs whose producer is about to be told to stop
    forced,     \* runs whose task is to be cancelled once the grace is over
    stopping,   \* _stopping
    up,         \* the process runs
    crashes,    \* shutdowns and crashes so far
    faults,     \* database calls that raised so far
    views       \* the event streams, by client

ASSUME BoundAssumption ==
    /\ Follows \in [Clients -> Runs]
    /\ ReadLimit \in Nat \ {0} /\ MaxPending \in Nat \ {0}
    /\ Retried \in BOOLEAN
    /\ MaxChunks \in Nat /\ MaxBeats \in Nat /\ MaxFaults \in Nat /\ MaxCrashes \in Nat

(* Every run has its chat and its prompt.                                   *)
ASSUME StoreAssumption ==
    /\ ThreadOf \in [Runs -> Threads]
    /\ PromptOf \in [Runs -> Prompts]
    /\ None \notin Runs

ChunksFrom(first, n) == [i \in 1..n |-> [type |-> "chunk", n |-> first + i - 1]]
Batches == {ChunksFrom(first, n) : first \in 1..MaxChunks, n \in 1..MaxChunks}
MaxEvents == 4 + 2 * MaxChunks
Store == INSTANCE ChatGenerationStore

store == <<threads, runs, events, tombstones, messages>>
requests == <<starting, signals, forced>>
process == <<stopping, up, crashes>>
vars == <<store, job, output, orphans, requests, process, faults, views>>

Row(r) == Store!Row(r)
IsActive(r) == Store!IsActive(r)
IsTerminal(r) == Store!IsTerminal(r)

NoJob == [pc |-> "none",        \* the task; none: the run is in no registry
          stop |-> FALSE,       \* cancel_event
          shut |-> FALSE,       \* in _shutdown_runs
          pending |-> <<>>, writing |-> <<>>,   \* chunks, by number
          wtask |-> "none",     \* write_task: none, running, done, failed
          held |-> FALSE,       \* held_cancel
          err |-> FALSE,        \* an in-band error was parsed
          fin |-> FALSE,        \* saw_done or a finish_reason
          opened |-> FALSE,     \* an engine answered
          plan |-> "failed",    \* the status finish_run is called with
          beats |-> 0]
NoView == [pc |-> "idle", cursor |-> 0, seen |-> <<>>, batch |-> <<>>, over |-> FALSE, last |-> 0]

Init ==
    /\ Store!Init
    /\ job = [r \in Runs |-> NoJob]
    /\ output = [r \in Runs |-> 0]
    /\ orphans = [r \in Runs |-> {}]
    /\ starting = None /\ signals = {} /\ forced = {}
    /\ stopping = FALSE /\ up = TRUE /\ crashes = 0
    /\ faults = 0
    /\ views = [c \in Clients |-> NoView]

(* A database call that raises, and one that does not.                      *)
Fault == faults < MaxFaults /\ faults' = faults + 1 /\ UNCHANGED store
Served == UNCHANGED faults

(* A step of the producer of r, at pc.                                      *)
At(r, pc) == job[r].pc = pc /\ UNCHANGED <<output, orphans, requests, process, views>>
Becomes(r, next) == job' = [job EXCEPT ![r] = next]
To(r, pc) == Becomes(r, [job[r] EXCEPT !.pc = pc])
ToFinish(r, plan) == Becomes(r, [job[r] EXCEPT !.pc = "finish", !.plan = plan])
NoCall == UNCHANGED <<store, faults>>

----------------------------------------------------------------------------
(* _produce_run                                                             *)

(* The status of a run that was stopped before its output began.            *)
StoppedStatus(r) == IF job[r].shut THEN "failed" ELSE "cancelled"
(* The status the exception handlers settle on.                             *)
CaughtStatus(r) == IF job[r].stop /\ ~job[r].shut THEN "cancelled" ELSE "failed"

(* get_worker_token; without a token the handlers do not settle the run.    *)
GetToken(r) ==
    /\ At(r, "token")
    /\ \/ /\ UNCHANGED store /\ Served
          /\ IF ~Row(r) THEN To(r, "unwind")
             ELSE IF job[r].stop THEN ToFinish(r, StoppedStatus(r))
             ELSE To(r, "gate")
       \/ Fault /\ To(r, "unwind")

(* activity.start: the wait for the lifecycle gate, which a create request  *)
(* holds, ends with CancelledError when the run is stopped.                 *)
Gate(r) ==
    /\ At(r, "gate") /\ NoCall
    /\ \/ job[r].stop /\ To(r, "caught")
       \/ /\ starting = None
          /\ IF job[r].stop THEN ToFinish(r, StoppedStatus(r)) ELSE To(r, "mark")

(* Variant: whatever the run's status.                                      *)
MarkedAnyway(r) == Row(r) /\ Store!Advance(r, "running", FALSE, FALSE)
Marked(r) == Store!MarkRunning(r)
MarkRunning(r) ==
    /\ At(r, "mark")
    /\ \/ Marked(r) /\ Served /\ To(r, "reread")
       \/ /\ Row(r) /\ ~(runs[r].status = "queued" /\ ~runs[r].cancel)
          /\ NoCall
          /\ To(r, IF runs[r].status = "running" THEN "reread" ELSE "unwind")
       \/ ~Row(r) /\ NoCall /\ To(r, "caught")
       \/ Fault /\ To(r, "caught")

(* get_worker_run, and the check of what it answers.                        *)
Reread(r) ==
    /\ At(r, "reread")
    /\ \/ /\ UNCHANGED store /\ Served
          /\ IF ~Row(r) THEN To(r, "unwind")
             ELSE IF runs[r].status # "running" \/ runs[r].cancel THEN ToFinish(r, "cancelled")
             ELSE To(r, "open")
       \/ Fault /\ To(r, "caught")

(* produce_openai_chat_completions answers a stream, or fails.              *)
Open(r) ==
    /\ job[r].pc = "open" /\ NoCall
    /\ \/ /\ Becomes(r, [job[r] EXCEPT !.pc = "stream", !.opened = TRUE])
          /\ output' = [output EXCEPT ![r] = 0]
       \/ To(r, "caught") /\ UNCHANGED output
    /\ UNCHANGED <<orphans, requests, process, views>>

(* _lease_heartbeat while the run waits and prepares, and the renewals of   *)
(* the stream's keep-alive markers.                                         *)
Renew(r) ==
    /\ At(r, job[r].pc) /\ job[r].pc \in {"gate", "mark", "reread", "open", "stream"}
    /\ runs[r].stale
    /\ job[r].beats < MaxBeats
    /\ Store!TouchProgress(r) /\ Served
    /\ Becomes(r, [job[r] EXCEPT !.beats = @ + 1])

(* The engine yields a chunk: text, the one with the finish_reason, or an   *)
(* in-band error.  Reading pauses while too much is pending.                *)
Reading(r) == job[r].pc = "stream" /\ Len(job[r].pending) < MaxPending
TakeChunk(r, kind) ==
    /\ Reading(r) /\ NoCall
    /\ output[r] < MaxChunks
    /\ output' = [output EXCEPT ![r] = @ + 1]
    /\ Becomes(r, [job[r] EXCEPT !.pending = Append(@, output[r] + 1),
                                 !.fin = @ \/ kind = "final", !.err = @ \/ kind = "error"])
    /\ UNCHANGED <<orphans, requests, process, views>>
(* [DONE], or the end of the stream without it.                             *)
EndStream(r, done) ==
    /\ At(r, "stream") /\ NoCall
    /\ Reading(r)
    /\ Becomes(r, [job[r] EXCEPT !.pc = "drain", !.fin = @ \/ done])
EngineRaises(r) == At(r, "stream") /\ Reading(r) /\ NoCall /\ To(r, "caught")

(* start_write: what is pending is handed to one thread at a time.          *)
StartWrite(r) ==
    /\ At(r, "stream") /\ NoCall
    /\ job[r].pending # <<>> /\ job[r].wtask = "none"
    /\ Becomes(r, [job[r] EXCEPT !.writing = job[r].pending, !.pending = <<>>, !.wtask = "running"])

Chunks(numbers) == [i \in 1..Len(numbers) |-> Store!Chunk(numbers[i])]
(* The thread of append_events.                                             *)
WriteLands(r) ==
    /\ job[r].wtask = "running"
    /\ \/ /\ Row(r) /\ Served
          /\ IF IsActive(r) THEN Store!AppendEvents(r, Chunks(job[r].writing))
                            ELSE UNCHANGED store
          /\ Becomes(r, [job[r] EXCEPT !.wtask = "done"])
       \/ /\ (~Row(r) /\ NoCall) \/ Fault
          /\ Becomes(r, [job[r] EXCEPT !.wtask = "failed"])
    /\ UNCHANGED <<output, orphans, requests, process, views>>

(* Variant: the failed batch is dropped.                                    *)
WriteForgotten(j) == [j EXCEPT !.wtask = "none", !.writing = <<>>]
(* settle_write, once the thread is through: what it failed to write goes   *)
(* back in front of what is pending.                                        *)
WriteSettled(j) ==
    [j EXCEPT !.wtask = "none", !.writing = <<>>,
              !.pending = IF j.wtask = "failed" THEN j.writing \o @ ELSE @]
ObserveWrite(r) ==
    /\ At(r, "stream") /\ NoCall
    /\ job[r].wtask \in {"done", "failed"}
    /\ Becomes(r, [WriteSettled(job[r]) EXCEPT
                    !.pc = IF job[r].wtask = "failed" THEN "caught" ELSE @])
Waited(r) == job[r].wtask # "running"
Drain(r) ==
    /\ At(r, "drain") /\ NoCall
    /\ Waited(r)
    /\ Becomes(r, [WriteSettled(job[r]) EXCEPT
                    !.pc = IF job[r].held \/ job[r].wtask = "failed" THEN "caught" ELSE "status"])

(* get_run after the stream: how the run is to end.                         *)
EndStatus(r) ==
    IF job[r].shut THEN "failed"
    ELSE IF runs[r].cancel \/ (job[r].stop /\ ~job[r].err) THEN "cancelled"
    ELSE IF job[r].err \/ ~job[r].fin THEN "failed"
    ELSE "completed"
ReadStatus(r) ==
    /\ At(r, "status")
    /\ \/ /\ UNCHANGED store /\ Served
          /\ IF Row(r) THEN ToFinish(r, EndStatus(r)) ELSE To(r, "unwind")
       \/ Fault /\ To(r, "caught")

(* finish_run changes nothing when the run has ended or is gone.            *)
CallFinish(r, status, numbers) ==
    IF IsActive(r) THEN Store!FinishRun(r, status, Chunks(numbers)) ELSE UNCHANGED store
Finish(r) ==
    /\ At(r, "finish")
    /\ \/ CallFinish(r, job[r].plan, job[r].pending) /\ Served /\ To(r, "unwind")
       \/ Fault /\ To(r, "caught")

(* The handlers of CancelledError and Exception: the write is waited for,   *)
(* then the run is settled; a failure there leaves it as it is.             *)
Catch(r) ==
    /\ At(r, "caught") /\ NoCall
    /\ Waited(r)
    /\ Becomes(r, [WriteSettled(job[r]) EXCEPT !.pc = "settle", !.plan = CaughtStatus(r)])
SettleCaught(r) ==
    /\ At(r, "settle")
    /\ (CallFinish(r, job[r].plan, job[r].pending) /\ Served) \/ Fault
    /\ To(r, "unwind")

(* The finally block waits for the engine; then _task_done.                 *)
Unwind(r) == At(r, "unwind") /\ NoCall /\ Becomes(r, NoJob)

(* A database call nobody waits for any more.                               *)
Orphan(r) ==
    /\ \E o \in orphans[r] :
        /\ orphans' = [orphans EXCEPT ![r] = @ \ {o}]
        /\ IF o.call = "finish" THEN CallFinish(r, o.status, o.numbers)
           ELSE Store!MarkRunning(r) \/ (~(runs[r].status = "queued" /\ ~runs[r].cancel) /\ UNCHANGED store)
    /\ UNCHANGED <<job, output, requests, process, faults, views>>

----------------------------------------------------------------------------
(* Stopping a producer                                                      *)

(* task.cancel() raises CancelledError at the await the task is at.  The    *)
(* wait for a write holds it; a call that was handed to a thread goes on.   *)
Left(r) ==
    CASE job[r].pc = "mark" -> {[call |-> "mark", status |-> "running", numbers |-> <<>>]}
      [] job[r].pc \in {"finish", "settle"} ->
            {[call |-> "finish", status |-> job[r].plan, numbers |-> job[r].pending]}
      [] OTHER -> {}
Interrupted(j) ==
    CASE j.pc \in {"drain", "caught"} -> [j EXCEPT !.held = TRUE]
      [] j.pc \in {"token", "settle", "unwind"} -> [j EXCEPT !.pc = "unwind"]
      [] OTHER -> [j EXCEPT !.pc = "caught"]
AtAwait(j) == j.pc \in {"drain", "caught"} => j.wtask # "none"

(* _force_cancel_after_grace, and the end of the grace in stop().           *)
ForceCancel(r) ==
    /\ r \in forced \ signals
    /\ forced' = forced \ {r}
    /\ IF job[r].pc = "none"
       THEN UNCHANGED <<job, orphans>>
       ELSE /\ AtAwait(job[r])
            /\ Becomes(r, Interrupted(job[r]))
            /\ orphans' = [orphans EXCEPT ![r] = @ \cup Left(r)]
    /\ UNCHANGED <<store, output, starting, signals, process, faults, views>>

Told(r) == IF job[r].pc = "none" THEN job[r] ELSE [job[r] EXCEPT !.stop = TRUE]
(* cancel: the event of the run's registration is set.                      *)
Signal(r) ==
    /\ r \in signals
    /\ signals' = signals \ {r}
    /\ Becomes(r, Told(r))
    /\ UNCHANGED <<store, output, orphans, starting, forced, process, faults, views>>
(* active_generations.cancel_all, for a model that is loaded or unloaded.   *)
LifecycleCancel(r) ==
    /\ ~job[r].stop /\ job[r].pc # "none"
    /\ Becomes(r, Told(r))
    /\ UNCHANGED <<store, output, orphans, requests, process, faults, views>>

----------------------------------------------------------------------------
(* The routes, the sweeper and the process                                  *)

(* Variant: start does not look for a producer of the run.                  *)
NeverRegistered(r) == FALSE
Registered(r) == job[r].pc # "none"
(* create_chat_generation_run, holding the lifecycle gate: create_run, also *)
(* for the id of a run that is there, then start with the status it read.   *)
Create(r) ==
    /\ up /\ starting = None
    /\ Store!CreateRun(r) \/ (Retried /\ runs[r].status = "queued" /\ UNCHANGED store)
    /\ starting' = r
    /\ UNCHANGED <<job, output, orphans, signals, forced, process, faults, views>>
Start(r) ==
    /\ starting = r
    /\ starting' = None
    /\ IF stopping \/ Registered(r)
       THEN UNCHANGED job
       ELSE Becomes(r, [NoJob EXCEPT !.pc = "token"])
    /\ UNCHANGED <<store, output, orphans, signals, forced, process, faults, views>>

(* cancel_chat_generation_run, and the watch over unattended runs.          *)
RequestCancel(r) ==
    /\ up
    /\ Store!RequestCancel(r) \/ (runs[r].status \in {"cancelling", "cancelled"} /\ UNCHANGED store)
    /\ signals' = signals \cup {r}
    /\ UNCHANGED <<job, output, orphans, starting, forced, process, faults, views>>

(* Variant: the active runs are looked for after the cascade.               *)
StillActiveIn(T) == {r \in Runs : ThreadOf[r] \in T /\ IsActive(r)'}
ActiveIn(T) == {r \in Runs : ThreadOf[r] \in T /\ IsActive(r)}
(* The deletion of chats, which then stops the runs that were active.       *)
DeleteChats(T) ==
    /\ up /\ T \cap threads # {}
    /\ Store!DeleteThreads(T)
    /\ signals' = signals \cup ActiveIn(T)
    /\ UNCHANGED <<job, output, orphans, starting, forced, process, faults, views>>

(* The tab edits or deletes the answer of a run that ended.                 *)
EditAnswer(r) ==
    /\ up
    /\ Store!DetachMessage(r)
    /\ UNCHANGED <<job, output, orphans, requests, process, faults, views>>

LeaseRunsOut(r) ==
    /\ up
    /\ Store!LeaseRunsOut(r)
    /\ UNCHANGED <<job, output, orphans, requests, process, faults, views>>
(* Variant: only runs in progress.                                          *)
StaleRunning == {r \in Runs : runs[r].status = "running" /\ runs[r].stale}
Stale == {r \in Runs : IsActive(r) /\ runs[r].stale}
(* sweep_once, which a failure leaves for the next one.  A sweep that       *)
(* shutdown abandoned may still commit, but nobody stops its producers.     *)
Sweep ==
    /\ up /\ Stale # {}
    /\ \/ /\ Store!ReconcileRuns(Stale) /\ Served
          /\ signals' = IF stopping THEN signals ELSE signals \cup Stale
          /\ forced' = IF stopping THEN forced ELSE forced \cup Stale
       \/ Fault /\ UNCHANGED <<signals, forced>>
    /\ UNCHANGED <<job, output, orphans, starting, process, views>>

(* stop: every task is told to stop, and cancelled when it does not.        *)
Live == {r \in Runs : job[r].pc # "none"}
Stop ==
    /\ up /\ ~stopping /\ crashes < MaxCrashes
    /\ stopping' = TRUE
    /\ crashes' = crashes + 1
    /\ job' = [r \in Runs |-> IF r \in Live THEN [Told(r) EXCEPT !.shut = TRUE] ELSE job[r]]
    /\ forced' = Live
    /\ UNCHANGED <<store, output, orphans, starting, signals, up, faults, views>>

(* The process ends, after a shutdown or by a crash, and the streams break. *)
Exit ==
    /\ up
    /\ \/ stopping /\ UNCHANGED crashes
       \/ ~stopping /\ crashes < MaxCrashes /\ crashes' = crashes + 1
    /\ up' = FALSE /\ stopping' = FALSE
    /\ job' = [r \in Runs |-> NoJob]
    /\ orphans' = [r \in Runs |-> {}]
    /\ starting' = None /\ signals' = {} /\ forced' = {}
    /\ views' = [c \in Clients |->
                    IF views[c].pc \in {"ended", "lost"} THEN views[c]
                    ELSE [NoView EXCEPT !.seen = views[c].seen]]
    /\ UNCHANGED <<store, output, faults>>
(* reconcile_orphaned_runs at boot; its failure is logged.                  *)
Boot ==
    /\ ~up /\ up' = TRUE
    /\ \/ /\ Served
          /\ LET left == {r \in Runs : IsActive(r)}
             IN  IF left = {} THEN UNCHANGED store ELSE Store!ReconcileRuns(left)
       \/ Fault
    /\ UNCHANGED <<job, output, orphans, requests, stopping, crashes, views>>

----------------------------------------------------------------------------
(* chat_generation_events: a follower's stream                              *)

LastSeen(v) == IF v.seen = <<>> THEN 0 ELSE Last(v.seen).seq
(* ORDER BY seq: the i-th of some events is the one with i of them up to it.*)
InOrder(S) ==
    [i \in 1..Cardinality(S) |-> CHOOSE e \in S : Cardinality({d \in S : d.seq <= e.seq}) = i]
Limited(found) == IF Len(found) > ReadLimit THEN SubSeq(found, 1, ReadLimit) ELSE found
(* Variant: from the cursor on, not after it.                               *)
EventsFrom(r, cursor) == Limited(InOrder({e \in events[r] : e.seq >= cursor}))
(* list_events                                                              *)
EventsAfter(r, cursor) == Limited(InOrder({e \in events[r] : e.seq > cursor}))

Follow(c, next) ==
    /\ up
    /\ views' = [views EXCEPT ![c] = next]
    /\ UNCHANGED <<store, job, output, orphans, requests, process, faults>>
(* A client connects, or connects again after the last event it has.        *)
Connect(c) ==
    LET r == Follows[c]
        v == [views[c] EXCEPT !.cursor = LastSeen(views[c])]
    IN  /\ views[c].pc = "idle"
        /\ \/ /\ Row(r)
              /\ Follow(c, [v EXCEPT !.pc = IF IsTerminal(r) /\ v.cursor >= runs[r].last
                                            THEN "ended" ELSE "read"])
           \/ r \in tombstones /\ Follow(c, [v EXCEPT !.pc = "lost"])
(* wait_for_events answers what came after the cursor, or nothing in time.  *)
ReadEvents(c) ==
    /\ views[c].pc = "read"
    /\ Follow(c, [views[c] EXCEPT !.pc = "state",
                                  !.batch = EventsAfter(Follows[c], views[c].cursor)])
(* get_run_state or get_run_frame, after the events.                        *)
ReadState(c) ==
    LET r == Follows[c]
    IN  /\ views[c].pc = "state"
        /\ Follow(c, IF Row(r)
                     THEN [views[c] EXCEPT !.pc = "send", !.over = IsTerminal(r), !.last = runs[r].last]
                     ELSE [views[c] EXCEPT !.pc = "lost", !.batch = <<>>])
(* Variant: past the last event.                                            *)
PastTheEnd(v) == v.over /\ v.cursor > v.last
Delivered(v) == v.over /\ v.cursor >= v.last
Send(c) ==
    LET v == views[c]
    IN  /\ v.pc = "send"
        /\ IF v.batch # <<>>
           THEN Follow(c, [v EXCEPT !.cursor = Head(v.batch).seq, !.batch = Tail(@),
                                    !.seen = Append(@, Head(v.batch))])
           ELSE Follow(c, [v EXCEPT !.pc = IF Delivered(v) THEN "ended" ELSE "read",
                                    !.over = FALSE, !.last = 0])
(* The connection breaks; what was not yet received will be asked for.      *)
Disconnect(c) ==
    /\ views[c].pc \in {"read", "state", "send"}
    /\ Follow(c, [NoView EXCEPT !.seen = views[c].seen])

----------------------------------------------------------------------------
Begin(r) == GetToken(r) \/ Gate(r) \/ MarkRunning(r) \/ Reread(r)
Engine(r) ==
    \/ Open(r) \/ EngineRaises(r)
    \/ \E kind \in {"text", "final", "error"} : TakeChunk(r, kind)
    \/ \E done \in BOOLEAN : EndStream(r, done)
Write(r) == StartWrite(r) \/ WriteLands(r) \/ ObserveWrite(r)
End(r) == Drain(r) \/ ReadStatus(r) \/ Finish(r) \/ Catch(r) \/ SettleCaught(r)
Produce(r) == Begin(r) \/ Engine(r) \/ Renew(r) \/ Write(r) \/ End(r) \/ Unwind(r) \/ Orphan(r)
StopRun(r) == ForceCancel(r) \/ Signal(r) \/ LifecycleCancel(r) \/ RequestCancel(r)
Stream(c) == Connect(c) \/ ReadEvents(c) \/ ReadState(c) \/ Send(c)

Next ==
    \/ \E r \in Runs : Create(r) \/ Start(r) \/ Produce(r) \/ StopRun(r) \/ EditAnswer(r) \/ LeaseRunsOut(r)
    \/ \E T \in SUBSET Threads : DeleteChats(T)
    \/ Sweep \/ Stop \/ Exit \/ Boot
    \/ \E c \in Clients : Stream(c) \/ Disconnect(c)

Spec == Init /\ [][Next]_vars

-----------------------------------------------------------------------------
Job ==
    [pc : {"none", "token", "gate", "mark", "reread", "open", "stream", "drain", "status", "finish",
           "caught", "settle", "unwind"},
     stop : BOOLEAN, shut : BOOLEAN, pending : Seq(1..MaxChunks), writing : Seq(1..MaxChunks),
     wtask : {"none", "running", "done", "failed"}, held : BOOLEAN, err : BOOLEAN, fin : BOOLEAN, opened : BOOLEAN,
     plan : Store!TERMINAL_STATUSES, beats : 0..MaxBeats]

(* Type invariant of the supervisor; the tables have their own.             *)
TypeOK ==
    /\ Store!TypeOK
    /\ job \in [Runs -> Job]
    /\ output \in [Runs -> 0..MaxChunks]
    /\ starting \in Runs \cup {None} /\ signals \subseteq Runs /\ forced \subseteq Runs
    /\ stopping \in BOOLEAN /\ up \in BOOLEAN
    /\ crashes \in 0..MaxCrashes /\ faults \in 0..MaxFaults
    /\ \A c \in Clients :
        /\ views[c].pc \in {"idle", "read", "state", "send", "ended", "lost"}
        /\ Len(views[c].batch) <= ReadLimit

(* Every step of the supervisor, the routes and the sweeper is a            *)
(* transaction of the store or leaves it alone: what the store promises     *)
(* holds here.  (Store!Spec; most steps leave the tables alone, and TLC     *)
(* need not try Store!Next on those.)                                       *)
StoreSpec == Store!Init /\ [][UNCHANGED store \/ Store!Next]_store

ChunkEvents(r) == {e \in events[r] : e.type = "chunk"}

(* The log holds the engine's output in order, with no chunk lost in        *)
(* between and none twice, whatever append failed, was cancelled or was     *)
(* overtaken (start_write, settle_write, finish_run's pending_events).      *)
OutputInOrder ==
    \A r \in Runs : \A e \in ChunkEvents(r) :
        e.n = Cardinality({d \in ChunkEvents(r) : d.seq <= e.seq})

(* A producer that ends its run itself has flushed what it had, also when   *)
(* it was cancelled in the middle of an append or the append failed:        *)
(* settle_write waits for the thread and keeps what it did not write.       *)
NothingLeftBehind ==
    [][\A r \in Runs :
            job[r].opened /\ job[r].pc # "unwind" /\ IsActive(r) /\ IsTerminal(r)' /\ job'[r].pc = "unwind"
            => Cardinality(ChunkEvents(r)') = output[r]]_vars

(* A producer at work for a run that is cancelled, settled by the sweep or  *)
(* deleted has been told to stop once the request returned (cancel_account_ *)
(* run, _cancel_chat_generation_runs, sweep_once).                          *)
StoppedIsTold ==
    \A r \in Runs :
        (job[r].pc \in {"open", "stream"} /\ runs[r].status # "running" /\ r \notin signals)
        => job[r].stop

(* What is known of a producer agrees with its run.                         *)
Consistent == TypeOK /\ StoppedIsTold

(* A follower has the log from its first event on, in order, with nothing   *)
(* missing or repeated over reconnections (_event_cursor, list_events).  A  *)
(* stream that ends as complete has delivered all of it, up to the event    *)
(* that says how the run ended: the state is read after the events, and     *)
(* compared with the cursor (chat_generation_events).                       *)
SeenInOrder(c) ==
    \A i \in 1..Len(views[c].seen) :
        /\ views[c].seen[i].seq = i
        /\ Row(Follows[c]) => views[c].seen[i] \in events[Follows[c]]
SawTheEnd(c) ==
    /\ Last(views[c].seen).type \in Store!TERMINAL_STATUSES
    /\ Row(Follows[c]) => Len(views[c].seen) = runs[Follows[c]].last
FollowerSeesLog ==
    \A c \in Clients : SeenInOrder(c) /\ (views[c].pc = "ended" => SawTheEnd(c))

-----------------------------------------------------------------------------
(* Liveness: the sweeper keeps sweeping, time passes, the process is        *)
(* started again, and the server reads on for its followers.  Nothing is    *)
(* assumed of the engine or the producer, which may hang anywhere.          *)
Fairness ==
    /\ \A r \in Runs : WF_vars(LeaseRunsOut(r))
    /\ WF_vars(Sweep) /\ WF_vars(stopping /\ Exit) /\ WF_vars(Boot)
    /\ \A c \in Clients : WF_vars(ReadEvents(c)) /\ WF_vars(ReadState(c)) /\ WF_vars(Send(c))
FairSpec == Spec /\ Fairness

(* "A run that wedges while this one keeps serving": no run stays active    *)
(* forever, whatever its producer does.                                     *)
RunsEnd == \A r \in Runs : IsActive(r) ~> ~IsActive(r)

(* A follower is not kept waiting forever: its stream ends, or breaks.      *)
FollowersReturn ==
    \A c \in Clients : views[c].pc = "read" ~> views[c].pc \in {"idle", "ended", "lost"}
=============================================================================
