------------------------ MODULE ChatGenerationStore ------------------------
(***************************************************************************)
(* The tables of a durable chat generation: the run, its event log and the  *)
(* assistant message it fills (storage/chat_generation_runs_db.py), with    *)
(* the writes of storage/studio_db.py that may touch them: a tab saving the *)
(* message, and the deletions.  Every operation is one SQLite transaction   *)
(* ("BEGIN IMMEDIATE"), so its guard is the operation's early returns and   *)
(* exceptions.                                                              *)
(*                                                                          *)
(* A run's worker token is drawn when its row is inserted and its id is     *)
(* never inserted again (NeverReused), so "WHERE id=? AND worker_token=?"   *)
(* asks what Row asks: whether the row is still there.                      *)
(*                                                                          *)
(* A definition whose comment begins with "Variant" is the one after it     *)
(* with a mistake in it; no specification uses it.                          *)
(*                                                                          *)
(* Each run has an assistant message of its own; a regenerated answer is    *)
(* another run with the same prompt.  What a message says is what the log   *)
(* says up to its generationSeq, so only the number is kept.                *)
(***************************************************************************)
EXTENDS Integers, FiniteSets, Sequences

CONSTANTS
    Runs,       \* run ids, chosen by the client
    Threads,    \* chats
    Prompts,    \* user messages
    ThreadOf,   \* the chat of a run
    PromptOf,   \* the user message of a run
    Batches,    \* the batches of output a producer may hand over
    MaxEvents   \* bound: output is taken while the log is no longer

ASSUME RunAssumption ==
    /\ ThreadOf \in [Runs -> Threads]
    /\ PromptOf \in [Runs -> Prompts]
    /\ Batches \subseteq Seq([type : {"chunk"}, n : Nat])
    /\ MaxEvents \in Nat

VARIABLES
    threads,    \* chat_threads: the chats that have not been deleted
    runs,       \* chat_generation_runs
    events,     \* chat_generation_events, by run
    tombstones, \* the ids of deleted runs (app_settings)
    messages    \* chat_messages: the assistant message of each run
store == <<threads, runs, events, tombstones, messages>>

ACTIVE_STATUSES == {"queued", "running", "cancelling"}
TERMINAL_STATUSES == {"cancelled", "completed", "failed"}

(* The row of a run: its status, cancel_requested and last_event_seq, and   *)
(* whether its lease has run out: COALESCE(progress_at, started_at,         *)
(* created_at) is older than the lease.                                     *)
NoRow == [status |-> "none", cancel |-> FALSE, last |-> 0, stale |-> FALSE]
(* What a message's metadata says: whether it is serverManaged and names    *)
(* the run, its generationStatus, generationSeq and generationSettled.      *)
Unmanaged == [claim |-> FALSE, status |-> "none", seq |-> 0, settled |-> FALSE]

Row(r) == runs[r].status # "none"
IsActive(r) == runs[r].status \in ACTIVE_STATUSES
IsTerminal(r) == runs[r].status \in TERMINAL_STATUSES

Init ==
    /\ threads = Threads
    /\ runs = [r \in Runs |-> NoRow]
    /\ events = [r \in Runs |-> {}]
    /\ tombstones = {}
    /\ messages = [r \in Runs |-> Unmanaged]

----------------------------------------------------------------------------
(* What the transactions are made of.                                       *)

(* An event of the log: run.created, run.started and the others by the      *)
(* status they report, or the n-th chunk of the engine's output.            *)
Mark(type) == [type |-> type, n |-> 0]
Chunk(n) == [type |-> "chunk", n |-> n]

(* Variant: numbered from last_event_seq on, not after it.                  *)
AppendedFromLast(r, batch) ==
    events[r] \cup {[seq |-> runs[r].last + i - 1, type |-> batch[i].type, n |-> batch[i].n] :
                        i \in 1..Len(batch)}
(* _append_events_locked: the batch takes the numbers after last_event_seq. *)
Appended(r, batch) ==
    events[r] \cup {[seq |-> runs[r].last + i, type |-> batch[i].type, n |-> batch[i].n] :
                        i \in 1..Len(batch)}

(* Variant: the message is left behind.                                     *)
Unsynced(r, status) == messages[r]
(* _sync_assistant_status_locked: the message follows the run's status.     *)
Synced(r, status) ==
    IF messages[r].claim THEN [messages[r] EXCEPT !.status = status] ELSE messages[r]

(* A change of status that stays active, with its event.                    *)
Advance(r, status, cancel, stale) ==
    /\ runs' = [runs EXCEPT ![r] = [status |-> status, cancel |-> cancel,
                                    last |-> @.last + 1, stale |-> stale]]
    /\ events' = [events EXCEPT ![r] = Appended(r, <<Mark(status)>>)]
    /\ messages' = [messages EXCEPT ![r] = Synced(r, status)]
    /\ UNCHANGED <<threads, tombstones>>

(* The runs in S end: the batch, then the terminal event, and the status.   *)
Settle(S, outcome, cancel, batch) ==
    /\ runs' = [r \in Runs |->
            IF r \in S
            THEN [status |-> outcome[r], cancel |-> cancel[r],
                  last |-> runs[r].last + Len(batch) + 1, stale |-> FALSE]
            ELSE runs[r]]
    /\ events' = [r \in Runs |->
            IF r \in S THEN Appended(r, Append(batch, Mark(outcome[r]))) ELSE events[r]]
    /\ messages' = [r \in Runs |-> IF r \in S THEN Synced(r, outcome[r]) ELSE messages[r]]
    /\ UNCHANGED <<threads, tombstones>>

(* The rows of the runs in S go, by a DELETE or a cascade; their events     *)
(* cascade, and the trigger leaves a tombstone for each.                    *)
Drop(S) ==
    /\ runs' = [r \in Runs |-> IF r \in S THEN NoRow ELSE runs[r]]
    /\ events' = [r \in Runs |-> IF r \in S THEN {} ELSE events[r]]
    /\ tombstones' = tombstones \cup {r \in S : Row(r)}

----------------------------------------------------------------------------
(* chat_generation_runs_db                                                  *)

NewId(r) == ~Row(r) /\ r \notin tombstones
ChatIsFree(t) == \A r \in Runs : ThreadOf[r] = t => ~IsActive(r)

(* create_run, when the id is new.  With the id of a row that is there it   *)
(* changes nothing and answers that row.                                    *)
CreateRun(r) ==
    /\ NewId(r)
    /\ ThreadOf[r] \in threads
    /\ ChatIsFree(ThreadOf[r])
    /\ runs' = [runs EXCEPT ![r] = [NoRow EXCEPT !.status = "queued", !.last = 1]]
    /\ events' = [events EXCEPT ![r] = {[seq |-> 1, type |-> "queued", n |-> 0]}]
    /\ messages' = [messages EXCEPT ![r] = [Unmanaged EXCEPT !.claim = TRUE, !.status = "queued"]]
    /\ UNCHANGED <<threads, tombstones>>

(* Variant: whatever became of the run.                                     *)
TakesAnyOutput(r) == Row(r)
TakesOutput(r) == IsActive(r)
(* append_events: a run that has ended takes no more output.                *)
AppendEvents(r, batch) ==
    /\ TakesOutput(r)
    /\ batch # <<>>
    /\ runs' = [runs EXCEPT ![r] = [status |-> @.status, cancel |-> @.cancel,
                                    last |-> @.last + Len(batch), stale |-> FALSE]]
    /\ events' = [events EXCEPT ![r] = Appended(r, batch)]
    /\ UNCHANGED <<threads, tombstones, messages>>

(* mark_running answers TRUE for a run that is running already, and FALSE   *)
(* for any other that is not queued or is to be cancelled.                  *)
MarkRunning(r) ==
    /\ runs[r].status = "queued"
    /\ ~runs[r].cancel
    /\ Advance(r, "running", FALSE, FALSE)

(* request_cancel: a queued run ends at once, a running one is to be ended  *)
(* by its producer.                                                         *)
RequestCancel(r) ==
    \/ /\ runs[r].status = "queued"
       /\ Settle({r}, [s \in {r} |-> "cancelled"], [s \in {r} |-> TRUE], <<>>)
    \/ /\ runs[r].status = "running"
       /\ Advance(r, "cancelling", TRUE, runs[r].stale)

(* Variant: as the producer says.                                           *)
OutcomeAsTold(r, status) == status
Outcome(r, status) == IF runs[r].cancel THEN "cancelled" ELSE status
(* finish_run: only an active run ends, and one whose cancellation was      *)
(* requested ends as cancelled.                                             *)
FinishRun(r, status, batch) ==
    /\ IsActive(r)
    /\ Settle({r}, [s \in {r} |-> Outcome(r, status)], [s \in {r} |-> runs[r].cancel], batch)

ReconciledAs(r) ==
    IF runs[r].status = "cancelling" \/ runs[r].cancel THEN "cancelled" ELSE "failed"
(* reconcile_runs: at boot every active run, in the sweep those whose lease *)
(* has run out.                                                             *)
ReconcileRuns(S) ==
    /\ S # {}
    /\ \A r \in S : IsActive(r)
    /\ Settle(S, [r \in S |-> ReconciledAs(r)], [r \in S |-> runs[r].cancel], <<>>)

(* touch_progress, and the time that passes without it.                     *)
TouchProgress(r) ==
    /\ runs' = [runs EXCEPT ![r].stale = FALSE]
    /\ UNCHANGED <<threads, events, tombstones, messages>>
LeaseRunsOut(r) ==
    /\ IsActive(r)
    /\ ~runs[r].stale
    /\ runs' = [runs EXCEPT ![r].stale = TRUE]
    /\ UNCHANGED <<threads, events, tombstones, messages>>

----------------------------------------------------------------------------
(* studio_db                                                                *)

Rank(status) == CASE status = "queued" -> 0 [] status = "running" -> 1 [] OTHER -> 2

Unsettled(r) == messages[r].claim /\ ~messages[r].settled
(* A tab saves the message of a run it follows; _safe_generation_assistant_ *)
(* update lets it only move forward.  A save that changes nothing is let    *)
(* through and is no step.                                                  *)
SaveMessage(r, status, seq, settled) ==
    /\ Row(r)
    /\ Unsettled(r)
    /\ seq \in messages[r].seq..runs[r].last
    /\ status \in IF IsTerminal(r) THEN {runs[r].status} ELSE ACTIVE_STATUSES
    /\ settled => IsTerminal(r) /\ seq = runs[r].last
    /\ messages[r].status \in TERMINAL_STATUSES => status = messages[r].status
    /\ messages[r].status \in ACTIVE_STATUSES /\ status \in ACTIVE_STATUSES =>
            Rank(messages[r].status) <= Rank(status)
    /\ messages' = [messages EXCEPT ![r] =
            [claim |-> TRUE, status |-> status, seq |-> seq, settled |-> settled]]
    /\ UNCHANGED <<threads, runs, events, tombstones>>

(* delete_chat_threads_in and the clear: the chats' messages and runs       *)
(* cascade.  A deleted chat's id is tombstoned and never comes back.        *)
DeleteThreads(T) ==
    LET gone == {r \in Runs : ThreadOf[r] \in T}
    IN  /\ threads' = threads \ T
        /\ Drop(gone)
        /\ messages' = [r \in Runs |-> IF r \in gone THEN Unmanaged ELSE messages[r]]

(* The answer of a run that ended is edited (_detach_terminal_generation_   *)
(* for_edit) or deleted by name (sync_chat_messages): the run goes.         *)
DetachMessage(r) ==
    /\ IsTerminal(r)
    /\ messages[r].claim
    /\ Drop({r})
    /\ messages' = [messages EXCEPT ![r] = Unmanaged]
    /\ UNCHANGED threads

(* A prompt is deleted by name, which sync_chat_messages allows when it has *)
(* a run that ended and none that is active: its runs cascade, and their    *)
(* answers stay as they were.  The tab may write the prompt again.          *)
DeletePrompt(p) ==
    LET gone == {r \in Runs : PromptOf[r] = p /\ Row(r)}
    IN  /\ gone # {}
        /\ \A r \in gone : IsTerminal(r)
        /\ Drop(gone)
        /\ UNCHANGED <<threads, messages>>

----------------------------------------------------------------------------
(* Any caller may call any operation at any time.                           *)
Next ==
    \/ \E r \in Runs :
        \/ CreateRun(r)
        \/ \E batch \in Batches :
                /\ runs[r].last + Len(batch) <= MaxEvents
                /\ AppendEvents(r, batch)
        \/ MarkRunning(r)
        \/ RequestCancel(r)
        \/ \E status \in TERMINAL_STATUSES, batch \in Batches \cup {<<>>} :
                /\ batch # <<>> => runs[r].last + Len(batch) <= MaxEvents
                /\ FinishRun(r, status, batch)
        \/ LeaseRunsOut(r)
        \/ TouchProgress(r)
        \/ \E status \in ACTIVE_STATUSES \cup TERMINAL_STATUSES,
              seq \in 0..runs[r].last, settled \in BOOLEAN :
                SaveMessage(r, status, seq, settled)
        \/ DetachMessage(r)
    \/ \E S \in SUBSET Runs : ReconcileRuns(S)
    \/ \E T \in SUBSET Threads : T # {} /\ DeleteThreads(T)
    \/ \E p \in Prompts : DeletePrompt(p)

Spec == Init /\ [][Next]_store

----------------------------------------------------------------------------
Statuses == {"none"} \cup ACTIVE_STATUSES \cup TERMINAL_STATUSES
RunRow == [status : Statuses, cancel : BOOLEAN, last : Nat, stale : BOOLEAN]
EventTypes == {"queued", "running", "cancelling", "chunk"} \cup TERMINAL_STATUSES
Event == [seq : Nat, type : EventTypes, n : Nat]
Message == [claim : BOOLEAN, status : Statuses, seq : Nat, settled : BOOLEAN]

(* Type invariant.                                                          *)
TypeOK ==
    /\ threads \subseteq Threads
    /\ runs \in [Runs -> RunRow]
    /\ events \in [Runs -> SUBSET Event]
    /\ tombstones \subseteq Runs
    /\ messages \in [Runs -> Message]

(* The log of a run holds exactly one event for each number up to its       *)
(* last_event_seq, so a follower that asks for what comes after its cursor  *)
(* misses nothing and an insert never meets a number that is taken.         *)
LogGapless ==
    \A r \in Runs :
        /\ {e.seq : e \in events[r]} = 1..runs[r].last
        /\ \A d, e \in events[r] : d.seq = e.seq => d = e

(* The log ends with the run: when the run has ended the last event says    *)
(* how, and no other event of any log is a terminal one.                    *)
LogEndsWithRun ==
    \A r \in Runs : \A e \in events[r] :
        IF IsTerminal(r) /\ e.seq = runs[r].last
        THEN e.type = runs[r].status
        ELSE e.type \notin TERMINAL_STATUSES

(* A chat has one active generation.                                        *)
OneActiveRun ==
    \A r, s \in Runs : r # s /\ ThreadOf[r] = ThreadOf[s] => ~(IsActive(r) /\ IsActive(s))

(* A run whose cancellation was requested ends as cancelled, whoever ends   *)
(* it.                                                                      *)
StopIsHonoured ==
    \A r \in Runs : runs[r].cancel => runs[r].status \in {"cancelling", "cancelled"}

(* While the run is there its message never says more than the log, never   *)
(* lags behind an active run's status, says how the run ended once it has,  *)
(* and is settled only with the whole log in it.                            *)
MessageFollowsRun ==
    \A r \in Runs : Row(r) =>
        /\ messages[r].claim
        /\ messages[r].seq <= runs[r].last
        /\ IsActive(r) => /\ messages[r].status \in ACTIVE_STATUSES
                          /\ Rank(runs[r].status) <= Rank(messages[r].status)
        /\ IsTerminal(r) => messages[r].status = runs[r].status
        /\ messages[r].settled => IsTerminal(r) /\ messages[r].seq = runs[r].last

(* The id of a deleted run never names a run again, so a producer or a tab  *)
(* left over from it cannot write to another.                               *)
NeverReused == \A r \in tombstones : ~Row(r)

(* The tables agree with each other: types, logs, one active run in a chat, *)
(* and ids.                                                                 *)
Consistent == TypeOK /\ LogGapless /\ LogEndsWithRun /\ OneActiveRun /\ NeverReused

(* A row that is there only ever gains events, none once it has ended.      *)
LogOnlyGrows ==
    [][\A r \in Runs : Row(r) /\ Row(r)' =>
            /\ events[r] \subseteq events'[r]
            /\ IsTerminal(r) => runs'[r] = runs[r] /\ events'[r] = events[r]]_store

(* A settled message is not written again: it stays or goes with its run.   *)
SettledIsFinal ==
    [][\A r \in Runs :
            messages[r].settled => messages'[r] \in {messages[r], Unmanaged}]_store

(* What was recorded of a run stays, in its log and in its message.         *)
RecordsStay == LogOnlyGrows /\ SettledIsFinal
=============================================================================
