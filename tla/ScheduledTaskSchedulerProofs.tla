-------------------- MODULE ScheduledTaskSchedulerProofs --------------------
(* Theorems about ScheduledTaskScheduler, for every number of schedulers,   *)
(* accounts, tasks and runs, and any number of calls that fail.             *)
EXTENDS ScheduledTaskScheduler, FiniteSetTheorems, TLAPS

(* The theorems of the store, about this module's tables.                   *)
SP == INSTANCE ScheduledTaskStoreProofs

-----------------------------------------------------------------------------
LEMMA SameType == Store!TypeOK <=> SP!TypeOK
BY DEF Store!TypeOK, Store!Task, Store!Times, Store!Row, Store!RowOK, Store!RunIds, Store!NoRow,
       SP!TypeOK, SP!Task, SP!Times, SP!Row, SP!RowOK, SP!RunIds, SP!NoRow

LEMMA SameCardinality ==
    ASSUME NEW S PROVE Store!Cardinality(S) = Cardinality(S) /\ SP!Cardinality(S) = Cardinality(S)
BY DEF Cardinality, Store!Cardinality, SP!Cardinality

LEMMA SameRequest == Store!Request => SP!Request
BY DEF Store!Cardinality, SP!Cardinality, Store!Request, Store!CreateTask, Store!UpdateTask, Store!DeleteTask, Store!RequestRun,
       Store!Refused, Store!NextFromNow, Store!Live, Store!Active, Store!WithoutChats,
       Store!Deleted, Store!Unborn, Store!NoRow, Store!RunIds,
       SP!Request, SP!CreateTask, SP!UpdateTask, SP!DeleteTask, SP!RequestRun,
       SP!Refused, SP!NextFromNow, SP!Live, SP!Active, SP!WithoutChats,
       SP!Deleted, SP!Unborn, SP!NoRow, SP!RunIds

LEMMA SameChat == Store!Chat => SP!Chat
BY DEF Store!Chat, Store!UpsertChat, Store!SyncChat, Store!DeleteChat, Store!ChatExists,
       Store!WithoutChats, Store!Unlinked, Store!RunIds,
       SP!Chat, SP!UpsertChat, SP!SyncChat, SP!DeleteChat, SP!ChatExists,
       SP!WithoutChats, SP!Unlinked, SP!RunIds

LEMMA SameClaim == Store!Claim => SP!Claim
BY DEF Store!Cardinality, SP!Cardinality, Store!Claim, Store!FailStale, Store!ClaimQueued, Store!ClaimDue, Store!Stale, Store!InAccount,
       Store!Queued, Store!Due, Store!Live, Store!Active, Store!Following, Store!Later,
       Store!Trimmed, Store!Outdated, Store!Finished, Store!Unlinked, Store!WithoutChats,
       Store!NoRow, Store!RunIds,
       SP!Claim, SP!FailStale, SP!ClaimQueued, SP!ClaimDue, SP!Stale, SP!InAccount,
       SP!Queued, SP!Due, SP!Live, SP!Active, SP!Following, SP!Later,
       SP!Trimmed, SP!Outdated, SP!Finished, SP!Unlinked, SP!WithoutChats,
       SP!NoRow, SP!RunIds

LEMMA SameSettle == Store!Settle => SP!Settle
BY DEF Store!Cardinality, SP!Cardinality, Store!Settle, Store!Heartbeat, Store!Requeue, Store!GiveBack, Store!FinishRun, Store!Owns,
       Store!Live, Store!Trimmed, Store!Outdated, Store!Finished, Store!WithoutChats,
       Store!NoRow, Store!RunIds,
       SP!Settle, SP!Heartbeat, SP!Requeue, SP!GiveBack, SP!FinishRun, SP!Owns,
       SP!Live, SP!Trimmed, SP!Outdated, SP!Finished, SP!WithoutChats,
       SP!NoRow, SP!RunIds

(* A transaction keeps the type of the tables.                              *)
LEMMA StoreTypeStep ==
    ASSUME Store!TypeOK, [Store!Next]_Store!vars
    PROVE  Store!TypeOK'
<1>1. [SP!Next]_SP!vars
    BY SameRequest, SameChat, SameClaim, SameSettle
       DEF Store!Next, Store!vars, Store!Tick, SP!Next, SP!vars, SP!Tick
<1>2. SP!TypeOK
    BY SameType
<1>3. SP!TypeOK'
    <2>1. None \notin Nat /\ None \notin Tasks /\ None \notin Workers /\ None # "schedule"
        BY StoreAssumption
    <2>2. AccountOf \in [Tasks -> Accounts]
        BY StoreAssumption
    <2>3. /\ MaxRuns \in Nat
          /\ MaxClock \in Nat
          /\ MaxTasks \in Nat
          /\ HistoryLimit \in Nat \ {0}
        BY StoreAssumption
    <2>4. \A s \in Schedules, after \in 0..MaxClock, anchor \in (0..MaxClock) \cup {None} :
            /\ RunAfter(s, after, anchor) \in SP!Times
            /\ RunAfter(s, after, anchor) # None => RunAfter(s, after, anchor) > after
        BY StoreAssumption DEF SP!Times
    <2> QED
        BY <1>1, <1>2, <2>1, <2>2, <2>3, <2>4, SP!TypeStep
<1>4. Store!TypeOK' <=> SP!TypeOK'
    BY DEF Store!TypeOK, Store!Task, Store!Times, Store!Row, Store!RowOK, Store!RunIds, Store!NoRow,
           SP!TypeOK, SP!Task, SP!Times, SP!Row, SP!RowOK, SP!RunIds, SP!NoRow
<1> QED
    BY <1>3, <1>4

-----------------------------------------------------------------------------
(* What a transaction does to a run, its row and its chat.                  *)

RunIds == Store!RunIds

Same(r) ==
    /\ runs'[r].status = runs[r].status
    /\ runs'[r].worker = runs[r].worker
    /\ runs'[r].task = runs[r].task
Kept(r) == Same(r) /\ runs'[r].thread = runs[r].thread /\ chats'[r] = chats[r]
Unchatted(r) == Same(r) /\ r <= made /\ chats'[r] = "deleted"
Swept(r) ==
    /\ runs[r].status = "running"
    /\ runs'[r].status = "failed"
    /\ runs'[r].task = runs[r].task
    /\ runs'[r].worker = None
    /\ chats'[r] = "deleted"
Dropped(r) ==
    /\ runs[r].status # "none"
    /\ runs'[r] = Store!NoRow
    /\ chats'[r] = IF runs[r].status = "running" THEN "deleted" ELSE chats[r]

(* What may happen to a run that is not in the hand of whoever acts.        *)
Outside(r) == Kept(r) \/ Unchatted(r) \/ Swept(r) \/ Dropped(r)

LEMMA RowFacts ==
    ASSUME Store!TypeOK, NEW r \in RunIds
    PROVE  /\ runs[r] \in Store!Row
           /\ runs[r].status \in {"none", "queued", "running", "succeeded", "failed"}
           /\ runs[r].status = "none" => runs[r] = Store!NoRow
           /\ runs[r].status # "none" => runs[r].task \in Tasks
           /\ runs[r].status = "running" <=> runs[r].worker # None
           /\ chats[r] \in {"none", "empty", "full", "deleted"}
BY DEF RunIds, Store!TypeOK, Store!Row, Store!RowOK

LEMMA TrimmedRow ==
    ASSUME NEW rs, NEW T, NEW r \in RunIds
    PROVE  \/ Store!Trimmed(rs, T)[r] = rs[r]
           \/ Store!Trimmed(rs, T)[r] = Store!NoRow /\ rs[r].status \in {"succeeded", "failed"}
BY DEF RunIds, Store!Trimmed, Store!Outdated, Store!Finished

LEMMA EffectOfFailStale ==
    ASSUME Store!TypeOK, NEW a, NEW before, Store!FailStale(a, before)
    PROVE  made' = made /\ \A r \in RunIds : Outside(r)
<1> DEFINE stale == Store!Stale(a, before)
           failed == [r \in RunIds |->
                  IF r \in stale
                  THEN [runs[r] EXCEPT !.status = "failed", !.worker = None, !.heartbeat = None]
                  ELSE runs[r]]
           rs == Store!Unlinked(failed, stale)
           T == {runs[r].task : r \in stale}
<1>1. /\ runs' = Store!Trimmed(rs, T)
      /\ chats' = Store!WithoutChats(chats, stale)
      /\ made' = made
    BY DEF Store!FailStale, RunIds
<1> SUFFICES ASSUME NEW r \in RunIds PROVE Outside(r)
    BY <1>1
<1>2. CASE r \in stale
    <2>1. runs[r].status = "running" /\ chats'[r] = "deleted"
        BY <1>1, <1>2 DEF Store!Stale, Store!WithoutChats, RunIds
    <2>2. rs[r].status = "failed" /\ rs[r].task = runs[r].task /\ rs[r].worker = None
        BY <1>2, RowFacts DEF Store!Unlinked, RunIds, Store!Row
    <2> QED
        BY <1>1, <2>1, <2>2, TrimmedRow DEF Outside, Swept, Dropped
<1>3. CASE r \notin stale
    <2>1. rs[r] = runs[r] /\ chats'[r] = chats[r]
        BY <1>1, <1>3 DEF Store!Unlinked, Store!WithoutChats, RunIds
    <2> QED
        BY <1>1, <2>1, TrimmedRow DEF Outside, Kept, Same, Dropped
<1> QED
    BY <1>2, <1>3

LEMMA EffectOfDeleteTask ==
    ASSUME Store!TypeOK, NEW t \in Tasks, Store!DeleteTask(t)
    PROVE  made' = made /\ \A r \in RunIds : Outside(r)
<1> SUFFICES ASSUME NEW r \in RunIds PROVE Outside(r)
    BY DEF Store!DeleteTask
<1>1. CASE runs[r].task = t
    <2>1. runs'[r] = Store!NoRow
        BY <1>1 DEF Store!DeleteTask, RunIds
    <2>2. chats'[r] = IF runs[r].status = "running" THEN "deleted" ELSE chats[r]
        BY <1>1 DEF Store!DeleteTask, Store!WithoutChats, RunIds
    <2>3. runs[r].status # "none"
        BY <1>1, RowFacts, StoreAssumption DEF Store!NoRow
    <2> QED
        BY <2>1, <2>2, <2>3 DEF Outside, Dropped
<1>2. CASE runs[r].task # t
    BY <1>2 DEF Store!DeleteTask, Store!WithoutChats, RunIds, Outside, Kept, Same
<1> QED
    BY <1>1, <1>2

LEMMA EffectOfDeleteChat ==
    ASSUME Store!TypeOK, NEW q \in RunIds, q <= made, Store!DeleteChat(q)
    PROVE  /\ made' = made
           /\ Unchatted(q)
           /\ \A r \in RunIds \ {q} : Kept(r)
<1>1. Unchatted(q)
    BY RowFacts DEF Store!DeleteChat, Store!WithoutChats, Store!Unlinked, RunIds, Unchatted, Same, Store!Row
<1>2. ASSUME NEW r \in RunIds \ {q} PROVE Kept(r)
    BY <1>2 DEF Store!DeleteChat, Store!WithoutChats, Store!Unlinked, RunIds, Kept, Same
<1> QED
    BY <1>1, <1>2 DEF Store!DeleteChat

(* Creating and editing tasks, the clock and heartbeats.                    *)
LEMMA EffectOfOthers ==
    ASSUME Store!TypeOK,
           \/ \E t \in Tasks, s \in Schedules, enabled \in BOOLEAN, now \in 0..clock :
                Store!CreateTask(t, s, enabled, now) \/ Store!UpdateTask(t, s, enabled, now)
           \/ \E q \in RunIds, w \in Workers : Store!Heartbeat(q, w)
           \/ Store!Tick
           \/ UNCHANGED store
    PROVE  made' = made /\ \A r \in RunIds : Kept(r)
<1>1. ASSUME NEW q \in RunIds, NEW w \in Workers, Store!Heartbeat(q, w)
      PROVE  made' = made /\ \A r \in RunIds : Kept(r)
    BY <1>1, RowFacts DEF Store!Heartbeat, Store!TypeOK, RunIds, Kept, Same, Store!Row
<1> QED
    BY <1>1 DEF Store!CreateTask, Store!UpdateTask, Store!Tick, store, Kept, Same

LEMMA EffectOfRequestRun ==
    ASSUME Store!TypeOK, NEW t \in Tasks, Store!RequestRun(t)
    PROVE  /\ made + 1 \in RunIds /\ made' = made + 1
           /\ \A r \in RunIds : runs[r].task = t => runs[r].status \notin {"queued", "running"}
           /\ \A r \in RunIds \ {made + 1} : Kept(r)
           /\ runs'[made + 1].status = "queued" /\ runs'[made + 1].task = t
           /\ chats' = chats
<1>1. made + 1 \in RunIds /\ runs \in [RunIds -> Store!Row]
    BY StoreAssumption DEF Store!RequestRun, Store!TypeOK, RunIds, Store!RunIds
<1> QED
    BY <1>1 DEF Store!RequestRun, Store!Active, Store!NoRow, RunIds, Kept, Same

LEMMA EffectOfClaimQueued ==
    ASSUME Store!TypeOK, NEW q, NEW a, NEW w, NEW now, Store!ClaimQueued(q, a, w, now)
    PROVE  /\ q \in RunIds /\ runs[q].status = "queued" /\ runs[q].task \in Tasks
           /\ made' = made /\ chats' = chats
           /\ \A r \in RunIds \ {q} : Kept(r)
           /\ runs'[q].status = "running" /\ runs'[q].worker = w /\ runs'[q].task = runs[q].task
<1>1. q \in RunIds /\ runs[q].status = "queued"
    BY DEF Store!ClaimQueued, Store!Queued, RunIds
<1>2. runs \in [RunIds -> Store!Row]
    BY DEF Store!TypeOK, RunIds
<1> QED
    BY <1>1, <1>2, RowFacts DEF Store!ClaimQueued, Store!Row, Kept, Same

LEMMA EffectOfClaimDue ==
    ASSUME Store!TypeOK, NEW t, NEW a, NEW w, NEW now, Store!ClaimDue(t, a, w, now)
    PROVE  /\ t \in Tasks /\ made + 1 \in RunIds /\ made' = made + 1 /\ chats' = chats
           /\ \A r \in RunIds : runs[r].task = t => runs[r].status \notin {"queued", "running"}
           /\ \A r \in RunIds \ {made + 1} : Kept(r)
           /\ runs'[made + 1].status = "running" /\ runs'[made + 1].worker = w
           /\ runs'[made + 1].task = t
<1>1. made + 1 \in RunIds /\ runs \in [RunIds -> Store!Row]
    BY StoreAssumption DEF Store!ClaimDue, Store!TypeOK, RunIds, Store!RunIds
<1> QED
    BY <1>1 DEF Store!ClaimDue, Store!Due, Store!Live, Store!Active, RunIds, Kept, Same

LEMMA EffectOfRelease ==
    ASSUME Store!TypeOK, NEW q \in RunIds, NEW w \in Workers, NEW next,
           Store!Requeue(q, w) \/ Store!GiveBack(q, w, next)
    PROVE  /\ Store!Owns(w, q)
           /\ made' = made /\ chats' = chats
           /\ \A r \in RunIds \ {q} : Kept(r)
           /\ \/ runs'[q].status = "queued" /\ runs'[q].task = runs[q].task
              \/ runs'[q] = Store!NoRow
           /\ runs'[q].worker = None
<1>1. runs \in [RunIds -> Store!Row] /\ runs[q] \in Store!Row
    BY DEF Store!TypeOK, RunIds
<1>2. CASE Store!Requeue(q, w)
    BY <1>1, <1>2 DEF Store!Requeue, Kept, Same, Store!Row
<1>3. CASE Store!GiveBack(q, w, next)
    <2>1. Store!NoRow.worker = None
        BY DEF Store!NoRow
    <2> QED
        BY <1>1, <1>3, <2>1 DEF Store!GiveBack, Kept, Same
<1> QED
    BY <1>2, <1>3

LEMMA EffectOfSaving ==
    ASSUME Store!TypeOK, NEW q \in RunIds, Store!UpsertChat(q) \/ Store!SyncChat(q)
    PROVE  /\ chats[q] # "deleted" /\ chats'[q] \in {"empty", "full"}
           /\ Store!SyncChat(q) => Store!ChatExists(q) /\ chats'[q] = "full"
           /\ chats[q] = "full" => chats'[q] = "full"
           /\ made' = made /\ runs' = runs
           /\ \A r \in RunIds \ {q} : Kept(r)
<1>1. chats \in [RunIds -> {"none", "empty", "full", "deleted"}]
    BY DEF Store!TypeOK, RunIds
<1> QED
    BY <1>1 DEF Store!UpsertChat, Store!SyncChat, Store!ChatExists, Kept, Same

(* finish_run never trims the run it settles: the newest of its task.       *)
LEMMA EffectOfFinish ==
    ASSUME Store!TypeOK, NEW q \in RunIds, NEW w \in Workers,
           NEW status \in {"succeeded", "failed"}, NEW link \in BOOLEAN, NEW discard \in BOOLEAN,
           Store!FinishRun(q, w, status, link, discard),
           \A r \in RunIds : runs[r].task = runs[q].task => r <= q
    PROVE  /\ Store!Owns(w, q)
           /\ made' = made
           /\ \A r \in RunIds \ {q} : Kept(r) \/ Dropped(r)
           /\ runs'[q].status = status /\ runs'[q].task = runs[q].task /\ runs'[q].worker = None
           /\ runs'[q].thread = (link /\ chats'[q] \in {"empty", "full"})
           /\ chats'[q] = IF discard THEN "deleted" ELSE chats[q]
<1> DEFINE cs == IF discard THEN Store!WithoutChats(chats, {q}) ELSE chats
           row == [runs[q] EXCEPT !.status = status, !.heartbeat = None, !.worker = None,
                                  !.thread = link /\ cs[q] \in {"empty", "full"}]
           rs == [runs EXCEPT ![q] = row]
           t == runs[q].task
<1>1. /\ Store!Owns(w, q)
      /\ chats' = cs
      /\ runs' = Store!Trimmed(rs, {t})
      /\ made' = made
    BY DEF Store!FinishRun
<1>2. /\ chats \in [RunIds -> {"none", "empty", "full", "deleted"}]
      /\ runs \in [RunIds -> Store!Row]
    BY DEF Store!TypeOK, RunIds
<1>3. chats'[q] = IF discard THEN "deleted" ELSE chats[q]
    BY <1>1, <1>2 DEF Store!WithoutChats, RunIds
<1>4. rs[q] = row
    BY <1>2
<1>5. rs[q] = runs'[q]
    <2>1. {r \in Store!Finished(rs, t) : r > q} = {}
        BY <1>2, <1>4 DEF Store!Finished, RunIds, Store!RunIds
    <2>2. Store!Cardinality({}) = 0
        BY SameCardinality, FS_EmptySet
    <2>3. ASSUME q \in Store!Outdated(rs, t) PROVE FALSE
        <3>1. Store!Cardinality({r \in Store!Finished(rs, t) : r > q}) >= HistoryLimit
            BY <2>3 DEF Store!Outdated
        <3>2. 0 >= HistoryLimit
            BY <2>1, <2>2, <3>1
        <3> QED
            BY <3>2, StoreAssumption
    <2> QED
        BY <1>1, <2>3 DEF Store!Trimmed, RunIds
<1>6. /\ row.status = status /\ row.task = runs[q].task /\ row.worker = None
      /\ row.thread = (link /\ cs[q] \in {"empty", "full"})
    BY <1>2 DEF Store!Row
<1>7. ASSUME NEW r \in RunIds \ {q} PROVE Kept(r) \/ Dropped(r)
    <2>1. rs[r] = runs[r] /\ chats'[r] = chats[r]
        BY <1>1, <1>2 DEF Store!WithoutChats, RunIds
    <2>2. \/ runs'[r] = rs[r]
          \/ runs'[r] = Store!NoRow /\ rs[r].status \in {"succeeded", "failed"}
        <3>1. runs' = Store!Trimmed(rs, {t})
            BY <1>1
        <3> HIDE DEF rs, t
        <3> QED
            BY <3>1, TrimmedRow
    <2> QED
        BY <2>1, <2>2 DEF Kept, Same, Dropped
<1> QED
    BY <1>1, <1>3, <1>4, <1>5, <1>6, <1>7

-----------------------------------------------------------------------------
(* The inductive invariant.                                                 *)

(* What a scheduler's positions say of the rest of its state.               *)
Shape(me) ==
    /\ me.pc = "off" <=> me.proc = "off"
    /\ me.pc = "gone" <=> me.proc = "gone"
    /\ me.pc \in {"release", "lastFinish", "ended"} => me.proc \in {"stopping", "cancelled"}
    /\ me.pc \in {"off", "loop", "gone"} => me.run = 0
    /\ me.pc \notin {"off", "loop", "claiming", "ended", "gone"} => me.run # 0
    /\ me.claimer \in {"poll", "swept"} => me.run = 0
    /\ me.claimer = "got" => me.run # 0
    /\ me.claimer # "none" => me.pc \in {"claiming", "ended"} /\ ~me.saving
    /\ me.run # 0 => me.task \in Tasks
    /\ me.saving => me.pc \in {"save", "settle", "discard", "lastFinish", "ended"} /\ me.run # 0
    /\ me.saver # "none" \/ me.outcome = "succeeded" => me.saving
    /\ me.saver = "none" \/ me.outcome = "failed"

(* A run in a scheduler's hand is its own or is over, and what its thread   *)
(* may still write to the run's chat agrees with which of the two it is.    *)
Hand(w, me) ==
    me.run # 0 =>
        /\ me.run <= made
        /\ Store!Owns(w, me.run) \/ runs[me.run].status \in {"none", "succeeded", "failed"}
        /\ ~me.saving => ~Store!ChatExists(me.run)
        /\ me.pc # "ended" \/ me.saver \in {"upsert", "sync", "discard"} =>
               Store!Owns(w, me.run) \/ chats[me.run] = "deleted"
        /\ me.saver = "saved" \/ me.outcome = "succeeded" => chats[me.run] \in {"full", "deleted"}

Mine(w, me) == me \in Scheduler /\ me.now <= clock /\ Shape(me) /\ Hand(w, me)
Schedulers ==
    /\ sched = [w \in Workers |-> sched[w]]
    /\ \A w \in Workers : Mine(w, sched[w])
OneHand == \A v, w \in Workers : sched[v].run = sched[w].run /\ sched[v].run # 0 => v = w

(* Rows and chats there are, and the run in progress is its task's newest.  *)
UnmadeIsEmpty == \A r \in RunIds : r > made => runs[r].status = "none" /\ chats[r] = "none"
ActiveIsNewest ==
    \A q, r \in RunIds :
        runs[r].status \in {"queued", "running"} /\ runs[q].task = runs[r].task => q <= r
QueuedRunHasNoChat == \A r \in RunIds : runs[r].status = "queued" => ~Store!ChatExists(r)
DeadIsNeverDue ==
    \A t \in Tasks : tasks[t].state # "live" => ~tasks[t].enabled /\ tasks[t].next = None
Tables ==
    /\ Store!TypeOK
    /\ DeadIsNeverDue
    /\ UnmadeIsEmpty
    /\ ActiveIsNewest
    /\ QueuedRunHasNoChat
    /\ FailedRunHasNoChat
    /\ SucceededKeepsChat

Others == active \subseteq Accounts /\ cancelling \subseteq [by : Workers, task : Tasks] /\ faults \in 0..MaxFaults

Inv == Tables /\ Schedulers /\ OneHand /\ Others

(* Before any call failed, a scheduler that is there owns at most the run   *)
(* in its hand, and that one no longer once it ended or gave up on it.      *)
Ended(w) ==
    /\ sched[w].tries = 0
    /\ sched[w].pc # "restore" /\ sched[w].swap \in Loading \cup {None}
    /\ sched[w].pc = "claiming" => sched[w].claimer # "none"
    /\ sched[w].pc = "discard" => ~Store!Owns(w, sched[w].run)
    /\ sched[w].proc # "gone" =>
        \A r \in RunIds : Store!Owns(w, r) =>
            sched[w].run = r /\ (sched[w].pc = "ended" => sched[w].claimer = "got")
EndInv == faults = 0 => \A w \in Workers : Ended(w)

UnwantedInv ==
    \A w \in Workers :
        (sched[w].pc \in {"told", "answer"} /\ ~StillWanted(w) /\ [by |-> w, task |-> sched[w].task] \notin cancelling)
        => sched[w].cancel

-----------------------------------------------------------------------------
(* Every step is a transaction of the store, or leaves it alone.            *)

StoreStep == [Store!Next]_Store!vars

LEMMA HandFacts ==
    ASSUME Inv, NEW w \in Workers
    PROVE  /\ sched[w] \in Scheduler
           /\ sched[w].now \in 0..clock
           /\ Shape(sched[w]) /\ Hand(w, sched[w])
           /\ sched[w].run # 0 => sched[w].run \in RunIds /\ sched[w].run \in 1..made
<1>1. Mine(w, sched[w]) /\ Store!TypeOK
    BY DEF Inv, Tables, Schedulers
<1>2. sched[w].now \in 0..MaxClock /\ sched[w].run \in 0..MaxRuns
    BY <1>1 DEF Mine, Scheduler
<1> QED
    BY <1>1, <1>2, StoreAssumption DEF Mine, Hand, Store!TypeOK, RunIds, Store!RunIds

(* A claim is given back with the next run it set, of which the store knows *)
(* that the task has it or has another one.                                 *)
LEMMA GiveBackIsSettle ==
    ASSUME Store!TypeOK, DeadIsNeverDue, NEW q \in RunIds, NEW w \in Workers, NEW next,
           Store!GiveBack(q, w, next)
    PROVE  Store!Settle
<1> DEFINE t == runs[q].task
           known == {tasks[u].next : u \in Store!Live} \cup {None, 0}
           other == IF tasks[t].next = None THEN 0 ELSE None
<1>1. t \in Tasks
    BY RowFacts DEF Store!GiveBack, Store!Owns
<1>2. other \in known /\ other # tasks[t].next
    BY StoreAssumption
<1>3. CASE tasks[t].next = next
    <2>1. next \in known
        BY <1>1, <1>3 DEF Store!Live, DeadIsNeverDue
    <2> QED
        BY <2>1 DEF Store!Settle, RunIds
<1>4. CASE tasks[t].next # next
    <2>1. Store!GiveBack(q, w, other)
        BY <1>2, <1>4 DEF Store!GiveBack
    <2> HIDE DEF other
    <2> QED
        BY <1>2, <2>1 DEF Store!Settle, RunIds
<1> QED
    BY <1>3, <1>4

LEMMA ReleaseIsStore ==
    ASSUME Inv, NEW w \in Workers, sched[w].run # 0, Release(w)
    PROVE  StoreStep
<1>1. sched[w].run \in RunIds /\ Store!TypeOK /\ DeadIsNeverDue
    BY HandFacts DEF Inv, Tables
<1>2. CASE Store!Requeue(sched[w].run, w)
    BY <1>1, <1>2 DEF StoreStep, Store!Next, Store!Settle, RunIds
<1>3. CASE Store!GiveBack(sched[w].run, w, sched[w].next)
    BY <1>1, <1>3, GiveBackIsSettle DEF StoreStep, Store!Next
<1> QED
    BY <1>2, <1>3 DEF Release, Quiet, Fault, StoreStep, store, Store!vars

LEMMA FinishIsStore ==
    ASSUME Inv, NEW w \in Workers, sched[w].run # 0, Finish(w)
    PROVE  Store!Settle
<1>1. sched[w].run \in RunIds /\ sched[w].saving \in BOOLEAN
      /\ sched[w].outcome \in {"succeeded", "failed"}
    BY HandFacts DEF Scheduler
<1> QED
    BY <1>1 DEF Finish, Unsaved, Store!Settle, RunIds

LEMMA PollIsStore ==
    ASSUME Inv, NEW w \in Workers, PollSweep(w) \/ PollQueued(w) \/ PollDue(w)
    PROVE  Store!Claim
<1> DEFINE a == Polled(w)
           now == sched[w].now
<1>1. Store!TypeOK /\ now \in 0..clock /\ clock \in Nat
    BY HandFacts, StoreAssumption DEF Inv, Tables, Store!TypeOK
<1>2. CASE PollSweep(w)
    <2>1. PICK r \in Store!RunIds : /\ runs[r].status = "running"
                                    /\ Store!InAccount(r, a)
                                    /\ runs[r].heartbeat < now - StaleAfter
        BY <1>2 DEF PollSweep, Store!FailStale, Store!Stale, StaleBefore
    <2>2. runs[r].task \in Tasks
        BY <2>1, <1>1, RowFacts DEF RunIds
    <2>3. a \in Accounts
        BY <2>1, <2>2, StoreAssumption DEF Store!InAccount
    <2>4. runs[r].heartbeat \in Nat
        BY <2>1, <1>1 DEF Store!TypeOK, Store!Row, Store!RowOK, Store!Times
    <2>5. now - StaleAfter \in 0..clock
        BY <1>1, <2>1, <2>4, SchedulerAssumption
    <2> QED
        BY <1>2, <2>3, <2>5 DEF PollSweep, StaleBefore, Store!Claim
<1>3. CASE PollQueued(w)
    <2>1. PICK r \in Store!Queued(a) : Store!ClaimQueued(r, a, w, now)
        BY <1>3 DEF PollQueued
    <2>2. r \in Store!RunIds /\ runs[r].task \in Tasks /\ AccountOf[runs[r].task] = a
        BY <1>1, RowFacts DEF Store!Queued, Store!InAccount, RunIds
    <2>3. a \in Accounts
        BY <2>2, StoreAssumption
    <2> QED
        BY <1>1, <2>1, <2>2, <2>3 DEF Store!Claim
<1>4. CASE PollDue(w)
    <2>1. PICK t \in Store!Due(a, now) : Store!ClaimDue(t, a, w, now)
        BY <1>4 DEF PollDue
    <2>2. t \in Tasks /\ a \in Accounts
        BY StoreAssumption DEF Store!Due, Store!Live
    <2> QED
        BY <1>1, <2>1, <2>2 DEF Store!Claim
<1> QED
    BY <1>2, <1>3, <1>4

LEMMA SaveIsStore ==
    ASSUME Inv, NEW w \in Workers, Save(w)
    PROVE  StoreStep
<1>1. CASE sched[w].saver = "none"
    BY <1>1 DEF Save, SaverUpserts, SaverSyncs, SaverDiscards
<1>2. CASE sched[w].saver # "none"
    <2>1. sched[w].run \in 1..made
        BY <1>2, HandFacts DEF Shape
    <2> QED
        BY <2>1 DEF Save, SaverUpserts, SaverSyncs, SaverDiscards, StoreStep, Store!Next, Store!Chat,
                    Quiet, Fault, store, Store!vars
<1> QED
    BY <1>1, <1>2

LEMMA RequestIsStore ==
    ASSUME Inv, Requests \/ Tick
    PROVE  StoreStep
<1>1. Store!TypeOK /\ clock \in 0..clock
    BY StoreAssumption DEF Inv, Tables, Store!TypeOK
<1>2. ASSUME NEW r \in Store!RunIds, Store!ChatExists(r), Store!DeleteChat(r) PROVE StoreStep
    <2>1. r \in 1..made
        BY <1>1, <1>2, StoreAssumption
           DEF Inv, Tables, UnmadeIsEmpty, RunIds, Store!ChatExists, Store!TypeOK, Store!RunIds
    <2> QED
        BY <1>2, <2>1 DEF StoreStep, Store!Next, Store!Chat
<1>3. CASE Requests
    BY <1>1, <1>2, <1>3
       DEF Requests, EditTasks, RunNow, DeleteChat, DeleteTask, DisableAccount, EnableAccount, CancelRun,
           StoreStep, Store!Next, Store!Request, store, Store!vars
<1> QED
    BY <1>3 DEF Tick, StoreStep, Store!Next

LEMMA EveryStepIsStore ==
    ASSUME Inv, [Next]_vars
    PROVE  StoreStep
<1>1. ASSUME NEW w \in Workers, Work(w) \/ Heartbeat(w) \/ Stop(w) \/ Exit(w) PROVE StoreStep
    <2>1. Shape(sched[w]) /\ (sched[w].run # 0 => sched[w].run \in RunIds /\ sched[w].run \in 1..made)
        BY HandFacts
    <2>2. CASE PollSweep(w) \/ PollQueued(w) \/ PollDue(w)
        BY <2>2, PollIsStore DEF StoreStep, Store!Next
    <2>3. CASE Save(w)
        BY <2>3, SaveIsStore
    <2>4. CASE ClaimerReleases(w) \/ GiveClaimBack(w)
        BY <2>1, <2>4, ReleaseIsStore DEF ClaimerReleases, GiveClaimBack, Shape
    <2>5. CASE Settle(w) \/ LastFinish(w)
        <3>1. sched[w].run # 0
            BY <2>1, <2>5 DEF Settle, LastFinish, Shape
        <3> QED
            BY <2>5, <3>1, FinishIsStore
               DEF Settle, LastFinish, StoreStep, Store!Next, Quiet, Fault, store, Store!vars
    <2>6. CASE Discard(w)
        BY <2>1, <2>6 DEF Discard, Shape, StoreStep, Store!Next, Store!Chat, Fault, store, Store!vars
    <2>7. CASE Heartbeat(w)
        <3>1. sched[w].run \in Store!RunIds
            BY <2>1, <2>7 DEF Heartbeat, IsActive, Executing, Shape, RunIds
        <3> QED
            BY <2>7, <3>1 DEF Heartbeat, StoreStep, Store!Next, Store!Settle
    <2> QED
        BY <1>1, <2>2, <2>3, <2>4, <2>5, <2>6, <2>7
           DEF Work, Pass, Execute, Shutdown, Start, BeginPass, PassEmpty, PollNothing, PollFails,
               ClaimerReturns, Idle, TakeClaim, RestoreSwap, CheckWanted, BeginAnswer, Answer, NoAnswer,
               CheckTask, CheckFails, TakeSaved, NotSettled, SettleFails, EndLoop, CancelLoop,
               Stop, Exit, Quiet, Fault, StoreStep, store, Store!vars
<1> QED
    BY <1>1, RequestIsStore DEF Next, vars, StoreStep, store, Store!vars

(* No step brings a task that is not live a next run.                       *)
LEMMA DeadStep ==
    ASSUME Store!TypeOK, DeadIsNeverDue, StoreStep
    PROVE  DeadIsNeverDue'
<1> tasks \in [Tasks -> Store!Task]
    BY DEF Store!TypeOK
<1>1. ASSUME NEW t \in Tasks, NEW row, tasks' = [tasks EXCEPT ![t] = row],
             row.state = "live" \/ row = Store!Deleted
      PROVE  DeadIsNeverDue'
    BY <1>1 DEF DeadIsNeverDue, Store!Deleted, Store!Unborn
<1>2. ASSUME NEW t \in Tasks, NEW next, tasks' = [tasks EXCEPT ![t].next = next],
             tasks[t].state = "live" \/ next = tasks[t].next
      PROVE  DeadIsNeverDue'
    <2>1. ASSUME NEW u \in Tasks
          PROVE  /\ tasks'[u].state = tasks[u].state /\ tasks'[u].enabled = tasks[u].enabled
                 /\ tasks'[u].next = tasks[u].next \/ tasks[u].state = "live"
        BY <1>2 DEF Store!Task
    <2> QED
        BY <2>1 DEF DeadIsNeverDue
<1>3. CASE UNCHANGED tasks
    BY <1>3 DEF DeadIsNeverDue
<1>4. CASE Store!Request
    <2>1. PICK t \in Tasks :
            \/ \E s \in Schedules, enabled \in BOOLEAN, now \in 0..clock :
                  Store!CreateTask(t, s, enabled, now) \/ Store!UpdateTask(t, s, enabled, now)
            \/ Store!DeleteTask(t)
            \/ Store!RequestRun(t)
        BY <1>4 DEF Store!Request
    <2>2. ASSUME NEW s, NEW enabled, NEW now,
                 Store!CreateTask(t, s, enabled, now) \/ Store!UpdateTask(t, s, enabled, now)
          PROVE  DeadIsNeverDue'
        <3>1. \E row : tasks' = [tasks EXCEPT ![t] = row] /\ row.state = "live"
            BY <2>2 DEF Store!CreateTask, Store!UpdateTask
        <3> QED
            BY <1>1, <3>1
    <2> QED
        BY <1>1, <1>3, <2>1, <2>2 DEF Store!DeleteTask, Store!RequestRun
<1>5. ASSUME NEW t, NEW a, NEW w, NEW now, Store!ClaimDue(t, a, w, now) PROVE DeadIsNeverDue'
    <2>1. t \in Tasks /\ tasks[t].state = "live"
        BY <1>5 DEF Store!ClaimDue, Store!Due, Store!Live
    <2> QED
        BY <1>2, <1>5, <2>1 DEF Store!ClaimDue
<1>6. ASSUME NEW q \in RunIds, NEW w \in Workers, NEW next, Store!GiveBack(q, w, next)
      PROVE  DeadIsNeverDue'
    <2> DEFINE t == runs[q].task
    <2>1. t \in Tasks
        BY <1>6, RowFacts DEF Store!GiveBack, Store!Owns
    <2>2. CASE tasks[t].enabled /\ tasks[t].next = next
        <3>1. tasks' = [tasks EXCEPT ![t].next = runs[q].scheduledFor] /\ tasks[t].state = "live"
            BY <1>6, <2>1, <2>2 DEF Store!GiveBack, DeadIsNeverDue
        <3> QED
            BY <1>2, <2>1, <3>1
    <2>3. CASE ~(tasks[t].enabled /\ tasks[t].next = next)
        <3>1. tasks' = [tasks EXCEPT ![t].next = tasks[t].next]
            BY <1>6, <2>3 DEF Store!GiveBack
        <3> QED
            BY <1>2, <2>1, <3>1
    <2> QED
        BY <2>2, <2>3
<1>7. CASE Store!Claim
    BY <1>3, <1>5, <1>7 DEF Store!Claim, Store!FailStale, Store!ClaimQueued
<1>8. CASE Store!Settle
    BY <1>3, <1>6, <1>8 DEF Store!Settle, Store!Heartbeat, Store!Requeue, Store!FinishRun, RunIds
<1> QED
    BY <1>3, <1>4, <1>7, <1>8
       DEF StoreStep, Store!Next, Store!Chat, Store!UpsertChat, Store!SyncChat, Store!DeleteChat,
           Store!Tick, Store!vars

-----------------------------------------------------------------------------
(* What the steps of a scheduler do to the runs, in its hand or not.        *)

Saved(r) ==
    /\ Same(r) /\ runs'[r].thread = runs[r].thread
    /\ runs[r].status = "running"
    /\ chats'[r] \in {"empty", "full"}
Returned(r) ==
    /\ runs[r].status = "running" /\ ~Store!ChatExists(r)
    /\ chats'[r] = chats[r]
    /\ \/ runs'[r].status = "queued" /\ runs'[r].task = runs[r].task
       \/ runs'[r] = Store!NoRow
Settled(r) ==
    /\ runs[r].status = "running" /\ runs'[r].task = runs[r].task
    /\ \/ /\ runs'[r].status = "succeeded"
          /\ chats'[r] = "deleted" \/ (chats'[r] = "full" /\ runs'[r].thread)
       \/ runs'[r].status = "failed" /\ chats'[r] \notin {"empty", "full"}
InHand(r) == \E w \in Workers : runs'[r].worker = w /\ sched'[w].run = r /\ sched'[w].claimer = "got"
Taken(r) ==
    /\ InHand(r)
    /\ runs[r].status = "queued" /\ runs'[r].status = "running"
    /\ runs'[r].task = runs[r].task /\ chats'[r] = chats[r]
Made(r) ==
    /\ runs'[r].status = "running" => InHand(r)
    /\ r \in RunIds /\ r = made + 1 /\ made' = made + 1
    /\ runs'[r].status \in {"queued", "running"} /\ runs'[r].task \in Tasks
    /\ \A q \in RunIds : runs[q].task = runs'[r].task => runs[q].status \notin {"queued", "running"}
    /\ chats'[r] = chats[r]

Moves(r) == Outside(r) \/ Saved(r) \/ Returned(r) \/ Settled(r) \/ Taken(r) \/ Made(r)
AllMove == (\A r \in RunIds : Moves(r)) /\ (made' = made \/ Made(made + 1))

LEMMA TablesStep ==
    ASSUME Tables, AllMove, Store!TypeOK', DeadIsNeverDue'
    PROVE  Tables'
<1>1. made \in 0..MaxRuns /\ made' >= made /\ made' \in 0..MaxRuns /\ RunIds \subseteq Nat
    BY StoreAssumption DEF Tables, Store!TypeOK, AllMove, Made, RunIds, Store!RunIds
<1>2. ASSUME NEW r \in RunIds, r > made' PROVE runs'[r].status = "none" /\ chats'[r] = "none"
    <2>1. runs[r].status = "none" /\ chats[r] = "none"
        BY <1>1, <1>2 DEF Tables, UnmadeIsEmpty
    <2> QED
        BY <1>1, <1>2, <2>1
           DEF AllMove, Moves, Outside, Kept, Same, Unchatted, Swept, Dropped, Saved, Returned, Settled, Taken, Made
<1>3. ASSUME NEW r \in RunIds, runs'[r].status = "queued" PROVE ~Store!ChatExists(r)'
    BY <1>1, <1>3
       DEF AllMove, Moves, Outside, Kept, Same, Unchatted, Swept, Dropped, Saved, Returned, Settled, Taken,
           Made, Tables, QueuedRunHasNoChat, UnmadeIsEmpty, Store!ChatExists, Store!NoRow
<1>4. ASSUME NEW r \in RunIds, runs'[r].status = "failed" PROVE ~Store!ChatExists(r)'
    BY <1>1, <1>4
       DEF AllMove, Moves, Outside, Kept, Same, Unchatted, Swept, Dropped, Saved, Returned, Settled, Taken,
           Made, Tables, FailedRunHasNoChat, RunIds, Store!ChatExists, Store!NoRow
<1>5. ASSUME NEW r \in RunIds, runs'[r].status = "succeeded"
      PROVE  chats'[r] = "deleted" \/ (chats'[r] = "full" /\ runs'[r].thread)
    BY <1>1, <1>5
       DEF AllMove, Moves, Outside, Kept, Same, Unchatted, Swept, Dropped, Saved, Returned, Settled, Taken,
           Made, Tables, SucceededKeepsChat, RunIds, Store!NoRow
<1>6. ASSUME NEW q \in RunIds, NEW r \in RunIds,
             runs'[r].status \in {"queued", "running"}, runs'[q].task = runs'[r].task
      PROVE  q <= r
    <2>1. ASSUME NEW x \in RunIds PROVE Made(x) \/ runs'[x].task = runs[x].task \/ runs'[x].task = None
        BY DEF AllMove, Moves, Outside, Kept, Same, Unchatted, Swept, Dropped, Saved, Returned, Settled, Taken,
               Store!NoRow
    <2>2. runs'[r].task \in Tasks /\ runs'[r].task # None
        BY <1>6, StoreAssumption DEF Store!TypeOK, Store!Row, Store!RowOK, RunIds
    <2>3. ~Made(r) => runs[r].status \in {"queued", "running"}
        BY <1>6 DEF AllMove, Moves, Outside, Kept, Same, Unchatted, Swept, Dropped, Saved, Returned, Settled,
                    Taken, Store!NoRow
    <2>4. CASE Made(r)
        <3>1. runs'[q].status # "none"
            BY <1>6, <2>2 DEF Store!TypeOK, Store!RowOK, Store!NoRow, RunIds
        <3> QED
            BY <1>1, <1>2, <2>4, <3>1 DEF Made
    <2>5. CASE ~Made(r) /\ Made(q)
        BY <1>6, <2>1, <2>2, <2>3, <2>5 DEF Made
    <2>6. CASE ~Made(r) /\ ~Made(q)
        BY <1>6, <2>1, <2>2, <2>3, <2>6 DEF Tables, ActiveIsNewest
    <2> QED
        BY <2>4, <2>5, <2>6
<1> QED
    BY <1>2, <1>3, <1>4, <1>5, <1>6
       DEF Tables, UnmadeIsEmpty, ActiveIsNewest, QueuedRunHasNoChat, FailedRunHasNoChat,
           SucceededKeepsChat, RunIds

(* The type of a scheduler, with a name for the values of each field: the   *)
(* provers would enumerate the sets that are written out.                   *)
Procs == {"off", "up", "stopping", "cancelled", "gone"}
Pcs == {"off", "loop", "claiming", "release", "restore", "wanted", "told", "answer", "check",
        "save", "settle", "discard", "lastFinish", "ended", "gone"}
Claimers == {"none", "poll", "swept", "got", "back"}
Savers == {"none", "upsert", "sync", "discard", "saved", "raised"}
Outcomes == {"failed", "succeeded"}
Nows == 0..MaxClock
Hands == 0..MaxRuns
SomeTask == Tasks \cup {None}
Nexts == Nat \cup {None}
Attempts == 0..(SettleAttempts - 1)
SomeAccount == Accounts \cup {None}

LEMMA SchedulerSet ==
    Scheduler = [proc : Procs, pc : Pcs, claimer : Claimers, saver : Savers, now : Nows,
                 todo : SUBSET Accounts, run : Hands, task : SomeTask, next : Nexts,
                 cancel : BOOLEAN, saving : BOOLEAN, outcome : Outcomes, tries : Attempts,
                 swap : SomeAccount, last : SomeAccount]
BY DEF Scheduler, Procs, Pcs, Claimers, Savers, Outcomes, Nows, Hands, SomeTask, Nexts, Attempts,
       SomeAccount

(* A scheduler's hand stays as it should be whatever others do.             *)
LEMMA HandStays ==
    ASSUME NEW w, NEW me, Hand(w, me), me.run # 0 => Outside(me.run),
           me.run \in Nat, made \in Nat, made' \in Nat, made' >= made
    PROVE  Hand(w, me)'
<1> SUFFICES ASSUME me.run # 0 PROVE Hand(w, me)'
    BY DEF Hand
<1> DEFINE r == me.run
<1>1. /\ Outside(r) /\ r <= made /\ r <= made'
      /\ Store!Owns(w, r) \/ runs[r].status \in {"none", "succeeded", "failed"}
      /\ ~me.saving => ~Store!ChatExists(r)
      /\ me.pc # "ended" \/ me.saver \in {"upsert", "sync", "discard"} => Store!Owns(w, r) \/ chats[r] = "deleted"
      /\ me.saver = "saved" \/ me.outcome = "succeeded" => chats[r] \in {"full", "deleted"}
    BY DEF Hand
<1>2. /\ Store!Owns(w, r)' \/ runs'[r].status \in {"none", "succeeded", "failed"}
      /\ ~me.saving => ~Store!ChatExists(r)'
      /\ me.pc # "ended" \/ me.saver \in {"upsert", "sync", "discard"} => Store!Owns(w, r)' \/ chats'[r] = "deleted"
      /\ me.saver = "saved" \/ me.outcome = "succeeded" => chats'[r] \in {"full", "deleted"}
    BY <1>1 DEF Outside, Kept, Same, Unchatted, Swept, Dropped, Store!Owns, Store!ChatExists, Store!NoRow
<1> QED
    BY <1>1, <1>2 DEF Hand

LEMMA MineStays ==
    ASSUME Inv, NEW w \in Workers, NEW cancel \in BOOLEAN,
           \/ sched'[w] = sched[w]
           \/ sched'[w] = [sched[w] EXCEPT !.cancel = cancel],
           clock' >= clock, made' >= made, Store!TypeOK', sched[w].run # 0 => Outside(sched[w].run)
    PROVE  Mine(w, sched[w])' /\ sched'[w].run = sched[w].run
<1>1. PICK old : old = sched[w]
    OBVIOUS
<1>2. PICK new : new = sched'[w]
    OBVIOUS
<1>3. old \in Scheduler /\ Shape(old) /\ Hand(w, old) /\ old.now \in 0..clock
    BY <1>1, HandFacts
<1>4. /\ new \in Scheduler
      /\ new.run = old.run /\ new.now = old.now /\ new.saver = old.saver /\ new.saving = old.saving
      /\ new.outcome = old.outcome /\ new.pc = old.pc /\ new.proc = old.proc
      /\ new.claimer = old.claimer /\ new.task = old.task
    BY <1>1, <1>2, <1>3, SchedulerSet
<1>5. clock \in Nat /\ clock' \in Nat /\ made \in Nat /\ made' \in Nat /\ old.run \in Nat
    BY <1>3, StoreAssumption DEF Inv, Tables, Store!TypeOK, Scheduler
<1>6. Hand(w, old)'
    BY <1>1, <1>3, <1>5, HandStays
<1>7. Hand(w, new)'
    BY <1>4, <1>6 DEF Hand
<1>8. Shape(new) /\ new.now <= clock'
    BY <1>3, <1>4, <1>5 DEF Shape
<1> QED
    BY <1>1, <1>2, <1>4, <1>7, <1>8 DEF Mine, Hand, Shape

(* A step of one scheduler: what it may do, to its own run and to others'.  *)
Step(w) ==
    /\ AllMove
    /\ \A r \in RunIds : Outside(r) \/ r = sched[w].run \/ runs[r].status = "queued" \/ r > made
    /\ sched' = [sched EXCEPT ![w] = sched'[w]]
    /\ Mine(w, sched[w])'
    /\ \/ sched'[w].run \in {0, sched[w].run}
       \/ runs[sched'[w].run].status = "queued"
       \/ sched'[w].run > made
    /\ clock' = clock

LEMMA StepKeepsInv ==
    ASSUME Inv, NEW w \in Workers, Step(w), Store!TypeOK', DeadIsNeverDue', Others'
    PROVE  Inv'
<1>1. Tables'
    BY TablesStep DEF Inv, Step
<1>2. made' >= made /\ clock' >= clock /\ clock \in Nat
    BY StoreAssumption DEF Inv, Tables, Store!TypeOK, Step, AllMove, Made
<1>3. sched = [v \in Workers |-> sched[v]]
    BY DEF Inv, Schedulers
<1>4. ASSUME NEW v \in Workers, sched[v].run # 0
      PROVE  sched[v].run \in RunIds /\ sched[v].run <= made /\ runs[sched[v].run].status # "queued"
    BY <1>4, HandFacts DEF Hand, Store!Owns
<1>5. ASSUME NEW v \in Workers \ {w} PROVE sched'[v] = sched[v] /\ Mine(v, sched[v])'
    <2>1. sched'[v] = sched[v]
        BY <1>3 DEF Step
    <2>2. sched[v].run # 0 => Outside(sched[v].run)
        <3> SUFFICES ASSUME sched[v].run # 0 PROVE Outside(sched[v].run)
            OBVIOUS
        <3>1. sched[v].run # sched[w].run
            BY DEF Inv, OneHand
        <3>2. ~(sched[v].run > made)
            BY <1>4, StoreAssumption DEF Inv, Tables, Store!TypeOK, RunIds, Store!RunIds
        <3> QED
            BY <1>4, <3>1, <3>2 DEF Step
    <2> QED
        BY <1>2, <2>1, <2>2, MineStays
<1>6. OneHand'
    <2> SUFFICES ASSUME NEW v \in Workers \ {w}, sched[v].run = sched'[w].run, sched[v].run # 0 PROVE FALSE
        BY <1>5 DEF Inv, OneHand
    <2>1. sched[v].run # sched[w].run
        BY DEF Inv, OneHand
    <2>2. ~(sched[v].run > made)
        BY <1>4, StoreAssumption DEF Inv, Tables, Store!TypeOK, RunIds, Store!RunIds
    <2> QED
        BY <1>4, <2>1, <2>2 DEF Step
<1>7. Schedulers'
    <2>1. sched' = [v \in Workers |-> sched'[v]]
        BY <1>3 DEF Step
    <2>2. ASSUME NEW v \in Workers PROVE Mine(v, sched[v])'
        BY <1>5 DEF Step
    <2> QED
        BY <2>1, <2>2 DEF Schedulers
<1> QED
    BY <1>1, <1>6, <1>7 DEF Inv

(* A step that leaves the tables alone.                                     *)
LEMMA QuietStep ==
    ASSUME Inv, NEW w \in Workers, UNCHANGED store, NEW me, Only(w, me), Mine(w, me),
           me.run \in {0, sched[w].run}
    PROVE  Step(w)
<1>1. sched'[w] = me /\ sched' = [sched EXCEPT ![w] = sched'[w]]
    BY DEF Only, Inv, Schedulers
<1>2. \A r \in RunIds : Kept(r)
    BY DEF Kept, Same, store
<1>3. Mine(w, sched[w])'
    BY <1>1 DEF Mine, Hand, Store!Owns, Store!ChatExists, store
<1> QED
    BY <1>1, <1>2, <1>3 DEF Step, AllMove, Moves, Outside, store

(* A scheduler with nothing in hand: off, between two runs, or gone.        *)
LEMMA OffFields ==
    /\ Off \in Scheduler
    /\ Off.run = 0 /\ Off.now = 0 /\ ~Off.saving /\ Off.saver = "none" /\ Off.outcome = "failed"
    /\ Off.claimer = "none" /\ Off.swap = None /\ Off.last = None /\ Off.proc = "off" /\ Off.pc = "off"
    /\ Off.tries = 0 /\ ~Off.cancel
BY SchedulerAssumption, StoreAssumption DEF Off, Scheduler

Idling(proc, pc) ==
    \/ proc = "off" /\ pc = "off"
    \/ proc \in {"up", "stopping", "cancelled"} /\ pc = "loop"
    \/ proc \in {"stopping", "cancelled"} /\ pc = "ended"
    \/ proc = "gone" /\ pc = "gone"

OffAt(proc, pc, swap, last) ==
    [Off EXCEPT !.proc = proc, !.pc = pc, !.swap = swap, !.last = last]

LEMMA OffIsMine ==
    ASSUME NEW w, NEW proc, NEW pc, NEW swap \in SomeAccount, NEW last \in SomeAccount,
           Idling(proc, pc), clock \in Nat
    PROVE  /\ Mine(w, OffAt(proc, pc, swap, last))
           /\ OffAt(proc, pc, swap, last).run = 0
           /\ OffAt(proc, pc, swap, last).proc = proc
           /\ OffAt(proc, pc, swap, last).pc = pc
           /\ OffAt(proc, pc, swap, last).swap = swap
           /\ OffAt(proc, pc, swap, last).tries = 0
<1> DEFINE me == OffAt(proc, pc, swap, last)
<1>1. proc \in Procs /\ pc \in Pcs
    BY DEF Idling, Procs, Pcs
<1>2. /\ me \in Scheduler
      /\ me.proc = proc /\ me.pc = pc /\ me.swap = swap
      /\ me.run = 0 /\ me.now = 0 /\ ~me.saving /\ me.saver = "none" /\ me.outcome = "failed"
      /\ me.claimer = "none" /\ me.tries = 0
    <2>1. /\ me \in Scheduler
          /\ me.proc = proc /\ me.pc = pc /\ me.swap = swap
          /\ me.run = Off.run /\ me.now = Off.now /\ me.saving = Off.saving
          /\ me.saver = Off.saver /\ me.outcome = Off.outcome /\ me.claimer = Off.claimer
          /\ me.tries = Off.tries
        BY <1>1, OffFields, SchedulerSet DEF OffAt
    <2> QED
        BY <2>1, OffFields
<1>3. Mine(w, me)
    <2> HIDE DEF me
    <2>1. Shape(me)
        BY <1>2 DEF Shape, Idling
    <2>2. me.now <= clock /\ Hand(w, me)
        BY <1>2 DEF Hand
    <2> QED
        BY <1>2, <2>1, <2>2 DEF Mine
<1> QED
    BY <1>2, <1>3

-----------------------------------------------------------------------------
(* The steps of a scheduler that leave the tables alone.                    *)

LEMMA MineFacts ==
    ASSUME Inv, NEW w \in Workers
    PROVE  /\ Mine(w, sched[w]) /\ sched[w] \in Scheduler
           /\ clock \in Nat /\ clock \in 0..MaxClock /\ clock <= clock
BY StoreAssumption DEF Inv, Tables, Schedulers, Store!TypeOK, Mine

(* How the steps write such a scheduler.                                    *)
LEMMA OffForms ==
    ASSUME NEW w
    PROVE  /\ [Off EXCEPT !.proc = "up", !.pc = "loop"] = OffAt("up", "loop", None, None)
           /\ [Off EXCEPT !.proc = "gone", !.pc = "gone"] = OffAt("gone", "gone", None, None)
           /\ \A swap : [Free(w) EXCEPT !.pc = "loop", !.swap = swap]
                       = OffAt(sched[w].proc, "loop", swap, sched[w].last)
           /\ [Free(w) EXCEPT !.pc = "ended"] = OffAt(sched[w].proc, "ended", sched[w].swap, sched[w].last)
<1>1. [Off EXCEPT !.proc = "up", !.pc = "loop"] = OffAt("up", "loop", None, None)
    BY OffFields, SchedulerSet DEF OffAt
<1>2. [Off EXCEPT !.proc = "gone", !.pc = "gone"] = OffAt("gone", "gone", None, None)
    BY OffFields, SchedulerSet DEF OffAt
<1>3. ASSUME NEW swap
      PROVE  [Free(w) EXCEPT !.pc = "loop", !.swap = swap]
             = OffAt(sched[w].proc, "loop", swap, sched[w].last)
    BY OffFields, SchedulerSet DEF OffAt, Free
<1>4. [Free(w) EXCEPT !.pc = "ended"] = OffAt(sched[w].proc, "ended", sched[w].swap, sched[w].last)
    BY OffFields, SchedulerSet DEF OffAt, Free
<1> QED
    BY <1>1, <1>2, <1>3, <1>4

LEMMA IdleSteps ==
    ASSUME Inv, NEW w \in Workers, Start(w) \/ Idle(w) \/ Exit(w)
    PROVE  Step(w)
<1>1. UNCHANGED store /\ None \in SomeAccount /\ sched[w].last \in SomeAccount /\ sched[w].proc \in Procs
    BY MineFacts, SchedulerSet DEF SomeAccount, Start, Idle, Exit, Quiet, store
<1>2. ASSUME NEW proc, NEW pc, NEW last \in SomeAccount, Idling(proc, pc),
             Only(w, OffAt(proc, pc, None, last))
      PROVE  Step(w)
    <2>1. Mine(w, OffAt(proc, pc, None, last)) /\ OffAt(proc, pc, None, last).run = 0
        BY <1>1, <1>2, MineFacts, OffIsMine
    <2> QED
        BY <1>1, <1>2, <2>1, QuietStep
<1>3. CASE Start(w)
    <2>1. Only(w, OffAt("up", "loop", None, None))
        BY <1>3, OffForms DEF Start
    <2>2. Idling("up", "loop")
        BY DEF Idling
    <2> QED
        BY <1>1, <1>2, <2>1, <2>2
<1>4. CASE Exit(w)
    <2>1. Only(w, OffAt("gone", "gone", None, None))
        BY <1>4, OffForms DEF Exit
    <2>2. Idling("gone", "gone")
        BY DEF Idling
    <2> QED
        BY <1>1, <1>2, <2>1, <2>2
<1>5. CASE Idle(w)
    <2>1. Idling(sched[w].proc, "loop")
        BY <1>1, <1>5, MineFacts DEF Idle, Mine, Shape, Procs, Idling
    <2>2. Only(w, OffAt(sched[w].proc, "loop", None, sched[w].last))
        BY <1>5, OffForms DEF Idle
    <2> QED
        BY <1>1, <1>2, <2>1, <2>2
<1> QED
    BY <1>3, <1>4, <1>5

LEMMA PassSteps ==
    ASSUME Inv, NEW w \in Workers,
           \/ BeginPass(w) \/ PassEmpty(w) \/ PollNothing(w) \/ PollFails(w) \/ ClaimerReturns(w)
           \/ EndLoop(w) \/ TakeClaim(w) \/ RestoreSwap(w)
    PROVE  Step(w)
<1> DEFINE me == sched[w]
<1> Mine(w, me) /\ me \in Scheduler /\ clock \in Nat /\ clock \in 0..MaxClock /\ clock <= clock
    BY MineFacts
<1>1. CASE BeginPass(w)
    <2> DEFINE new == [me EXCEPT !.pc = "claiming", !.claimer = "poll", !.now = clock,
                                 !.todo = active \cap Listed]
    <2>1. active \cap Listed \subseteq Accounts
        BY DEF Inv, Others
    <2>2. new \in Scheduler /\ new.now = clock /\ new.run = me.run
        BY <2>1, SchedulerSet DEF Pcs, Claimers, Nows
    <2>3. Mine(w, new)
        BY <1>1, <2>1, <2>2, SchedulerSet DEF BeginPass, Mine, Shape, Hand
    <2> QED
        BY <1>1, <2>2, <2>3, QuietStep DEF BeginPass, Quiet
<1>2. CASE PassEmpty(w)
    <2> DEFINE new == Claimed(w, "back", 0, None, None)
    <2>1. new \in Scheduler /\ new.run = 0
        <3>1. 0 \in Nows /\ 0 \in Hands /\ None \in SomeTask /\ None \in Nexts /\ {} \in SUBSET Accounts
              /\ "back" \in Claimers
            BY StoreAssumption DEF Claimers, Nows, Hands, SomeTask, Nexts
        <3> QED
            BY <3>1, SchedulerSet DEF Claimed
    <2>2. Mine(w, new)
        BY <1>2, <2>1, SchedulerSet DEF PassEmpty, Claimed, Mine, Shape, Hand
    <2> QED
        BY <1>2, <2>1, <2>2, QuietStep DEF PassEmpty, Quiet
<1>3. CASE PollNothing(w) \/ PollFails(w)
    <2> DEFINE new == NextAccount(w)
    <2>1. new \in Scheduler /\ new.run = me.run
        BY SchedulerSet DEF NextAccount, Claimers
    <2>2. Mine(w, new)
        BY <1>3, <2>1, SchedulerSet DEF PollNothing, PollFails, Polling, NextAccount, Mine, Shape, Hand
    <2> QED
        BY <1>3, <2>1, <2>2, QuietStep DEF PollNothing, PollFails, Quiet, Fault
<1>4. CASE ClaimerReturns(w)
    <2> DEFINE new == [me EXCEPT !.claimer = "back", !.last = AccountOf[me.task]]
    <2>1. AccountOf[me.task] \in SomeAccount
        BY <1>4, StoreAssumption DEF ClaimerReturns, Mine, Shape, SomeAccount
    <2>2. new \in Scheduler /\ new.run = me.run
        BY <2>1, SchedulerSet DEF Claimers
    <2>3. Mine(w, new)
        BY <1>4, <2>2, SchedulerSet DEF ClaimerReturns, Mine, Shape, Hand
    <2> QED
        BY <1>4, <2>2, <2>3, QuietStep DEF ClaimerReturns, Quiet
<1>5. CASE EndLoop(w)
    <2> DEFINE new == [me EXCEPT !.pc = "ended"]
    <2>1. new \in Scheduler /\ new.run = me.run
        BY SchedulerSet DEF Pcs
    <2>2. Mine(w, new)
        BY <1>5, <2>1, SchedulerSet DEF EndLoop, Stopping, Mine, Shape, Hand
    <2> QED
        BY <1>5, <2>1, <2>2, QuietStep DEF EndLoop, Goto, Quiet
<1>6. CASE TakeClaim(w)
    <2> DEFINE new == [me EXCEPT !.claimer = "none", !.pc = AfterClaim(w)]
    <2>1. AfterClaim(w) \in {"release", "restore", "wanted"} /\ (AfterClaim(w) = "release" => Stopping(w))
        BY DEF AfterClaim
    <2>2. new \in Scheduler /\ new.run = me.run
        BY <2>1, SchedulerSet DEF Pcs, Claimers
    <2>3. Mine(w, new)
        BY <1>6, <2>1, <2>2, SchedulerSet DEF TakeClaim, Stopping, Mine, Shape, Hand
    <2> QED
        BY <1>6, <2>2, <2>3, QuietStep DEF TakeClaim, Quiet
<1>7. CASE RestoreSwap(w)
    <2> DEFINE new == [me EXCEPT !.pc = "wanted", !.swap = None]
    <2>1. new \in Scheduler /\ new.run = me.run
        BY SchedulerSet DEF Pcs, SomeAccount
    <2>2. Mine(w, new)
        BY <1>7, <2>1, SchedulerSet DEF RestoreSwap, Mine, Shape, Hand
    <2> QED
        BY <1>7, <2>1, <2>2, QuietStep DEF RestoreSwap, Quiet
<1> QED
    BY <1>1, <1>2, <1>3, <1>4, <1>5, <1>6, <1>7

(* The end of _execute, whatever it did to the tables.                      *)
LEMMA LoopOnForms ==
    ASSUME Inv, NEW w \in Workers, sched[w].pc \in {"settle", "discard"}, LoopOn(w)
    PROVE  \E me \in Scheduler :
              /\ Only(w, me) /\ Shape(me) /\ me.now <= clock
              /\ \/ me.run = 0
                 \/ me.run = sched[w].run /\ me = [sched[w] EXCEPT !.pc = "ended"]
<1> DEFINE old == sched[w]
<1>1. Mine(w, old) /\ old \in Scheduler /\ clock \in Nat
    BY MineFacts
<1>2. CASE old.proc = "cancelled"
    <2> DEFINE me == [old EXCEPT !.pc = "ended"]
    <2>1. me \in Scheduler /\ me.run = old.run /\ me.now <= clock
        BY <1>1, SchedulerSet DEF Pcs, Mine
    <2>2. Shape(me)
        BY <1>1, <1>2, <2>1, SchedulerSet DEF Shape, Mine
    <2>3. Only(w, me)
        BY <1>2 DEF LoopOn, Goto
    <2> QED
        BY <2>1, <2>2, <2>3
<1>3. CASE old.proc # "cancelled"
    <2>1. PICK swap \in {old.swap} \cup ({AccountOf[old.task]} \cap Loading) :
             Only(w, [Free(w) EXCEPT !.pc = "loop", !.swap = swap])
        BY <1>3 DEF LoopOn
    <2>2. swap \in SomeAccount /\ old.last \in SomeAccount
        BY <1>1, StoreAssumption, SchedulerSet DEF Mine, Shape, SomeAccount
    <2>3. Idling(old.proc, "loop")
        BY <1>1, <1>3, SchedulerSet DEF Procs, Mine, Shape, Idling
    <2> DEFINE me == OffAt(old.proc, "loop", swap, old.last)
    <2>4. Only(w, me)
        BY <2>1, OffForms
    <2>5. Mine(w, me) /\ me.run = 0
        BY <1>1, <2>2, <2>3, OffIsMine
    <2> QED
        BY <2>4, <2>5 DEF Mine
<1> QED
    BY <1>2, <1>3

LEMMA ExecuteSteps ==
    ASSUME Inv, NEW w \in Workers,
           \/ CheckWanted(w) \/ BeginAnswer(w) \/ Answer(w) \/ NoAnswer(w) \/ CheckTask(w) \/ CheckFails(w)
           \/ TakeSaved(w) \/ NotSettled(w) \/ SettleFails(w) \/ Stop(w) \/ CancelLoop(w)
    PROVE  Step(w)
<1> DEFINE me == sched[w]
<1> Mine(w, me) /\ me \in Scheduler /\ clock \in Nat
    BY MineFacts
<1>1. UNCHANGED store
    BY DEF CheckWanted, BeginAnswer, Answer, NoAnswer, CheckTask, CheckFails, TakeSaved, NotSettled,
           SettleFails, Stop, CancelLoop, Quiet, Fault, store
<1>2. ASSUME Only(w, Settling(w, "failed")), me.pc \in {"wanted", "answer", "check"} PROVE Step(w)
    <2> DEFINE new == Settling(w, "failed")
    <2>1. new \in Scheduler /\ new.run = me.run
        BY SchedulerSet DEF Settling, Pcs, Outcomes
    <2>2. Mine(w, new)
        BY <1>2, <2>1, SchedulerSet DEF Settling, Mine, Shape, Hand, Savers
    <2> QED
        BY <1>1, <1>2, <2>1, <2>2, QuietStep
<1>3. ASSUME NEW pc, Goto(w, pc),
             \/ me.pc \in {"wanted", "told", "answer"} /\ pc \in {"told", "answer", "check"}
             \/ me.pc = "settle" /\ pc = "discard"
      PROVE  Step(w)
    <2> DEFINE new == [me EXCEPT !.pc = pc]
    <2>1. new \in Scheduler /\ new.run = me.run
        BY <1>3, SchedulerSet DEF Pcs
    <2>2. Mine(w, new)
        BY <1>3, <2>1, SchedulerSet DEF Mine, Shape, Hand
    <2> QED
        BY <1>1, <1>3, <2>1, <2>2, QuietStep DEF Goto
<1>4. ASSUME me.pc = "settle", LoopOn(w) PROVE Step(w)
    <2>1. PICK new \in Scheduler :
              /\ Only(w, new) /\ Shape(new) /\ new.now <= clock
              /\ \/ new.run = 0
                 \/ new.run = me.run /\ new = [me EXCEPT !.pc = "ended"]
        BY <1>4, LoopOnForms
    <2>2. Hand(w, new)
        BY <2>1, SchedulerSet DEF Mine, Hand
    <2> QED
        BY <1>1, <2>1, <2>2, QuietStep DEF Mine
<1>5. CASE CheckTask(w)
    <2>1. CASE me.task \in Store!Live
        <3> DEFINE new == [me EXCEPT !.pc = "save", !.saving = TRUE, !.saver = "upsert"]
        <3>1. new \in Scheduler /\ new.run = me.run
            BY SchedulerSet DEF Pcs, Savers
        <3>2. Mine(w, new)
            BY <1>5, <3>1, SchedulerSet DEF CheckTask, Mine, Shape, Hand, Outcomes
        <3> QED
            BY <1>1, <1>5, <2>1, <3>1, <3>2, QuietStep DEF CheckTask
    <2>2. CASE me.task \notin Store!Live
        BY <1>2, <1>5, <2>2 DEF CheckTask
    <2> QED
        BY <2>1, <2>2
<1>6. CASE TakeSaved(w)
    <2> DEFINE new == [Settling(w, SaveOutcome(w)) EXCEPT !.saver = "none"]
    <2>1. /\ SaveOutcome(w) \in Outcomes
          /\ SaveOutcome(w) = "succeeded" => me.saver = "saved"
        BY DEF SaveOutcome, Outcomes
    <2>2. new \in Scheduler /\ new.run = me.run
        BY <2>1, SchedulerSet DEF Settling, Pcs, Savers
    <2>3. Mine(w, new)
        BY <1>6, <2>1, <2>2, SchedulerSet DEF TakeSaved, Settling, Mine, Shape, Hand
    <2> QED
        BY <1>1, <1>6, <2>2, <2>3, QuietStep DEF TakeSaved
<1>7. CASE SettleFails(w)
    <2>1. CASE me.tries + 1 < SettleAttempts
        <3> DEFINE new == [me EXCEPT !.tries = @ + 1]
        <3>1. me.tries + 1 \in Attempts
            BY <2>1, SchedulerSet, SchedulerAssumption DEF Attempts
        <3>2. new \in Scheduler /\ new.run = me.run
            BY <3>1, SchedulerSet
        <3>3. Mine(w, new)
            BY <1>7, <3>2, SchedulerSet DEF SettleFails, Mine, Shape, Hand
        <3> QED
            BY <1>1, <1>7, <2>1, <3>2, <3>3, QuietStep DEF SettleFails
    <2> QED
        BY <1>3, <1>4, <1>7, <2>1 DEF SettleFails
<1>8. CASE Stop(w)
    <2> DEFINE new == [me EXCEPT !.proc = "stopping", !.cancel = IsActive(w)]
    <2>1. new \in Scheduler /\ new.run = me.run
        <3>1. IsActive(w) \in BOOLEAN
            BY DEF IsActive
        <3> QED
            BY <3>1, SchedulerSet DEF Procs
    <2>2. Mine(w, new)
        BY <1>8, <2>1, SchedulerSet DEF Stop, Mine, Shape, Hand
    <2> QED
        BY <1>1, <1>8, <2>1, <2>2, QuietStep DEF Stop
<1>9. CASE CancelLoop(w)
    <2>1. PICK pc \in AfterCancel(w) : Only(w, [me EXCEPT !.proc = "cancelled", !.pc = pc, !.cancel = FALSE])
        BY <1>9 DEF CancelLoop
    <2> DEFINE new == [me EXCEPT !.proc = "cancelled", !.pc = pc, !.cancel = FALSE]
    <2>2. /\ pc \in {"ended", "release", "discard", "lastFinish", "settle"}
          /\ pc \in {"release", "discard"} => pc = me.pc
          /\ pc = "lastFinish" => me.pc = "settle"
          /\ pc = "ended" => me.pc \in {"claiming", "restore", "settle"}
          /\ pc = "settle" => me.pc \in {"wanted", "answer", "check", "save"}
        BY <1>9, SchedulerSet DEF CancelLoop, Awaiting, AfterCancel, Pcs
    <2>3. new \in Scheduler /\ new.run = me.run
        BY <2>2, SchedulerSet DEF Procs, Pcs
    <2>4. Mine(w, new)
        <3>1. Shape(new)
            BY <1>9, <2>2, <2>3, SchedulerSet DEF CancelLoop, Mine, Shape
        <3>2. Hand(w, new)
            BY <2>2, <2>3, SchedulerSet DEF Mine, Shape, Hand
        <3>3. new.now <= clock
            BY SchedulerSet DEF Mine
        <3> QED
            BY <2>3, <3>1, <3>2, <3>3 DEF Mine
    <2> QED
        BY <1>1, <2>1, <2>3, <2>4, QuietStep
<1>10. CASE NotSettled(w)
    BY <1>3, <1>4, <1>10 DEF NotSettled
<1> QED
    BY <1>2, <1>3, <1>5, <1>6, <1>7, <1>8, <1>9, <1>10
       DEF CheckWanted, BeginAnswer, Answer, NoAnswer, CheckFails

-----------------------------------------------------------------------------
(* The steps of a scheduler that write the tables.                          *)

LEMMA WritingStep ==
    ASSUME Inv, NEW w \in Workers, AllMove,
           \A r \in RunIds : Outside(r) \/ r = sched[w].run \/ runs[r].status = "queued" \/ r > made,
           NEW me \in Scheduler, Only(w, me), Shape(me), me.now <= clock, Hand(w, me)',
           \/ me.run \in {0, sched[w].run}
           \/ runs[me.run].status = "queued"
           \/ me.run > made,
           clock' = clock
    PROVE  Step(w)
<1>1. sched'[w] = me /\ sched' = [sched EXCEPT ![w] = sched'[w]]
    BY DEF Only, Inv, Schedulers
<1>2. Mine(w, sched[w])'
    BY <1>1 DEF Mine
<1> QED
    BY <1>1, <1>2 DEF Step

LEMMA ReleaseMoves ==
    ASSUME Inv, NEW w \in Workers, sched[w].run # 0, ~sched[w].saving, Release(w)
    PROVE  AllMove /\ clock' = clock /\ \A r \in RunIds \ {sched[w].run} : Outside(r)
<1> DEFINE q == sched[w].run
<1>1. q \in RunIds /\ Store!TypeOK /\ ~Store!ChatExists(q)
    BY HandFacts DEF Inv, Tables, Hand
<1>2. CASE Store!Requeue(q, w) \/ Store!GiveBack(q, w, sched[w].next)
    <2>1. /\ Store!Owns(w, q)
          /\ made' = made /\ chats' = chats
          /\ \A r \in RunIds \ {q} : Kept(r)
          /\ \/ runs'[q].status = "queued" /\ runs'[q].task = runs[q].task
             \/ runs'[q] = Store!NoRow
        BY <1>1, <1>2, EffectOfRelease
    <2>2. clock' = clock
        BY <1>2 DEF Store!Requeue, Store!GiveBack
    <2> QED
        BY <1>1, <2>1, <2>2 DEF AllMove, Moves, Returned, Outside, Store!Owns
<1>3. CASE UNCHANGED store
    BY <1>3 DEF store, AllMove, Moves, Outside, Kept, Same
<1> QED
    BY <1>2, <1>3 DEF Release, Quiet, Fault

LEMMA ReleaseSteps ==
    ASSUME Inv, NEW w \in Workers, ClaimerReleases(w) \/ GiveClaimBack(w)
    PROVE  Step(w)
<1> DEFINE old == sched[w]
<1>1. Mine(w, old) /\ old \in Scheduler /\ clock \in Nat
    BY MineFacts
<1>2. /\ old.run # 0 /\ ~old.saving /\ Release(w)
      /\ old.pc = "release" => old.proc \in {"stopping", "cancelled"}
    BY <1>1 DEF ClaimerReleases, GiveClaimBack, Mine, Shape
<1>3. AllMove /\ clock' = clock /\ \A r \in RunIds \ {old.run} : Outside(r)
    BY <1>2, ReleaseMoves
<1>4. CASE ClaimerReleases(w)
    <2>1. PICK me : me = Claimed(w, "back", 0, None, None)
        OBVIOUS
    <2>2. me \in Scheduler
        <3>1. 0 \in Nows /\ 0 \in Hands /\ None \in SomeTask /\ None \in Nexts /\ {} \in SUBSET Accounts
              /\ "back" \in Claimers
            BY StoreAssumption DEF Claimers, Nows, Hands, SomeTask, Nexts
        <3> QED
            BY <1>1, <2>1, <3>1, SchedulerSet DEF Claimed
    <2>3. me.run = 0 /\ me.now = 0 /\ Shape(me)
        BY <1>1, <1>2, <1>4, <2>1, SchedulerSet DEF ClaimerReleases, Claimed, Mine, Shape
    <2> QED
        BY <1>1, <1>3, <1>4, <2>1, <2>2, <2>3, WritingStep DEF ClaimerReleases, Hand
<1>5. CASE GiveClaimBack(w)
    <2>1. PICK me : me = OffAt(old.proc, "ended", old.swap, old.last)
        OBVIOUS
    <2>2. Only(w, me)
        BY <1>5, <2>1, OffForms DEF GiveClaimBack
    <2>3. Idling(old.proc, "ended") /\ old.swap \in SomeAccount /\ old.last \in SomeAccount
        BY <1>1, <1>2, <1>5, SchedulerSet DEF GiveClaimBack, Idling
    <2>4. Mine(w, me) /\ me.run = 0
        BY <1>1, <2>1, <2>3, OffIsMine
    <2> QED
        BY <1>1, <1>3, <2>2, <2>4, WritingStep DEF Mine, Hand
<1> QED
    BY <1>4, <1>5

LEMMA PollSteps ==
    ASSUME Inv, NEW w \in Workers, PollSweep(w) \/ PollQueued(w) \/ PollDue(w), Store!TypeOK'
    PROVE  Step(w)
<1> DEFINE old == sched[w]
           a == Polled(w)
<1>1. Mine(w, old) /\ old \in Scheduler /\ clock \in Nat /\ Store!TypeOK
    BY MineFacts DEF Inv, Tables
<1>2. CASE PollSweep(w)
    <2>1. PICK me : me = [old EXCEPT !.claimer = "swept"]
        OBVIOUS
    <2>2. me \in Scheduler /\ me.run = old.run /\ me.now = old.now
        BY <1>1, <2>1, SchedulerSet DEF Claimers
    <2>3. Shape(me) /\ me.run = 0
        BY <1>1, <1>2, <2>1, SchedulerSet DEF PollSweep, Polling, Mine, Shape
    <2>4. made' = made /\ (\A r \in RunIds : Outside(r)) /\ clock' = clock
        BY <1>1, <1>2, EffectOfFailStale DEF PollSweep, Store!FailStale
    <2> QED
        BY <1>1, <1>2, <2>1, <2>2, <2>3, <2>4, WritingStep DEF PollSweep, Mine, Hand, AllMove, Moves
<1>3. ASSUME NEW r \in RunIds, NEW t \in Tasks, NEW next \in Nexts,
             old.claimer \in {"poll", "swept"},
             Only(w, Claimed(w, "got", r, t, next)),
             AllMove, \A q \in RunIds \ {r} : Kept(q),
             runs[r].status = "queued" \/ r > made,
             r <= made', clock' = clock,
             Store!Owns(w, r)', ~Store!ChatExists(r)'
      PROVE  Step(w)
    <2>1. PICK me : me = Claimed(w, "got", r, t, next)
        OBVIOUS
    <2>2. me \in Scheduler
        <3>1. 0 \in Nows /\ r \in Hands /\ t \in SomeTask /\ {} \in SUBSET Accounts /\ "got" \in Claimers
            BY <1>3, StoreAssumption DEF Claimers, Nows, Hands, SomeTask, RunIds, Store!RunIds
        <3> QED
            BY <1>1, <1>3, <2>1, <3>1, SchedulerSet DEF Claimed
    <2>3. /\ me.run = r /\ me.now = 0 /\ me.task = t
          /\ me.saving = old.saving /\ me.saver = old.saver /\ me.outcome = old.outcome /\ me.pc = old.pc
          /\ me.proc = old.proc /\ me.claimer = "got"
        BY <1>1, <2>1, SchedulerSet DEF Claimed
    <2>4. old.claimer # "none" /\ ~old.saving /\ old.saver = "none" /\ old.outcome # "succeeded"
        BY <1>1, <1>3 DEF Mine, Shape
    <2>5. Shape(me)
        BY <1>1, <1>3, <2>3, <2>4, StoreAssumption DEF Mine, Shape, RunIds, Store!RunIds
    <2>6. Hand(w, me)'
        BY <1>3, <2>3, <2>4 DEF Hand
    <2>7. Only(w, me) /\ me.now <= clock
        BY <1>1, <1>3, <2>1, <2>3
    <2>8. \A q \in RunIds : Outside(q) \/ q = old.run \/ runs[q].status = "queued" \/ q > made
        BY <1>3 DEF Outside
    <2> QED
        BY <1>3, <2>2, <2>3, <2>5, <2>6, <2>7, <2>8, WritingStep
<1>0. ASSUME NEW r, NEW t, NEW next, Only(w, Claimed(w, "got", r, t, next)), runs'[r].worker = w
      PROVE  InHand(r)
    <2>1. sched'[w].run = r /\ sched'[w].claimer = "got"
        <3>1. sched'[w] = Claimed(w, "got", r, t, next)
            BY <1>0 DEF Only, Inv, Schedulers
        <3> QED
            BY <1>1, <3>1, SchedulerSet DEF Claimed
    <2> QED
        BY <1>0, <2>1 DEF InHand
<1>4. CASE PollQueued(w)
    <2>1. PICK r \in Store!Queued(a) :
            /\ Store!ClaimQueued(r, a, w, old.now)
            /\ Only(w, Claimed(w, "got", r, runs[r].task, tasks[runs[r].task].next))
        BY <1>4 DEF PollQueued
    <2>2. /\ r \in RunIds /\ runs[r].status = "queued" /\ runs[r].task \in Tasks
          /\ made' = made /\ chats' = chats
          /\ \A q \in RunIds \ {r} : Kept(q)
          /\ runs'[r].status = "running" /\ runs'[r].worker = w /\ runs'[r].task = runs[r].task
        BY <1>1, <2>1, EffectOfClaimQueued
    <2>3. tasks[runs[r].task].next \in Nexts
        BY <1>1, <2>2 DEF Store!TypeOK, Store!Task, Store!Times, Nexts
    <2>4. ~Store!ChatExists(r) /\ r <= made
        BY <2>2, StoreAssumption DEF Inv, Tables, QueuedRunHasNoChat, UnmadeIsEmpty, RunIds, Store!RunIds,
                                     Store!TypeOK
    <2>5. AllMove
        <3>1. InHand(r)
            BY <1>0, <2>1, <2>2
        <3> QED
            BY <2>2, <3>1 DEF AllMove, Moves, Outside, Taken
    <2>6. Store!Owns(w, r)' /\ ~Store!ChatExists(r)' /\ clock' = clock
        BY <2>1, <2>2, <2>4 DEF Store!Owns, Store!ChatExists, Store!ClaimQueued
    <2>7. old.claimer \in {"poll", "swept"}
        BY <1>4 DEF PollQueued, Polling
    <2> QED
        BY <1>3, <2>1, <2>2, <2>3, <2>4, <2>5, <2>6, <2>7
<1>5. CASE PollDue(w)
    <2>1. PICK t \in Store!Due(a, old.now) :
            /\ Store!ClaimDue(t, a, w, old.now)
            /\ Only(w, Claimed(w, "got", made + 1, t, tasks'[t].next))
        BY <1>5 DEF PollDue
    <2>0. PICK r : r = made + 1
        OBVIOUS
    <2>2. /\ t \in Tasks /\ r \in RunIds /\ made' = r /\ chats' = chats
          /\ \A q \in RunIds : runs[q].task = t => runs[q].status \notin {"queued", "running"}
          /\ \A q \in RunIds \ {r} : Kept(q)
          /\ runs'[r].status = "running" /\ runs'[r].worker = w
          /\ runs'[r].task = t
        BY <1>1, <2>0, <2>1, EffectOfClaimDue
    <2>3. tasks'[t].next \in Nexts
        BY <2>2 DEF Store!TypeOK, Store!Task, Store!Times, Nexts
    <2>4. r > made /\ r <= made' /\ made \in Nat
        BY <2>0, <2>2, <1>1, StoreAssumption DEF Store!TypeOK
    <2>5. ~Store!ChatExists(r)
        BY <2>2, <2>4 DEF Inv, Tables, UnmadeIsEmpty, Store!ChatExists
    <2>6. AllMove
        <3>1. InHand(r)
            BY <1>0, <2>0, <2>1, <2>2
        <3> QED
            BY <2>0, <2>2, <3>1 DEF AllMove, Moves, Outside, Made
    <2>7. Store!Owns(w, r)' /\ ~Store!ChatExists(r)' /\ clock' = clock
        BY <2>1, <2>2, <2>5 DEF Store!Owns, Store!ChatExists, Store!ClaimDue
    <2>8. old.claimer \in {"poll", "swept"}
        BY <1>5 DEF PollDue, Polling
    <2>9. PICK next \in Nexts : next = tasks'[t].next
        BY <2>3
    <2>10. Only(w, Claimed(w, "got", r, t, next))
        BY <2>0, <2>1, <2>9
    <2> QED
        BY <1>3, <2>2, <2>4, <2>6, <2>7, <2>8, <2>10
<1> QED
    BY <1>2, <1>4, <1>5

LEMMA SaveSteps ==
    ASSUME Inv, NEW w \in Workers, Save(w)
    PROVE  Step(w)
<1> DEFINE old == sched[w]
<1>1. Mine(w, old) /\ old \in Scheduler /\ clock \in Nat /\ Store!TypeOK /\ old.saver # "none"
    BY MineFacts DEF Inv, Tables, Save, SaverUpserts, SaverSyncs, SaverDiscards
<1>0. PICK q : q = old.run
    OBVIOUS
<1>2. q # 0 /\ q \in RunIds /\ q <= made /\ old.saving /\ old.outcome # "succeeded"
      /\ old.claimer = "none"
    BY <1>0, <1>1, HandFacts DEF Mine, Shape, Hand
<1>3. ASSUME NEW saver \in Savers, saver # "none", Saver(w, saver),
             AllMove, \A r \in RunIds : Outside(r) \/ r = q,
             made' = made, clock' = clock,
             Store!Owns(w, q)' \/ runs'[q].status \in {"none", "succeeded", "failed"},
             old.pc # "ended" \/ saver \in {"upsert", "sync", "discard"} =>
                Store!Owns(w, q)' \/ chats'[q] = "deleted",
             saver = "saved" => chats'[q] \in {"full", "deleted"}
      PROVE  Step(w)
    <2>1. PICK me : me = [old EXCEPT !.saver = saver]
        OBVIOUS
    <2>2. /\ me \in Scheduler /\ me.run = q /\ me.proc = old.proc /\ me.task = old.task
          /\ me.claimer = old.claimer /\ me.now = old.now /\ me.pc = old.pc
          /\ me.saver = saver /\ me.saving = old.saving /\ me.outcome = old.outcome
        BY <1>0, <1>1, <1>3, <2>1, SchedulerSet
    <2>3. Shape(me)
        BY <1>0, <1>1, <1>2, <1>3, <2>2, SchedulerSet DEF Mine, Shape, Outcomes
    <2>4. Hand(w, me)'
        BY <1>2, <1>3, <2>2 DEF Hand
    <2>5. Only(w, me) /\ me.now <= clock
        BY <1>1, <1>3, <2>1, <2>2 DEF Saver, Mine
    <2> QED
        BY <1>0, <1>3, <2>2, <2>3, <2>4, <2>5, WritingStep
(* The call raises, or there is nothing to write to.                        *)
<1>4. ASSUME NEW saver \in {"raised", "discard"}, Saver(w, saver), UNCHANGED store,
             saver = "raised" \/ old.saver \in {"upsert", "sync", "discard"}
      PROVE  Step(w)
    <2>1. AllMove /\ (\A r \in RunIds : Outside(r)) /\ made' = made /\ clock' = clock
        BY <1>4 DEF store, AllMove, Moves, Outside, Kept, Same
    <2>2. Store!Owns(w, q) \/ runs[q].status \in {"none", "succeeded", "failed"}
        BY <1>0, <1>1, <1>2 DEF Mine, Hand
    <2>3. old.pc # "ended" \/ saver = "discard" => Store!Owns(w, q) \/ chats[q] = "deleted"
        BY <1>0, <1>1, <1>2, <1>4 DEF Mine, Hand
    <2> QED
        BY <1>3, <1>4, <2>1, <2>2, <2>3 DEF Savers, Store!Owns, store
(* The chat is written: the run is still this scheduler's.                  *)
<1>5. ASSUME NEW saver \in {"sync", "saved"}, Saver(w, saver), old.saver \in {"upsert", "sync"},
             Store!UpsertChat(q) \/ Store!SyncChat(q),
             saver = "saved" => Store!SyncChat(q)
      PROVE  Step(w)
    <2>1. /\ chats[q] # "deleted" /\ chats'[q] \in {"empty", "full"}
          /\ Store!SyncChat(q) => chats'[q] = "full"
          /\ made' = made /\ runs' = runs
          /\ \A r \in RunIds \ {q} : Kept(r)
          /\ clock' = clock
        BY <1>1, <1>2, <1>5, EffectOfSaving DEF Store!UpsertChat, Store!SyncChat
    <2>2. Store!Owns(w, q)
        BY <1>0, <1>1, <1>2, <1>5, <2>1 DEF Mine, Hand
    <2>3. Saved(q)
        BY <2>1, <2>2 DEF Saved, Same, Store!Owns
    <2>4. AllMove
        BY <1>2, <2>1, <2>3 DEF AllMove, Moves, Outside
    <2> QED
        BY <1>3, <1>5, <2>1, <2>2, <2>4 DEF Savers, Store!Owns, Outside
<1>6. CASE SaverUpserts(w)
    BY <1>0, <1>4, <1>5, <1>6 DEF SaverUpserts, Quiet, Fault
<1>7. CASE SaverSyncs(w)
    BY <1>0, <1>4, <1>5, <1>7 DEF SaverSyncs, Quiet, Fault
<1>8. CASE SaverDiscards(w)
    <2>1. CASE Store!DeleteChat(q)
        <3>1. made' = made /\ Unchatted(q) /\ (\A r \in RunIds \ {q} : Kept(r)) /\ clock' = clock
            BY <1>1, <1>2, <2>1, EffectOfDeleteChat DEF Store!DeleteChat
        <3>2. Store!Owns(w, q)' \/ runs'[q].status \in {"none", "succeeded", "failed"}
            BY <1>0, <1>1, <1>2, <3>1 DEF Unchatted, Same, Mine, Hand, Store!Owns
        <3> QED
            BY <1>3, <1>8, <3>1, <3>2 DEF SaverDiscards, Savers, AllMove, Moves, Outside, Unchatted
    <2>2. CASE UNCHANGED store
        BY <1>4, <1>8, <2>2 DEF SaverDiscards
    <2> QED
        BY <1>0, <1>8, <2>1, <2>2 DEF SaverDiscards, Fault
<1> QED
    BY <1>6, <1>7, <1>8 DEF Save

(* finish_run settles the run as the outcome says, and its chat with it.    *)
LEMMA FinishMoves ==
    ASSUME Inv, NEW w \in Workers, Finish(w), NEW q, q = sched[w].run, q # 0
    PROVE  /\ q \in RunIds /\ Settled(q) /\ AllMove /\ made' = made /\ clock' = clock
           /\ \A r \in RunIds \ {q} : Outside(r)
           /\ Store!Owns(w, q)
           /\ runs'[q].status \in {"succeeded", "failed"}
           /\ sched[w].saver # "none" => chats'[q] = "deleted"
           /\ sched[w].outcome = "succeeded" => chats'[q] \in {"full", "deleted"}
           /\ ~sched[w].saving => ~Store!ChatExists(q)'
<1> DEFINE me == sched[w]
<1>1. Mine(w, me) /\ me \in Scheduler /\ Store!TypeOK /\ q \in RunIds
    BY MineFacts, HandFacts DEF Inv, Tables
<1>2. /\ me.outcome \in {"succeeded", "failed"} /\ (me.outcome = "succeeded") \in BOOLEAN
      /\ Unsaved(w) \in BOOLEAN /\ Unsaved(w) = (me.saving /\ me.outcome # "succeeded")
    BY <1>1, SchedulerSet DEF Outcomes, Unsaved
<1>3. Store!FinishRun(q, w, me.outcome, me.outcome = "succeeded", Unsaved(w))
    BY DEF Finish
<1>4. Store!Owns(w, q)
    BY <1>3 DEF Store!FinishRun
<1>5. \A r \in RunIds : runs[r].task = runs[q].task => r <= q
    BY <1>1, <1>4 DEF Inv, Tables, ActiveIsNewest, Store!Owns
<1>6. /\ made' = made
      /\ \A r \in RunIds \ {q} : Kept(r) \/ Dropped(r)
      /\ runs'[q].status = me.outcome /\ runs'[q].task = runs[q].task /\ runs'[q].worker = None
      /\ runs'[q].thread = (me.outcome = "succeeded" /\ chats'[q] \in {"empty", "full"})
      /\ chats'[q] = IF Unsaved(w) THEN "deleted" ELSE chats[q]
    <2>1. PICK status \in {"succeeded", "failed"}, link \in BOOLEAN, discard \in BOOLEAN :
             status = me.outcome /\ link = (me.outcome = "succeeded") /\ discard = Unsaved(w)
        BY <1>2
    <2>2. Store!FinishRun(q, w, status, link, discard)
        BY <1>3, <2>1
    <2>3. Store!TypeOK /\ q \in RunIds /\ w \in Workers /\ \A r \in RunIds : runs[r].task = runs[q].task => r <= q
        BY <1>1, <1>5
    <2>4. /\ made' = made
          /\ \A r \in RunIds \ {q} : Kept(r) \/ Dropped(r)
          /\ runs'[q].status = status /\ runs'[q].task = runs[q].task /\ runs'[q].worker = None
          /\ runs'[q].thread = (link /\ chats'[q] \in {"empty", "full"})
          /\ chats'[q] = IF discard THEN "deleted" ELSE chats[q]
        BY <2>2, <2>3, EffectOfFinish
    <2> QED
        BY <2>1, <2>4
<1>7. clock' = clock
    BY <1>3 DEF Store!FinishRun
<1>8. /\ me.outcome = "succeeded" => chats[q] \in {"full", "deleted"}
      /\ ~me.saving => ~Store!ChatExists(q) /\ me.saver = "none" /\ me.outcome = "failed"
      /\ me.saver = "none" \/ me.outcome = "failed"
    BY <1>1, <1>2 DEF Mine, Hand, Shape
<1>9. Settled(q)
    BY <1>2, <1>4, <1>6, <1>8 DEF Settled, Store!Owns, Store!ChatExists
<1>10. AllMove
    BY <1>1, <1>6, <1>9 DEF AllMove, Moves, Outside
<1>11. /\ me.saver # "none" => chats'[q] = "deleted"
       /\ me.outcome = "succeeded" => chats'[q] \in {"full", "deleted"}
       /\ ~me.saving => ~Store!ChatExists(q)'
    BY <1>2, <1>6, <1>8 DEF Store!ChatExists
<1> QED
    BY <1>1, <1>2, <1>4, <1>6, <1>7, <1>9, <1>10, <1>11 DEF Outside

LEMMA FinishSteps ==
    ASSUME Inv, NEW w \in Workers,
           Settle(w) \/ LastFinish(w) \/ Discard(w) \/ Heartbeat(w)
    PROVE  Step(w)
<1> DEFINE old == sched[w]
<1>1. Mine(w, old) /\ old \in Scheduler /\ clock \in Nat /\ Store!TypeOK
    BY MineFacts DEF Inv, Tables
<1>2. PICK q : q = old.run
    OBVIOUS
<1>3. q # 0 /\ q \in RunIds /\ q <= made
    BY <1>1, <1>2, HandFacts
       DEF Settle, LastFinish, Discard, Heartbeat, IsActive, Executing, Mine, Shape, Hand
<1>4. ASSUME NEW me \in Scheduler, Only(w, me), Shape(me), me.now <= clock,
             me.run = 0 \/ me = [old EXCEPT !.pc = "ended"],
             Finish(w)
      PROVE  Step(w)
    <2>1. /\ AllMove /\ made' = made /\ clock' = clock
          /\ \A r \in RunIds \ {q} : Outside(r)
          /\ runs'[q].status \in {"succeeded", "failed"}
          /\ old.saver # "none" => chats'[q] = "deleted"
          /\ old.outcome = "succeeded" => chats'[q] \in {"full", "deleted"}
          /\ ~old.saving => ~Store!ChatExists(q)'
        BY <1>2, <1>3, <1>4, FinishMoves
    <2>2. CASE me.run = 0
        BY <1>2, <1>4, <2>1, <2>2, WritingStep DEF Hand
    <2>3. CASE me = [old EXCEPT !.pc = "ended"]
        <3>1. /\ me.run = q /\ me.pc = "ended" /\ me.saver = old.saver /\ me.saving = old.saving
              /\ me.outcome = old.outcome
            BY <1>1, <1>2, <2>3, SchedulerSet
        <3>2. Hand(w, me)'
            BY <1>3, <2>1, <3>1 DEF Hand
        <3> QED
            BY <1>2, <1>4, <2>1, <3>1, <3>2, WritingStep
    <2> QED
        BY <1>4, <2>2, <2>3
<1>5. ASSUME NEW me \in Scheduler, Only(w, me), Shape(me), me.now <= clock,
             me.run = 0 \/ me = [old EXCEPT !.pc = "ended"],
             UNCHANGED store
      PROVE  Step(w)
    <2>1. Mine(w, me) /\ me.run \in {0, old.run}
        BY <1>1, <1>5, SchedulerSet DEF Mine, Hand
    <2> QED
        BY <1>5, <2>1, QuietStep
<1>6. CASE Settle(w)
    <2>1. PICK me \in Scheduler :
              /\ Only(w, me) /\ Shape(me) /\ me.now <= clock
              /\ \/ me.run = 0
                 \/ me.run = sched[w].run /\ me = [sched[w] EXCEPT !.pc = "ended"]
        BY <1>6, LoopOnForms DEF Settle
    <2> QED
        BY <1>4, <1>6, <2>1 DEF Settle
<1>7. CASE LastFinish(w)
    <2>1. PICK me : me = [old EXCEPT !.pc = "ended"]
        OBVIOUS
    <2>2. me \in Scheduler /\ me.now <= clock
        BY <1>1, <2>1, SchedulerSet DEF Pcs, Mine
    <2>3. Shape(me)
        BY <1>1, <1>7, <2>1, SchedulerSet DEF LastFinish, Mine, Shape
    <2>4. Only(w, me)
        BY <1>7, <2>1 DEF LastFinish, Goto
    <2>5. Finish(w) \/ UNCHANGED store
        BY <1>7 DEF LastFinish, Quiet, Fault
    <2> QED
        BY <1>4, <1>5, <2>1, <2>2, <2>3, <2>4, <2>5
<1>8. CASE Discard(w)
    <2>1. PICK me \in Scheduler :
              /\ Only(w, me) /\ Shape(me) /\ me.now <= clock
              /\ \/ me.run = 0
                 \/ me.run = sched[w].run /\ me = [sched[w] EXCEPT !.pc = "ended"]
        BY <1>8, LoopOnForms DEF Discard
    <2>2. CASE UNCHANGED store
        BY <1>5, <2>1, <2>2
    <2>3. CASE Store!DeleteChat(q)
        <3>1. made' = made /\ Unchatted(q) /\ (\A r \in RunIds \ {q} : Kept(r)) /\ clock' = clock
            BY <1>1, <1>3, <2>3, EffectOfDeleteChat DEF Store!DeleteChat
        <3>2. AllMove /\ \A r \in RunIds : Outside(r)
            BY <3>1 DEF AllMove, Moves, Outside
        <3>3. Hand(w, me)'
            <4>1. CASE me.run = 0
                BY <4>1 DEF Hand
            <4>2. CASE me.run # 0
                <5>1. me.run = q /\ me.saver = old.saver /\ me.saving = old.saving /\ me.outcome = old.outcome
                    BY <1>1, <1>2, <2>1, <4>2, SchedulerSet
                <5>2. Store!Owns(w, q) \/ runs[q].status \in {"none", "succeeded", "failed"}
                    BY <1>1, <1>2, <1>3 DEF Mine, Hand
                <5> QED
                    BY <1>3, <3>1, <5>1, <5>2 DEF Hand, Unchatted, Same, Store!Owns, Store!ChatExists
            <4> QED
                BY <4>1, <4>2
        <3> QED
            BY <2>1, <3>1, <3>2, <3>3, WritingStep
    <2> QED
        BY <1>2, <1>8, <2>2, <2>3 DEF Discard, Fault
<1>9. CASE Heartbeat(w)
    <2>1. (\A r \in RunIds : Kept(r)) /\ made' = made /\ clock' = clock /\ sched' = sched
        BY <1>1, <1>2, <1>3, <1>9, EffectOfOthers DEF Heartbeat, Store!Heartbeat
    <2>2. AllMove /\ \A r \in RunIds : Outside(r)
        BY <2>1 DEF AllMove, Moves, Outside
    <2>3. PICK me : me = old
        OBVIOUS
    <2>4. Only(w, me)
        BY <2>1, <2>3 DEF Only, Inv, Schedulers
    <2>5. Hand(w, me)'
        BY <1>1, <2>1, <2>3, <1>2, <1>3 DEF Mine, Hand, Kept, Same, Store!Owns, Store!ChatExists
    <2> QED
        BY <1>1, <2>1, <2>2, <2>3, <2>4, <2>5, WritingStep DEF Mine
<1> QED
    BY <1>6, <1>7, <1>8, <1>9

-----------------------------------------------------------------------------
(* Requests and the clock.                                                  *)

LEMMA WorkIsStep ==
    ASSUME Inv, NEW w \in Workers, Work(w) \/ Heartbeat(w) \/ Stop(w) \/ Exit(w), Store!TypeOK'
    PROVE  Step(w)
BY IdleSteps, PassSteps, ExecuteSteps, ReleaseSteps, PollSteps, SaveSteps, FinishSteps
   DEF Work, Pass, Execute, Shutdown

LEMMA WorkKeepsOthers ==
    ASSUME Inv, NEW w \in Workers, Work(w) \/ Heartbeat(w) \/ Stop(w) \/ Exit(w)
    PROVE  Others'
<1>1. \/ UNCHANGED <<active, cancelling, faults>>
      \/ Fault /\ UNCHANGED <<active, cancelling>>
      \/ cancelling' \subseteq cancelling /\ UNCHANGED <<active, faults>>
    BY DEF Work, Pass, Execute, Shutdown, Save, Start, BeginPass, PassEmpty, PollSweep, PollQueued, PollDue,
           PollNothing, PollFails, ClaimerReturns, ClaimerReleases, Idle, TakeClaim, RestoreSwap, CheckWanted,
           BeginAnswer, Answer, NoAnswer, CheckTask, CheckFails, TakeSaved, Settle, NotSettled, SettleFails,
           Discard, SaverUpserts, SaverSyncs, SaverDiscards, EndLoop, GiveClaimBack, LastFinish, CancelLoop,
           Heartbeat, Stop, Exit, Release, Quiet, Served
<1> QED
    BY <1>1, SchedulerAssumption DEF Inv, Others, Fault

(* A request, a deletion or a tick: no scheduler moves, though a run may be *)
(* cancelled or taken from under it.                                        *)
CancelOnly(w) == sched'[w] = sched[w] \/ \E cancel \in BOOLEAN : sched'[w] = [sched[w] EXCEPT !.cancel = cancel]

LEMMA RequestMoves ==
    ASSUME Inv, Requests \/ Tick
    PROVE  /\ AllMove /\ made' >= made /\ clock' >= clock
           /\ \A w \in Workers : sched[w].run # 0 => Outside(sched[w].run)
<1>1. Store!TypeOK /\ made \in Nat /\ clock \in Nat /\ clock \in 0..clock
    BY StoreAssumption DEF Inv, Tables, Store!TypeOK
<1>2. \A w \in Workers : sched[w].run # 0 => sched[w].run \in RunIds /\ sched[w].run # made + 1
    BY <1>1, HandFacts DEF RunIds, Store!RunIds
<1>3. ASSUME made' = made, clock' >= clock, \A r \in RunIds : Outside(r)
      PROVE  /\ AllMove /\ made' >= made /\ clock' >= clock
             /\ \A w \in Workers : sched[w].run # 0 => Outside(sched[w].run)
    BY <1>1, <1>2, <1>3 DEF AllMove, Moves
<1>4. CASE EditTasks \/ Tick
    <2>1. made' = made /\ \A r \in RunIds : Kept(r)
        BY <1>1, <1>4, EffectOfOthers DEF EditTasks, Tick
    <2>2. clock' >= clock
        <3>1. EditTasks => clock' = clock
            BY DEF EditTasks, Store!CreateTask, Store!UpdateTask
        <3>2. Tick => clock' = clock + 1
            BY DEF Tick, Store!Tick
        <3> QED
            BY <1>1, <1>4, <3>1, <3>2
    <2> QED
        BY <1>3, <2>1, <2>2 DEF Outside
<1>5. CASE RunNow
    <2>1. PICK t \in Tasks : Store!RequestRun(t)
        BY <1>5 DEF RunNow
    <2>2. /\ made + 1 \in RunIds /\ made' = made + 1
          /\ \A r \in RunIds : runs[r].task = t => runs[r].status \notin {"queued", "running"}
          /\ \A r \in RunIds \ {made + 1} : Kept(r)
          /\ runs'[made + 1].status = "queued" /\ runs'[made + 1].task = t
          /\ chats' = chats
        BY <1>1, <2>1, EffectOfRequestRun
    <2>3. AllMove
        BY <2>2 DEF AllMove, Moves, Outside, Made
    <2>4. clock' = clock
        BY <2>1 DEF Store!RequestRun
    <2> QED
        BY <1>1, <1>2, <2>2, <2>3, <2>4 DEF Outside
<1>6. CASE DeleteChat
    <2>1. PICK r \in RunIds : Store!ChatExists(r) /\ Store!DeleteChat(r)
        BY <1>6 DEF DeleteChat, RunIds
    <2>2. r <= made
        BY <1>1, <2>1 DEF Inv, Tables, UnmadeIsEmpty, Store!ChatExists, RunIds, Store!RunIds
    <2>3. /\ made' = made
          /\ Unchatted(r)
          /\ \A q \in RunIds \ {r} : Kept(q)
          /\ clock' = clock
        BY <1>1, <2>1, <2>2, EffectOfDeleteChat DEF Store!DeleteChat
    <2> QED
        BY <1>1, <1>3, <2>3 DEF Outside
<1>7. ASSUME NEW w \in Workers, NEW t \in Tasks, DeleteTask(w, t)
      PROVE  made' = made /\ clock' >= clock /\ \A r \in RunIds : Outside(r)
    <2>1. Store!DeleteTask(t)
        BY <1>7 DEF DeleteTask
    <2>2. clock' = clock
        BY <2>1 DEF Store!DeleteTask
    <2> QED
        BY <1>1, <2>1, <2>2, EffectOfDeleteTask
<1>8. CASE UNCHANGED store
    BY <1>1, <1>3, <1>8 DEF store, Outside, Kept, Same
<1> QED
    BY <1>3, <1>4, <1>5, <1>6, <1>7, <1>8 DEF Requests, DisableAccount, EnableAccount, CancelRun

LEMMA RequestSched ==
    ASSUME Inv, Requests \/ Tick
    PROVE  /\ sched' = [w \in Workers |-> sched'[w]]
           /\ \A w \in Workers : CancelOnly(w)
           /\ Others'
<1>4. Others'
    <2>1. ASSUME NEW w \in Workers, NEW T \in SUBSET Tasks,
                 cancelling' = cancelling \cup {[by |-> w, task |-> t] : t \in T},
                 active' \subseteq active, faults' = faults
          PROVE  Others'
        BY <2>1 DEF Inv, Others
    <2>2. ASSUME NEW w \in Workers, NEW t \in Tasks, DeleteTask(w, t) PROVE Others'
        BY <2>2 DEF DeleteTask, Inv, Others
    <2>3. ASSUME NEW w \in Workers, NEW a \in Accounts, DisableAccount(w, a) PROVE Others'
        <3>1. {u \in Tasks : AccountOf[u] = a} \in SUBSET Tasks
            OBVIOUS
        <3> QED
            BY <2>1, <2>3, <3>1 DEF DisableAccount
    <2> QED
        BY <2>2, <2>3
           DEF Requests, EditTasks, RunNow, DeleteChat, EnableAccount, CancelRun, Tick, Inv, Others
<1>1. CASE UNCHANGED sched
    <2>1. sched = [w \in Workers |-> sched[w]]
        BY DEF Inv, Schedulers
    <2>2. sched' = [w \in Workers |-> sched'[w]]
        BY <1>1, <2>1
    <2> QED
        BY <1>1, <1>4, <2>2 DEF CancelOnly
<1>2. ASSUME NEW c \in cancelling, CancelRun(c)
      PROVE  sched' = [w \in Workers |-> sched'[w]] /\ \A w \in Workers : CancelOnly(w)
    <2>1. c.by \in Workers /\ sched[c.by].cancel \in BOOLEAN
        BY MineFacts, SchedulerSet DEF Inv, Others
    <2>2. PICK cancel \in BOOLEAN : sched' = [sched EXCEPT ![c.by].cancel = cancel]
        <3>1. (sched[c.by].cancel \/ (IsActive(c.by) /\ sched[c.by].task = c.task)) \in BOOLEAN
            BY <2>1
        <3> QED
            BY <1>2, <3>1 DEF CancelRun
    <2>3. sched = [w \in Workers |-> sched[w]]
        BY DEF Inv, Schedulers
    <2> QED
        BY <2>1, <2>2, <2>3 DEF CancelOnly
<1>3. UNCHANGED sched \/ \E c \in cancelling : CancelRun(c)
    BY DEF Requests, EditTasks, RunNow, DeleteChat, DeleteTask, DisableAccount, EnableAccount, Tick
<1> QED
    BY <1>1, <1>2, <1>3, <1>4

LEMMA RequestKeepsInv ==
    ASSUME Inv, Requests \/ Tick, Store!TypeOK', DeadIsNeverDue'
    PROVE  Inv'
<1>1. Tables'
    BY RequestMoves, TablesStep DEF Inv
<1>2. ASSUME NEW w \in Workers
      PROVE  Mine(w, sched[w])' /\ sched'[w].run = sched[w].run
    <2>1. PICK cancel \in BOOLEAN :
            sched'[w] = sched[w] \/ sched'[w] = [sched[w] EXCEPT !.cancel = cancel]
        BY RequestSched DEF CancelOnly
    <2> QED
        BY <2>1, RequestMoves, MineStays
<1>3. OneHand' /\ Schedulers'
    BY <1>2, RequestSched DEF Inv, OneHand, Schedulers
<1> QED
    BY <1>1, <1>3, RequestSched DEF Inv

-----------------------------------------------------------------------------
(* The invariant, and what follows from it alone.                           *)

LEMMA InvInit ==
    ASSUME Init
    PROVE  Inv
<1>1. Store!TypeOK
    BY StoreAssumption
       DEF Init, Store!Init, Store!TypeOK, Store!Task, Store!Times, Store!Row, Store!RowOK, Store!RunIds,
           Store!NoRow, Store!Unborn
<1>2. DeadIsNeverDue
    BY DEF Init, Store!Init, DeadIsNeverDue, Store!Unborn
<1>3. UnmadeIsEmpty /\ QueuedRunHasNoChat /\ FailedRunHasNoChat /\ SucceededKeepsChat
    BY DEF Init, Store!Init, UnmadeIsEmpty, QueuedRunHasNoChat, FailedRunHasNoChat, SucceededKeepsChat,
           Store!ChatExists, Store!NoRow, RunIds
<1>4. ActiveIsNewest
    BY DEF Init, Store!Init, ActiveIsNewest, Store!NoRow, RunIds
<1>5. clock \in Nat /\ 0 <= clock
    BY DEF Init, Store!Init
<1>6. Shape(Off) /\ \A w \in Workers : Hand(w, Off)
    BY OffFields DEF Shape, Hand
<1>7. Schedulers
    BY <1>5, <1>6, OffFields DEF Init, Schedulers, Mine
<1>8. OneHand
    BY OffFields DEF Init, OneHand
<1> QED
    BY <1>1, <1>2, <1>3, <1>4, <1>7, <1>8, SchedulerAssumption DEF Init, Inv, Tables, Others

LEMMA InvStep ==
    ASSUME Inv, [Next]_vars
    PROVE  Inv'
<1>1. Store!TypeOK' /\ DeadIsNeverDue'
    BY EveryStepIsStore, StoreTypeStep, DeadStep DEF Inv, Tables, StoreStep
<1>2. ASSUME NEW w \in Workers, Work(w) \/ Heartbeat(w) \/ Stop(w) \/ Exit(w)
      PROVE  Inv'
    BY <1>1, <1>2, WorkIsStep, WorkKeepsOthers, StepKeepsInv
<1>3. CASE UNCHANGED vars
    BY <1>3 DEF vars, store, Inv, Tables, Schedulers, Mine, Hand, Shape, OneHand, Others, Store!TypeOK,
                DeadIsNeverDue, UnmadeIsEmpty, ActiveIsNewest, QueuedRunHasNoChat, FailedRunHasNoChat,
                SucceededKeepsChat, Store!Owns, Store!ChatExists
<1> QED
    BY <1>1, <1>2, <1>3, RequestKeepsInv DEF Next

LEMMA InvHolds == Spec => []Inv
BY InvInit, InvStep, PTL DEF Spec

(* The tables and the schedulers have their types, and a run's record and   *)
(* its chat agree at every moment, whatever thread is saving or stopping.   *)
THEOREM ConsistentHolds == Spec => []Consistent
<1>1. Inv => Consistent
    <2>1. Inv => sched \in [Workers -> Scheduler]
        BY MineFacts DEF Inv, Schedulers
    <2> QED
        BY <2>1 DEF Inv, Tables, Others, Consistent, TypeOK
<1> QED
    BY <1>1, InvHolds, PTL

(* No two schedulers execute the same run.                                  *)
THEOREM ExecutedOnceHolds == Spec => []ExecutedOnce
<1>1. Inv => ExecutedOnce
    BY HandFacts DEF Inv, OneHand, ExecutedOnce, IsActive, Executing, Shape
<1> QED
    BY <1>1, InvHolds, PTL

(* Every step of the schedulers and of the requests beside them is a        *)
(* transaction of the store, or leaves the tables alone.                    *)
THEOREM ImplementsStore == Spec => StoreSpec
<1>1. Init => Store!Init
    BY DEF Init
<1>2. Inv /\ [Next]_vars => [Store!Next]_Store!vars
    BY EveryStepIsStore DEF StoreStep
<1> QED
    BY <1>1, <1>2, InvHolds, PTL DEF Spec, StoreSpec, Store!Spec

-----------------------------------------------------------------------------
(* The contract of a run.                                                   *)

(* A step moves every run as one of the ways above.                         *)
LEMMA EveryRunMoves ==
    ASSUME Inv, [Next]_vars
    PROVE  AllMove
<1>1. ASSUME NEW w \in Workers, Work(w) \/ Heartbeat(w) \/ Stop(w) \/ Exit(w)
      PROVE  AllMove
    <2>1. Store!TypeOK'
        BY EveryStepIsStore, StoreTypeStep DEF Inv, Tables, StoreStep
    <2> QED
        BY <1>1, <2>1, WorkIsStep DEF Step
<1>2. CASE UNCHANGED vars
    BY <1>2 DEF vars, store, AllMove, Moves, Outside, Kept, Same
<1> QED
    BY <1>1, <1>2, RequestMoves DEF Next

Shown(r) == Store!ChatExists(r) /\ Phase(r) \notin {"queued", "running"}

LEMMA PhaseStep ==
    ASSUME Inv, Inv', AllMove, NEW r \in RunIds
    PROVE  /\ \/ Phase(r) = "none" /\ Phase(r)' \in {"queued", "running"}
              \/ Phase(r) = "queued" /\ Phase(r)' = "running"
              \/ Phase(r) = "running" /\ Phase(r)' \in {"succeeded", "failed", "queued", "gone"}
              \/ Phase(r) \notin {"running", "none"} /\ Phase(r)' = "gone"
              \/ Phase(r)' = Phase(r)
           /\ ~Shown(r) /\ Shown(r)' => Phase(r) = "running" /\ Phase(r)' = "succeeded"
<1>1. /\ r \in Nat /\ made \in Nat /\ made' \in Nat
      /\ r > made => runs[r].status = "none" /\ chats[r] = "none"
      /\ r > made' => runs'[r].status = "none" /\ chats'[r] = "none"
      /\ runs[r].status = "queued" => ~Store!ChatExists(r)
      /\ runs[r].status \in {"none", "queued", "running", "succeeded", "failed"}
      /\ Made(r) \/ made' = made \/ (made' = made + 1 /\ r # made + 1)
    <2>1. Made(r) \/ made' = made \/ (made' = made + 1 /\ r # made + 1)
        <3>1. CASE r = made + 1
            BY <3>1 DEF AllMove
        <3>2. Made(made + 1) => made' = made + 1
            BY DEF Made
        <3> QED
            BY <3>1, <3>2 DEF AllMove
    <2> QED
        BY <2>1, StoreAssumption, RowFacts
           DEF Inv, Tables, Store!TypeOK, UnmadeIsEmpty, QueuedRunHasNoChat, RunIds, Store!RunIds
<1>2. CASE Made(r)
    BY <1>1, <1>2 DEF Made, Phase, Shown
<1>3. CASE ~Made(r) /\ (Kept(r) \/ Unchatted(r) \/ Saved(r))
    <2>1. Phase(r)' = Phase(r)
        BY <1>1, <1>3 DEF Kept, Unchatted, Saved, Same, Phase
    <2> QED
        BY <1>1, <1>3, <2>1 DEF Kept, Unchatted, Saved, Same, Phase, Shown, Store!ChatExists
<1>4. CASE ~Made(r) /\ (Swept(r) \/ Dropped(r) \/ Returned(r) \/ Settled(r) \/ Taken(r))
    <2>1. r <= made /\ r <= made'
        BY <1>1, <1>4 DEF Swept, Dropped, Returned, Settled, Taken
    <2> QED
        BY <1>1, <1>4, <2>1
           DEF Swept, Dropped, Returned, Settled, Taken, Phase, Shown, Store!ChatExists, Store!NoRow
<1> QED
    BY <1>2, <1>3, <1>4 DEF AllMove, Moves, Outside

(* With their threads, retries and crashes the schedulers keep the contract *)
(* of a run: its chat appears in the step that records its success.         *)
THEOREM RunContractHolds == Spec => RunContract
<1>1. Init => Contract!Init
    BY DEF Init, Store!Init, Contract!Init, Phase, Store!NoRow, Store!ChatExists, Store!RunIds
<1>2. ASSUME Inv, Inv', [Next]_vars
      PROVE  Contract!Next
    <2>1. ASSUME NEW r \in RunIds
          PROVE  /\ \/ Contract!Queue(r) \/ Contract!Begin(r) \/ Contract!Settle(r) \/ Contract!GiveBack(r)
                    \/ Contract!Forget(r) \/ Contract!Stay(r)
                 /\ Contract!ShowOnlySuccess(r)
        BY <1>2, EveryRunMoves, PhaseStep
           DEF Contract!Queue, Contract!Begin, Contract!Settle, Contract!GiveBack, Contract!Forget,
               Contract!Stay, Contract!ShowOnlySuccess, Contract!Finished, RunIds, Shown
    <2> QED
        BY <2>1 DEF Contract!Next, RunIds
<1>3. Inv /\ Inv' /\ [Next]_vars => [Contract!Next]_<<[r \in Store!RunIds |-> Phase(r)], {r \in Store!RunIds : Store!ChatExists(r) /\ Phase(r) \notin {"queued", "running"}}>>
    BY <1>2
<1> QED
    BY <1>1, <1>3, InvHolds, PTL DEF Spec, RunContract, Contract!Spec

-----------------------------------------------------------------------------
(* A run starts on its own account's model.                                 *)

(* The steps that end _execute.                                             *)
Leaves(w) == (Settle(w) \/ NotSettled(w) \/ SettleFails(w) \/ Discard(w)) /\ LoopOn(w)

(* The steps that leave a scheduler with nothing in hand.                   *)
LEMMA ResetFields ==
    ASSUME Inv, NEW w \in Workers,
           Start(w) \/ Idle(w) \/ Exit(w) \/ GiveClaimBack(w) \/ (Leaves(w) /\ sched[w].proc # "cancelled")
    PROVE  /\ sched'[w].run = 0 /\ sched'[w].tries = 0 /\ sched'[w].claimer = "none"
           /\ sched'[w].pc \in {"loop", "gone", "ended"}
           /\ sched'[w].pc = "gone" => sched'[w].proc = "gone"
           /\ sched'[w].swap \in {None, sched[w].swap} \cup Loading
<1>1. sched[w].swap \in SomeAccount /\ sched[w].last \in SomeAccount /\ None \in SomeAccount
      /\ sched = [v \in Workers |-> sched[v]]
    BY MineFacts, SchedulerSet DEF SomeAccount, Inv, Schedulers
<1>2. ASSUME NEW proc, NEW pc \in {"loop", "gone", "ended"}, NEW swap, NEW last,
             pc = "gone" => proc = "gone", swap \in {None, sched[w].swap} \cup Loading,
             Only(w, OffAt(proc, pc, swap, last))
      PROVE  /\ sched'[w].run = 0 /\ sched'[w].tries = 0 /\ sched'[w].claimer = "none"
             /\ sched'[w].pc \in {"loop", "gone", "ended"}
             /\ sched'[w].pc = "gone" => sched'[w].proc = "gone"
             /\ sched'[w].swap \in {None, sched[w].swap} \cup Loading
    <2>1. sched'[w] = OffAt(proc, pc, swap, last)
        BY <1>1, <1>2 DEF Only
    <2>2. /\ OffAt(proc, pc, swap, last).pc = pc /\ OffAt(proc, pc, swap, last).proc = proc
          /\ OffAt(proc, pc, swap, last).swap = swap
          /\ OffAt(proc, pc, swap, last).run = Off.run /\ OffAt(proc, pc, swap, last).tries = Off.tries
          /\ OffAt(proc, pc, swap, last).claimer = Off.claimer
        BY OffFields, SchedulerSet DEF OffAt
    <2> QED
        BY <1>2, <2>1, <2>2, OffFields
<1>3. CASE Start(w)
    <2>1. Only(w, OffAt("up", "loop", None, None))
        BY <1>3, OffForms DEF Start
    <2> QED
        BY <1>2, <2>1
<1>4. CASE Exit(w)
    <2>1. Only(w, OffAt("gone", "gone", None, None))
        BY <1>4, OffForms DEF Exit
    <2> QED
        BY <1>2, <2>1
<1>5. CASE Idle(w)
    <2>1. Only(w, OffAt(sched[w].proc, "loop", None, sched[w].last))
        BY <1>5, OffForms DEF Idle
    <2> QED
        BY <1>2, <2>1
<1>6. CASE GiveClaimBack(w)
    <2>1. Only(w, OffAt(sched[w].proc, "ended", sched[w].swap, sched[w].last))
        BY <1>6, OffForms DEF GiveClaimBack
    <2> QED
        BY <1>2, <2>1
<1>7. CASE Leaves(w) /\ sched[w].proc # "cancelled"
    <2>1. PICK swap \in {sched[w].swap} \cup ({AccountOf[sched[w].task]} \cap Loading) :
            Only(w, [Free(w) EXCEPT !.pc = "loop", !.swap = swap])
        BY <1>7 DEF Leaves, LoopOn
    <2>2. Only(w, OffAt(sched[w].proc, "loop", swap, sched[w].last))
        BY <2>1, OffForms
    <2> QED
        BY <1>2, <2>1, <2>2
<1> QED
    BY <1>3, <1>4, <1>5, <1>6, <1>7

(* What the others do to the run in hand, the swap and the attempts.        *)
Rest(w) ==
    \/ BeginPass(w) \/ PollSweep(w) \/ PollNothing(w) \/ PollFails(w) \/ ClaimerReturns(w) \/ TakeClaim(w)
    \/ CheckWanted(w) \/ BeginAnswer(w) \/ Answer(w) \/ NoAnswer(w) \/ CheckTask(w) \/ CheckFails(w)
    \/ TakeSaved(w) \/ Save(w) \/ EndLoop(w) \/ CancelLoop(w) \/ LastFinish(w) \/ Heartbeat(w) \/ Stop(w)
    \/ SettleFails(w) /\ ~LoopOn(w)
    \/ NotSettled(w) /\ ~LoopOn(w)
    \/ Leaves(w) /\ sched[w].proc = "cancelled"

Asked(w) == sched[w].pc \in {"told", "answer"}
Wider(w) ==
    /\ sched'[w].run = sched[w].run /\ sched'[w].task = sched[w].task /\ sched'[w].swap = sched[w].swap
    /\ IsActive(w)' => IsActive(w) \/ sched'[w].pc = AfterClaim(w)
    /\ \/ ~Asked(w)'
       \/ Asked(w) /\ (sched[w].cancel => sched'[w].cancel)
       \/ StillWanted(w) /\ UNCHANGED <<store, active, cancelling>>

LEMMA RestFields ==
    ASSUME Inv, NEW w \in Workers, Rest(w)
    PROVE  Wider(w)
<1>0. sched[w] \in Scheduler /\ sched = [v \in Workers |-> sched[v]]
    BY MineFacts DEF Inv, Schedulers
<1>1. BeginPass(w) => Wider(w)
    BY <1>0, SchedulerSet DEF Wider, Asked, IsActive, Executing, BeginPass, Only
<1>2. PollSweep(w) => Wider(w)
    BY <1>0, SchedulerSet DEF Wider, Asked, IsActive, Executing, PollSweep, Only
<1>3. PollNothing(w) => Wider(w)
    BY <1>0, SchedulerSet DEF Wider, Asked, IsActive, Executing, PollNothing, NextAccount, Only
<1>4. PollFails(w) => Wider(w)
    BY <1>0, SchedulerSet DEF Wider, Asked, IsActive, Executing, PollFails, NextAccount, Only
<1>5. ClaimerReturns(w) => Wider(w)
    BY <1>0, SchedulerSet DEF Wider, Asked, IsActive, Executing, ClaimerReturns, Only
<1>6. CASE TakeClaim(w)
    <2>1. /\ sched'[w].run = sched[w].run /\ sched'[w].task = sched[w].task /\ sched'[w].swap = sched[w].swap
          /\ sched'[w].pc = AfterClaim(w)
        BY <1>0, <1>6, SchedulerSet DEF TakeClaim, Only
    <2>2. AfterClaim(w) \notin {"told", "answer"}
        BY DEF AfterClaim
    <2> QED
        BY <2>1, <2>2 DEF Wider, Asked
<1>7. CASE CheckWanted(w)
    <2>1. CASE StillWanted(w)
        <3>1. /\ sched'[w].run = sched[w].run /\ sched'[w].task = sched[w].task /\ sched'[w].swap = sched[w].swap
              /\ sched'[w].pc = "told" /\ sched[w].pc = "wanted"
            BY <1>0, <1>7, <2>1, SchedulerSet DEF CheckWanted, Goto, Only
        <3> QED
            BY <1>7, <2>1, <3>1 DEF Wider, CheckWanted, Quiet, IsActive, Executing
    <2>2. CASE ~StillWanted(w)
        <3>1. /\ sched'[w].run = sched[w].run /\ sched'[w].task = sched[w].task /\ sched'[w].swap = sched[w].swap
              /\ sched'[w].pc = "settle"
            <4>1. Only(w, Settling(w, "failed"))
                BY <1>7, <2>2 DEF CheckWanted
            <4> QED
                BY <1>0, <4>1, SchedulerSet DEF Settling, Only
        <3> QED
            BY <3>1 DEF Wider, Asked, IsActive, Executing
    <2> QED
        BY <2>1, <2>2
<1>8. BeginAnswer(w) => Wider(w)
    BY <1>0, SchedulerSet DEF Wider, Asked, IsActive, Executing, BeginAnswer, Goto, Only
<1>9. Answer(w) => Wider(w)
    BY <1>0, SchedulerSet DEF Wider, Asked, IsActive, Executing, Answer, Goto, Only
<1>10. NoAnswer(w) => Wider(w)
    BY <1>0, SchedulerSet DEF Wider, Asked, IsActive, Executing, NoAnswer, Settling, Only
<1>11. CASE CheckTask(w)
    <2>1. /\ sched'[w].run = sched[w].run /\ sched'[w].task = sched[w].task /\ sched'[w].swap = sched[w].swap
          /\ sched'[w].pc \in {"save", "settle"} /\ sched[w].pc = "check"
        <3>1. CASE Only(w, [sched[w] EXCEPT !.pc = "save", !.saving = TRUE, !.saver = "upsert"])
            BY <1>0, <1>11, <3>1, SchedulerSet DEF Only, CheckTask
        <3>2. CASE Only(w, Settling(w, "failed"))
            BY <1>0, <1>11, <3>2, SchedulerSet DEF Only, Settling, CheckTask
        <3> QED
            BY <1>11, <3>1, <3>2 DEF CheckTask
    <2> QED
        BY <2>1 DEF Wider, Asked, IsActive, Executing
<1>12. CheckFails(w) => Wider(w)
    BY <1>0, SchedulerSet DEF Wider, Asked, IsActive, Executing, CheckFails, Settling, Only
<1>13. CASE TakeSaved(w)
    <2>1. /\ sched'[w].run = sched[w].run /\ sched'[w].task = sched[w].task /\ sched'[w].swap = sched[w].swap
          /\ sched'[w].pc = "settle"
        BY <1>0, <1>13, SchedulerSet DEF TakeSaved, Settling, Only
    <2> QED
        BY <2>1 DEF Wider, Asked, IsActive, Executing
<1>14. Save(w) => Wider(w)
    BY <1>0, SchedulerSet DEF Wider, Asked, IsActive, Executing, Save, SaverUpserts, SaverSyncs, SaverDiscards, Saver, Only
<1>15. EndLoop(w) => Wider(w)
    BY <1>0, SchedulerSet DEF Wider, Asked, IsActive, Executing, EndLoop, Goto, Only
<1>16. CASE CancelLoop(w)
    <2>1. PICK pc \in AfterCancel(w) :
            Only(w, [sched[w] EXCEPT !.proc = "cancelled", !.pc = pc, !.cancel = FALSE])
        BY <1>16 DEF CancelLoop
    <2>2. /\ sched'[w].run = sched[w].run /\ sched'[w].task = sched[w].task /\ sched'[w].swap = sched[w].swap
          /\ sched'[w].pc = pc
        BY <1>0, <2>1, SchedulerSet DEF Only
    <2>3. pc \notin Executing
        BY <2>1 DEF AfterCancel, Executing
    <2> QED
        BY <2>2, <2>3 DEF Wider, Asked, IsActive, Executing
<1>17. LastFinish(w) => Wider(w)
    BY <1>0, SchedulerSet DEF Wider, Asked, IsActive, Executing, LastFinish, Goto, Only
<1>18. Heartbeat(w) => Wider(w)
    BY <1>0, SchedulerSet DEF Wider, Asked, IsActive, Executing, Heartbeat, Only
<1>19. CASE Stop(w)
    <2>1. PICK cancel : cancel = IsActive(w)
        OBVIOUS
    <2>2. Only(w, [sched[w] EXCEPT !.proc = "stopping", !.cancel = cancel])
        BY <1>19, <2>1 DEF Stop
    <2>3. /\ sched'[w].run = sched[w].run /\ sched'[w].task = sched[w].task /\ sched'[w].swap = sched[w].swap
          /\ sched'[w].pc = sched[w].pc /\ sched'[w].cancel = cancel
        BY <1>0, <2>2, SchedulerSet DEF Only
    <2> QED
        BY <2>1, <2>3 DEF Wider, Asked, IsActive, Executing
<1>20. CASE \/ SettleFails(w) /\ ~LoopOn(w)
            \/ NotSettled(w) /\ ~LoopOn(w)
            \/ Leaves(w) /\ sched[w].proc = "cancelled"
    <2>1. /\ sched'[w].run = sched[w].run /\ sched'[w].task = sched[w].task /\ sched'[w].swap = sched[w].swap
          /\ sched'[w].pc \in {"settle", "discard", "ended"}
        <3>1. ASSUME NEW pc, Goto(w, pc)
              PROVE  /\ sched'[w].run = sched[w].run /\ sched'[w].task = sched[w].task /\ sched'[w].swap = sched[w].swap
                     /\ sched'[w].pc = pc
            BY <1>0, <3>1, SchedulerSet DEF Goto, Only
        <3>2. ASSUME sched[w].pc = "settle", Only(w, [sched[w] EXCEPT !.tries = @ + 1])
              PROVE  /\ sched'[w].run = sched[w].run /\ sched'[w].task = sched[w].task /\ sched'[w].swap = sched[w].swap
                     /\ sched'[w].pc = "settle"
            BY <1>0, <3>2, SchedulerSet DEF Only
        <3> QED
            BY <1>20, <3>1, <3>2 DEF Leaves, SettleFails, NotSettled, LoopOn
    <2> QED
        BY <2>1 DEF Wider, Asked, IsActive, Executing
<1> QED
    BY <1>1, <1>2, <1>3, <1>4, <1>5, <1>6, <1>7, <1>8, <1>9, <1>10, <1>11, <1>12, <1>13, <1>14, <1>15, <1>16, <1>17, <1>18, <1>19, <1>20 DEF Rest

LEMMA WorkerStep ==
    ASSUME Inv, NEW w \in Workers, Work(w) \/ Heartbeat(w) \/ Stop(w) \/ Exit(w)
    PROVE  /\ \A v \in Workers \ {w} : sched'[v] = sched[v]
           /\ \/ Start(w) \/ Idle(w) \/ Exit(w) \/ GiveClaimBack(w) \/ (Leaves(w) /\ sched[w].proc # "cancelled")
              \/ Rest(w)
              \/ PassEmpty(w) \/ PollQueued(w) \/ PollDue(w) \/ ClaimerReleases(w) \/ RestoreSwap(w)
<1>1. Store!TypeOK'
    BY EveryStepIsStore, StoreTypeStep DEF Inv, Tables, StoreStep, Next
<1>2. sched' = [sched EXCEPT ![w] = sched'[w]] /\ sched = [v \in Workers |-> sched[v]]
    BY <1>1, WorkIsStep DEF Step, Inv, Schedulers
<1>3. \A v \in Workers \ {w} : sched'[v] = sched[v]
    BY <1>2
<1> QED
    BY <1>3 DEF Work, Pass, Execute, Shutdown, Rest, Leaves, Settle, Discard

LEMMA SwapIsOwnStep ==
    ASSUME Inv, SwapIsOwn, [Next]_vars
    PROVE  SwapIsOwn'
<1>1. ASSUME NEW w \in Workers, Work(w) \/ Heartbeat(w) \/ Stop(w) \/ Exit(w), IsActive(w)'
      PROVE  ~SwappedByOther(w)'
    <2>1. sched[w] \in Scheduler /\ sched = [v \in Workers |-> sched[v]] /\ Shape(sched[w])
        BY MineFacts DEF Inv, Schedulers, Mine
    <2>2. ~(Start(w) \/ Idle(w) \/ Exit(w) \/ GiveClaimBack(w) \/ (Leaves(w) /\ sched[w].proc # "cancelled"))
        BY <1>1, ResetFields DEF IsActive, Executing
    <2>3. CASE PassEmpty(w) \/ PollQueued(w) \/ PollDue(w) \/ ClaimerReleases(w)
        <3>1. sched'[w].pc = sched[w].pc /\ sched[w].claimer # "none"
            BY <2>1, <2>3, SchedulerSet
               DEF PassEmpty, PollQueued, PollDue, ClaimerReleases, Polling, Claimed, Only
        <3> QED
            BY <1>1, <2>1, <3>1 DEF Shape, IsActive, Executing
    <2>4. CASE RestoreSwap(w)
        <3>1. sched'[w].swap = None
            BY <2>1, <2>4, SchedulerSet DEF RestoreSwap, Only
        <3> QED
            BY <3>1 DEF SwappedByOther
    <2>5. CASE Rest(w)
        <3>1. CASE IsActive(w)
            BY <2>5, <3>1, RestFields DEF Wider, SwapIsOwn, SwappedByOther
        <3>2. CASE ~IsActive(w)
            <4>2. sched'[w].pc = AfterClaim(w)
                BY <1>1, <2>5, <3>2, RestFields DEF Wider
            <4>3. ~SwappedByOther(w)
                BY <1>1, <4>2 DEF AfterClaim, IsActive, Executing
            <4> QED
                BY <2>5, <4>3, RestFields DEF Wider, SwappedByOther
        <3> QED
            BY <3>1, <3>2
    <2> QED
        BY <1>1, <2>2, <2>3, <2>4, <2>5, WorkerStep
<1>2. ASSUME NEW w \in Workers, Work(w) \/ Heartbeat(w) \/ Stop(w) \/ Exit(w)
      PROVE  SwapIsOwn'
    <2>1. ASSUME NEW v \in Workers \ {w}, IsActive(v)' PROVE ~SwappedByOther(v)'
        BY <1>2, <2>1, WorkerStep DEF SwapIsOwn, IsActive, SwappedByOther
    <2> QED
        BY <1>1, <1>2, <2>1 DEF SwapIsOwn
<1>3. CASE Requests \/ Tick
    <2>1. ASSUME NEW w \in Workers
          PROVE  sched'[w].pc = sched[w].pc /\ sched'[w].task = sched[w].task /\ sched'[w].swap = sched[w].swap
        BY <1>3, RequestSched, MineFacts, SchedulerSet DEF CancelOnly
    <2> QED
        BY <2>1 DEF SwapIsOwn, IsActive, SwappedByOther
<1>4. CASE UNCHANGED vars
    BY <1>4 DEF vars, SwapIsOwn, IsActive, SwappedByOther
<1> QED
    BY <1>2, <1>3, <1>4 DEF Next

(* No run starts on the model another account's run left loaded.            *)
THEOREM SwapIsOwnHolds == Spec => []SwapIsOwn
<1>1. Init => SwapIsOwn
    BY OffFields DEF Init, SwapIsOwn, IsActive, Executing
<1> QED
    BY <1>1, SwapIsOwnStep, InvHolds, PTL DEF Spec

-----------------------------------------------------------------------------
(* An unwanted run is cancelled, by requests to its own process.            *)

LEMMA WantedStays ==
    ASSUME Inv, NEW w \in Workers, Work(w) \/ Heartbeat(w) \/ Stop(w) \/ Exit(w)
    PROVE  /\ active' = active
           /\ \A t \in Tasks : tasks'[t].state = tasks[t].state
           /\ cancelling' = cancelling \/ Exit(w)
<1>1. tasks \in [Tasks -> Store!Task]
    BY DEF Inv, Tables, Store!TypeOK
<1>2. \/ tasks' = tasks
      \/ \E t, next : tasks' = [tasks EXCEPT ![t].next = next]
    <2>1. CASE PollDue(w)
        BY <2>1 DEF PollDue, Store!ClaimDue
    <2>2. CASE ClaimerReleases(w) \/ GiveClaimBack(w)
        BY <2>2 DEF ClaimerReleases, GiveClaimBack, Release, Store!Requeue, Store!GiveBack, Quiet, Fault, store
    <2>3. CASE PollSweep(w) \/ PollQueued(w) \/ Save(w) \/ Settle(w) \/ LastFinish(w) \/ Discard(w) \/ Heartbeat(w)
        BY <2>3
           DEF PollSweep, Store!FailStale, PollQueued, Store!ClaimQueued, Save, SaverUpserts, SaverSyncs,
               SaverDiscards, Store!UpsertChat, Store!SyncChat, Store!DeleteChat, Settle, LastFinish, Finish,
               Store!FinishRun, Discard, Heartbeat, Store!Heartbeat, Quiet, Fault, store
    <2> QED
        BY <2>1, <2>2, <2>3
           DEF Work, Pass, Execute, Shutdown, Start, BeginPass, PassEmpty, PollNothing, PollFails,
               ClaimerReturns, Idle, TakeClaim, RestoreSwap, CheckWanted, BeginAnswer, Answer, NoAnswer,
               CheckTask, CheckFails, TakeSaved, NotSettled, SettleFails, EndLoop, CancelLoop,
               Stop, Exit, Quiet, Fault, store
<1>3. \A t \in Tasks : tasks'[t].state = tasks[t].state
    BY <1>1, <1>2 DEF Store!Task
<1>4. active' = active /\ (cancelling' = cancelling \/ Exit(w))
    BY DEF Work, Pass, Execute, Shutdown, Start, BeginPass, PassEmpty, PollSweep, PollQueued, PollDue,
           PollNothing, PollFails, ClaimerReturns, ClaimerReleases, Idle, TakeClaim, RestoreSwap, CheckWanted,
           BeginAnswer, Answer, NoAnswer, CheckTask, CheckFails, TakeSaved, Save, SaverUpserts, SaverSyncs,
           SaverDiscards, Settle, NotSettled, SettleFails, Discard, EndLoop, GiveClaimBack, LastFinish,
           CancelLoop, Heartbeat, Stop, Exit, Release, Quiet, Served, Fault
<1> QED
    BY <1>3, <1>4

Noted(w) == [by |-> w, task |-> sched[w].task] \in cancelling

LEMMA UnwantedWork ==
    ASSUME Inv, UnwantedInv, NEW w \in Workers, Work(w) \/ Heartbeat(w) \/ Stop(w) \/ Exit(w),
           Asked(w)', ~StillWanted(w)', ~Noted(w)'
    PROVE  sched'[w].cancel
<1>1. sched[w] \in Scheduler /\ sched = [v \in Workers |-> sched[v]] /\ Shape(sched[w])
    BY MineFacts DEF Inv, Schedulers, Mine
<1>2. ~(Start(w) \/ Idle(w) \/ Exit(w) \/ GiveClaimBack(w) \/ (Leaves(w) /\ sched[w].proc # "cancelled"))
    BY ResetFields DEF Asked
<1>3. ~(PassEmpty(w) \/ PollQueued(w) \/ PollDue(w) \/ ClaimerReleases(w))
    <2> SUFFICES ASSUME PassEmpty(w) \/ PollQueued(w) \/ PollDue(w) \/ ClaimerReleases(w) PROVE FALSE
        OBVIOUS
    <2>1. sched'[w].pc = sched[w].pc /\ sched[w].claimer # "none"
        BY <1>1, SchedulerSet DEF PassEmpty, PollQueued, PollDue, ClaimerReleases, Polling, Claimed, Only
    <2> QED
        BY <1>1, <2>1 DEF Shape, Asked
<1>4. ~RestoreSwap(w)
    <2> SUFFICES ASSUME RestoreSwap(w) PROVE FALSE
        OBVIOUS
    <2>1. sched'[w].pc = "wanted"
        BY <1>1, SchedulerSet DEF RestoreSwap, Only
    <2> QED
        BY <2>1 DEF Asked
<1>5. Wider(w)
    BY <1>2, <1>3, <1>4, WorkerStep, RestFields
<1>6. active' = active /\ cancelling' = cancelling /\ \A t \in Tasks : tasks'[t].state = tasks[t].state
    BY <1>2, WantedStays
<1>7. StillWanted(w)' <=> StillWanted(w)
    BY <1>5, <1>6 DEF Wider, StillWanted, Store!Live
<1> QED
    BY <1>5, <1>6, <1>7 DEF Wider, UnwantedInv, Asked, Noted

LEMMA UnwantedRequest ==
    ASSUME Inv, UnwantedInv, NEW w \in Workers, Workers = {w}, Requests \/ Tick,
           Asked(w)', ~StillWanted(w)', ~Noted(w)'
    PROVE  sched'[w].cancel
<1>1. /\ sched'[w].pc = sched[w].pc /\ sched'[w].task = sched[w].task
      /\ sched'[w] = sched[w] \/ \E c \in cancelling : CancelRun(c)
    <2>1. sched' = sched \/ \E c \in cancelling : CancelRun(c)
        BY DEF Requests, EditTasks, RunNow, DeleteChat, DeleteTask, DisableAccount, EnableAccount, Tick
    <2> QED
        BY <2>1, RequestSched, MineFacts, SchedulerSet DEF CancelOnly
<1>2. sched[w].task \in Tasks /\ tasks \in [Tasks -> Store!Task] /\ sched[w] \in Scheduler
    BY <1>1, MineFacts DEF Mine, Shape, Asked, Inv, Tables, Store!TypeOK
<1>3. ASSUME cancelling' = cancelling, sched'[w] = sched[w], StillWanted(w) => StillWanted(w)'
      PROVE  sched'[w].cancel
    BY <1>3 DEF UnwantedInv, Asked, Noted
<1>4. CASE EditTasks \/ RunNow \/ DeleteChat \/ Tick
    <2>1. cancelling' = cancelling /\ active' = active /\ sched' = sched
        BY <1>4 DEF EditTasks, RunNow, DeleteChat, Tick
    <2>2. tasks[sched[w].task].state = "live" => tasks'[sched[w].task].state = "live"
        <3>1. ASSUME EditTasks
              PROVE  \E t, row : tasks' = [tasks EXCEPT ![t] = row] /\ row.state = "live"
            <4>1. ASSUME NEW t, NEW s, NEW enabled,
                         Store!CreateTask(t, s, enabled, clock) \/ Store!UpdateTask(t, s, enabled, clock)
                  PROVE  \E row : tasks' = [tasks EXCEPT ![t] = row] /\ row.state = "live"
                <5> DEFINE row == [state |-> "live", enabled |-> enabled, schedule |-> s,
                                   next |-> Store!NextFromNow(s, enabled, clock)]
                <5>1. tasks' = [tasks EXCEPT ![t] = row] /\ row.state = "live"
                    BY <4>1 DEF Store!CreateTask, Store!UpdateTask
                <5> QED
                    BY <5>1
            <4> QED
                BY <3>1, <4>1 DEF EditTasks
        <3>2. RunNow \/ DeleteChat \/ Tick => tasks' = tasks
            BY DEF RunNow, DeleteChat, Tick, Store!RequestRun, Store!DeleteChat, Store!Tick
        <3> QED
            BY <1>2, <1>4, <3>1, <3>2
    <2> QED
        BY <1>3, <2>1, <2>2 DEF StillWanted, Store!Live
<1>5. ASSUME NEW t \in Tasks, DeleteTask(w, t)
      PROVE  sched'[w].cancel
    <2>1. sched[w].task # t
        BY <1>1, <1>5 DEF DeleteTask, Noted
    <2>2. tasks'[sched[w].task] = tasks[sched[w].task] /\ active' = active /\ sched' = sched
        BY <1>2, <1>5, <2>1 DEF DeleteTask, Store!DeleteTask
    <2>3. ~Noted(w) /\ ~StillWanted(w)
        BY <1>5, <2>2 DEF DeleteTask, Noted, StillWanted, Store!Live
    <2> QED
        BY <2>2, <2>3 DEF UnwantedInv, Asked, Noted
<1>6. ASSUME NEW a \in Accounts, DisableAccount(w, a)
      PROVE  sched'[w].cancel
    <2>1. AccountOf[sched[w].task] # a
        BY <1>1, <1>2, <1>6 DEF DisableAccount, Noted
    <2>2. sched' = sched /\ tasks' = tasks /\ active' = active \ {a}
        BY <1>6 DEF DisableAccount, store
    <2>3. ~Noted(w) /\ ~StillWanted(w)
        BY <1>6, <2>1, <2>2 DEF DisableAccount, Noted, StillWanted, Store!Live
    <2> QED
        BY <2>2, <2>3 DEF UnwantedInv, Asked, Noted
<1>7. ASSUME NEW a \in Accounts, EnableAccount(a)
      PROVE  sched'[w].cancel
    BY <1>3, <1>7 DEF EnableAccount, StillWanted, Store!Live, store
<1>8. ASSUME NEW c \in cancelling, CancelRun(c)
      PROVE  sched'[w].cancel
    <2>1. c.by = w /\ c = [by |-> c.by, task |-> c.task]
        BY DEF Inv, Others
    <2>2. ~StillWanted(w)
        BY <1>1, <1>8 DEF CancelRun, StillWanted, Store!Live, store
    <2>3. PICK cancel : /\ cancel = (sched[w].cancel \/ (IsActive(w) /\ sched[w].task = c.task))
                        /\ sched' = [sched EXCEPT ![w].cancel = cancel]
        BY <1>8, <2>1 DEF CancelRun
    <2>4. sched'[w].cancel = cancel
        <3>1. sched = [v \in Workers |-> sched[v]]
            BY DEF Inv, Schedulers
        <3> QED
            BY <1>2, <2>3, <3>1, SchedulerSet
    <2>5. IsActive(w) /\ Asked(w)
        BY <1>1 DEF IsActive, Executing, Asked
    <2>6. CASE Noted(w)
        <3>1. sched[w].task = c.task
            BY <1>1, <1>8, <2>1, <2>6 DEF CancelRun, Noted
        <3> QED
            BY <2>3, <2>4, <2>5, <3>1
    <2>7. CASE ~Noted(w)
        BY <2>2, <2>3, <2>4, <2>5, <2>7 DEF UnwantedInv, Asked, Noted
    <2> QED
        BY <2>6, <2>7
<1> QED
    BY <1>4, <1>5, <1>6, <1>7, <1>8 DEF Requests

(* A run that is no longer wanted is cancelled by the time the request that *)
(* took its task or account away returned, if one process serves them all.  *)
THEOREM UnwantedIsCancelledHolds ==
    ASSUME NEW u, Workers = {u}
    PROVE  Spec => []UnwantedIsCancelled
<1>1. Init => UnwantedInv
    BY OffFields DEF Init, UnwantedInv
<1>2. ASSUME Inv, UnwantedInv, [Next]_vars
      PROVE  UnwantedInv'
    <2> SUFFICES ASSUME Asked(u)', ~StillWanted(u)', ~Noted(u)'
                 PROVE  sched'[u].cancel
        BY DEF UnwantedInv, Asked, Noted
    <2>1. CASE UNCHANGED vars
        BY <1>2, <2>1 DEF vars, store, UnwantedInv, Asked, Noted, StillWanted, Store!Live
    <2> QED
        BY <1>2, <2>1, UnwantedWork, UnwantedRequest DEF Next
<1>3. UnwantedInv => UnwantedIsCancelled
    BY DEF UnwantedInv, UnwantedIsCancelled
<1> QED
    BY <1>1, <1>2, <1>3, InvHolds, PTL DEF Spec

-----------------------------------------------------------------------------
(* A scheduler that ended owns nothing.                                     *)

(* The run in the hand of w is its own before and after the step.           *)
Held(w) == \E r \in RunIds : r = sched[w].run /\ Store!Owns(w, r) /\ Store!Owns(w, r)'

LEMMA OwnsOnly ==
    ASSUME Inv, AllMove, NEW w \in Workers, Ended(w), sched[w].proc # "gone",
           NEW r \in RunIds, Store!Owns(w, r)'
    PROVE  \/ r = sched[w].run /\ Held(w)
           \/ r = sched'[w].run /\ sched'[w].claimer = "got"
<1>1. Store!Owns(w, r) \/ InHand(r)
    BY StoreAssumption
       DEF AllMove, Moves, Outside, Kept, Same, Unchatted, Swept, Dropped, Saved, Returned, Settled, Taken,
           Made, Store!Owns, Store!NoRow
<1>2. CASE Store!Owns(w, r)
    BY <1>2 DEF Ended, Held
<1>3. CASE InHand(r)
    BY <1>3 DEF InHand, Store!Owns
<1> QED
    BY <1>1, <1>2, <1>3

LEMMA EndedStep ==
    ASSUME Inv, Inv', AllMove, NEW w \in Workers, Ended(w), sched[w].proc # "gone",
           sched'[w].tries = 0,
           sched'[w].pc # "restore", sched'[w].swap \in Loading \cup {None},
           sched'[w].pc = "claiming" => sched'[w].claimer # "none",
           Held(w) => /\ sched'[w].run = sched[w].run /\ sched'[w].pc # "discard"
                      /\ sched'[w].pc = "ended" => sched'[w].claimer = "got"
    PROVE  Ended(w)'
<1>1. Shape(sched[w])' /\ (sched'[w].run # 0 => sched'[w].run \in RunIds)
    <2>1. Mine(w, sched[w])'
        BY DEF Inv, Schedulers
    <2> QED
        BY <2>1, StoreAssumption DEF Mine, Shape, Scheduler, RunIds, Store!RunIds
<1>2. ASSUME NEW r \in RunIds, Store!Owns(w, r)'
      PROVE  /\ sched'[w].run = r /\ sched'[w].pc # "discard"
             /\ sched'[w].pc = "ended" => sched'[w].claimer = "got"
    BY <1>1, <1>2, OwnsOnly DEF Shape
<1>3. sched'[w].pc = "discard" => ~Store!Owns(w, sched[w].run)'
    BY <1>1, <1>2 DEF Shape
<1> QED
    BY <1>2, <1>3 DEF Ended

LEMMA GoneRests ==
    ASSUME Inv, NEW w \in Workers, sched[w].proc = "gone"
    PROVE  ~(Work(w) \/ Heartbeat(w) \/ Stop(w) \/ Exit(w))
<1>1. sched[w].pc = "gone" /\ sched[w].claimer = "none" /\ sched[w].saver = "none"
    BY HandFacts DEF Shape
<1> QED
    BY <1>1 DEF Work, Pass, Execute, Shutdown, Start, BeginPass, PassEmpty, PollSweep, PollQueued, PollDue,
           PollNothing, PollFails, Polling, ClaimerReturns, ClaimerReleases, Idle, TakeClaim, RestoreSwap,
           CheckWanted, BeginAnswer, Answer, NoAnswer, CheckTask, CheckFails, TakeSaved, Save, SaverUpserts,
           SaverSyncs, SaverDiscards, Settle, NotSettled, SettleFails, Discard, EndLoop, GiveClaimBack,
           LastFinish, CancelLoop, Heartbeat, IsActive, Executing, Stop, Exit, Running, Stopping

LEMMA NoFault ==
    ASSUME Inv, [Next]_vars, faults' = 0
    PROVE  faults = 0 /\ ~Fault
<1>1. faults \in Nat
    BY SchedulerAssumption DEF Inv, Others
<1>2. ASSUME NEW w \in Workers, Work(w) \/ Heartbeat(w) \/ Stop(w) \/ Exit(w)
      PROVE  faults' = faults \/ Fault
    BY <1>2 DEF Work, Pass, Execute, Shutdown, Save, Start, BeginPass, PassEmpty, PollSweep, PollQueued, PollDue,
           PollNothing, PollFails, ClaimerReturns, ClaimerReleases, Idle, TakeClaim, RestoreSwap, CheckWanted,
           BeginAnswer, Answer, NoAnswer, CheckTask, CheckFails, TakeSaved, Settle, NotSettled, SettleFails,
           Discard, SaverUpserts, SaverSyncs, SaverDiscards, EndLoop, GiveClaimBack, LastFinish, CancelLoop,
           Heartbeat, Stop, Exit, Release, Quiet, Served
<1>3. faults' = faults \/ Fault
    BY <1>2 DEF Next, Requests, EditTasks, RunNow, DeleteChat, DeleteTask, DisableAccount, EnableAccount,
                CancelRun, Tick, vars
<1> QED
    BY <1>1, <1>3 DEF Fault

LEMMA ReleasedIsNotHeld ==
    ASSUME Inv, NEW w \in Workers, Release(w), ~Fault
    PROVE  ~Held(w)
<1> SUFFICES ASSUME NEW q \in RunIds, q = sched[w].run, Store!Owns(w, q), Store!Owns(w, q)'
             PROVE  FALSE
    BY DEF Held
<1>1. PICK next : next = sched[w].next
    OBVIOUS
<1>2. Store!Requeue(q, w) \/ Store!GiveBack(q, w, next)
    BY <1>1 DEF Release
<1>3. runs'[q].worker = None
    BY <1>2, EffectOfRelease DEF Inv, Tables
<1> QED
    BY <1>3, StoreAssumption DEF Store!Owns

(* How a run ends: settled, or no longer its scheduler's.                   *)
LEMMA SettledIsNotHeld ==
    ASSUME Inv, NEW w \in Workers, ~Fault, Ended(w),
           Settle(w) \/ NotSettled(w) \/ SettleFails(w) \/ Discard(w) \/ LastFinish(w)
    PROVE  ~Held(w)
<1> SUFFICES ASSUME NEW q \in RunIds, q = sched[w].run, Store!Owns(w, q), Store!Owns(w, q)' PROVE FALSE
    BY DEF Held
<1>1. ~Discard(w)
    BY DEF Discard, Ended
<1>2. Finish(w)
    BY <1>1 DEF Settle, NotSettled, SettleFails, LastFinish
<1>3. q # 0
    BY DEF RunIds, Store!RunIds
<1>4. runs'[q].status \in {"succeeded", "failed"}
    BY <1>2, <1>3, FinishMoves
<1> QED
    BY <1>4 DEF Store!Owns

LEMMA EndedReset ==
    ASSUME Inv, Inv', AllMove, NEW w \in Workers, Ended(w), ~Fault, sched[w].proc # "gone",
           Start(w) \/ Idle(w) \/ Exit(w) \/ GiveClaimBack(w) \/ (Leaves(w) /\ sched[w].proc # "cancelled")
    PROVE  Ended(w)'
<1>1. /\ sched'[w].run = 0 /\ sched'[w].tries = 0 /\ sched'[w].claimer = "none"
      /\ sched'[w].pc \in {"loop", "gone", "ended"}
      /\ sched'[w].pc = "gone" => sched'[w].proc = "gone"
      /\ sched'[w].swap \in {None, sched[w].swap} \cup Loading
    BY ResetFields
<1>2. sched'[w].swap \in Loading \cup {None}
    BY <1>1 DEF Ended
<1>3. CASE Exit(w)
    <2>1. sched'[w].pc = "gone"
        <3>1. Only(w, OffAt("gone", "gone", None, None))
            BY <1>3, OffForms DEF Exit
        <3> QED
            BY <3>1, OffFields, SchedulerSet DEF OffAt, Only, Inv, Schedulers
    <2> QED
        BY <1>1, <1>2, <2>1 DEF Ended
<1>4. CASE ~Exit(w)
    <2>1. ~Held(w)
        <3>1. CASE Start(w) \/ Idle(w)
            <4>1. sched[w].run = 0
                BY <3>1, HandFacts DEF Start, Idle, Shape
            <4> QED
                BY <4>1 DEF Held, RunIds, Store!RunIds
        <3>2. CASE GiveClaimBack(w)
            BY <3>2, ReleasedIsNotHeld DEF GiveClaimBack
        <3>3. CASE Leaves(w)
            BY <3>3, SettledIsNotHeld DEF Leaves
        <3> QED
            BY <1>4, <3>1, <3>2, <3>3
    <2> QED
        BY <1>1, <1>2, <2>1, EndedStep
<1> QED
    BY <1>3, <1>4

(* The steps that claim a run or end a pass.                                *)
LEMMA EndedClaim ==
    ASSUME Inv, Inv', AllMove, NEW w \in Workers, Ended(w), ~Fault, sched[w].proc # "gone",
           PassEmpty(w) \/ PollQueued(w) \/ PollDue(w) \/ ClaimerReleases(w)
    PROVE  Ended(w)'
<1>1. sched[w] \in Scheduler /\ sched = [v \in Workers |-> sched[v]]
    BY MineFacts DEF Inv, Schedulers
<1>2. /\ sched'[w].pc = sched[w].pc /\ sched'[w].tries = sched[w].tries /\ sched'[w].swap = sched[w].swap
      /\ sched'[w].claimer \in {"back", "got"}
    <2>1. PICK claimer, r, t, next : claimer \in {"back", "got"} /\ Only(w, Claimed(w, claimer, r, t, next))
        BY DEF PassEmpty, PollQueued, PollDue, ClaimerReleases
    <2>2. PICK me : me = Claimed(w, claimer, r, t, next)
        OBVIOUS
    <2>3. me.pc = sched[w].pc /\ me.tries = sched[w].tries /\ me.swap = sched[w].swap /\ me.claimer = claimer
        BY <1>1, <2>2, SchedulerSet DEF Claimed
    <2> QED
        BY <1>1, <2>1, <2>2, <2>3 DEF Only
<1>3. ~Held(w)
    <2>1. CASE PassEmpty(w) \/ PollQueued(w) \/ PollDue(w)
        <3>1. sched[w].run = 0
            BY <2>1, HandFacts DEF PassEmpty, PollQueued, PollDue, Polling, Shape
        <3> QED
            BY <3>1 DEF Held, RunIds, Store!RunIds
    <2>2. CASE ClaimerReleases(w)
        BY <2>2, ReleasedIsNotHeld DEF ClaimerReleases
    <2> QED
        BY <2>1, <2>2
<1> QED
    BY <1>2, <1>3, EndedStep DEF Ended

(* The others, with no swap that another account left.                      *)
LEMMA EndedRest ==
    ASSUME Inv, Inv', AllMove, NEW w \in Workers, Ended(w), ~Fault, sched[w].proc # "gone", Rest(w),
           sched[w].run # 0 => ~SwappedByOther(w)
    PROVE  Ended(w)'
<1>0. /\ sched[w] \in Scheduler /\ sched = [v \in Workers |-> sched[v]] /\ Shape(sched[w])
      /\ sched'[w].run = sched[w].run /\ sched'[w].swap = sched[w].swap
    BY MineFacts, RestFields DEF Inv, Schedulers, Mine, Wider
<1>1. ASSUME sched'[w].tries = sched[w].tries, sched'[w].pc # "restore",
             sched'[w].pc = "claiming" => sched'[w].claimer # "none",
             Held(w) => /\ sched'[w].pc # "discard"
                        /\ sched'[w].pc = "ended" => sched'[w].claimer = "got"
      PROVE  Ended(w)'
    BY <1>0, <1>1, EndedStep DEF Ended
<1>2. Held(w) => /\ sched[w].pc # "discard" /\ sched[w].run # 0
                 /\ sched[w].pc = "ended" => sched[w].claimer = "got"
    BY DEF Held, Ended, RunIds, Store!RunIds
<1>3. CASE Save(w) \/ Heartbeat(w) \/ Stop(w)
    <2>1. sched'[w].tries = sched[w].tries /\ sched'[w].pc = sched[w].pc /\ sched'[w].claimer = sched[w].claimer
        <3>1. CASE Save(w)
            BY <1>0, <3>1, SchedulerSet DEF Save, SaverUpserts, SaverSyncs, SaverDiscards, Saver, Only
        <3>2. CASE Stop(w)
            <4>1. PICK cancel : cancel = IsActive(w)
                OBVIOUS
            <4> QED
                BY <1>0, <3>2, <4>1, SchedulerSet DEF Stop, Only
        <3> QED
            BY <1>3, <3>1, <3>2 DEF Heartbeat
    <2> QED
        BY <1>1, <1>2, <2>1 DEF Ended
<1>4. CASE BeginPass(w)
    <2>1. sched'[w].tries = sched[w].tries /\ sched'[w].pc = "claiming" /\ sched'[w].claimer = "poll"
        BY <1>0, <1>4, SchedulerSet DEF BeginPass, Only
    <2> QED
        BY <1>1, <2>1
<1>5. CASE PollSweep(w) \/ PollNothing(w)
    <2>1. sched'[w].tries = sched[w].tries /\ sched'[w].pc = sched[w].pc /\ sched'[w].claimer \in {"swept", "poll"}
        BY <1>0, <1>5, SchedulerSet DEF PollSweep, PollNothing, NextAccount, Only
    <2>2. sched[w].run = 0
        BY <1>0, <1>5 DEF PollSweep, PollNothing, Polling, Shape
    <2> QED
        BY <1>1, <1>2, <2>1, <2>2 DEF Ended
<1>6. CASE ClaimerReturns(w)
    <2>1. sched'[w].tries = sched[w].tries /\ sched'[w].pc = sched[w].pc /\ sched'[w].claimer = "back"
        BY <1>0, <1>6, SchedulerSet DEF ClaimerReturns, Only
    <2>2. sched[w].pc = "claiming"
        BY <1>0, <1>6 DEF ClaimerReturns, Shape, Stopping
    <2> QED
        BY <1>1, <2>1, <2>2
<1>7. CASE TakeClaim(w)
    <2>1. sched'[w].tries = sched[w].tries /\ sched'[w].pc = AfterClaim(w)
        BY <1>0, <1>7, SchedulerSet DEF TakeClaim, Only
    <2>2. AfterClaim(w) \in {"release", "wanted"}
        BY <1>7 DEF TakeClaim, AfterClaim
    <2> QED
        BY <1>1, <2>1, <2>2
<1>8. CASE BeginAnswer(w) \/ Answer(w) \/ NoAnswer(w) \/ TakeSaved(w) \/ CheckWanted(w) \/ CheckTask(w)
    <2>1. ASSUME NEW outcome, Only(w, Settling(w, outcome))
          PROVE  sched'[w].tries = sched[w].tries /\ sched'[w].pc = "settle"
        BY <1>0, <2>1, SchedulerSet DEF Settling, Only
    <2>2. ASSUME NEW pc, Goto(w, pc)
          PROVE  sched'[w].tries = sched[w].tries /\ sched'[w].pc = pc
        BY <1>0, <2>2, SchedulerSet DEF Goto, Only
    <2>3. CASE TakeSaved(w)
        <3>1. sched'[w].tries = sched[w].tries /\ sched'[w].pc = "settle"
            BY <1>0, <2>3, SchedulerSet DEF TakeSaved, Settling, Only
        <3> QED
            BY <1>1, <3>1
    <2>4. CASE CheckTask(w)
        <3>1. CASE Only(w, [sched[w] EXCEPT !.pc = "save", !.saving = TRUE, !.saver = "upsert"])
            <4>1. sched'[w].tries = sched[w].tries /\ sched'[w].pc = "save"
                BY <1>0, <3>1, SchedulerSet DEF Only
            <4> QED
                BY <1>1, <4>1
        <3> QED
            BY <1>1, <2>1, <2>4, <3>1 DEF CheckTask
    <2>5. CASE BeginAnswer(w) \/ Answer(w) \/ NoAnswer(w) \/ CheckWanted(w)
        <3>1. sched'[w].tries = sched[w].tries /\ sched'[w].pc \in {"told", "answer", "check", "settle"}
            BY <2>1, <2>2, <2>5 DEF BeginAnswer, Answer, NoAnswer, CheckWanted
        <3> QED
            BY <1>1, <3>1
    <2> QED
        BY <1>8, <2>3, <2>4, <2>5
<1>9. CASE EndLoop(w)
    <2>1. sched'[w].tries = sched[w].tries /\ sched'[w].pc = "ended" /\ sched[w].run = 0
        BY <1>0, <1>9, SchedulerSet DEF EndLoop, Goto, Only, Shape
    <2> QED
        BY <1>1, <1>2, <2>1
<1>10. CASE CancelLoop(w)
    <2>1. PICK pc \in AfterCancel(w) :
            Only(w, [sched[w] EXCEPT !.proc = "cancelled", !.pc = pc, !.cancel = FALSE])
        BY <1>10 DEF CancelLoop
    <2>2. sched'[w].tries = sched[w].tries /\ sched'[w].pc = pc /\ sched'[w].claimer = sched[w].claimer
        BY <1>0, <2>1, SchedulerSet DEF Only
    <2>3. pc \in {"ended", "release", "discard", "lastFinish", "settle"}
        BY <2>1 DEF AfterCancel
    <2>4. pc = "discard" => sched[w].pc = "discard"
        BY <2>1 DEF AfterCancel
    <2>5. CASE pc = "ended"
        <3>1. sched[w].tries = 0 /\ sched[w].pc # "restore"
            BY DEF Ended
        <3>2. sched[w].pc = "claiming"
            BY <2>1, <2>5, <3>1 DEF AfterCancel
        <3>3. sched[w].claimer \in {"poll", "swept", "got"}
            BY <1>0, <1>10, <3>2, SchedulerSet DEF CancelLoop, Awaiting, Ended, Claimers
        <3> QED
            BY <1>0, <1>1, <1>2, <2>2, <2>5, <3>3 DEF Shape
    <2> QED
        BY <1>1, <1>2, <2>2, <2>3, <2>4, <2>5
<1>11. CASE \/ LastFinish(w)
            \/ NotSettled(w) /\ ~LoopOn(w)
            \/ Leaves(w) /\ sched[w].proc = "cancelled"
    <2>1. ~Held(w)
        BY <1>11, SettledIsNotHeld DEF Leaves
    <2>2. PICK pc \in {"discard", "ended"} : Goto(w, pc)
        BY <1>11 DEF LastFinish, NotSettled, Leaves, LoopOn
    <2>3. sched'[w].tries = sched[w].tries /\ sched'[w].pc = pc
        BY <1>0, <2>2, SchedulerSet DEF Goto, Only
    <2> QED
        BY <1>1, <2>1, <2>2, <2>3
<1> QED
    BY <1>3, <1>4, <1>5, <1>6, <1>7, <1>8, <1>9, <1>10, <1>11 DEF Rest, PollFails, CheckFails, SettleFails

LEMMA EndedWork ==
    ASSUME Inv, Inv', AllMove, NEW w \in Workers, Ended(w), ~Fault, \A a \in Loading : Accounts = {a},
           Work(w) \/ Heartbeat(w) \/ Stop(w) \/ Exit(w)
    PROVE  Ended(w)'
<1>1. sched[w].proc # "gone"
    BY GoneRests
<1>2. ~RestoreSwap(w)
    BY DEF RestoreSwap, Ended
<1>3. sched[w].run # 0 => ~SwappedByOther(w)
    <2>1. sched[w].run # 0 => AccountOf[sched[w].task] \in Accounts
        BY HandFacts, StoreAssumption DEF Shape
    <2> QED
        BY <2>1 DEF Ended, SwappedByOther
<1> QED
    BY <1>1, <1>2, <1>3, WorkerStep, EndedReset, EndedClaim, EndedRest

LEMMA EndedRequest ==
    ASSUME Inv, Inv', AllMove, NEW w \in Workers, Ended(w), Requests \/ Tick
    PROVE  Ended(w)'
<1>1. /\ sched'[w].run = sched[w].run /\ sched'[w].pc = sched[w].pc /\ sched'[w].claimer = sched[w].claimer
      /\ sched'[w].tries = sched[w].tries /\ sched'[w].swap = sched[w].swap /\ sched'[w].proc = sched[w].proc
    BY RequestSched, MineFacts, SchedulerSet DEF CancelOnly
<1>2. CASE sched[w].proc # "gone"
    <2>1. Held(w) => /\ sched[w].pc # "discard"
                     /\ sched[w].pc = "ended" => sched[w].claimer = "got"
        BY <1>2 DEF Held, Ended
    <2> QED
        BY <1>1, <1>2, <2>1, EndedStep DEF Ended
<1>3. CASE sched[w].proc = "gone"
    BY <1>1, <1>3, HandFacts DEF Ended, Shape
<1> QED
    BY <1>2, <1>3

(* Another scheduler's step.                                                *)
LEMMA EndedOther ==
    ASSUME Inv, Inv', AllMove, NEW w \in Workers, Ended(w), sched'[w] = sched[w]
    PROVE  Ended(w)'
<1>1. CASE sched[w].proc # "gone"
    <2>1. Held(w) => /\ sched[w].pc # "discard"
                     /\ sched[w].pc = "ended" => sched[w].claimer = "got"
        BY <1>1 DEF Held, Ended
    <2> QED
        BY <1>1, <2>1, EndedStep DEF Ended
<1>2. CASE sched[w].proc = "gone"
    BY <1>2, HandFacts DEF Ended, Shape
<1> QED
    BY <1>1, <1>2

(* Until a call fails, a scheduler that ended has settled what it claimed   *)
(* or given it back, if no run can leave a model that another account's run *)
(* must first swap back: a shutdown that cancels that swap leaves the claim *)
(* to the sweep.                                                            *)
THEOREM EndedOwnsNothingHolds ==
    ASSUME \A a \in Loading : Accounts = {a}
    PROVE  Spec => []EndedOwnsNothing
<1>1. Init => EndInv
    BY OffFields DEF Init, Store!Init, Store!NoRow, Store!Owns, EndInv, Ended, RunIds
<1>2. ASSUME Inv, Inv', EndInv, [Next]_vars
      PROVE  EndInv'
    <2> SUFFICES ASSUME faults' = 0, NEW w \in Workers PROVE Ended(w)'
        BY DEF EndInv
    <2>1. AllMove /\ ~Fault /\ \A v \in Workers : Ended(v)
        BY <1>2, EveryRunMoves, NoFault DEF EndInv
    <2>2. ASSUME NEW v \in Workers, Work(v) \/ Heartbeat(v) \/ Stop(v) \/ Exit(v) PROVE Ended(w)'
        <3>1. CASE v = w
            BY <1>2, <2>1, <2>2, <3>1, EndedWork
        <3>2. CASE v # w
            BY <1>2, <2>1, <2>2, <3>2, WorkerStep, EndedOther
        <3> QED
            BY <3>1, <3>2
    <2>3. CASE Requests \/ Tick
        BY <1>2, <2>1, <2>3, EndedRequest
    <2>4. CASE UNCHANGED vars
        BY <1>2, <2>1, <2>4, EndedOther DEF vars
    <2> QED
        BY <1>2, <2>2, <2>3, <2>4 DEF Next
<1>3. Inv /\ EndInv => EndedOwnsNothing
    BY HandFacts DEF EndInv, Ended, EndedOwnsNothing, RunIds, Shape
<1> QED
    BY <1>1, <1>2, <1>3, InvHolds, PTL DEF Spec

=============================================================================
