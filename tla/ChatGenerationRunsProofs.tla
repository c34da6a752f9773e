---------------------- MODULE ChatGenerationRunsProofs ----------------------
(***************************************************************************)
(* Theorems about ChatGenerationRuns, for every number of runs, chats and   *)
(* tabs, any output of the engines, and any number of calls that fail and   *)
(* of restarts.                                                             *)
(***************************************************************************)
EXTENDS ChatGenerationRuns, SequenceTheorems, FiniteSetTheorems, TLAPS

(* The theorems of the store, about this module's tables.                   *)
SP == INSTANCE ChatGenerationStoreProofs

-----------------------------------------------------------------------------
LEMMA SameStatuses ==
    /\ Store!ACTIVE_STATUSES = SP!ACTIVE_STATUSES /\ Store!TERMINAL_STATUSES = SP!TERMINAL_STATUSES
    /\ Store!NoRow = SP!NoRow /\ Store!Unmanaged = SP!Unmanaged
    /\ Store!RunRow = SP!RunRow /\ Store!Event = SP!Event
BY DEF Store!ACTIVE_STATUSES, SP!ACTIVE_STATUSES, Store!TERMINAL_STATUSES, SP!TERMINAL_STATUSES,
       Store!NoRow, SP!NoRow, Store!Unmanaged, SP!Unmanaged, Store!RunRow, SP!RunRow, Store!Event,
       SP!Event, Store!Statuses, SP!Statuses, Store!EventTypes, SP!EventTypes

LEMMA SameType == Store!TypeOK <=> SP!TypeOK
BY SameStatuses DEF Store!TypeOK, SP!TypeOK, Store!Message, SP!Message, Store!Statuses, SP!Statuses

LEMMA SameRow ==
    ASSUME NEW r \in Runs
    PROVE  /\ Store!Row(r) <=> SP!Row(r)
           /\ Store!IsActive(r) <=> SP!IsActive(r)
           /\ Store!IsTerminal(r) <=> SP!IsTerminal(r)
BY SameStatuses DEF Store!Row, SP!Row, Store!IsActive, SP!IsActive, Store!IsTerminal, SP!IsTerminal

LEMMA SameInit == Store!Init <=> SP!Init
BY SameStatuses DEF Store!Init, SP!Init

LEMMA SameNext == Store!Next => SP!Next
BY DEF Store!Next, SP!Next, Store!CreateRun, SP!CreateRun, Store!AppendEvents, SP!AppendEvents,
       Store!MarkRunning, SP!MarkRunning, Store!RequestCancel, SP!RequestCancel,
       Store!FinishRun, SP!FinishRun, Store!LeaseRunsOut, SP!LeaseRunsOut,
       Store!TouchProgress, SP!TouchProgress, Store!SaveMessage, SP!SaveMessage,
       Store!DetachMessage, SP!DetachMessage, Store!ReconcileRuns, SP!ReconcileRuns,
       Store!DeleteThreads, SP!DeleteThreads, Store!DeletePrompt, SP!DeletePrompt,
       Store!NewId, SP!NewId, Store!ChatIsFree, SP!ChatIsFree, Store!TakesOutput, SP!TakesOutput,
       Store!Outcome, SP!Outcome, Store!ReconciledAs, SP!ReconciledAs, Store!Unsettled, SP!Unsettled,
       Store!Rank, SP!Rank, Store!Drop, SP!Drop, Store!Settle, SP!Settle, Store!Advance, SP!Advance,
       Store!Synced, SP!Synced, Store!Appended, SP!Appended, Store!Mark, SP!Mark,
       Store!Row, SP!Row, Store!IsActive, SP!IsActive, Store!IsTerminal, SP!IsTerminal,
       Store!ACTIVE_STATUSES, SP!ACTIVE_STATUSES, Store!TERMINAL_STATUSES, SP!TERMINAL_STATUSES,
       Store!NoRow, SP!NoRow, Store!Unmanaged, SP!Unmanaged

LEMMA BatchesAssumption ==
    /\ ThreadOf \in [Runs -> Threads]
    /\ PromptOf \in [Runs -> Prompts]
    /\ Batches \subseteq Seq([type : {"chunk"}, n : Nat])
    /\ MaxEvents \in Nat
<1>1. ASSUME NEW first \in 1..MaxChunks, NEW n \in 1..MaxChunks
      PROVE  ChunksFrom(first, n) \in Seq([type : {"chunk"}, n : Nat])
    <2>1. /\ n \in Nat
          /\ \A i \in 1..n : [type |-> "chunk", n |-> first + i - 1] \in [type : {"chunk"}, n : Nat]
        BY BoundAssumption
    <2> QED
        BY <2>1 DEF ChunksFrom
<1> QED
    BY <1>1, StoreAssumption, BoundAssumption DEF Batches, MaxEvents

(* What the store promises, a transaction keeps.                            *)
LEMMA StoreStep ==
    ASSUME SP!Inv, [Store!Next]_store
    PROVE  SP!Inv'
<1>1. [SP!Next]_SP!store
    BY SameNext DEF store, SP!store
<1> QED
    BY <1>1, SP!InvNext, BatchesAssumption

LEMMA StoreInit == Store!Init => SP!Inv
    BY SP!InvInit, SameInit, BatchesAssumption

-----------------------------------------------------------------------------
(* The inductive invariant, run by run.                                     *)

Call == [call : {"mark", "finish"}, status : Store!TERMINAL_STATUSES \cup {"running"},
         numbers : Seq(1..MaxChunks)]
RunTypes(r) ==
    /\ job[r] \in Job
    /\ output[r] \in 0..MaxChunks
    /\ orphans[r] \subseteq Call

(* The run was created; its id never names another one.                     *)
Known(r) == Row(r) \/ r \in tombstones
Over(r) == IsTerminal(r) \/ r \in tombstones

(* What the process keeps of a run is of a run that was created, and goes   *)
(* with the process.  A task is cancelled when its run is over, or the      *)
(* process is stopping, and then every task was told.                       *)
Registry(r) ==
    /\ job[r].pc # "none" \/ starting = r \/ r \in forced \/ orphans[r] # {} => Known(r)
    /\ r \in forced => stopping \/ Over(r)
    /\ stopping /\ job[r].pc # "none" => job[r].stop
    /\ ~up => /\ job[r].pc = "none" /\ orphans[r] = {} /\ starting # r /\ r \notin forced
              /\ ~stopping

Preparing == {"token", "gate", "mark", "reread", "open"}
Opened == {"stream", "drain", "status", "finish", "caught", "settle", "unwind"}

(* Numbers that follow each other, after "before".                          *)
Numbered(s, before) == \A i \in 1..Len(s) : s[i] = before + i

(* The chunks taken from an engine and not yet in the log are the last ones *)
(* there were, first those handed to the thread that writes them.           *)
Before(j, out) == out - Len(j.pending) - Len(j.writing)
Flow(j, out) ==
    /\ j.wtask = "none" <=> j.writing = <<>>
    /\ j.wtask # "none" => j.pc \in {"stream", "drain", "caught"}
    /\ j.opened => j.pc \in Opened
    /\ ~j.opened => /\ j.pending = <<>> /\ j.writing = <<>>
                    /\ j.pc \notin {"stream", "drain", "status"}
    /\ j.opened => /\ Before(j, out) >= 0
                   /\ Numbered(j.writing, Before(j, out))
                   /\ Numbered(j.pending, Before(j, out) + Len(j.writing))

(* How many chunks the log of an active run has: its other events are       *)
(* queued, running and cancelling.                                          *)
Base(status) == CASE status = "queued" -> 1 [] status = "running" -> 2 [] OTHER -> 3
Chunked(r) == runs[r].last - Base(runs[r].status)

(* A queued run has no output, and nobody who produces any.                 *)
Unwritten(r) ==
    runs[r].status = "queued" =>
        /\ runs[r].last = 1
        /\ ~job[r].opened /\ job[r].pc \notin {"reread", "open"}

(* How many chunks a producer has sent to the log, and may send yet.  Two   *)
(* producers may write for a run: the second finds it running, so none can  *)
(* be asked for after it.                                                   *)
Sent(j, out) == out - Len(j.pending) - (IF j.wtask = "done" THEN 0 ELSE Len(j.writing))
Budget(j, out) ==
    IF j.pc \in Preparing THEN MaxChunks ELSE IF j.opened THEN MaxChunks - Sent(j, out) ELSE 0
AskedFor(r) == IF starting = r THEN MaxChunks ELSE 0
LogFits(r) ==
    IsActive(r) =>
        /\ Chunked(r) \in Nat
        /\ Chunked(r) + Budget(job[r], output[r]) + AskedFor(r) <= 2 * MaxChunks

(* A finish_run left to itself finds its run over, or what it writes fits.  *)
LeftToItself(r) ==
    \A o \in orphans[r] : o.call = "finish" =>
        /\ \E before \in 0..MaxChunks : Numbered(o.numbers, before)
        /\ o.status \in Store!TERMINAL_STATUSES
        /\ IsActive(r) =>
              /\ stopping
              /\ job[r].pc \in {"none", "caught", "settle", "unwind"} /\ job[r].wtask = "none"
              /\ Chunked(r) + Len(o.numbers) <= 2 * MaxChunks

(* StoppedIsTold, of a run.                                                 *)
ToldOf(r) ==
    (job[r].pc \in {"open", "stream"} /\ runs[r].status # "running" /\ r \notin signals) => job[r].stop

RunInv(r) ==
    /\ RunTypes(r) /\ Registry(r) /\ Flow(job[r], output[r]) /\ Unwritten(r) /\ LogFits(r)
    /\ LeftToItself(r) /\ ToldOf(r)

Process ==
    /\ job = [r \in Runs |-> job[r]] /\ output = [r \in Runs |-> output[r]]
    /\ orphans = [r \in Runs |-> orphans[r]]
    /\ starting \in Runs \cup {None} /\ signals \subseteq Runs /\ forced \subseteq Runs
    /\ stopping \in BOOLEAN /\ up \in BOOLEAN
    /\ crashes \in 0..MaxCrashes /\ faults \in 0..MaxFaults
Inv == SP!Inv /\ Process /\ \A r \in Runs : RunInv(r)

-----------------------------------------------------------------------------
(* What is known of a row, and of a producer.                               *)
LEMMA RowFacts ==
    ASSUME SP!Inv, NEW r \in Runs
    PROVE  /\ runs[r].status \in {"none", "queued", "running", "cancelling", "cancelled", "completed", "failed"}
           /\ runs[r].last \in Nat /\ runs[r].cancel \in BOOLEAN /\ runs[r].stale \in BOOLEAN
           /\ Row(r) <=> runs[r].status # "none"
           /\ IsActive(r) <=> runs[r].status \in {"queued", "running", "cancelling"}
           /\ IsTerminal(r) <=> runs[r].status \in {"cancelled", "completed", "failed"}
           /\ r \in tombstones => ~Row(r)
BY SameType, SameRow
   DEF SP!Inv, SP!NeverReused, Store!TypeOK, Store!RunRow, Store!Statuses, Store!ACTIVE_STATUSES, Store!TERMINAL_STATUSES,
       Row, IsActive, IsTerminal, Store!Row, Store!IsActive, Store!IsTerminal

Pcs == {"none", "token", "gate", "mark", "reread", "open", "stream", "drain", "status", "finish",
        "caught", "settle", "unwind"}
Numbers == Seq(1..MaxChunks)
WriteStates == {"none", "running", "done", "failed"}
Plans == Store!TERMINAL_STATUSES
Beats == 0..MaxBeats
LEMMA JobSet ==
    Job = [pc : Pcs, stop : BOOLEAN, shut : BOOLEAN, pending : Numbers, writing : Numbers,
           wtask : WriteStates, held : BOOLEAN, err : BOOLEAN, fin : BOOLEAN, opened : BOOLEAN,
           plan : Plans, beats : Beats]
BY DEF Job, Pcs, Numbers, WriteStates, Plans, Beats

LEMMA JobFields ==
    ASSUME NEW j \in Job
    PROVE  /\ j.pc \in Pcs /\ j.stop \in BOOLEAN /\ j.shut \in BOOLEAN /\ j.pending \in Numbers
           /\ j.writing \in Numbers /\ j.wtask \in WriteStates /\ j.held \in BOOLEAN
           /\ j.err \in BOOLEAN /\ j.fin \in BOOLEAN /\ j.opened \in BOOLEAN
           /\ j.plan \in Plans /\ j.beats \in Beats
           /\ Len(j.pending) \in Nat /\ Len(j.writing) \in Nat
<1>1. j.pending \in Numbers /\ j.writing \in Numbers
    BY JobSet
<1>2. Len(j.pending) \in Nat /\ Len(j.writing) \in Nat
    BY <1>1, LenProperties DEF Numbers
<1> QED
    BY <1>2, JobSet

LEMMA NoJobFacts == NoJob \in Job /\ Flow(NoJob, 0) /\ \A n : Flow(NoJob, n)
<1>1. Store!TERMINAL_STATUSES = {"cancelled", "completed", "failed"} /\ <<>> \in Seq(1..MaxChunks) /\ 0 \in 0..MaxBeats
    BY BoundAssumption DEF Store!TERMINAL_STATUSES
<1> QED
    BY <1>1 DEF NoJob, Job, Flow

-----------------------------------------------------------------------------
(* What a step may do to the row of a run, and what it may do to its        *)
(* producer without touching its chunks.                                    *)

SameTombstone(r) == r \in tombstones' <=> r \in tombstones
RowStays(r) == runs'[r].status = runs[r].status /\ runs'[r].last = runs[r].last /\ SameTombstone(r)
RowAdvances(r) ==
    /\ \/ runs[r].status = "queued" /\ runs'[r].status = "running"
       \/ runs[r].status = "running" /\ runs'[r].status = "cancelling"
    /\ runs'[r].last = runs[r].last + 1 /\ SameTombstone(r)
RowEnds(r) == IsActive(r) /\ IsTerminal(r)' /\ SameTombstone(r)
RowGoes(r) == runs'[r].status = "none" /\ (Known(r) <=> r \in tombstones')
RowAppears(r) ==
    ~Known(r) /\ runs'[r].status = "queued" /\ runs'[r].last = 1 /\ r \notin tombstones'
RowMoves(r) == RowStays(r) \/ RowAdvances(r) \/ RowEnds(r) \/ RowGoes(r) \/ RowAppears(r)

SameWork(r) ==
    /\ job'[r].pending = job[r].pending /\ job'[r].writing = job[r].writing
    /\ job'[r].wtask = job[r].wtask /\ job'[r].opened = job[r].opened
MayGo(r) ==
    LET from == job[r].pc
        to   == job'[r].pc
    IN  /\ from # "none" /\ to # "none"
        /\ job[r].wtask # "none" => to \in {"stream", "drain", "caught"}
        /\ IF job[r].opened THEN to \in Opened ELSE to \notin {"stream", "drain", "status"}
        /\ to \in Preparing => from \in Preparing
        /\ to \in {"reread", "open"} => runs'[r].status # "queued"
        /\ from \in {"caught", "settle", "unwind"} => to \in {"caught", "settle", "unwind"}
        /\ job[r].stop => job'[r].stop
JobMoves(r) == job'[r] = job[r] \/ (job'[r] \in Job /\ SameWork(r) /\ MayGo(r))
Around(r) ==
    /\ output'[r] = output[r] /\ orphans'[r] \subseteq orphans[r]
    /\ starting' = r <=> starting = r
    /\ r \in forced' => r \in forced \/ (up /\ Over(r)')
    /\ stopping' = stopping /\ up' = up

LEMMA Moves ==
    ASSUME SP!Inv, SP!Inv', NEW r \in Runs, RunInv(r),
           RowMoves(r), JobMoves(r), Around(r), ToldOf(r)', job[r].pc # "none" => up
    PROVE  RunInv(r)'
<1> DEFINE j == job[r]
           k == job'[r]
<1>1. /\ j \in Job /\ k \in Job /\ output[r] \in 0..MaxChunks /\ output'[r] = output[r]
      /\ orphans'[r] \subseteq Call
    BY DEF RunInv, RunTypes, JobMoves, Around
<1>2. RunTypes(r)'
    BY <1>1 DEF RunTypes
<1>3. Known(r) => Known(r)'
    BY RowFacts DEF RowMoves, RowStays, RowAdvances, RowEnds, RowGoes, RowAppears, SameTombstone, Known, Row, Store!Row,
                    IsTerminal, Store!IsTerminal, Store!TERMINAL_STATUSES
<1>4. Over(r) => Over(r)'
    BY RowFacts DEF RowMoves, RowStays, RowAdvances, RowEnds, RowGoes, RowAppears, SameTombstone, Known, Over, Row, Store!Row,
                    IsTerminal, Store!IsTerminal, Store!TERMINAL_STATUSES
<1>5. Over(r)' => Known(r)'
    BY DEF Over, Known, Row, Store!Row, IsTerminal, Store!IsTerminal, Store!TERMINAL_STATUSES
<1>6. k = j \/ (SameWork(r) /\ MayGo(r))
    BY DEF JobMoves
<1>7. Registry(r)'
    BY <1>3, <1>4, <1>5, <1>6 DEF RunInv, Registry, Around, MayGo
<1>8. /\ k.pending = j.pending /\ k.writing = j.writing /\ k.wtask = j.wtask /\ k.opened = j.opened
    BY <1>6 DEF SameWork
<1>9. Flow(k, output'[r])
    <2>1. Flow(j, output[r])
        BY DEF RunInv
    <2>2. Before(k, output'[r]) = Before(j, output[r])
        BY <1>1, <1>8 DEF Before
    <2>3. k.opened => k.pc \in Opened
        BY <1>6, <1>8, <2>1 DEF Flow, MayGo
    <2>4. ~k.opened => k.pc \notin {"stream", "drain", "status"}
        BY <1>6, <1>8, <2>1 DEF Flow, MayGo
    <2>5. k.wtask # "none" => k.pc \in {"stream", "drain", "caught"}
        BY <1>6, <1>8, <2>1 DEF Flow, MayGo
    <2> QED
        BY <1>8, <2>1, <2>2, <2>3, <2>4, <2>5 DEF Flow
<1>10. IsActive(r)' => \/ IsActive(r) /\ Chunked(r)' = Chunked(r)
                       \/ ~Known(r) /\ Chunked(r)' = 0
    BY RowFacts DEF RowMoves, RowStays, RowAdvances, RowEnds, RowGoes, RowAppears, Chunked, Base, Known, Row, Store!Row,
                    IsActive, Store!IsActive, Store!ACTIVE_STATUSES, IsTerminal, Store!IsTerminal, Store!TERMINAL_STATUSES
<1>11. ~Known(r) => j.pc = "none" /\ k = j /\ starting # r /\ orphans[r] = {} /\ ~j.opened
    BY <1>6 DEF RunInv, Registry, MayGo, Flow, Opened
<1>12. Unwritten(r)'
    <2>1. SUFFICES ASSUME runs'[r].status = "queued"
                   PROVE  runs'[r].last = 1 /\ ~k.opened /\ k.pc \notin {"reread", "open"}
        BY DEF Unwritten
    <2>2. \/ runs[r].status = "queued" /\ runs'[r].last = runs[r].last
          \/ ~Known(r) /\ runs'[r].last = 1
        BY <2>1, RowFacts DEF RowMoves, RowStays, RowAdvances, RowEnds, RowGoes, RowAppears,
                    IsTerminal, Store!IsTerminal, Store!TERMINAL_STATUSES
    <2> QED
        BY <1>6, <1>8, <1>11, <2>1, <2>2 DEF RunInv, Unwritten, MayGo
<1>13. Budget(k, output'[r]) <= Budget(j, output[r]) /\ Budget(j, output[r]) \in Int /\ Budget(k, output'[r]) \in Int
    <2>1. MaxChunks \in Nat /\ Len(j.pending) \in Nat /\ Len(j.writing) \in Nat /\ output[r] \in 0..MaxChunks
        BY <1>1, JobFields, BoundAssumption
    <2>2. Sent(k, output'[r]) = Sent(j, output[r]) /\ Sent(j, output[r]) \in Int
        BY <1>1, <1>8, <2>1 DEF Sent
    <2>3. k.pc \in Preparing => j.pc \in Preparing
        BY <1>6 DEF MayGo
    <2>4. j.pc \in Preparing => ~j.opened
        BY DEF RunInv, Flow, Preparing, Opened
    <2> QED
        BY <1>8, <2>1, <2>2, <2>3, <2>4 DEF Budget
<1>14. LogFits(r)'
    <2>1. AskedFor(r)' = AskedFor(r) /\ AskedFor(r) \in {0, MaxChunks} /\ MaxChunks \in Nat
        BY BoundAssumption DEF Around, AskedFor
    <2>2. CASE ~Known(r)
        <3>1. Budget(j, output[r]) = 0 /\ AskedFor(r) = 0
            BY <1>11, <2>2 DEF Budget, Preparing, AskedFor
        <3>2. IsActive(r)' => Chunked(r)' = 0
            BY <1>10, <2>2, RowFacts DEF Known
        <3> QED
            BY <1>13, <2>1, <3>1, <3>2 DEF LogFits
    <2>3. CASE Known(r)
        BY <1>10, <1>13, <2>1, <2>3 DEF RunInv, LogFits
    <2> QED
        BY <2>2, <2>3
<1>15. LeftToItself(r)'
    <2>1. SUFFICES ASSUME NEW o \in orphans'[r], o.call = "finish"
                   PROVE  /\ \E before \in 0..MaxChunks : Numbered(o.numbers, before)
                          /\ o.status \in Store!TERMINAL_STATUSES
                          /\ IsActive(r)' =>
                                /\ stopping'
                                /\ k.pc \in {"none", "caught", "settle", "unwind"} /\ k.wtask = "none"
                                /\ Chunked(r)' + Len(o.numbers) <= 2 * MaxChunks
        BY DEF LeftToItself
    <2>2. o \in orphans[r]
        BY DEF Around
    <2>3. Known(r)
        BY <1>11, <2>2
    <2> QED
        BY <1>6, <1>8, <1>10, <2>1, <2>2, <2>3 DEF RunInv, LeftToItself, Around, MayGo
<1> QED
    BY <1>2, <1>7, <1>9, <1>12, <1>14, <1>15 DEF RunInv

-----------------------------------------------------------------------------
(* Every step is a transaction of the store, or leaves it alone.            *)

(* Chunks that follow each other are a batch.                               *)
LEMMA ChunksAreBatch ==
    ASSUME NEW s \in Seq(1..MaxChunks), NEW before \in Int, Numbered(s, before)
    PROVE  /\ Chunks(s) \in Batches \cup {<<>>} /\ Len(Chunks(s)) = Len(s)
           /\ Len(s) \in Nat /\ Len(s) <= MaxChunks
           /\ s # <<>> => Chunks(s) \in Batches /\ Chunks(s) # <<>>
<1> DEFINE n == Len(s)
<1>1. n \in Nat /\ \A i \in 1..n : s[i] \in 1..MaxChunks /\ s[i] = before + i
    BY LenProperties, ElementOfSeq DEF Numbered
<1>2. Chunks(s) = [i \in 1..n |-> [type |-> "chunk", n |-> before + i]]
    BY <1>1 DEF Chunks, Store!Chunk
<1>3. CASE n = 0
    <2>1. s = <<>>
        BY <1>3, EmptySeq
    <2>2. Chunks(s) = <<>>
        BY <1>2, <1>3
    <2> QED
        BY <1>3, <2>1, <2>2, BoundAssumption
<1>4. CASE n # 0
    <2>1. MaxChunks \in Nat /\ s[1] \in 1..MaxChunks /\ s[1] = before + 1
          /\ s[n] \in 1..MaxChunks /\ s[n] = before + n
        BY <1>1, <1>4, BoundAssumption
    <2>2. n \in 1..MaxChunks /\ before + 1 \in 1..MaxChunks
        BY <1>1, <1>4, <2>1
    <2>3. \A i \in 1..n : (before + 1) + i - 1 = before + i
        BY <1>1
    <2>4. Chunks(s) = ChunksFrom(before + 1, n)
        BY <1>2, <2>3 DEF ChunksFrom
    <2>5. Chunks(s) \in Batches
        BY <2>2, <2>4 DEF Batches
    <2>6. Len(Chunks(s)) = n
        BY <1>1, <1>2
    <2>7. Chunks(s) # <<>>
        BY <1>4, <2>6
    <2> QED
        BY <1>1, <2>2, <2>5, <2>6, <2>7
<1> QED
    BY <1>3, <1>4

LEMMA Fits ==
    ASSUME NEW last \in Nat, NEW base \in 1..3, NEW budget \in Int, NEW asked \in Nat, NEW limit \in Nat,
           last - base + budget + asked <= limit, NEW n \in Nat, n <= budget
    PROVE  last + n <= 3 + limit
OBVIOUS

(* So are the chunks of a producer, and they fit behind the log.            *)
LEMMA BatchesOfJob ==
    ASSUME SP!Inv, NEW r \in Runs, RunInv(r)
    PROVE  /\ Chunks(job[r].pending) \in Batches \cup {<<>>}
           /\ Chunks(job[r].writing) \in Batches \cup {<<>>}
           /\ Len(Chunks(job[r].pending)) = Len(job[r].pending)
           /\ Len(Chunks(job[r].writing)) = Len(job[r].writing)
           /\ job[r].writing # <<>> => Chunks(job[r].writing) \in Batches /\ Chunks(job[r].writing) # <<>>
           /\ IsActive(r) /\ job[r].wtask = "none"
                => runs[r].last + Len(job[r].pending) <= 3 + 2 * MaxChunks
           /\ IsActive(r) /\ job[r].wtask = "running"
                => runs[r].last + Len(job[r].writing) <= 3 + 2 * MaxChunks
<1> DEFINE j == job[r]
           out == output[r]
<1>1. /\ j \in Job /\ out \in 0..MaxChunks /\ Flow(j, out) /\ LogFits(r) /\ MaxChunks \in Nat
      /\ runs[r].last \in Nat
    BY RowFacts, BoundAssumption DEF RunInv, RunTypes
<1>2. /\ j.pending \in Seq(1..MaxChunks) /\ j.writing \in Seq(1..MaxChunks)
      /\ Len(j.pending) \in Nat /\ Len(j.writing) \in Nat
    BY <1>1, JobFields DEF Numbers
<1>3. Before(j, out) \in Int /\ Before(j, out) + Len(j.writing) \in Int
    BY <1>1, <1>2 DEF Before
<1>4. Numbered(j.writing, Before(j, out)) /\ Numbered(j.pending, Before(j, out) + Len(j.writing))
    BY <1>1, <1>2 DEF Flow, Numbered
<1>5. /\ Chunks(j.pending) \in Batches \cup {<<>>} /\ Len(Chunks(j.pending)) = Len(j.pending)
      /\ Chunks(j.writing) \in Batches \cup {<<>>} /\ Len(Chunks(j.writing)) = Len(j.writing)
      /\ j.writing # <<>> => Chunks(j.writing) \in Batches /\ Chunks(j.writing) # <<>>
    BY <1>2, <1>3, <1>4, ChunksAreBatch
<1>6. ASSUME IsActive(r)
      PROVE  /\ j.wtask = "none" => runs[r].last + Len(j.pending) <= 3 + 2 * MaxChunks
             /\ j.wtask = "running" => runs[r].last + Len(j.writing) <= 3 + 2 * MaxChunks
    <2>1. Base(runs[r].status) \in 1..3 /\ AskedFor(r) \in {0, MaxChunks}
        BY DEF Base, AskedFor
    <2>2. Budget(j, out) \in Int /\ runs[r].last - Base(runs[r].status) + Budget(j, out) + AskedFor(r) <= 2 * MaxChunks
        <3>1. Sent(j, out) \in Int
            BY <1>1, <1>2 DEF Sent
        <3> QED
            BY <1>1, <1>6, <3>1 DEF LogFits, Chunked, Budget
    <2>3. ~j.opened => j.pending = <<>> /\ j.writing = <<>> /\ j.wtask = "none" /\ Budget(j, out) \in {0, MaxChunks}
        BY <1>1 DEF Flow, Budget
    <2>4. j.opened => /\ Budget(j, out) = MaxChunks - Sent(j, out)
                      /\ Sent(j, out) + Len(j.pending) <= MaxChunks
                      /\ j.wtask # "done" => Sent(j, out) + Len(j.pending) + Len(j.writing) <= MaxChunks
        BY <1>1, <1>2 DEF Flow, Budget, Preparing, Opened, Sent
    <2>5. Sent(j, out) \in Int
        BY <1>1, <1>2 DEF Sent
    <2>6. CASE j.opened
        <3>1. /\ Len(j.pending) <= Budget(j, out)
              /\ j.wtask = "running" => Len(j.writing) <= Budget(j, out)
            BY <1>1, <1>2, <2>4, <2>5, <2>6
        <3>2. AskedFor(r) \in Nat /\ 2 * MaxChunks \in Nat
            BY <1>1, <2>1
        <3> HIDE DEF j, out
        <3> QED
            BY <1>1, <1>2, <2>1, <2>2, <3>1, <3>2, Fits
    <2>7. CASE ~j.opened
        <3>1. Len(j.pending) = 0 /\ j.wtask = "none"
            BY <2>3, <2>7
        <3> QED
            BY <1>1, <2>1, <2>2, <2>3, <2>7, <3>1
    <2> QED
        BY <2>6, <2>7
<1> QED
    BY <1>5, <1>6

LEMMA FinishIsStore ==
    ASSUME SP!Inv, NEW r \in Runs, NEW s \in Seq(1..MaxChunks), Chunks(s) \in Batches \cup {<<>>},
           Len(Chunks(s)) = Len(s), IsActive(r) => runs[r].last + Len(s) <= 3 + 2 * MaxChunks,
           NEW status \in Store!TERMINAL_STATUSES, CallFinish(r, status, s)
    PROVE  UNCHANGED store \/ Store!Next
<1>1. CASE ~IsActive(r)
    BY <1>1 DEF CallFinish
<1>2. CASE IsActive(r)
    <2>1. runs[r].last + Len(Chunks(s)) <= MaxEvents
        BY <1>2, RowFacts, LenProperties, BoundAssumption DEF MaxEvents
    <2> QED
        BY <1>2, <2>1 DEF CallFinish, Store!Next
<1> QED
    BY <1>1, <1>2

LEMMA ProducerIsStore ==
    ASSUME Inv, NEW r \in Runs, Produce(r) \/ StopRun(r)
    PROVE  UNCHANGED store \/ Store!Next
<1>1. SP!Inv /\ RunInv(r) /\ job[r] \in Job /\ Flow(job[r], output[r])
    BY DEF Inv, RunInv, RunTypes
<1>2. job[r].plan \in Store!TERMINAL_STATUSES /\ job[r].pending \in Seq(1..MaxChunks)
    BY <1>1, JobFields DEF Plans, Numbers
<1>3. CASE MarkRunning(r)
    BY <1>3 DEF MarkRunning, Marked, NoCall, Fault, Store!Next
<1>4. CASE Renew(r)
    BY <1>4 DEF Renew, Store!Next
<1>5. CASE WriteLands(r)
    <2>1. CASE Row(r) /\ IsActive(r) /\ Store!AppendEvents(r, Chunks(job[r].writing))
        <3>1. job[r].wtask = "running" /\ job[r].writing # <<>>
            BY <1>1, <1>5 DEF WriteLands, Flow
        <3>2. /\ Chunks(job[r].writing) \in Batches
              /\ runs[r].last + Len(Chunks(job[r].writing)) <= MaxEvents
            BY <1>1, <2>1, <3>1, BatchesOfJob, RowFacts, JobFields, BoundAssumption DEF MaxEvents
        <3> QED
            BY <2>1, <3>2 DEF Store!Next
    <2>2. CASE UNCHANGED store
        BY <2>2
    <2> QED
        BY <1>5, <2>1, <2>2 DEF WriteLands, NoCall, Fault
<1>6. ASSUME CallFinish(r, job[r].plan, job[r].pending), job[r].pc \in {"finish", "settle"}
      PROVE  UNCHANGED store \/ Store!Next
    <2>1. job[r].wtask = "none"
        BY <1>1, <1>6 DEF Flow
    <2> QED
        BY <1>1, <1>2, <1>6, <2>1, BatchesOfJob, FinishIsStore
<1>7. CASE Finish(r) \/ SettleCaught(r)
    BY <1>6, <1>7 DEF Finish, SettleCaught, At, Fault
<1>8. CASE Orphan(r)
    <2>1. PICK o \in orphans[r] :
             IF o.call = "finish" THEN CallFinish(r, o.status, o.numbers)
             ELSE Store!MarkRunning(r) \/ UNCHANGED store
        BY <1>8 DEF Orphan
    <2>2. CASE o.call = "finish"
        <3>1. o \in Call /\ o.numbers \in Seq(1..MaxChunks)
            BY <1>1 DEF RunInv, RunTypes, Call
        <3>2. PICK before \in 0..MaxChunks : Numbered(o.numbers, before)
            BY <1>1, <2>2 DEF RunInv, LeftToItself
        <3>3. /\ o.status \in Store!TERMINAL_STATUSES
              /\ IsActive(r) => Chunked(r) + Len(o.numbers) <= 2 * MaxChunks /\ Chunked(r) \in Nat
            BY <1>1, <2>2 DEF RunInv, LeftToItself, LogFits
        <3>4. Chunks(o.numbers) \in Batches \cup {<<>>} /\ Len(Chunks(o.numbers)) = Len(o.numbers)
            BY <3>1, <3>2, ChunksAreBatch
        <3>5. IsActive(r) => runs[r].last + Len(o.numbers) <= 3 + 2 * MaxChunks
            <4>1. Base(runs[r].status) \in 1..3 /\ Len(o.numbers) \in Nat /\ MaxChunks \in Nat
                  /\ runs[r].last \in Nat
                BY <1>1, <3>1, RowFacts, LenProperties, BoundAssumption DEF Base
            <4> QED
                BY <3>3, <4>1 DEF Chunked
        <3> QED
            BY <1>1, <2>1, <2>2, <3>1, <3>3, <3>4, <3>5, FinishIsStore
    <2>3. CASE o.call # "finish"
        BY <2>1, <2>3 DEF Store!Next
    <2> QED
        BY <2>2, <2>3
<1>9. CASE RequestCancel(r)
    BY <1>9 DEF RequestCancel, Store!Next
<1>10. CASE GetToken(r) \/ Gate(r) \/ Reread(r) \/ Engine(r) \/ StartWrite(r) \/ ObserveWrite(r)
            \/ Drain(r) \/ ReadStatus(r) \/ Catch(r) \/ Unwind(r)
            \/ ForceCancel(r) \/ Signal(r) \/ LifecycleCancel(r)
    BY <1>10 DEF GetToken, Gate, Reread, Engine, Open, EngineRaises, TakeChunk, EndStream, StartWrite,
                 ObserveWrite, Drain, ReadStatus, Catch, Unwind, ForceCancel, Signal, LifecycleCancel,
                 NoCall, Fault
<1> QED
    BY <1>3, <1>4, <1>5, <1>7, <1>8, <1>9, <1>10 DEF Produce, Begin, Write, End, StopRun

LEMMA EveryStepIsStore ==
    ASSUME Inv, [Next]_vars
    PROVE  UNCHANGED store \/ Store!Next
<1>1. CASE \E r \in Runs : Produce(r) \/ StopRun(r)
    BY <1>1, ProducerIsStore
<1>2. CASE \E r \in Runs : Create(r) \/ Start(r) \/ EditAnswer(r) \/ LeaseRunsOut(r)
    BY <1>2 DEF Create, Start, EditAnswer, LeaseRunsOut, Store!Next
<1>3. CASE \E T \in SUBSET Threads : DeleteChats(T)
    <2>1. PICK T \in SUBSET Threads : T \cap threads # {} /\ Store!DeleteThreads(T)
        BY <1>3 DEF DeleteChats
    <2>2. T # {}
        BY <2>1
    <2> QED
        BY <2>1, <2>2 DEF Store!Next
<1>4. CASE Sweep
    <2>1. Stale \in SUBSET Runs
        BY DEF Stale
    <2> QED
        BY <1>4, <2>1 DEF Sweep, Fault, Store!Next
<1>5. CASE Boot
    <2> DEFINE left == {r \in Runs : IsActive(r)}
    <2>1. UNCHANGED store \/ Store!ReconcileRuns(left)
        BY <1>5 DEF Boot, Fault
    <2> QED
        BY <2>1 DEF Store!Next
<1>6. CASE Stop \/ Exit \/ (\E c \in Clients : Stream(c) \/ Disconnect(c)) \/ UNCHANGED vars
    BY <1>6 DEF Stop, Exit, Stream, Connect, ReadEvents, ReadState, Send, Disconnect, Follow, vars
<1> QED
    BY <1>1, <1>2, <1>3, <1>4, <1>5, <1>6 DEF Next

-----------------------------------------------------------------------------
(* What the transactions do to the rows.                                    *)

OthersStay(r) == \A q \in Runs : q # r => RowStays(q)

LEMMA UnchangedStays ==
    ASSUME UNCHANGED store
    PROVE  \A q \in Runs : RowStays(q)
BY DEF store, RowStays, SameTombstone

LEMMA LeaseMoves ==
    ASSUME SP!Inv, NEW r \in Runs, Store!TouchProgress(r) \/ Store!LeaseRunsOut(r)
    PROVE  \A q \in Runs : RowStays(q)
<1>1. runs \in [Runs -> Store!RunRow]
    BY SameType DEF SP!Inv, Store!TypeOK
<1>2. PICK stale \in BOOLEAN : runs' = [runs EXCEPT ![r].stale = stale] /\ UNCHANGED tombstones
    BY DEF Store!TouchProgress, Store!LeaseRunsOut
<1> QED
    BY <1>1, <1>2 DEF RowStays, SameTombstone, Store!RunRow

LEMMA AdvanceMoves ==
    ASSUME SP!Inv, NEW r \in Runs, NEW status, NEW cancel, NEW stale, Store!Advance(r, status, cancel, stale)
    PROVE  /\ runs'[r].status = status /\ runs'[r].last = runs[r].last + 1 /\ SameTombstone(r)
           /\ OthersStay(r)
<1>1. runs \in [Runs -> Store!RunRow]
    BY SameType DEF SP!Inv, Store!TypeOK
<1> QED
    BY <1>1 DEF Store!Advance, OthersStay, RowStays, SameTombstone

LEMMA MarkMoves ==
    ASSUME SP!Inv, NEW r \in Runs, Store!MarkRunning(r)
    PROVE  RowAdvances(r) /\ runs'[r].status = "running" /\ OthersStay(r)
BY AdvanceMoves DEF Store!MarkRunning, RowAdvances

LEMMA SettleMoves ==
    ASSUME SP!Inv, NEW S \in SUBSET Runs, NEW outcome, NEW cancel, NEW batch,
           \A r \in S : IsActive(r) /\ outcome[r] \in Store!TERMINAL_STATUSES,
           Store!Settle(S, outcome, cancel, batch)
    PROVE  \A q \in Runs : IF q \in S THEN RowEnds(q) ELSE RowStays(q)
BY DEF Store!Settle, RowEnds, RowStays, SameTombstone, IsTerminal, Store!IsTerminal

LEMMA CancelMoves ==
    ASSUME SP!Inv, NEW r \in Runs, Store!RequestCancel(r)
    PROVE  (RowEnds(r) \/ RowAdvances(r)) /\ OthersStay(r)
<1>1. CASE runs[r].status = "queued"
    <2> DEFINE outcome == [s \in {r} |-> "cancelled"]
               cancel  == [s \in {r} |-> TRUE]
    <2>1. Store!Settle({r}, outcome, cancel, <<>>) /\ IsActive(r)
        BY <1>1, RowFacts DEF Store!RequestCancel
    <2>2. outcome[r] \in Store!TERMINAL_STATUSES
        BY DEF Store!TERMINAL_STATUSES
    <2> HIDE DEF outcome, cancel
    <2>3. \A q \in Runs : IF q \in {r} THEN RowEnds(q) ELSE RowStays(q)
        BY <1>1, <2>1, <2>2, SettleMoves
    <2> QED
        BY <2>3 DEF OthersStay
<1>2. CASE runs[r].status = "running"
    BY <1>2, AdvanceMoves DEF Store!RequestCancel, RowAdvances
<1> QED
    BY <1>1, <1>2 DEF Store!RequestCancel

LEMMA FinishMoves ==
    ASSUME SP!Inv, NEW r \in Runs, NEW status \in Store!TERMINAL_STATUSES, NEW numbers,
           CallFinish(r, status, numbers)
    PROVE  /\ IF IsActive(r) THEN RowEnds(r) ELSE RowStays(r)
           /\ OthersStay(r)
<1>1. CASE IsActive(r)
    <2> DEFINE outcome == [s \in {r} |-> Store!Outcome(r, status)]
               cancel  == [s \in {r} |-> runs[r].cancel]
    <2>1. Store!Settle({r}, outcome, cancel, Chunks(numbers))
        BY <1>1 DEF CallFinish, Store!FinishRun
    <2>2. outcome[r] \in Store!TERMINAL_STATUSES
        BY DEF Store!Outcome, Store!TERMINAL_STATUSES
    <2> HIDE DEF outcome, cancel
    <2>3. \A q \in Runs : IF q \in {r} THEN RowEnds(q) ELSE RowStays(q)
        BY <1>1, <2>1, <2>2, SettleMoves
    <2> QED
        BY <1>1, <2>3 DEF OthersStay
<1>2. CASE ~IsActive(r)
    BY <1>2, UnchangedStays DEF CallFinish, OthersStay
<1> QED
    BY <1>1, <1>2

LEMMA ReconcileMoves ==
    ASSUME SP!Inv, NEW S \in SUBSET Runs, Store!ReconcileRuns(S)
    PROVE  \A q \in Runs : IF q \in S THEN RowEnds(q) ELSE RowStays(q)
<1> DEFINE outcome == [r \in S |-> Store!ReconciledAs(r)]
           cancel  == [r \in S |-> runs[r].cancel]
<1>1. Store!Settle(S, outcome, cancel, <<>>)
    BY DEF Store!ReconcileRuns
<1>2. \A r \in S : IsActive(r) /\ outcome[r] \in Store!TERMINAL_STATUSES
    BY DEF Store!ReconcileRuns, Store!ReconciledAs, Store!TERMINAL_STATUSES, IsActive
<1> HIDE DEF outcome, cancel
<1> QED
    BY <1>1, <1>2, SettleMoves

LEMMA DropMoves ==
    ASSUME SP!Inv, NEW S \in SUBSET Runs, Store!Drop(S)
    PROVE  \A q \in Runs : IF q \in S THEN RowGoes(q) ELSE RowStays(q)
BY RowFacts DEF Store!Drop, RowGoes, RowStays, SameTombstone, Known, Row, Store!Row, Store!NoRow

LEMMA CreateMoves ==
    ASSUME SP!Inv, NEW r \in Runs, Store!CreateRun(r)
    PROVE  RowAppears(r) /\ OthersStay(r)
<1>1. runs \in [Runs -> Store!RunRow]
    BY SameType DEF SP!Inv, Store!TypeOK
<1> QED
    BY <1>1 DEF Store!CreateRun, Store!NewId, Store!NoRow, RowAppears, OthersStay, RowStays, SameTombstone,
                Known, Row, Store!Row

LEMMA AppendMoves ==
    ASSUME SP!Inv, NEW r \in Runs, NEW batch, Store!AppendEvents(r, batch)
    PROVE  /\ IsActive(r) /\ runs'[r].status = runs[r].status
           /\ runs'[r].last = runs[r].last + Len(batch) /\ SameTombstone(r)
           /\ OthersStay(r)
<1>1. runs \in [Runs -> Store!RunRow]
    BY SameType DEF SP!Inv, Store!TypeOK
<1> QED
    BY <1>1 DEF Store!AppendEvents, Store!TakesOutput, OthersStay, RowStays, SameTombstone, IsActive

-----------------------------------------------------------------------------
(* A step of one run leaves the others alone.                               *)
Elsewhere(r) ==
    \A q \in Runs : q # r =>
        /\ RowStays(q)
        /\ job'[q] = job[q] /\ output'[q] = output[q] /\ orphans'[q] = orphans[q]
        /\ starting' = q <=> starting = q
        /\ q \in signals' <=> q \in signals
        /\ q \in forced' <=> q \in forced

LEMMA ElsewhereKeeps ==
    ASSUME Inv, SP!Inv', NEW r \in Runs, Elsewhere(r), UNCHANGED <<stopping, up>>
    PROVE  \A q \in Runs : q # r => RunInv(q)'
<1> SUFFICES ASSUME NEW q \in Runs, q # r PROVE RunInv(q)'
    OBVIOUS
<1>1. SP!Inv /\ RunInv(q)
    BY DEF Inv
<1>2. RowMoves(q) /\ JobMoves(q) /\ Around(q) /\ ToldOf(q)'
    BY <1>1 DEF Elsewhere, RowMoves, JobMoves, Around, RunInv, ToldOf, RowStays
<1>3. job[q].pc # "none" => up
    BY <1>1 DEF RunInv, Registry, Inv, Process
<1> QED
    BY <1>1, <1>2, <1>3, Moves

-----------------------------------------------------------------------------
(* The steps of a producer.  First those that leave its chunks alone.       *)

Keeps(k, j) ==
    k.pending = j.pending /\ k.writing = j.writing /\ k.wtask = j.wtask /\ k.opened = j.opened

(* A change of a job's other fields.                                        *)
Edited(k, j, pc, stop) == k \in Job /\ Keeps(k, j) /\ k.pc = pc /\ k.stop = stop

LEMMA EditPc == ASSUME NEW j \in Job, NEW pc \in Pcs PROVE Edited([j EXCEPT !.pc = pc], j, pc, j.stop)
    BY JobSet DEF Edited, Keeps
LEMMA EditPlan ==
    ASSUME NEW j \in Job, NEW pc \in Pcs, NEW plan \in Plans
    PROVE  Edited([j EXCEPT !.pc = pc, !.plan = plan], j, pc, j.stop)
    BY JobSet DEF Edited, Keeps
LEMMA EditFin ==
    ASSUME NEW j \in Job, NEW pc \in Pcs, NEW fin \in BOOLEAN
    PROVE  Edited([j EXCEPT !.pc = pc, !.fin = fin], j, pc, j.stop)
    BY JobSet DEF Edited, Keeps
LEMMA EditStop == ASSUME NEW j \in Job PROVE Edited([j EXCEPT !.stop = TRUE], j, j.pc, TRUE)
    BY JobSet DEF Edited, Keeps
LEMMA EditHeld == ASSUME NEW j \in Job PROVE Edited([j EXCEPT !.held = TRUE], j, j.pc, j.stop)
    BY JobSet DEF Edited, Keeps
LEMMA EditShut == ASSUME NEW j \in Job PROVE Edited([j EXCEPT !.shut = TRUE], j, j.pc, j.stop)
    BY JobSet DEF Edited, Keeps
LEMMA EditBeats ==
    ASSUME NEW j \in Job, NEW beats \in Beats
    PROVE  Edited([j EXCEPT !.beats = beats], j, j.pc, j.stop)
    BY JobSet DEF Edited, Keeps

LEMMA OnlyJob ==
    ASSUME Inv, NEW r \in Runs, NEW k, Becomes(r, k)
    PROVE  job'[r] = k /\ \A q \in Runs : q # r => job'[q] = job[q]
BY DEF Inv, Process, Becomes

(* A step from one position to another.                                     *)
LEMMA Passes ==
    ASSUME Inv, SP!Inv', NEW r \in Runs, NEW k \in Job, Becomes(r, k), Keeps(k, job[r]),
           UNCHANGED <<output, orphans, requests, process>>,
           RowMoves(r), OthersStay(r), MayGo(r), ToldOf(r)'
    PROVE  \A q \in Runs : RunInv(q)'
<1>1. job'[r] = k /\ \A q \in Runs : q # r => job'[q] = job[q]
    BY OnlyJob
<1>2. Elsewhere(r) /\ UNCHANGED <<stopping, up>>
    BY <1>1 DEF Elsewhere, OthersStay, requests, process
<1>3. JobMoves(r) /\ Around(r)
    BY <1>1 DEF JobMoves, SameWork, Keeps, Around, requests, process
<1>4. SP!Inv /\ RunInv(r) /\ (job[r].pc # "none" => up)
    BY DEF Inv, RunInv, Registry, Process
<1>5. RunInv(r)'
    BY <1>3, <1>4, Moves
<1> QED
    BY <1>2, <1>5, ElsewhereKeeps

LEMMA Goes ==
    ASSUME Inv, SP!Inv', NEW r \in Runs, NEW k \in Job, Becomes(r, k), Keeps(k, job[r]), k.stop = job[r].stop,
           UNCHANGED <<output, orphans, requests, process>>,
           RowMoves(r), OthersStay(r),
           job[r].pc # "none", k.pc \notin {"none", "stream"},
           job[r].wtask = "none" \/ k.pc \in {"drain", "caught"},
           IF job[r].opened THEN k.pc \in Opened ELSE k.pc \notin {"stream", "drain", "status"},
           k.pc \in Preparing => job[r].pc \in Preparing,
           k.pc \in {"reread", "open"} => runs'[r].status = "running",
           job[r].pc \in {"caught", "settle", "unwind"} => k.pc \in {"caught", "settle", "unwind"}
    PROVE  \A q \in Runs : RunInv(q)'
<1>1. job'[r] = k
    BY OnlyJob
<1>2. MayGo(r)
    BY <1>1 DEF MayGo
<1>3. ToldOf(r)'
    BY <1>1 DEF ToldOf
<1> QED
    BY <1>2, <1>3, Passes

LEMMA AtFacts ==
    ASSUME Inv, NEW r \in Runs
    PROVE  /\ SP!Inv /\ job[r] \in Job /\ RunInv(r) /\ job[r].plan \in Plans
           /\ job[r].pc \in Preparing => ~job[r].opened /\ job[r].wtask = "none"
           /\ job[r].pc \in {"stream", "drain", "status"} => job[r].opened
           /\ job[r].pc \notin {"stream", "drain", "caught"} => job[r].wtask = "none"
<1>1. job[r] \in Job /\ SP!Inv /\ RunInv(r) /\ Flow(job[r], output[r])
    BY DEF Inv, RunInv, RunTypes
<1> QED
    BY <1>1, JobFields DEF Flow, Preparing, Opened

LEMMA ToGoes ==
    ASSUME Inv, SP!Inv', NEW r \in Runs, At(r, job[r].pc), RowMoves(r), OthersStay(r), job[r].pc # "none",
           NEW pc \in Pcs, To(r, pc) \/ (pc = "finish" /\ \E plan \in Plans : ToFinish(r, plan)),
           pc \notin {"none", "stream"},
           job[r].wtask = "none" \/ pc \in {"drain", "caught"},
           IF job[r].opened THEN pc \in Opened ELSE pc \notin {"stream", "drain", "status"},
           pc \in Preparing => job[r].pc \in Preparing,
           pc \in {"reread", "open"} => runs'[r].status = "running",
           job[r].pc \in {"caught", "settle", "unwind"} => pc \in {"caught", "settle", "unwind"}
    PROVE  \A q \in Runs : RunInv(q)'
<1>1. job[r] \in Job
    BY AtFacts
<1>2. PICK k : Becomes(r, k) /\ Edited(k, job[r], pc, job[r].stop)
    <2>1. CASE To(r, pc)
        BY <1>1, <2>1, EditPc DEF To
    <2>2. CASE pc = "finish" /\ \E plan \in Plans : ToFinish(r, plan)
        <3>1. PICK plan \in Plans : Becomes(r, [job[r] EXCEPT !.pc = "finish", !.plan = plan])
            BY <2>2 DEF ToFinish
        <3>2. Edited([job[r] EXCEPT !.pc = "finish", !.plan = plan], job[r], pc, job[r].stop)
            BY <1>1, <2>2, EditPlan
        <3> QED
            BY <3>1, <3>2
    <2> QED
        BY <2>1, <2>2
<1> QED
    BY <1>2, Goes DEF At, Edited

LEMMA StatusesArePlans ==
    /\ \A r \in Runs : StoppedStatus(r) \in Plans /\ CaughtStatus(r) \in Plans /\ EndStatus(r) \in Plans
    /\ "cancelled" \in Plans
BY DEF StoppedStatus, CaughtStatus, EndStatus, Plans, Store!TERMINAL_STATUSES

LEMMA BeginSteps ==
    ASSUME Inv, SP!Inv', NEW r \in Runs, Begin(r)
    PROVE  \A q \in Runs : RunInv(q)'
<1>1. /\ job[r].pc \in {"token", "gate", "mark", "reread"} /\ At(r, job[r].pc)
      /\ job[r].pc \in Preparing /\ ~job[r].opened /\ job[r].wtask = "none" /\ SP!Inv
    BY AtFacts DEF Begin, GetToken, Gate, MarkRunning, Reread, At, Preparing
<1>2. ASSUME NEW pc \in {"finish", "unwind", "gate", "mark", "caught", "reread", "open"},
             To(r, pc) \/ (pc = "finish" /\ \E plan \in Plans : ToFinish(r, plan)),
             pc \in {"reread", "open"} => runs'[r].status = "running",
             RowMoves(r), OthersStay(r)
      PROVE  \A q \in Runs : RunInv(q)'
    BY <1>1, <1>2, ToGoes DEF Pcs
<1>3. ASSUME UNCHANGED store PROVE RowMoves(r) /\ OthersStay(r) /\ runs'[r].status = runs[r].status
    BY <1>3, UnchangedStays DEF RowMoves, OthersStay, store
<1>4. CASE GetToken(r)
    <2>1. UNCHANGED store
        BY <1>4 DEF GetToken, Fault
    <2> QED
        BY <1>2, <1>3, <1>4, <2>1, StatusesArePlans DEF GetToken
<1>5. CASE Gate(r)
    <2>1. UNCHANGED store
        BY <1>5 DEF Gate, NoCall
    <2> QED
        BY <1>2, <1>3, <1>5, <2>1, StatusesArePlans DEF Gate
<1>6. CASE MarkRunning(r)
    <2>1. CASE Marked(r) /\ To(r, "reread")
        BY <1>1, <1>2, <2>1, MarkMoves DEF Marked, RowMoves
    <2>2. CASE UNCHANGED store /\ (To(r, "unwind") \/ To(r, "caught"))
        BY <1>2, <1>3, <2>2
    <2>3. CASE UNCHANGED store /\ To(r, "reread") /\ runs[r].status = "running"
        BY <1>2, <1>3, <2>3
    <2> QED
        BY <1>6, <2>1, <2>2, <2>3 DEF MarkRunning, NoCall, Fault
<1>7. CASE Reread(r)
    <2>1. UNCHANGED store
        BY <1>7 DEF Reread, Fault
    <2> QED
        BY <1>2, <1>3, <1>7, <2>1, StatusesArePlans DEF Reread
<1> QED
    BY <1>4, <1>5, <1>6, <1>7 DEF Begin

LEMMA EndSteps ==
    ASSUME Inv, SP!Inv', NEW r \in Runs,
           \/ EngineRaises(r) \/ (\E done \in BOOLEAN : EndStream(r, done)) \/ ReadStatus(r)
           \/ Finish(r) \/ SettleCaught(r)
    PROVE  \A q \in Runs : RunInv(q)'
<1>1. /\ job[r].pc \in {"stream", "status", "finish", "settle"} /\ At(r, job[r].pc)
      /\ job[r].pc # "stream" => job[r].wtask = "none"
      /\ job[r].pc \in {"stream", "status"} => job[r].opened
      /\ SP!Inv /\ job[r] \in Job /\ job[r].plan \in Plans
    BY AtFacts DEF EngineRaises, EndStream, ReadStatus, Finish, SettleCaught, At
<1>2. ASSUME UNCHANGED store PROVE RowMoves(r) /\ OthersStay(r)
    BY <1>2, UnchangedStays DEF RowMoves, OthersStay
<1>3. ASSUME NEW pc \in {"unwind", "caught"}, To(r, pc), pc = "caught" \/ job[r].pc # "stream",
             RowMoves(r), OthersStay(r), pc = "caught" => job[r].pc # "settle"
      PROVE  \A q \in Runs : RunInv(q)'
    BY <1>1, <1>3, ToGoes DEF Pcs, Opened, Preparing
<1>4. CASE EngineRaises(r)
    BY <1>2, <1>3, <1>4 DEF EngineRaises, NoCall, At
<1>5. CASE \E done \in BOOLEAN : EndStream(r, done)
    <2>1. PICK done \in BOOLEAN : EndStream(r, done)
        BY <1>5
    <2>2. PICK fin \in BOOLEAN : fin = (job[r].fin \/ done)
        BY <1>1, JobFields
    <2>3. UNCHANGED store /\ Becomes(r, [job[r] EXCEPT !.pc = "drain", !.fin = fin]) /\ job[r].pc = "stream"
        BY <1>1, <2>1, <2>2 DEF EndStream, NoCall, At
    <2>4. "drain" \in Pcs
        BY DEF Pcs
    <2>5. PICK k : Becomes(r, k) /\ Edited(k, job[r], "drain", job[r].stop)
        BY <1>1, <2>3, <2>4, EditFin
    <2> QED
        BY <1>1, <1>2, <2>3, <2>5, Goes DEF Edited, Opened, Preparing, At
<1>6. CASE ReadStatus(r)
    <2>1. UNCHANGED store /\ job[r].pc = "status"
        BY <1>6 DEF ReadStatus, Fault, At
    <2>2. CASE ToFinish(r, EndStatus(r))
        <3>1. \E plan \in Plans : ToFinish(r, plan)
            BY <2>2, StatusesArePlans
        <3> QED
            BY <1>1, <1>2, <2>1, <3>1, ToGoes DEF Pcs, Opened, Preparing
    <2> QED
        BY <1>2, <1>3, <1>6, <2>1, <2>2 DEF ReadStatus
<1>7. CASE Finish(r) \/ SettleCaught(r)
    <2>1. RowMoves(r) /\ OthersStay(r)
        <3>1. CASE CallFinish(r, job[r].plan, job[r].pending)
            BY <1>1, <3>1, FinishMoves DEF Plans, RowMoves
        <3> QED
            BY <1>2, <1>7, <3>1 DEF Finish, SettleCaught, Fault
    <2>2. job[r].pc \in {"finish", "settle"}
        BY <1>7 DEF Finish, SettleCaught, At
    <2> QED
        BY <1>3, <1>7, <2>1, <2>2 DEF Finish, SettleCaught, At
<1> QED
    BY <1>4, <1>5, <1>6, <1>7

(* Renewals, and being told to stop.                                        *)
LEMMA AsideSteps ==
    ASSUME Inv, SP!Inv', NEW r \in Runs, Renew(r) \/ Signal(r) \/ LifecycleCancel(r)
    PROVE  \A q \in Runs : RunInv(q)'
<1>1. /\ SP!Inv /\ job[r] \in Job /\ RunInv(r) /\ job[r].beats \in Beats /\ job[r].pc \in Pcs
      /\ Flow(job[r], output[r]) /\ Unwritten(r)
    BY AtFacts, JobFields DEF RunInv
<1>2. CASE Renew(r)
    <2>1. \A q \in Runs : RowStays(q)
        BY <1>1, <1>2, LeaseMoves DEF Renew
    <2>2. PICK beats \in Beats : beats = job[r].beats + 1
        BY <1>1, <1>2, BoundAssumption DEF Renew, Beats
    <2>3. Becomes(r, [job[r] EXCEPT !.beats = beats]) /\ At(r, job[r].pc)
          /\ job[r].pc \in {"gate", "mark", "reread", "open", "stream"}
        BY <1>2, <2>2 DEF Renew
    <2>4. PICK k : Becomes(r, k) /\ Edited(k, job[r], job[r].pc, job[r].stop)
        BY <1>1, <2>3, EditBeats
    <2>5. job'[r] = k
        BY <2>4, OnlyJob
    <2>6. MayGo(r)
        BY <1>1, <2>1, <2>3, <2>4, <2>5 DEF MayGo, Edited, Flow, Unwritten, RowStays
    <2>7. ToldOf(r)'
        BY <1>1, <2>1, <2>3, <2>4, <2>5 DEF ToldOf, RunInv, Edited, RowStays, At, requests
    <2> QED
        BY <2>1, <2>3, <2>4, <2>6, <2>7, Passes DEF RowMoves, OthersStay, Edited, At
<1>3. CASE Signal(r) \/ LifecycleCancel(r)
    <2>1. UNCHANGED <<store, output, orphans, starting, forced, process>> /\ Becomes(r, Told(r))
          /\ signals' \in {signals, signals \ {r}}
        BY <1>3 DEF Signal, LifecycleCancel, requests
    <2>2. PICK k \in Job : job'[r] = k /\ Keeps(k, job[r]) /\ k.pc = job[r].pc
                           /\ (k = job[r] \/ k.stop) /\ (job[r].pc # "none" => k.stop)
        <3>1. CASE job[r].pc = "none"
            BY <1>1, <2>1, <3>1, OnlyJob DEF Told, Keeps
        <3>2. CASE job[r].pc # "none"
            <4>1. Told(r) = [job[r] EXCEPT !.stop = TRUE]
                BY <3>2 DEF Told
            <4>2. job'[r] = Told(r)
                BY <2>1, OnlyJob
            <4>3. Edited(Told(r), job[r], job[r].pc, TRUE)
                BY <1>1, <4>1, EditStop
            <4> QED
                BY <4>2, <4>3 DEF Edited
        <3> QED
            BY <3>1, <3>2
    <2>3. \A q \in Runs : RowStays(q)
        BY <2>1, UnchangedStays
    <2>4. Elsewhere(r) /\ UNCHANGED <<stopping, up>>
        BY <2>1, <2>3, OnlyJob DEF Elsewhere, process
    <2>5. JobMoves(r)
        <3>1. CASE job[r].pc = "none"
            BY <1>3, <2>1, <3>1, OnlyJob DEF JobMoves, Told
        <3>2. CASE job[r].pc # "none"
            BY <1>1, <2>2, <2>3, <3>2 DEF JobMoves, SameWork, Keeps, MayGo, Flow, Unwritten, RowStays
        <3> QED
            BY <3>1, <3>2
    <2>6. Around(r) /\ RowMoves(r)
        BY <2>1, <2>3 DEF Around, RowMoves, process
    <2>7. ToldOf(r)'
        BY <2>2 DEF ToldOf
    <2>8. job[r].pc # "none" => up
        BY <1>1 DEF RunInv, Registry, Inv, Process
    <2>9. RunInv(r)'
        BY <1>1, <2>5, <2>6, <2>7, <2>8, Moves
    <2> QED
        BY <2>4, <2>9, ElsewhereKeeps
<1> QED
    BY <1>2, <1>3

(* Steps that find the producer at work and leave it alone.                 *)
LEMMA RowSteps ==
    ASSUME Inv, SP!Inv', NEW r \in Runs, UNCHANGED <<job, output, starting, stopping, up>>,
           RowMoves(r), OthersStay(r), ToldOf(r)', orphans'[r] \subseteq orphans[r],
           \A q \in Runs : q # r => /\ orphans'[q] = orphans[q]
                                    /\ q \in signals' <=> q \in signals,
           forced' = forced
    PROVE  \A q \in Runs : RunInv(q)'
<1>1. Elsewhere(r) /\ JobMoves(r) /\ Around(r)
    BY DEF Elsewhere, OthersStay, JobMoves, Around
<1>2. SP!Inv /\ RunInv(r) /\ (job[r].pc # "none" => up)
    BY DEF Inv, RunInv, Registry, Process
<1>3. RunInv(r)'
    BY <1>1, <1>2, Moves
<1> QED
    BY <1>1, <1>3, ElsewhereKeeps

LEMMA OutsideSteps ==
    ASSUME Inv, SP!Inv', NEW r \in Runs,
           Orphan(r) \/ RequestCancel(r) \/ EditAnswer(r) \/ LeaseRunsOut(r)
    PROVE  \A q \in Runs : RunInv(q)'
<1>1. SP!Inv /\ RunInv(r) /\ ToldOf(r) /\ LeftToItself(r)
    BY AtFacts DEF RunInv
<1>2. CASE Orphan(r)
    <2>1. PICK o \in orphans[r] :
            /\ orphans' = [orphans EXCEPT ![r] = @ \ {o}]
            /\ IF o.call = "finish" THEN CallFinish(r, o.status, o.numbers)
               ELSE Store!MarkRunning(r) \/ UNCHANGED store
        BY <1>2 DEF Orphan
    <2>2. UNCHANGED <<job, output, starting, signals, forced, stopping, up>>
        BY <1>2 DEF Orphan, requests, process
    <2>3. orphans'[r] \subseteq orphans[r] /\ \A q \in Runs : q # r => orphans'[q] = orphans[q]
        BY <2>1 DEF Inv, Process
    <2>4. CASE o.call = "finish"
        <3>1. o.status \in Store!TERMINAL_STATUSES
            BY <1>1, <2>4 DEF LeftToItself
        <3>2. (IF IsActive(r) THEN RowEnds(r) ELSE RowStays(r)) /\ OthersStay(r)
            BY <1>1, <2>1, <2>4, <3>1, FinishMoves
        <3>3. IsActive(r) => job[r].pc \notin {"open", "stream"}
            BY <1>1, <2>4 DEF LeftToItself
        <3>4. ToldOf(r)'
            BY <1>1, <2>2, <3>2, <3>3 DEF ToldOf, RowStays
        <3> QED
            BY <2>2, <2>3, <3>2, <3>4, RowSteps DEF RowMoves
    <2>5. CASE Store!MarkRunning(r)
        <3>1. RowAdvances(r) /\ runs'[r].status = "running" /\ OthersStay(r)
            BY <1>1, <2>5, MarkMoves
        <3> QED
            BY <2>2, <2>3, <3>1, RowSteps DEF RowMoves, ToldOf
    <2>6. CASE UNCHANGED store
        <3>1. RowStays(r) /\ OthersStay(r)
            BY <2>6, UnchangedStays DEF OthersStay
        <3> QED
            BY <1>1, <2>2, <2>3, <3>1, RowSteps DEF RowMoves, ToldOf, RowStays
    <2> QED
        BY <2>1, <2>4, <2>5, <2>6
<1>3. CASE RequestCancel(r)
    <2>1. /\ UNCHANGED <<job, output, orphans, starting, forced, stopping, up>>
          /\ signals' = signals \cup {r}
        BY <1>3 DEF RequestCancel, process
    <2>2. RowMoves(r) /\ OthersStay(r)
        BY <1>1, <1>3, CancelMoves, UnchangedStays DEF RequestCancel, RowMoves, OthersStay
    <2> QED
        BY <2>1, <2>2, RowSteps DEF ToldOf
<1>4. CASE EditAnswer(r)
    <2>1. UNCHANGED <<job, output, orphans, starting, signals, forced, stopping, up>>
        BY <1>4 DEF EditAnswer, requests, process
    <2>2. IsTerminal(r) /\ \A q \in Runs : IF q \in {r} THEN RowGoes(q) ELSE RowStays(q)
        BY <1>1, <1>4, DropMoves DEF EditAnswer, Store!DetachMessage, IsTerminal
    <2>3. ToldOf(r)'
        BY <1>1, <2>1, <2>2, RowFacts DEF ToldOf
    <2> QED
        BY <2>1, <2>2, <2>3, RowSteps DEF RowMoves, OthersStay
<1>5. CASE LeaseRunsOut(r)
    <2>1. UNCHANGED <<job, output, orphans, starting, signals, forced, stopping, up>>
        BY <1>5 DEF LeaseRunsOut, requests, process
    <2>2. \A q \in Runs : RowStays(q)
        BY <1>1, <1>5, LeaseMoves DEF LeaseRunsOut
    <2> QED
        BY <1>1, <2>1, <2>2, RowSteps DEF RowMoves, OthersStay, ToldOf, RowStays
<1> QED
    BY <1>2, <1>3, <1>4, <1>5

-----------------------------------------------------------------------------
(* The steps that move chunks.                                              *)

LEMMA FlowStep ==
    ASSUME Inv, SP!Inv', NEW r \in Runs, NEW k \in Job, Becomes(r, k), k.stop = job[r].stop,
           output'[r] \in 0..MaxChunks, \A q \in Runs : q # r => output'[q] = output[q],
           UNCHANGED <<orphans, requests, process>>, OthersStay(r),
           job[r].pc # "none", k.pc # "none", k.pc \notin Preparing,
           k.pc = "stream" => job[r].pc \in {"open", "stream"},
           Flow(k, output'[r]),
           runs'[r].status = runs[r].status, SameTombstone(r),
           NEW n \in Nat, runs'[r].last = runs[r].last + n,
           IsActive(r) => n + Budget(k, output'[r]) <= Budget(job[r], output[r]),
           k.opened = job[r].opened \/ job[r].pc = "open",
           ~job[r].opened => n = 0,
           job[r].pc \in {"caught", "settle", "unwind"} /\ job[r].wtask = "none" =>
                k.pc \in {"caught", "settle", "unwind"} /\ k.wtask = "none" /\ n = 0
    PROVE  \A q \in Runs : RunInv(q)'
<1>1. job'[r] = k /\ \A q \in Runs : q # r => job'[q] = job[q]
    BY OnlyJob
<1>2. Elsewhere(r) /\ UNCHANGED <<stopping, up>>
    BY <1>1 DEF Elsewhere, OthersStay, requests, process
<1>3. /\ SP!Inv /\ RunInv(r) /\ RunTypes(r) /\ Registry(r) /\ Flow(job[r], output[r]) /\ Unwritten(r)
      /\ LogFits(r) /\ LeftToItself(r) /\ ToldOf(r) /\ up \in BOOLEAN
    BY DEF Inv, RunInv, Process
<1>4. UNCHANGED <<orphans, starting, signals, forced, stopping, up>>
    BY DEF requests, process
<1>5. RunTypes(r)'
    BY <1>1, <1>3, <1>4 DEF RunTypes
<1>6. (Known(r)' <=> Known(r)) /\ (Over(r)' <=> Over(r)) /\ (IsActive(r)' <=> IsActive(r))
    BY DEF Known, Over, SameTombstone, Row, Store!Row, IsTerminal, Store!IsTerminal, IsActive, Store!IsActive
<1>7. Registry(r)'
    BY <1>1, <1>3, <1>4, <1>6 DEF Registry
<1>8. Unwritten(r)'
    BY <1>1, <1>3, RowFacts DEF Unwritten, Preparing
<1>9. LogFits(r)'
    <2>1. SUFFICES ASSUME IsActive(r)
                   PROVE  /\ Chunked(r)' \in Nat
                          /\ Chunked(r)' + Budget(k, output'[r]) + AskedFor(r)' <= 2 * MaxChunks
        BY <1>1, <1>6 DEF LogFits
    <2>2. Chunked(r)' = Chunked(r) + n
        BY <1>3, RowFacts DEF Chunked, Base
    <2>3. AskedFor(r)' = AskedFor(r) /\ AskedFor(r) \in Nat /\ MaxChunks \in Nat
        BY <1>4, BoundAssumption DEF AskedFor
    <2>4. Budget(k, output'[r]) \in Int /\ Budget(job[r], output[r]) \in Int
        <3>1. /\ Len(k.pending) \in Nat /\ Len(k.writing) \in Nat
              /\ Len(job[r].pending) \in Nat /\ Len(job[r].writing) \in Nat
              /\ output[r] \in 0..MaxChunks
            BY <1>3, JobFields DEF RunTypes
        <3>2. PICK out \in Int : out = output'[r]
            BY <2>3
        <3>3. Sent(k, out) \in Int /\ Sent(job[r], output[r]) \in Int
            BY <2>3, <3>1 DEF Sent
        <3> QED
            BY <2>3, <3>2, <3>3 DEF Budget
    <2>5. Chunked(r) \in Nat /\ Chunked(r) + Budget(job[r], output[r]) + AskedFor(r) <= 2 * MaxChunks
        BY <1>3, <2>1 DEF LogFits
    <2> QED
        BY <2>1, <2>2, <2>3, <2>4, <2>5
<1>10. LeftToItself(r)'
    <2>1. SUFFICES ASSUME NEW o \in orphans[r], o.call = "finish", IsActive(r)
                   PROVE  /\ k.pc \in {"none", "caught", "settle", "unwind"} /\ k.wtask = "none"
                          /\ Chunked(r)' = Chunked(r)
        BY <1>1, <1>3, <1>4, <1>6 DEF LeftToItself
    <2>2. job[r].pc \in {"caught", "settle", "unwind"} /\ job[r].wtask = "none"
        BY <1>3, <2>1 DEF LeftToItself
    <2> QED
        BY <1>3, <2>2, RowFacts DEF Chunked
<1>11. ToldOf(r)'
    BY <1>1, <1>3, <1>4 DEF ToldOf, Preparing
<1>12. RunInv(r)'
    BY <1>1, <1>5, <1>7, <1>8, <1>9, <1>10, <1>11 DEF RunInv
<1> QED
    BY <1>2, <1>12, ElsewhereKeeps

LEMMA NumberedConcat ==
    ASSUME NEW S, NEW s \in Seq(S), NEW t \in Seq(S), NEW before \in Int,
           Numbered(s, before), Numbered(t, before + Len(s))
    PROVE  Numbered(s \o t, before) /\ s \o t \in Seq(S) /\ Len(s \o t) = Len(s) + Len(t)
<1>1. /\ Len(s) \in Nat /\ Len(t) \in Nat /\ Len(s \o t) = Len(s) + Len(t)
      /\ \A i \in 1..(Len(s) + Len(t)) : (s \o t)[i] = IF i <= Len(s) THEN s[i] ELSE t[i - Len(s)]
    BY LenProperties, ConcatProperties
<1>2. ASSUME NEW i \in 1..(Len(s) + Len(t)) PROVE (s \o t)[i] = before + i
    <2>1. CASE i <= Len(s)
        BY <1>1, <2>1 DEF Numbered
    <2>2. CASE ~(i <= Len(s))
        <3>1. i - Len(s) \in 1..Len(t)
            BY <1>1, <2>2
        <3>2. t[i - Len(s)] = before + Len(s) + (i - Len(s))
            BY <3>1 DEF Numbered
        <3> QED
            BY <1>1, <2>2, <3>2
    <2> QED
        BY <2>1, <2>2
<1> QED
    BY <1>1, <1>2, ConcatProperties DEF Numbered

LEMMA NumberedAppend ==
    ASSUME NEW S, NEW s \in Seq(S), NEW before \in Int, Numbered(s, before), NEW e \in S, e = before + Len(s) + 1
    PROVE  Numbered(Append(s, e), before) /\ Append(s, e) \in Seq(S) /\ Len(Append(s, e)) = Len(s) + 1
<1>1. /\ Len(s) \in Nat /\ Append(s, e) \in Seq(S) /\ Len(Append(s, e)) = Len(s) + 1
      /\ \A i \in 1..Len(s) : Append(s, e)[i] = s[i]
      /\ Append(s, e)[Len(s) + 1] = e
    BY LenProperties, AppendProperties
<1>2. ASSUME NEW i \in 1..(Len(s) + 1) PROVE Append(s, e)[i] = before + i
    <2>1. i \in 1..Len(s) \/ i = Len(s) + 1
        BY <1>1
    <2> QED
        BY <1>1, <2>1 DEF Numbered
<1> QED
    BY <1>1, <1>2 DEF Numbered

LEMMA NothingNumbered == \A before : Numbered(<<>>, before)
    BY DEF Numbered

(* What the producer knows of its chunks once the write is settled.         *)
LEMMA WriteSettledFlow ==
    ASSUME NEW j \in Job, NEW out \in 0..MaxChunks, Flow(j, out), j.wtask # "running"
    PROVE  /\ WriteSettled(j) \in Job /\ WriteSettled(j).wtask = "none" /\ WriteSettled(j).pc = j.pc
           /\ WriteSettled(j).opened = j.opened /\ WriteSettled(j).stop = j.stop
           /\ Sent(WriteSettled(j), out) = Sent(j, out) /\ Flow(WriteSettled(j), out)
<1> DEFINE pending == IF j.wtask = "failed" THEN j.writing \o j.pending ELSE j.pending
           k == WriteSettled(j)
<1>1. /\ j.pending \in Numbers /\ j.writing \in Numbers /\ Len(j.pending) \in Nat /\ Len(j.writing) \in Nat
      /\ j.wtask \in WriteStates /\ MaxChunks \in Nat /\ <<>> \in Numbers /\ "none" \in WriteStates
    BY JobFields, BoundAssumption DEF Numbers, WriteStates
<1>2. pending \in Numbers /\ Len(pending) = IF j.wtask = "failed" THEN Len(j.writing) + Len(j.pending) ELSE Len(j.pending)
    BY <1>1, ConcatProperties DEF Numbers
<1>3. k = [j EXCEPT !.wtask = "none", !.writing = <<>>, !.pending = pending]
    BY DEF WriteSettled
<1> HIDE DEF pending, k
<1>4. /\ k \in Job /\ k.wtask = "none" /\ k.pc = j.pc /\ k.opened = j.opened /\ k.stop = j.stop
      /\ k.writing = <<>> /\ k.pending = pending
    BY <1>1, <1>2, <1>3, JobSet
<1>5. j.wtask = "none" => j.writing = <<>> /\ Len(j.writing) = 0
    BY DEF Flow
<1>6. j.wtask \in {"none", "done", "failed"}
    BY <1>1 DEF WriteStates
<1>7. Sent(k, out) = Sent(j, out)
    <2>1. PICK o \in Int, p \in Int, w \in Int : o = out /\ p = Len(j.pending) /\ w = Len(j.writing)
        BY <1>1
    <2>2. Sent(k, out) = o - Len(pending)
        BY <1>4, <2>1 DEF Sent
    <2>3. Sent(j, out) = o - p - (IF j.wtask = "done" THEN 0 ELSE w)
        BY <2>1 DEF Sent
    <2>4. CASE j.wtask = "failed"
        <3>1. Len(pending) = w + p
            BY <1>2, <2>1, <2>4
        <3> QED
            BY <2>1, <2>2, <2>3, <2>4, <3>1
    <2>5. CASE j.wtask # "failed"
        <3>1. Len(pending) = p /\ (j.wtask # "done" => w = 0)
            BY <1>2, <1>5, <1>6, <2>1, <2>5
        <3> QED
            BY <2>1, <2>2, <2>3, <3>1
    <2> QED
        BY <2>4, <2>5
<1>8. Flow(k, out)
    <2>1. CASE ~j.opened
        <3>1. j.pending = <<>> /\ j.writing = <<>> /\ j.wtask = "none" /\ j.pc \notin {"stream", "drain", "status"}
            BY <2>1 DEF Flow
        <3> QED
            BY <1>4, <2>1, <3>1 DEF Flow, pending
    <2>2. CASE j.opened
        <3>1. /\ j.pc \in Opened /\ Before(j, out) >= 0 /\ Before(j, out) \in Int
              /\ Numbered(j.writing, Before(j, out))
              /\ Numbered(j.pending, Before(j, out) + Len(j.writing))
            <4>1. Before(j, out) \in Int
                BY <1>1 DEF Before
            <4> QED
                BY <2>2, <4>1 DEF Flow
        <3>2. CASE j.wtask = "failed"
            <4>1. Numbered(pending, Before(j, out))
                BY <1>1, <3>1, <3>2, NumberedConcat DEF pending, Numbers
            <4>2. Before(k, out) = Before(j, out) /\ Len(k.writing) = 0
                <5>1. Len(pending) = Len(j.writing) + Len(j.pending) /\ Len(k.writing) = 0
                    BY <1>2, <1>4, <3>2
                <5>2. PICK o \in Int : o = out
                    BY <1>1
                <5> QED
                    BY <1>1, <1>4, <5>1, <5>2 DEF Before
            <4> QED
                BY <1>4, <2>2, <3>1, <4>1, <4>2, NothingNumbered DEF Flow
        <3>3. CASE j.wtask \in {"none", "done"}
            <4>1. pending = j.pending /\ Len(k.writing) = 0
                BY <1>4, <3>3 DEF pending
            <4>2. Before(k, out) = Before(j, out) + Len(j.writing)
                BY <1>1, <1>4, <4>1 DEF Before
            <4> QED
                BY <1>1, <1>4, <4>2, <2>2, <3>1, <4>1, NothingNumbered DEF Flow
        <3> QED
            BY <1>6, <3>2, <3>3
    <2> QED
        BY <2>1, <2>2
<1> QED
    BY <1>4, <1>7, <1>8 DEF k

(* What a job knows of its chunks does not depend on the rest of it.        *)
LEMMA KeptFlow ==
    ASSUME NEW j, NEW k, NEW out, Flow(j, out), Keeps(k, j),
           j.wtask = "none" \/ k.pc \in {"stream", "drain", "caught"},
           IF j.opened THEN k.pc \in Opened ELSE k.pc \notin {"stream", "drain", "status"}
    PROVE  Flow(k, out) /\ Sent(k, out) = Sent(j, out)
<1>1. Before(k, out) = Before(j, out)
    BY DEF Keeps, Before
<1> QED
    BY <1>1 DEF Keeps, Flow, Sent

LEMMA DrainSteps ==
    ASSUME Inv, SP!Inv', NEW r \in Runs, ObserveWrite(r) \/ Drain(r) \/ Catch(r)
    PROVE  \A q \in Runs : RunInv(q)'
<1> DEFINE j == job[r]
           w == WriteSettled(j)
<1>1. /\ SP!Inv /\ j \in Job /\ output[r] \in 0..MaxChunks /\ Flow(j, output[r])
      /\ j.wtask # "running" /\ j.pc \in {"stream", "drain", "caught"}
    BY AtFacts DEF RunInv, RunTypes, ObserveWrite, Drain, Catch, Waited, At
<1>2. /\ w \in Job /\ w.wtask = "none" /\ w.pc = j.pc /\ w.opened = j.opened /\ w.stop = j.stop
      /\ Sent(w, output[r]) = Sent(j, output[r]) /\ Flow(w, output[r])
    BY <1>1, WriteSettledFlow
<1>3. /\ UNCHANGED store /\ UNCHANGED <<output, orphans, requests, process>>
      /\ \E pc \in Pcs, plan \in Plans :
            /\ Becomes(r, [w EXCEPT !.pc = pc]) \/ Becomes(r, [w EXCEPT !.pc = pc, !.plan = plan])
            /\ pc \in {"stream", "caught", "status", "settle"}
            /\ pc \in {"stream", "status"} => j.pc \in {"stream", "drain"}
            /\ j.pc = "caught" => pc = "settle"
            /\ pc = "stream" => j.pc = "stream"
    BY <1>2, StatusesArePlans DEF ObserveWrite, Drain, Catch, NoCall, At, Pcs
<1> HIDE DEF w
<1>4. PICK pc \in Pcs, plan \in Plans :
            /\ Becomes(r, [w EXCEPT !.pc = pc]) \/ Becomes(r, [w EXCEPT !.pc = pc, !.plan = plan])
            /\ pc \in {"stream", "caught", "status", "settle"}
            /\ pc \in {"stream", "status"} => j.pc \in {"stream", "drain"}
            /\ j.pc = "caught" => pc = "settle"
            /\ pc = "stream" => j.pc = "stream"
    BY <1>3
<1>5. PICK k : Becomes(r, k) /\ Edited(k, w, pc, w.stop)
    BY <1>2, <1>4, EditPc, EditPlan
<1>6. j.opened <=> j.pc \in {"stream", "drain"} \/ (j.pc = "caught" /\ j.opened)
    BY <1>1, AtFacts
<1>7. k \in Job /\ k.pc = pc /\ k.stop = j.stop /\ k.opened = j.opened /\ k.wtask = "none"
    BY <1>2, <1>5 DEF Edited, Keeps
<1>8. Flow(k, output[r]) /\ Sent(k, output[r]) = Sent(j, output[r])
    BY <1>2, <1>4, <1>5, <1>6, KeptFlow DEF Edited, Opened
<1>9. Budget(k, output[r]) = Budget(j, output[r]) /\ Budget(j, output[r]) \in Int
    <2>1. j.pc \notin Preparing /\ pc \notin Preparing
        BY <1>1, <1>4 DEF Preparing
    <2>2. Sent(j, output[r]) \in Int /\ MaxChunks \in Nat
        BY <1>1, JobFields, BoundAssumption DEF Sent
    <2> QED
        BY <1>7, <1>8, <2>1, <2>2 DEF Budget
<1>10. (\A q \in Runs : RowStays(q)) /\ OthersStay(r) /\ runs[r].last \in Nat /\ runs'[r].last = runs[r].last + 0
       /\ runs'[r].status = runs[r].status /\ SameTombstone(r)
    BY <1>1, <1>3, UnchangedStays, RowFacts DEF OthersStay, RowStays
<1>11. output'[r] = output[r] /\ UNCHANGED <<output, orphans, requests, process>>
    BY <1>3
<1>12. /\ j.pc # "none" /\ k.pc # "none" /\ k.pc \notin Preparing
       /\ k.pc = "stream" => j.pc \in {"open", "stream"}
       /\ j.pc \in {"caught", "settle", "unwind"} /\ j.wtask = "none" =>
                k.pc \in {"caught", "settle", "unwind"} /\ k.wtask = "none"
    BY <1>1, <1>4, <1>7 DEF Preparing
<1>13. 0 + Budget(k, output'[r]) <= Budget(j, output[r])
    BY <1>9, <1>11
<1> QED
    BY <1>1, <1>5, <1>7, <1>8, <1>10, <1>11, <1>12, <1>13, FlowStep

LEMMA OpenSteps ==
    ASSUME Inv, SP!Inv', NEW r \in Runs, Open(r)
    PROVE  \A q \in Runs : RunInv(q)'
<1> DEFINE j == job[r]
<1>1. /\ SP!Inv /\ j \in Job /\ output[r] \in 0..MaxChunks /\ Flow(j, output[r])
      /\ j.pc = "open" /\ j.pc \in Preparing /\ ~j.opened /\ j.wtask = "none" /\ j.pending = <<>> /\ j.writing = <<>>
      /\ UNCHANGED <<store, orphans, requests, process, views>>
    BY AtFacts DEF RunInv, RunTypes, Open, NoCall, Preparing, Flow
<1>2. (\A q \in Runs : RowStays(q)) /\ RowMoves(r) /\ OthersStay(r)
    BY <1>1, UnchangedStays DEF OthersStay, RowMoves
<1>3. CASE To(r, "caught") /\ UNCHANGED output
    <2>1. At(r, j.pc)
        BY <1>1, <1>3 DEF At
    <2> QED
        BY <1>1, <1>2, <1>3, <2>1, ToGoes DEF Pcs, Preparing
<1>4. CASE /\ Becomes(r, [j EXCEPT !.pc = "stream", !.opened = TRUE])
           /\ output' = [output EXCEPT ![r] = 0]
    <2> DEFINE k == [j EXCEPT !.pc = "stream", !.opened = TRUE]
    <2>1. /\ k \in Job /\ k.pc = "stream" /\ k.opened /\ k.stop = j.stop /\ k.wtask = "none"
          /\ k.pending = <<>> /\ k.writing = <<>>
        BY <1>1, JobSet DEF Pcs
    <2> HIDE DEF k
    <2>2. /\ output'[r] = 0 /\ 0 \in 0..MaxChunks /\ \A q \in Runs : q # r => output'[q] = output[q]
          /\ MaxChunks \in Nat
        BY <1>4, BoundAssumption DEF Inv, Process
    <2>3. Before(k, 0) = 0 /\ Sent(k, 0) = 0
        <3>1. Len(k.pending) = 0 /\ Len(k.writing) = 0
            BY <2>1
        <3> QED
            BY <3>1 DEF Before, Sent
    <2>4. Flow(k, 0)
        BY <2>1, <2>3, NothingNumbered DEF Flow, Opened
    <2>5. Budget(k, 0) = MaxChunks /\ Budget(j, output[r]) = MaxChunks
        BY <1>1, <2>1, <2>2, <2>3 DEF Budget, Preparing
    <2>6. runs[r].last \in Nat /\ runs'[r].last = runs[r].last + 0 /\ runs'[r].status = runs[r].status /\ SameTombstone(r)
        BY <1>1, <1>2, RowFacts DEF RowStays
    <2>7. 0 + Budget(k, output'[r]) <= Budget(j, output[r])
        BY <2>2, <2>5
    <2>8. Becomes(r, k)
        BY <1>4 DEF k
    <2>9. k.pc \notin Preparing /\ k.pc # "none"
        BY <2>1 DEF Preparing
    <2> QED
        BY <1>1, <1>2, <2>1, <2>2, <2>4, <2>6, <2>7, <2>8, <2>9, FlowStep
<1> QED
    BY <1>3, <1>4 DEF Open

LEMMA TakeSteps ==
    ASSUME Inv, SP!Inv', NEW r \in Runs, NEW kind, TakeChunk(r, kind)
    PROVE  \A q \in Runs : RunInv(q)'
<1> DEFINE j   == job[r]
           out == output[r]
<1>1. /\ SP!Inv /\ j \in Job /\ out \in 0..MaxChunks /\ Flow(j, out) /\ j.opened
      /\ j.pc = "stream" /\ out < MaxChunks /\ MaxChunks \in Nat
      /\ UNCHANGED <<store, orphans, requests, process>>
    BY AtFacts, BoundAssumption DEF RunInv, RunTypes, TakeChunk, Reading, NoCall
<1>2. PICK fin \in BOOLEAN, err \in BOOLEAN :
         Becomes(r, [j EXCEPT !.pending = Append(j.pending, out + 1), !.fin = fin, !.err = err])
    BY <1>1, JobFields DEF TakeChunk
<1> DEFINE k == [j EXCEPT !.pending = Append(j.pending, out + 1), !.fin = fin, !.err = err]
<1>3. /\ j.pending \in Seq(1..MaxChunks) /\ Len(j.pending) \in Nat /\ Len(j.writing) \in Nat
      /\ out \in Int /\ out + 1 \in 1..MaxChunks /\ out + 1 \in 0..MaxChunks
    BY <1>1, JobFields DEF Numbers
<1>4. /\ Before(j, out) \in Int /\ Before(j, out) >= 0 /\ Numbered(j.writing, Before(j, out))
      /\ Numbered(j.pending, Before(j, out) + Len(j.writing))
      /\ out + 1 = Before(j, out) + Len(j.writing) + Len(j.pending) + 1
    <2>1. Before(j, out) \in Int /\ out + 1 = Before(j, out) + Len(j.writing) + Len(j.pending) + 1
        BY <1>3 DEF Before
    <2> QED
        BY <1>1, <2>1 DEF Flow
<1>5. /\ Append(j.pending, out + 1) \in Numbers /\ Len(Append(j.pending, out + 1)) = Len(j.pending) + 1
      /\ Numbered(Append(j.pending, out + 1), Before(j, out) + Len(j.writing))
    <2>1. PICK before \in Int : before = Before(j, out) + Len(j.writing)
        BY <1>3, <1>4
    <2>2. PICK e \in 1..MaxChunks : e = out + 1
        BY <1>3
    <2>3. Numbered(j.pending, before) /\ e = before + Len(j.pending) + 1
        BY <1>4, <2>1, <2>2
    <2>4. /\ Append(j.pending, e) \in Seq(1..MaxChunks) /\ Len(Append(j.pending, e)) = Len(j.pending) + 1
          /\ Numbered(Append(j.pending, e), before)
        BY <1>3, <2>3, NumberedAppend
    <2> QED
        BY <2>1, <2>2, <2>4 DEF Numbers
<1>6. /\ k \in Job /\ k.pc = j.pc /\ k.opened = j.opened /\ k.stop = j.stop /\ k.wtask = j.wtask
      /\ k.writing = j.writing /\ k.pending = Append(j.pending, out + 1)
    BY <1>1, <1>5, JobSet
<1>7. Becomes(r, k)
    BY <1>2
<1> HIDE DEF k
<1>8. Before(k, out + 1) = Before(j, out) /\ Sent(k, out + 1) = Sent(j, out) /\ Sent(j, out) \in Int
    <2>1. PICK o \in Int, a \in Int, p \in Int, b \in Int, w \in Int :
            /\ o = out /\ a = out + 1 /\ a = o + 1
            /\ p = Len(j.pending) /\ b = Len(k.pending) /\ b = p + 1
            /\ w = Len(j.writing) /\ w = Len(k.writing)
        BY <1>3, <1>5, <1>6
    <2>2. Before(k, a) = a - b - w /\ Before(j, o) = o - p - w
        BY <2>1 DEF Before
    <2>3. /\ Sent(k, a) = a - b - (IF j.wtask = "done" THEN 0 ELSE w)
          /\ Sent(j, o) = o - p - (IF j.wtask = "done" THEN 0 ELSE w)
        BY <1>6, <2>1 DEF Sent
    <2>4. PICK z \in Int : z = IF j.wtask = "done" THEN 0 ELSE w
        OBVIOUS
    <2>5. Sent(k, a) = a - b - z /\ Sent(j, o) = o - p - z
        BY <2>3, <2>4
    <2>8. a = o + 1 /\ b = p + 1
        BY <2>1
    <2>7. a - b - w = o - p - w /\ a - b - z = o - p - z /\ o - p - z \in Int
        BY <2>8
    <2>6. Before(k, a) = Before(j, o) /\ Sent(k, a) = Sent(j, o) /\ Sent(j, o) \in Int
        BY <2>2, <2>5, <2>7
    <2> QED
        BY <2>1, <2>6
<1>9. Flow(k, out + 1)
    BY <1>1, <1>4, <1>5, <1>6, <1>8 DEF Flow, Opened
<1>10. output'[r] = out + 1 /\ \A q \in Runs : q # r => output'[q] = output[q]
    BY DEF TakeChunk, Inv, Process
<1>11. Budget(k, out + 1) = Budget(j, out) /\ Budget(j, out) \in Int
    BY <1>1, <1>6, <1>8 DEF Budget, Preparing
<1>12. (\A q \in Runs : RowStays(q)) /\ OthersStay(r)
    BY <1>1, UnchangedStays DEF OthersStay
<1>13. runs[r].last \in Nat /\ runs'[r].last = runs[r].last + 0 /\ runs'[r].status = runs[r].status /\ SameTombstone(r)
    BY <1>1, <1>12, RowFacts DEF RowStays
<1>14. 0 + Budget(k, output'[r]) <= Budget(j, output[r])
    BY <1>10, <1>11
<1>15. k.pc \notin Preparing /\ k.pc # "none" /\ k.pc = "stream" /\ j.pc = "stream"
    BY <1>1, <1>6 DEF Preparing
<1> QED
    BY <1>1, <1>3, <1>6, <1>7, <1>9, <1>10, <1>12, <1>13, <1>14, <1>15, FlowStep

LEMMA WriteSteps ==
    ASSUME Inv, SP!Inv', NEW r \in Runs, StartWrite(r) \/ WriteLands(r)
    PROVE  \A q \in Runs : RunInv(q)'
<1> DEFINE j   == job[r]
           out == output[r]
<1>1. /\ SP!Inv /\ j \in Job /\ out \in 0..MaxChunks /\ Flow(j, out) /\ MaxChunks \in Nat /\ out \in Int
      /\ j.pending \in Numbers /\ j.writing \in Numbers /\ Len(j.pending) \in Nat /\ Len(j.writing) \in Nat
      /\ runs[r].last \in Nat
    BY AtFacts, JobFields, BoundAssumption, RowFacts DEF RunInv, RunTypes
<1>2. UNCHANGED <<output, orphans, requests, process>> /\ (\A q \in Runs : q # r => output'[q] = output[q])
      /\ output'[r] = out
    BY DEF StartWrite, WriteLands, At
<1>3. CASE StartWrite(r)
    <2> DEFINE k == [j EXCEPT !.writing = j.pending, !.pending = <<>>, !.wtask = "running"]
    <2>1. /\ k \in Job /\ k.pc = j.pc /\ k.opened = j.opened /\ k.stop = j.stop /\ k.wtask = "running"
          /\ k.writing = j.pending /\ k.pending = <<>>
        <3>1. <<>> \in Numbers /\ "running" \in WriteStates
            BY DEF Numbers, WriteStates
        <3> QED
            BY <1>1, <3>1, JobSet
    <2>2. Becomes(r, k) /\ UNCHANGED store /\ j.pc = "stream" /\ j.wtask = "none" /\ j.pending # <<>>
          /\ j.writing = <<>> /\ j.opened
        BY <1>1, <1>3, AtFacts DEF StartWrite, NoCall, At, Flow
    <2> HIDE DEF k
    <2>3. Len(j.writing) = 0 /\ Len(k.pending) = 0 /\ Len(k.writing) = Len(j.pending)
        BY <2>1, <2>2
    <2>4. Before(k, out) = Before(j, out) /\ Before(j, out) \in Int /\ Sent(k, out) = Sent(j, out) /\ Sent(j, out) \in Int
        BY <1>1, <2>1, <2>2, <2>3 DEF Before, Sent
    <2>5. Before(j, out) >= 0 /\ Numbered(j.pending, Before(j, out))
        BY <1>1, <2>2, <2>3, <2>4 DEF Flow
    <2>6. Flow(k, out)
        BY <2>1, <2>2, <2>4, <2>5, NothingNumbered DEF Flow, Opened
    <2>7. Budget(k, out) = Budget(j, out) /\ Budget(j, out) \in Int
        BY <1>1, <2>1, <2>2, <2>4 DEF Budget, Preparing
    <2>8. (\A q \in Runs : RowStays(q)) /\ OthersStay(r)
        BY <2>2, UnchangedStays DEF OthersStay
    <2>9. runs'[r].last = runs[r].last + 0 /\ runs'[r].status = runs[r].status /\ SameTombstone(r)
        BY <1>1, <2>8 DEF RowStays
    <2>10. 0 + Budget(k, output'[r]) <= Budget(j, output[r])
        BY <1>2, <2>7
    <2>11. k.pc \notin Preparing /\ k.pc # "none" /\ k.pc = "stream"
        BY <2>1, <2>2 DEF Preparing
    <2> QED
        BY <1>1, <1>2, <2>1, <2>2, <2>6, <2>8, <2>9, <2>10, <2>11, FlowStep
<1>4. CASE WriteLands(r)
    <2>1. j.wtask = "running" /\ j.pc \in {"stream", "drain", "caught"} /\ j.opened /\ j.pc \notin Preparing
        BY <1>1, <1>4 DEF WriteLands, Flow, Preparing
    <2>2. PICK wtask \in {"done", "failed"} :
            /\ Becomes(r, [j EXCEPT !.wtask = wtask])
            /\ \/ UNCHANGED store /\ (wtask = "done" => ~IsActive(r))
               \/ wtask = "done" /\ IsActive(r) /\ Store!AppendEvents(r, Chunks(j.writing))
        BY <1>4 DEF WriteLands, NoCall, Fault
    <2> DEFINE k == [j EXCEPT !.wtask = wtask]
               n == IF wtask = "done" /\ IsActive(r) THEN Len(j.writing) ELSE 0
    <2>3. /\ k \in Job /\ k.pc = j.pc /\ k.opened = j.opened /\ k.stop = j.stop /\ k.wtask = wtask
          /\ k.writing = j.writing /\ k.pending = j.pending
        BY <1>1, JobSet DEF WriteStates
    <2>4. Becomes(r, k)
        BY <2>2
    <2> HIDE DEF k
    <2>5. Before(k, out) = Before(j, out)
        BY <2>3 DEF Before
    <2>6. Flow(k, out)
        BY <1>1, <2>1, <2>3, <2>5 DEF Flow
    <2>7. OthersStay(r) /\ runs'[r].status = runs[r].status /\ SameTombstone(r) /\ runs'[r].last = runs[r].last + n
        <3>1. CASE UNCHANGED store /\ (wtask = "done" => ~IsActive(r))
            <4>1. RowStays(r) /\ OthersStay(r) /\ n = 0
                BY <3>1, UnchangedStays DEF OthersStay
            <4> QED
                BY <1>1, <4>1 DEF RowStays
        <3>2. CASE wtask = "done" /\ IsActive(r) /\ Store!AppendEvents(r, Chunks(j.writing))
            <4>1. Len(Chunks(j.writing)) = Len(j.writing)
                BY <1>1, BatchesOfJob DEF Inv
            <4> QED
                BY <1>1, <3>2, <4>1, AppendMoves
        <3> QED
            BY <2>2, <3>1, <3>2
    <2>8. n \in Nat
        BY <1>1
    <2>9. IsActive(r) => n + Budget(k, output'[r]) <= Budget(j, output[r])
        <3>1. k.pc \notin Preparing /\ k.opened
            BY <2>1, <2>3
        <3>2. Budget(k, out) = MaxChunks - Sent(k, out) /\ Budget(j, out) = MaxChunks - Sent(j, out)
            BY <2>1, <3>1 DEF Budget
        <3>3. Sent(j, out) = out - Len(j.pending) - Len(j.writing)
            BY <2>1 DEF Sent
        <3>4. CASE wtask = "done"
            <4>1. Sent(k, out) = out - Len(j.pending) - 0
                BY <2>3, <3>4 DEF Sent
            <4>2. IsActive(r) => n = Len(j.writing)
                BY <3>4
            <4> HIDE DEF n
            <4> QED
                BY <1>1, <1>2, <3>2, <3>3, <4>1, <4>2
        <3>5. CASE wtask = "failed"
            <4>1. Sent(k, out) = out - Len(j.pending) - Len(j.writing) /\ n = 0
                BY <2>3, <3>5 DEF Sent
            <4> HIDE DEF n
            <4> QED
                BY <1>1, <1>2, <3>2, <3>3, <4>1
        <3> QED
            BY <2>2, <3>4, <3>5
    <2>10. k.pc \notin Preparing /\ k.pc # "none" /\ j.pc # "none" /\ (k.pc = "stream" => j.pc = "stream")
        BY <2>1, <2>3
    <2> HIDE DEF n
    <2> QED
        BY <1>1, <1>2, <2>1, <2>3, <2>4, <2>6, <2>7, <2>8, <2>9, <2>10, FlowStep
<1> QED
    BY <1>3, <1>4

-----------------------------------------------------------------------------
(* Producers that end, and those that start.                                *)

LEMMA BudgetBounds ==
    ASSUME Inv, NEW r \in Runs
    PROVE  /\ Budget(job[r], output[r]) \in 0..MaxChunks
           /\ job[r].wtask = "none" => Len(job[r].pending) <= Budget(job[r], output[r])
           /\ job[r].pc = "none" => Budget(job[r], output[r]) = 0
<1> DEFINE j == job[r]
<1>1. /\ j \in Job /\ Flow(j, output[r]) /\ output[r] \in 0..MaxChunks /\ MaxChunks \in Nat
    BY AtFacts, BoundAssumption DEF RunInv, RunTypes
<1>2. PICK p \in Nat, w \in Nat, o \in 0..MaxChunks :
         p = Len(j.pending) /\ w = Len(j.writing) /\ o = output[r]
    BY <1>1, JobFields
<1>3. CASE j.opened
    <2>1. Before(j, o) = o - p - w /\ Before(j, o) >= 0 /\ j.pc \notin Preparing /\ j.pc # "none"
        BY <1>1, <1>2, <1>3 DEF Flow, Before, Opened, Preparing
    <2>2. PICK z \in {0, w} : Sent(j, o) = o - p - z
        BY <1>2 DEF Sent
    <2>3. Sent(j, o) \in 0..MaxChunks /\ p <= MaxChunks - Sent(j, o)
        BY <1>1, <2>1, <2>2
    <2>4. Budget(j, o) = MaxChunks - Sent(j, o)
        BY <1>3, <2>1 DEF Budget
    <2> QED
        BY <1>1, <1>2, <2>1, <2>3, <2>4
<1>4. CASE ~j.opened
    <2>1. p = 0
        BY <1>1, <1>2, <1>4 DEF Flow
    <2>2. Budget(j, o) \in {0, MaxChunks} /\ (j.pc = "none" => Budget(j, o) = 0)
        BY <1>4 DEF Budget, Preparing
    <2> QED
        BY <1>1, <1>2, <2>1, <2>2
<1> QED
    BY <1>3, <1>4

LEMMA SamePredicates ==
    ASSUME UNCHANGED store, NEW r \in Runs
    PROVE  /\ Known(r)' <=> Known(r)
           /\ Over(r)' <=> Over(r)
           /\ IsActive(r)' <=> IsActive(r)
           /\ Chunked(r)' = Chunked(r)
           /\ runs'[r] = runs[r]
BY DEF store, Known, Over, Row, Store!Row, IsTerminal, Store!IsTerminal, IsActive, Store!IsActive, Chunked

LEMMA UnwindSteps ==
    ASSUME Inv, SP!Inv', NEW r \in Runs, Unwind(r)
    PROVE  \A q \in Runs : RunInv(q)'
<1>1. /\ job[r].pc = "unwind" /\ Becomes(r, NoJob) /\ UNCHANGED <<output, orphans, requests, process, store>>
    BY DEF Unwind, At, NoCall
<1>2. job'[r] = NoJob /\ \A q \in Runs : q # r => job'[q] = job[q]
    BY <1>1, OnlyJob
<1>3. Elsewhere(r) /\ UNCHANGED <<stopping, up>>
    BY <1>1, <1>2, UnchangedStays DEF Elsewhere, requests, process
<1>4. NoJob \in Job /\ Flow(NoJob, output[r]) /\ NoJob.pc = "none" /\ ~NoJob.opened /\ NoJob.wtask = "none"
      /\ Budget(NoJob, output[r]) = 0
    BY NoJobFacts DEF NoJob, Budget, Preparing
<1> HIDE DEF NoJob
<1>5. RunTypes(r)' /\ Flow(job[r], output[r])' /\ Unwritten(r)' /\ ToldOf(r)'
    BY <1>1, <1>2, <1>4, SamePredicates DEF Inv, RunInv, RunTypes, Unwritten, ToldOf
<1>6. Registry(r)'
    BY <1>1, <1>2, <1>4, SamePredicates DEF Inv, RunInv, Registry, requests, process
<1>7. LogFits(r)'
    <2>1. Budget(job[r], output[r])' = 0 /\ AskedFor(r)' = AskedFor(r) /\ AskedFor(r) \in {0, MaxChunks}
          /\ MaxChunks \in Nat
        BY <1>1, <1>2, <1>4, BoundAssumption DEF AskedFor, requests
    <2>2. Budget(job[r], output[r]) \in 0..MaxChunks
        BY BudgetBounds
    <2> QED
        BY <2>1, <2>2, <1>1, SamePredicates DEF Inv, RunInv, LogFits
<1>8. LeftToItself(r)'
    BY <1>1, <1>2, <1>4, SamePredicates DEF Inv, RunInv, LeftToItself, process
<1>9. RunInv(r)'
    BY <1>5, <1>6, <1>7, <1>8 DEF RunInv
<1> QED
    BY <1>3, <1>9, ElsewhereKeeps

LEMMA StartSteps ==
    ASSUME Inv, SP!Inv', NEW r \in Runs, Start(r)
    PROVE  \A q \in Runs : RunInv(q)'
<1>1. /\ starting = r /\ starting' = None /\ None \notin Runs
      /\ UNCHANGED <<store, output, orphans, signals, forced, process, faults, views>>
      /\ up /\ Known(r) /\ SP!Inv /\ RunInv(r) /\ MaxChunks \in Nat
    BY StoreAssumption, BoundAssumption DEF Start, Inv, RunInv, Registry, Process
<1>2. AskedFor(r) = MaxChunks /\ AskedFor(r)' = 0
    BY <1>1 DEF AskedFor
<1>3. CASE UNCHANGED job
    <2>1. Elsewhere(r) /\ UNCHANGED <<stopping, up>>
        BY <1>1, <1>3, UnchangedStays DEF Elsewhere, process
    <2>2. RunTypes(r)' /\ Flow(job[r], output[r])' /\ Unwritten(r)' /\ ToldOf(r)' /\ LeftToItself(r)'
        BY <1>1, <1>3, SamePredicates DEF RunInv, RunTypes, Unwritten, ToldOf, LeftToItself, process
    <2>3. Registry(r)'
        BY <1>1, <1>3, SamePredicates DEF RunInv, Registry, process
    <2>4. LogFits(r)'
        <3>1. Budget(job[r], output[r])' = Budget(job[r], output[r]) /\ Budget(job[r], output[r]) \in 0..MaxChunks
            BY <1>1, <1>3, BudgetBounds
        <3> QED
            BY <1>1, <1>2, <3>1, SamePredicates DEF RunInv, LogFits
    <2>5. RunInv(r)'
        BY <2>2, <2>3, <2>4 DEF RunInv
    <2> QED
        BY <2>1, <2>5, ElsewhereKeeps
<1>4. CASE ~stopping /\ job[r].pc = "none" /\ Becomes(r, [NoJob EXCEPT !.pc = "token"])
    <2> DEFINE k == [NoJob EXCEPT !.pc = "token"]
    <2>1. job'[r] = k /\ \A q \in Runs : q # r => job'[q] = job[q]
        BY <1>4, OnlyJob
    <2>2. Elsewhere(r) /\ UNCHANGED <<stopping, up>>
        BY <1>1, <2>1, UnchangedStays DEF Elsewhere, process
    <2>3. /\ k \in Job /\ k.pc = "token" /\ ~k.opened /\ k.wtask = "none" /\ Flow(k, output[r])
          /\ Budget(k, output[r]) = MaxChunks
        <3>1. "token" \in Pcs
            BY DEF Pcs
        <3>2. k \in Job
            BY <3>1, NoJobFacts, JobSet
        <3>3. k.pc = "token" /\ ~k.opened /\ k.wtask = "none" /\ k.pending = <<>> /\ k.writing = <<>>
            BY DEF NoJob
        <3> HIDE DEF k
        <3> QED
            BY <3>2, <3>3 DEF Flow, Budget, Preparing
    <2> HIDE DEF k
    <2>4. RunTypes(r)' /\ Flow(job[r], output[r])' /\ Unwritten(r)' /\ ToldOf(r)'
        BY <1>1, <2>1, <2>3, SamePredicates DEF RunInv, RunTypes, Unwritten, ToldOf
    <2>5. Registry(r)'
        BY <1>1, <1>4, <2>1, <2>3, SamePredicates DEF RunInv, Registry, process
    <2>6. LeftToItself(r)'
        BY <1>1, <1>4, SamePredicates DEF RunInv, LeftToItself
    <2>7. LogFits(r)'
        <3>1. Budget(job[r], output[r])' = MaxChunks /\ Budget(job[r], output[r]) = 0
            BY <1>1, <1>4, <2>1, <2>3, BudgetBounds
        <3> QED
            BY <1>1, <1>2, <3>1, SamePredicates DEF RunInv, LogFits
    <2>8. RunInv(r)'
        BY <2>4, <2>5, <2>6, <2>7 DEF RunInv
    <2> QED
        BY <2>2, <2>8, ElsewhereKeeps
<1> QED
    BY <1>3, <1>4 DEF Start, Registered

LEMMA CreateSteps ==
    ASSUME Inv, SP!Inv', NEW r \in Runs, Create(r)
    PROVE  \A q \in Runs : RunInv(q)'
<1>1. /\ up /\ starting = None /\ starting' = r /\ None \notin Runs
      /\ UNCHANGED <<job, output, orphans, signals, forced, process, faults, views>>
      /\ SP!Inv /\ RunInv(r) /\ MaxChunks \in Nat
    BY StoreAssumption, BoundAssumption DEF Create, Inv
<1>2. AskedFor(r)' = MaxChunks
    BY <1>1 DEF AskedFor
<1>3. Budget(job[r], output[r])' = Budget(job[r], output[r]) /\ Budget(job[r], output[r]) \in 0..MaxChunks
    BY <1>1, BudgetBounds
<1>4. CASE Store!CreateRun(r)
    <2>1. ~Known(r) /\ runs'[r].status = "queued" /\ runs'[r].last = 1 /\ OthersStay(r)
        BY <1>1, <1>4, CreateMoves DEF RowAppears
    <2>2. Elsewhere(r) /\ UNCHANGED <<stopping, up>>
        BY <1>1, <2>1 DEF Elsewhere, OthersStay, process
    <2>3. job[r].pc = "none" /\ r \notin forced /\ orphans[r] = {} /\ ~job[r].opened
        BY <1>1, <2>1 DEF RunInv, Registry, Flow, Opened
    <2>4. RunTypes(r)' /\ Flow(job[r], output[r])' /\ Unwritten(r)' /\ ToldOf(r)' /\ LeftToItself(r)'
        BY <1>1, <2>1, <2>3 DEF RunInv, RunTypes, Unwritten, ToldOf, LeftToItself
    <2>5. Registry(r)'
        BY <1>1, <2>1, <2>3 DEF RunInv, Registry, process, Known, Row, Store!Row
    <2>6. LogFits(r)'
        BY <1>1, <1>2, <1>3, <2>1, <2>3, BudgetBounds DEF LogFits, Chunked, Base
    <2>7. RunInv(r)'
        BY <2>4, <2>5, <2>6 DEF RunInv
    <2> QED
        BY <2>2, <2>7, ElsewhereKeeps
<1>5. CASE runs[r].status = "queued" /\ UNCHANGED store
    <2>1. Elsewhere(r) /\ UNCHANGED <<stopping, up>>
        BY <1>1, <1>5, UnchangedStays DEF Elsewhere, process
    <2>2. RunTypes(r)' /\ Flow(job[r], output[r])' /\ Unwritten(r)' /\ ToldOf(r)' /\ LeftToItself(r)'
        BY <1>1, <1>5, SamePredicates DEF RunInv, RunTypes, Unwritten, ToldOf, LeftToItself, process
    <2>3. Registry(r)'
        BY <1>1, <1>5, SamePredicates, RowFacts DEF RunInv, Registry, process, Known
    <2>4. LogFits(r)'
        <3>1. runs'[r].status = "queued" /\ runs'[r].last = 1
            BY <1>1, <1>5, SamePredicates DEF RunInv, Unwritten
        <3> QED
            BY <1>1, <1>2, <1>3, <3>1 DEF LogFits, Chunked, Base
    <2>5. RunInv(r)'
        BY <2>2, <2>3, <2>4 DEF RunInv
    <2> QED
        BY <2>1, <2>5, ElsewhereKeeps
<1> QED
    BY <1>4, <1>5 DEF Create

-----------------------------------------------------------------------------
(* A task that is cancelled, and the steps of the process.                  *)

LEMMA InterruptedEdits ==
    ASSUME NEW j \in Job
    PROVE  /\ Interrupted(j) \in Job /\ Keeps(Interrupted(j), j) /\ Interrupted(j).stop = j.stop
           /\ Interrupted(j).pc = CASE j.pc \in {"drain", "caught"} -> j.pc
                                    [] j.pc \in {"token", "settle", "unwind"} -> "unwind"
                                    [] OTHER -> "caught"
<1>1. "unwind" \in Pcs /\ "caught" \in Pcs /\ TRUE \in BOOLEAN
    BY DEF Pcs
<1>2. CASE j.pc \in {"drain", "caught"}
    BY <1>2, EditHeld DEF Interrupted, Edited
<1>3. CASE j.pc \in {"token", "settle", "unwind"}
    <2>1. Interrupted(j) = [j EXCEPT !.pc = "unwind"]
        BY <1>3 DEF Interrupted
    <2> QED
        BY <1>1, <1>3, <2>1, EditPc DEF Edited
<1>4. CASE j.pc \notin {"drain", "caught", "token", "settle", "unwind"}
    <2>1. Interrupted(j) = [j EXCEPT !.pc = "caught"]
        BY <1>4 DEF Interrupted
    <2> QED
        BY <1>1, <1>4, <2>1, EditPc DEF Edited
<1> QED
    BY <1>2, <1>3, <1>4

(* The call a cancelled task leaves to itself.                              *)
LEMMA LeftFacts ==
    ASSUME Inv, NEW r \in Runs, NEW o \in Left(r)
    PROVE  /\ o \in Call
           /\ o.call = "finish" =>
                /\ \E before \in 0..MaxChunks : Numbered(o.numbers, before)
                /\ o.status \in Store!TERMINAL_STATUSES
                /\ job[r].wtask = "none"
                /\ IsActive(r) => Chunked(r) + Len(o.numbers) <= 2 * MaxChunks
<1> DEFINE j == job[r]
<1>1. /\ j \in Job /\ Flow(j, output[r]) /\ output[r] \in 0..MaxChunks /\ MaxChunks \in Nat /\ LogFits(r)
      /\ j.pending \in Seq(1..MaxChunks) /\ j.writing \in Numbers /\ j.plan \in Store!TERMINAL_STATUSES
      /\ <<>> \in Seq(1..MaxChunks)
    BY AtFacts, JobFields, BoundAssumption DEF RunInv, RunTypes, Numbers, Plans
<1>2. CASE j.pc = "mark"
    <2>1. o = [call |-> "mark", status |-> "running", numbers |-> <<>>]
        BY <1>2 DEF Left
    <2> QED
        BY <1>1, <2>1 DEF Call
<1>3. CASE j.pc \in {"finish", "settle"}
    <2>1. o = [call |-> "finish", status |-> j.plan, numbers |-> j.pending]
        BY <1>3 DEF Left
    <2>2. o \in Call
        BY <1>1, <2>1 DEF Call
    <2>3. j.wtask = "none"
        BY <1>3, AtFacts
    <2>4. \E before \in 0..MaxChunks : Numbered(j.pending, before)
        <3>1. CASE ~j.opened
            BY <1>1, <3>1, NothingNumbered DEF Flow
        <3>2. CASE j.opened
            <4>1. j.writing = <<>> /\ Len(j.writing) = 0
                BY <1>1, <2>3 DEF Flow
            <4>2. PICK p \in Nat, out \in 0..MaxChunks : p = Len(j.pending) /\ out = output[r]
                BY <1>1, JobFields
            <4>3. Before(j, output[r]) = out - p
                BY <4>1, <4>2 DEF Before
            <4>4. Before(j, output[r]) >= 0 /\ Numbered(j.pending, Before(j, output[r]) + 0)
                BY <1>1, <3>2, <4>1 DEF Flow
            <4>5. Before(j, output[r]) \in 0..MaxChunks /\ Before(j, output[r]) + 0 = Before(j, output[r])
                BY <1>1, <4>2, <4>3, <4>4
            <4> QED
                BY <4>4, <4>5
        <3> QED
            BY <3>1, <3>2
    <2>5. IsActive(r) => Chunked(r) + Len(j.pending) <= 2 * MaxChunks
        <3>1. Len(j.pending) <= Budget(j, output[r]) /\ Budget(j, output[r]) \in 0..MaxChunks /\ Len(j.pending) \in Nat
            BY <1>1, <2>3, BudgetBounds, JobFields
        <3>2. AskedFor(r) \in {0, MaxChunks}
            BY DEF AskedFor
        <3> QED
            BY <1>1, <3>1, <3>2 DEF LogFits
    <2> QED
        BY <1>1, <2>1, <2>2, <2>3, <2>4, <2>5
<1>4. j.pc = "mark" \/ j.pc \in {"finish", "settle"}
    BY DEF Left
<1> QED
    BY <1>2, <1>3, <1>4

LEMMA ForceSteps ==
    ASSUME Inv, SP!Inv', NEW r \in Runs, ForceCancel(r)
    PROVE  \A q \in Runs : RunInv(q)'
<1>1. /\ r \in forced /\ forced' = forced \ {r} /\ UNCHANGED <<store, output, starting, signals, process, faults, views>>
      /\ SP!Inv /\ RunInv(r) /\ MaxChunks \in Nat /\ Known(r) /\ (stopping \/ Over(r)) /\ up /\ job[r] \in Job
      /\ forced \subseteq Runs
    BY AtFacts, BoundAssumption DEF ForceCancel, RunInv, Registry, Inv, Process
<1>2. CASE job[r].pc = "none" /\ UNCHANGED <<job, orphans>>
    <2>1. Elsewhere(r) /\ UNCHANGED <<stopping, up>>
        BY <1>1, <1>2, UnchangedStays DEF Elsewhere, process
    <2>2. RunTypes(r)' /\ Flow(job[r], output[r])' /\ Unwritten(r)' /\ ToldOf(r)' /\ LeftToItself(r)' /\ LogFits(r)'
        BY <1>1, <1>2, SamePredicates DEF RunInv, RunTypes, Unwritten, ToldOf, LeftToItself, process, LogFits, AskedFor
    <2>3. Registry(r)'
        BY <1>1, <1>2, SamePredicates DEF RunInv, Registry, process
    <2>4. RunInv(r)'
        BY <2>2, <2>3 DEF RunInv
    <2> QED
        BY <2>1, <2>4, ElsewhereKeeps
<1>3. CASE job[r].pc # "none" /\ Becomes(r, Interrupted(job[r])) /\ orphans' = [orphans EXCEPT ![r] = @ \cup Left(r)]
    <2> DEFINE j == job[r]
               k == Interrupted(j)
    <2>1. job'[r] = k /\ \A q \in Runs : q # r => job'[q] = job[q]
        BY <1>3, OnlyJob
    <2>2. orphans'[r] = orphans[r] \cup Left(r) /\ \A q \in Runs : q # r => orphans'[q] = orphans[q]
        BY <1>3 DEF Inv, Process
    <2>3. Elsewhere(r) /\ UNCHANGED <<stopping, up>>
        BY <1>1, <2>1, <2>2, UnchangedStays DEF Elsewhere, process
    <2>4. /\ k \in Job /\ Keeps(k, j) /\ k.stop = j.stop
          /\ k.pc \in {"drain", "caught", "unwind"} /\ (k.pc = "drain" => j.pc = "drain")
          /\ j.pc \in {"caught", "settle", "unwind", "finish"} => k.pc \in {"caught", "unwind"}
          /\ j.pc \in {"stream", "drain", "caught"} => k.pc \in {"drain", "caught"}
        BY <1>1, <1>3, InterruptedEdits
    <2> HIDE DEF k
    <2>5. Flow(j, output[r]) /\ j.opened \in BOOLEAN
        BY <1>1, JobFields DEF RunInv
    <2>6. Flow(k, output[r]) /\ Sent(k, output[r]) = Sent(j, output[r])
        <3>1. j.wtask = "none" \/ k.pc \in {"stream", "drain", "caught"}
            BY <2>4, <2>5 DEF Flow
        <3>2. IF j.opened THEN k.pc \in Opened ELSE k.pc \notin {"stream", "drain", "status"}
            BY <2>4, <2>5 DEF Flow, Opened
        <3> QED
            BY <2>4, <2>5, <3>1, <3>2, KeptFlow
    <2>7. RunTypes(r)'
        BY <1>1, <2>1, <2>2, <2>4, LeftFacts DEF RunInv, RunTypes
    <2>8. Unwritten(r)' /\ ToldOf(r)'
        BY <1>1, <2>1, <2>4, SamePredicates DEF RunInv, Unwritten, ToldOf, Keeps
    <2>9. Registry(r)'
        BY <1>1, <1>3, <2>1, <2>4, SamePredicates DEF RunInv, Registry, process
    <2>10. LogFits(r)'
        <3>1. Budget(k, output[r]) <= Budget(j, output[r]) /\ Budget(k, output[r]) \in Int
            <4>1. k.pc \notin Preparing /\ k.opened = j.opened
                BY <2>4 DEF Preparing, Keeps
            <4>2. CASE j.opened
                <5>1. j.pc \notin Preparing
                    BY <2>5, <4>2 DEF Flow, Opened, Preparing
                <5>2. Budget(k, output[r]) = Budget(j, output[r])
                    BY <2>6, <4>1, <4>2, <5>1 DEF Budget
                <5> QED
                    BY <1>1, <5>2, BudgetBounds
            <4>3. CASE ~j.opened
                <5>1. Budget(k, output[r]) = 0
                    BY <4>1, <4>3 DEF Budget
                <5> QED
                    BY <1>1, <5>1, BudgetBounds
            <4> QED
                BY <2>5, <4>2, <4>3
        <3>2. Budget(job[r], output[r])' = Budget(k, output[r]) /\ AskedFor(r)' = AskedFor(r) /\ AskedFor(r) \in {0, MaxChunks}
            BY <1>1, <2>1 DEF AskedFor
        <3>3. Budget(j, output[r]) \in 0..MaxChunks
            BY BudgetBounds
        <3> QED
            BY <1>1, <3>1, <3>2, <3>3, SamePredicates DEF RunInv, LogFits
    <2>11. LeftToItself(r)'
        <3>1. SUFFICES ASSUME NEW o \in orphans'[r], o.call = "finish"
                       PROVE  /\ \E before \in 0..MaxChunks : Numbered(o.numbers, before)
                              /\ o.status \in Store!TERMINAL_STATUSES
                              /\ IsActive(r) =>
                                    /\ stopping
                                    /\ k.pc \in {"none", "caught", "settle", "unwind"} /\ k.wtask = "none"
                                    /\ Chunked(r) + Len(o.numbers) <= 2 * MaxChunks
            BY <1>1, <2>1, SamePredicates DEF LeftToItself, process
        <3>2. CASE o \in orphans[r]
            BY <1>1, <2>4, <3>1, <3>2 DEF RunInv, LeftToItself, Keeps
        <3>3. CASE o \in Left(r)
            <4>1. j.pc \in {"finish", "settle"}
                BY <3>1, <3>3 DEF Left
            <4>2. IsActive(r) => stopping
                BY <1>1, RowFacts DEF Over
            <4> QED
                BY <2>4, <3>1, <3>3, <4>1, <4>2, LeftFacts DEF Keeps
        <3> QED
            BY <2>2, <3>2, <3>3
    <2>12. RunInv(r)'
        BY <1>1, <2>1, <2>6, <2>7, <2>8, <2>9, <2>10, <2>11 DEF RunInv
    <2> QED
        BY <2>3, <2>12, ElsewhereKeeps
<1> QED
    BY <1>2, <1>3 DEF ForceCancel

LEMMA DeleteSteps ==
    ASSUME Inv, SP!Inv', NEW T \in SUBSET Threads, DeleteChats(T), NEW q \in Runs
    PROVE  RunInv(q)'
<1>1. /\ SP!Inv /\ RunInv(q) /\ (job[q].pc # "none" => up)
      /\ UNCHANGED <<job, output, orphans, starting, forced, process>>
      /\ signals' = signals \cup ActiveIn(T)
    BY DEF Inv, RunInv, Registry, Process, DeleteChats
<1> DEFINE gone == {r \in Runs : ThreadOf[r] \in T}
<1>2. Store!Drop(gone)
    BY DEF DeleteChats, Store!DeleteThreads
<1>3. IF q \in gone THEN RowGoes(q) ELSE RowStays(q)
    <2>1. gone \in SUBSET Runs
        OBVIOUS
    <2> HIDE DEF gone
    <2> QED
        BY <1>1, <1>2, <2>1, DropMoves
<1>4. RowMoves(q) /\ JobMoves(q) /\ Around(q)
    BY <1>1, <1>3 DEF RowMoves, JobMoves, Around, process
<1>5. ToldOf(q)'
    <2>1. CASE q \in gone
        <3>1. runs[q].status = "running" => q \in signals'
            BY <1>1, <2>1, RowFacts DEF ActiveIn
        <3> QED
            BY <1>1, <3>1 DEF RunInv, ToldOf
    <2>2. CASE q \notin gone
        BY <1>1, <1>3, <2>2 DEF RunInv, ToldOf, RowStays
    <2> QED
        BY <2>1, <2>2
<1> QED
    BY <1>1, <1>4, <1>5, Moves

LEMMA SweepSteps ==
    ASSUME Inv, SP!Inv', Sweep, NEW q \in Runs
    PROVE  RunInv(q)'
<1>1. /\ SP!Inv /\ RunInv(q) /\ (job[q].pc # "none" => up)
      /\ UNCHANGED <<job, output, orphans, starting, process>> /\ up
    BY DEF Inv, RunInv, Registry, Process, Sweep
<1>2. CASE UNCHANGED <<store, signals, forced>>
    <2>1. RowStays(q)
        BY <1>2, UnchangedStays
    <2> QED
        BY <1>1, <1>2, <2>1, Moves DEF RowMoves, JobMoves, Around, process, RunInv, ToldOf, RowStays
<1>3. CASE /\ Store!ReconcileRuns(Stale)
           /\ signals' = IF stopping THEN signals ELSE signals \cup Stale
           /\ forced' = IF stopping THEN forced ELSE forced \cup Stale
    <2>1. Stale \in SUBSET Runs
        BY DEF Stale
    <2>2. IF q \in Stale THEN RowEnds(q) ELSE RowStays(q)
        BY <1>1, <1>3, <2>1, ReconcileMoves
    <2>3. RowMoves(q) /\ JobMoves(q)
        BY <1>1, <2>2 DEF RowMoves, JobMoves
    <2>4. Around(q)
        BY <1>1, <1>3, <2>2 DEF Around, process, RowEnds, Over
    <2>5. ToldOf(q)'
        BY <1>1, <1>3, <2>2 DEF RunInv, ToldOf, RowStays, Registry
    <2> QED
        BY <1>1, <2>3, <2>4, <2>5, Moves
<1> QED
    BY <1>2, <1>3 DEF Sweep, Fault

(* What is left when every task is only told something.                     *)
LEMMA StopSteps ==
    ASSUME Inv, Stop, NEW q \in Runs
    PROVE  RunInv(q)'
<1>1. /\ UNCHANGED <<store, output, orphans, starting, signals, up>> /\ ~stopping /\ up /\ stopping' = TRUE
      /\ forced' = Live /\ RunInv(q) /\ job[q] \in Job
    BY AtFacts DEF Stop, Inv, RunInv
<1> DEFINE j == job[q]
           k == job'[q]
<1>2. k = IF j.pc # "none" THEN [Told(q) EXCEPT !.shut = TRUE] ELSE j
    BY DEF Stop, Live
<1>3. k \in Job /\ Keeps(k, j) /\ k.pc = j.pc /\ (j.pc # "none" => k.stop)
    <2>1. CASE j.pc = "none"
        BY <1>1, <1>2, <2>1 DEF Keeps
    <2>2. CASE j.pc # "none"
        <3>1. Told(q) = [j EXCEPT !.stop = TRUE]
            BY <2>2 DEF Told
        <3>2. Edited(Told(q), j, j.pc, TRUE)
            BY <1>1, <3>1, EditStop
        <3>3. Edited(k, Told(q), Told(q).pc, Told(q).stop)
            BY <1>2, <2>2, <3>2, EditShut DEF Edited
        <3> QED
            BY <3>2, <3>3 DEF Edited, Keeps
    <2> QED
        BY <2>1, <2>2
<1> HIDE DEF k
<1>4. Flow(k, output[q]) /\ Sent(k, output[q]) = Sent(j, output[q])
    <2>1. Flow(j, output[q]) /\ j.opened \in BOOLEAN
        BY <1>1, JobFields DEF RunInv
    <2>2. /\ j.wtask = "none" \/ k.pc \in {"stream", "drain", "caught"}
          /\ IF j.opened THEN k.pc \in Opened ELSE k.pc \notin {"stream", "drain", "status"}
        BY <1>3, <2>1 DEF Flow
    <2> QED
        BY <1>3, <2>1, <2>2, KeptFlow
<1>5. Budget(k, output[q]) = Budget(j, output[q])
    BY <1>3, <1>4 DEF Budget, Keeps
<1>6. job'[q] = k
    BY DEF k
<1>7. RunTypes(q)' /\ Unwritten(q)' /\ ToldOf(q)'
    BY <1>1, <1>3, <1>6, SamePredicates DEF RunInv, RunTypes, Unwritten, ToldOf, Keeps
<1>8. Registry(q)'
    BY <1>1, <1>3, <1>6, SamePredicates DEF RunInv, Registry, Live
<1>9. LogFits(q)'
    BY <1>1, <1>5, <1>6, SamePredicates DEF RunInv, LogFits, AskedFor
<1>10. LeftToItself(q)'
    BY <1>1, <1>3, <1>6, SamePredicates DEF RunInv, LeftToItself
<1> QED
    BY <1>1, <1>4, <1>6, <1>7, <1>8, <1>9, <1>10 DEF RunInv

LEMMA NoJobInv ==
    ASSUME Inv, NEW q \in Runs,
           job'[q] = NoJob \/ (job[q].pc = "none" /\ job'[q] = job[q]),
           orphans'[q] = {}, starting' # q, q \notin forced', stopping' = FALSE,
           output'[q] = output[q], runs'[q] = runs[q] \/ (SP!Inv' /\ RowEnds(q))
    PROVE  RunInv(q)'
<1> DEFINE j == job[q]
           k == job'[q]
<1>1. SP!Inv /\ RunInv(q) /\ j \in Job /\ MaxChunks \in Nat /\ output[q] \in 0..MaxChunks
    BY AtFacts, BoundAssumption DEF Inv, RunInv, RunTypes
<1>2. k \in Job /\ Flow(k, output[q]) /\ k.pc = "none" /\ ~k.opened /\ k.wtask = "none"
    <2>1. CASE k = NoJob
        BY <2>1, NoJobFacts DEF NoJob
    <2>2. CASE j.pc = "none" /\ k = j
        BY <1>1, <2>2, AtFacts DEF RunInv, Flow, Opened
    <2> QED
        BY <2>1, <2>2
<1> HIDE DEF k
<1>3. job'[q] = k
    BY DEF k
<1>4. RunTypes(q)' /\ ToldOf(q)' /\ Registry(q)' /\ LeftToItself(q)'
    BY <1>1, <1>2, <1>3 DEF RunTypes, ToldOf, Registry, LeftToItself
<1>5. Unwritten(q)'
    BY <1>1, <1>2, <1>3 DEF RunInv, Unwritten, RowEnds, IsTerminal, Store!IsTerminal, Store!TERMINAL_STATUSES
<1>6. LogFits(q)'
    <2>1. Budget(k, output[q]) = 0 /\ AskedFor(q)' = 0
        BY <1>2 DEF Budget, Preparing, AskedFor
    <2>2. IsActive(q)' => IsActive(q) /\ runs'[q] = runs[q]
        BY <1>1 DEF RowEnds, IsActive, Store!IsActive, IsTerminal, Store!IsTerminal, Store!TERMINAL_STATUSES, Store!ACTIVE_STATUSES
    <2>3. Budget(j, output[q]) \in 0..MaxChunks /\ AskedFor(q) \in {0, MaxChunks}
        BY BudgetBounds DEF AskedFor
    <2>4. SUFFICES ASSUME IsActive(q)'
                   PROVE  Chunked(q)' \in Nat /\ Chunked(q)' + 0 + 0 <= 2 * MaxChunks
        BY <1>3, <2>1 DEF LogFits
    <2>5. Chunked(q)' = Chunked(q) /\ Chunked(q) \in Nat
          /\ Chunked(q) + Budget(j, output[q]) + AskedFor(q) <= 2 * MaxChunks
        BY <1>1, <2>2, <2>4 DEF Chunked, RunInv, LogFits
    <2> QED
        BY <1>1, <2>3, <2>5
<1> QED
    BY <1>2, <1>3, <1>4, <1>5, <1>6 DEF RunInv

LEMMA ProcessSteps ==
    ASSUME Inv, SP!Inv', Exit \/ Boot, NEW q \in Runs
    PROVE  RunInv(q)'
<1>1. SP!Inv /\ RunInv(q) /\ None \notin Runs
    BY StoreAssumption DEF Inv
<1>2. CASE Exit
    BY <1>1, <1>2, NoJobInv DEF Exit, store
<1>3. CASE Boot
    <2>1. job[q].pc = "none" /\ orphans[q] = {} /\ starting # q /\ q \notin forced /\ ~stopping
        BY <1>1, <1>3 DEF Boot, RunInv, Registry
    <2>2. UNCHANGED <<job, output, orphans, requests, stopping>>
        BY <1>3 DEF Boot
    <2> DEFINE left == {r \in Runs : IsActive(r)}
    <2>3. UNCHANGED store \/ Store!ReconcileRuns(left)
        BY <1>3 DEF Boot, Fault
    <2>4. runs'[q] = runs[q] \/ RowEnds(q)
        <3>1. CASE Store!ReconcileRuns(left)
            <4>1. left \in SUBSET Runs
                OBVIOUS
            <4>2. IF q \in left THEN RowEnds(q) ELSE runs'[q] = runs[q]
                <5>1. q \notin left => runs'[q] = runs[q]
                    BY <3>1 DEF Store!ReconcileRuns, Store!Settle
                <5> HIDE DEF left
                <5> QED
                    BY <1>1, <3>1, <4>1, <5>1, ReconcileMoves
            <4> QED
                BY <4>2
        <3> QED
            BY <2>3, <3>1 DEF store
    <2>5. stopping' = FALSE /\ starting' # q /\ q \notin forced' /\ orphans'[q] = {}
        BY <2>1, <2>2 DEF requests, Inv, Process
    <2> QED
        BY <2>1, <2>2, <2>4, <2>5, NoJobInv
<1> QED
    BY <1>2, <1>3

LEMMA StreamSteps ==
    ASSUME Inv, UNCHANGED <<store, job, output, orphans, requests, process>>, NEW q \in Runs
    PROVE  RunInv(q)'
BY SamePredicates DEF Inv, RunInv, RunTypes, Registry, Unwritten, LogFits, AskedFor, LeftToItself, ToldOf,
   requests, process

(* Every step keeps the invariant of every run.                             *)
LEMMA RunsStep ==
    ASSUME Inv, SP!Inv', [Next]_vars
    PROVE  \A q \in Runs : RunInv(q)'
<1>1. ASSUME NEW r \in Runs, Produce(r)
      PROVE  \A q \in Runs : RunInv(q)'
    <2>1. CASE Begin(r)
        BY <2>1, BeginSteps
    <2>2. CASE Engine(r)
        BY <2>2, OpenSteps, EndSteps, TakeSteps DEF Engine
    <2>3. CASE Renew(r)
        BY <2>3, AsideSteps
    <2>4. CASE Write(r)
        BY <2>4, WriteSteps, DrainSteps DEF Write
    <2>5. CASE End(r)
        BY <2>5, DrainSteps, EndSteps DEF End
    <2>6. CASE Unwind(r)
        BY <2>6, UnwindSteps
    <2>7. CASE Orphan(r)
        BY <2>7, OutsideSteps
    <2> QED
        BY <1>1, <2>1, <2>2, <2>3, <2>4, <2>5, <2>6, <2>7 DEF Produce
<1>2. ASSUME NEW r \in Runs,
             Create(r) \/ Start(r) \/ StopRun(r) \/ EditAnswer(r) \/ LeaseRunsOut(r)
      PROVE  \A q \in Runs : RunInv(q)'
    BY <1>2, CreateSteps, StartSteps, ForceSteps, AsideSteps, OutsideSteps DEF StopRun
<1>3. ASSUME \/ \E T \in SUBSET Threads : DeleteChats(T)
             \/ Sweep \/ Stop \/ Exit \/ Boot
      PROVE  \A q \in Runs : RunInv(q)'
    BY <1>3, DeleteSteps, SweepSteps, StopSteps, ProcessSteps
<1>4. ASSUME (\E c \in Clients : Stream(c) \/ Disconnect(c)) \/ UNCHANGED vars
      PROVE  \A q \in Runs : RunInv(q)'
    <2>1. UNCHANGED <<store, job, output, orphans, requests, process>>
        BY <1>4 DEF Stream, Connect, ReadEvents, ReadState, Send, Disconnect, Follow, vars
    <2> QED
        BY <2>1, StreamSteps
<1> QED
    BY <1>1, <1>2, <1>3, <1>4 DEF Next

-----------------------------------------------------------------------------
(* The invariant holds, and with it what the store promises.                *)

LEMMA CountedFaults ==
    ASSUME Inv, [Next]_vars
    PROVE  faults' \in 0..MaxFaults
<1>1. faults \in 0..MaxFaults /\ MaxFaults \in Nat
    BY BoundAssumption DEF Inv, Process
<1>2. ASSUME Fault PROVE faults' \in 0..MaxFaults
    BY <1>1, <1>2 DEF Fault
<1>3. ASSUME NEW r \in Runs, Produce(r) \/ StopRun(r)
      PROVE  UNCHANGED faults \/ Fault
    <2>1. CASE GetToken(r) \/ Gate(r) \/ MarkRunning(r) \/ Reread(r)
        BY <2>1 DEF GetToken, Gate, MarkRunning, Reread, NoCall, Served
    <2>2. CASE Open(r) \/ EngineRaises(r) \/ (\E kind \in {"text", "final", "error"} : TakeChunk(r, kind))
               \/ (\E done \in BOOLEAN : EndStream(r, done))
        BY <2>2 DEF Open, EngineRaises, TakeChunk, EndStream, NoCall
    <2>3. CASE Renew(r) \/ StartWrite(r) \/ WriteLands(r) \/ ObserveWrite(r)
        BY <2>3 DEF Renew, StartWrite, WriteLands, ObserveWrite, NoCall, Served
    <2>4. CASE Drain(r) \/ ReadStatus(r) \/ Finish(r) \/ Catch(r) \/ SettleCaught(r)
        BY <2>4 DEF Drain, ReadStatus, Finish, Catch, SettleCaught, NoCall, Served
    <2>5. CASE Unwind(r) \/ Orphan(r) \/ StopRun(r)
        BY <2>5 DEF Unwind, Orphan, StopRun, ForceCancel, Signal, LifecycleCancel, RequestCancel, NoCall
    <2> QED
        BY <1>3, <2>1, <2>2, <2>3, <2>4, <2>5 DEF Produce, Begin, Engine, Write, End
<1>4. ASSUME NEW r \in Runs, Create(r) \/ Start(r) \/ EditAnswer(r) \/ LeaseRunsOut(r)
      PROVE  UNCHANGED faults
    BY <1>4 DEF Create, Start, EditAnswer, LeaseRunsOut
<1>5. CASE (\E T \in SUBSET Threads : DeleteChats(T)) \/ Sweep \/ Stop \/ Exit \/ Boot
    BY <1>1, <1>2, <1>5 DEF DeleteChats, Sweep, Stop, Exit, Boot, Served
<1>6. CASE (\E c \in Clients : Stream(c) \/ Disconnect(c)) \/ UNCHANGED vars
    BY <1>1, <1>6 DEF Stream, Connect, ReadEvents, ReadState, Send, Disconnect, Follow, vars
<1> QED
    BY <1>1, <1>2, <1>3, <1>4, <1>5, <1>6 DEF Next

LEMMA ProcessStep ==
    ASSUME Inv, [Next]_vars
    PROVE  Process'
<1>1. Process /\ MaxCrashes \in Nat
    BY BoundAssumption DEF Inv
<1>2. faults' \in 0..MaxFaults
    BY CountedFaults
<1>3. ASSUME NEW r \in Runs, Produce(r)
      PROVE  /\ UNCHANGED <<requests, process>>
             /\ job' = job \/ \E k : Becomes(r, k)
             /\ output' = output \/ \E n : output' = [output EXCEPT ![r] = n]
             /\ orphans' = orphans \/ \E S : orphans' = [orphans EXCEPT ![r] = S]
    <2>1. CASE GetToken(r) \/ Gate(r) \/ MarkRunning(r) \/ Reread(r)
        BY <2>1 DEF GetToken, Gate, MarkRunning, Reread, At, To, ToFinish
    <2>2. CASE Open(r)
        BY <2>2 DEF Open, To
    <2>3. CASE \E kind \in {"text", "final", "error"} : TakeChunk(r, kind)
        BY <2>3 DEF TakeChunk
    <2>4. CASE EngineRaises(r) \/ (\E done \in BOOLEAN : EndStream(r, done)) \/ Renew(r)
        BY <2>4 DEF EngineRaises, EndStream, Renew, At, To
    <2>5. CASE StartWrite(r) \/ WriteLands(r) \/ ObserveWrite(r)
        BY <2>5 DEF StartWrite, WriteLands, ObserveWrite, At
    <2>6. CASE Drain(r) \/ ReadStatus(r) \/ Finish(r) \/ Catch(r) \/ SettleCaught(r)
        BY <2>6 DEF Drain, ReadStatus, Finish, Catch, SettleCaught, At, To, ToFinish
    <2>7. CASE Unwind(r)
        BY <2>7 DEF Unwind, At
    <2>8. CASE Orphan(r)
        BY <2>8 DEF Orphan
    <2> QED
        BY <1>3, <2>1, <2>2, <2>3, <2>4, <2>5, <2>6, <2>7, <2>8 DEF Produce, Begin, Engine, Write, End
<1>4. ASSUME NEW r \in Runs, Produce(r) PROVE Process'
    BY <1>1, <1>2, <1>3, <1>4 DEF Process, Becomes, requests, process
<1>5. ASSUME NEW r \in Runs, ForceCancel(r) \/ Signal(r) \/ LifecycleCancel(r) PROVE Process'
    BY <1>1, <1>2, <1>5 DEF Process, ForceCancel, Signal, LifecycleCancel, Becomes, requests, process
<1>6. ASSUME NEW r \in Runs, RequestCancel(r) \/ Create(r) \/ Start(r) \/ EditAnswer(r) \/ LeaseRunsOut(r)
      PROVE  Process'
    BY <1>1, <1>2, <1>6
       DEF Process, RequestCancel, Create, Start, EditAnswer, LeaseRunsOut, Becomes, requests, process
<1>7. CASE \E T \in SUBSET Threads : DeleteChats(T)
    BY <1>1, <1>2, <1>7 DEF Process, DeleteChats, ActiveIn, process
<1>8. CASE Sweep
    BY <1>1, <1>2, <1>8 DEF Process, Sweep, Stale, process
<1>9. CASE Stop \/ Exit
    <2>1. crashes' \in 0..MaxCrashes
        BY <1>1, <1>9 DEF Process, Stop, Exit
    <2>2. /\ job' = [r \in Runs |-> job'[r]] /\ output' = [r \in Runs |-> output'[r]]
          /\ orphans' = [r \in Runs |-> orphans'[r]]
        BY <1>1, <1>9 DEF Process, Stop, Exit
    <2>3. starting' \in Runs \cup {None} /\ signals' \subseteq Runs /\ forced' \subseteq Runs
        BY <1>1, <1>9 DEF Process, Stop, Exit, Live
    <2> QED
        BY <1>1, <1>2, <1>9, <2>1, <2>2, <2>3 DEF Process, Stop, Exit
<1>10. CASE Boot
    BY <1>1, <1>2, <1>10 DEF Process, Boot, requests
<1>11. CASE (\E c \in Clients : Stream(c) \/ Disconnect(c)) \/ UNCHANGED vars
    <2>1. UNCHANGED <<job, output, orphans, requests, process>>
        BY <1>11 DEF Stream, Connect, ReadEvents, ReadState, Send, Disconnect, Follow, vars
    <2> QED
        BY <1>1, <1>2, <2>1 DEF Process, requests, process
<1> QED
    BY <1>4, <1>5, <1>6, <1>7, <1>8, <1>9, <1>10, <1>11 DEF Next, StopRun

LEMMA InvNext ==
    ASSUME Inv, [Next]_vars
    PROVE  Inv'
<1>1. [Store!Next]_store
    BY EveryStepIsStore
<1>2. SP!Inv'
    BY <1>1, StoreStep DEF Inv
<1> QED
    BY <1>2, ProcessStep, RunsStep DEF Inv

LEMMA InvInit == Init => Inv
<1> SUFFICES ASSUME Init PROVE Inv
    OBVIOUS
<1>1. SP!Inv /\ MaxChunks \in Nat /\ MaxCrashes \in Nat /\ MaxFaults \in Nat /\ None \notin Runs
    BY StoreInit, BoundAssumption, StoreAssumption DEF Init
<1>2. Process
    <2>1. /\ job = [r \in Runs |-> job[r]] /\ output = [r \in Runs |-> output[r]]
          /\ orphans = [r \in Runs |-> orphans[r]]
        BY DEF Init
    <2>2. crashes \in 0..MaxCrashes /\ faults \in 0..MaxFaults
        BY <1>1 DEF Init
    <2>3. starting \in Runs \cup {None} /\ signals \subseteq Runs /\ forced \subseteq Runs
        BY DEF Init
    <2>4. stopping \in BOOLEAN /\ up \in BOOLEAN
        BY DEF Init
    <2> QED
        BY <2>1, <2>2, <2>3, <2>4 DEF Process
<1>3. ASSUME NEW r \in Runs PROVE RunInv(r)
    <2>1. job[r] = NoJob /\ output[r] = 0 /\ orphans[r] = {} /\ starting = None /\ forced = {} /\ ~stopping /\ up
          /\ runs[r].status = "none"
        BY <1>3 DEF Init, Store!Init, Store!NoRow
    <2>2. NoJob.pc = "none" /\ ~NoJob.opened
        BY DEF NoJob
    <2>3. ~IsActive(r)
        BY <2>1 DEF IsActive, Store!IsActive, Store!ACTIVE_STATUSES
    <2> QED
        BY <1>1, <2>1, <2>2, <2>3, NoJobFacts
           DEF RunInv, RunTypes, Registry, Unwritten, LogFits, LeftToItself, ToldOf
<1> QED
    BY <1>1, <1>2, <1>3 DEF Inv

(* The inductive invariant.                                                 *)
THEOREM InvHolds == Spec => []Inv
BY InvInit, InvNext, PTL DEF Spec

(* StoreSpec: whatever producers, requests, the sweeper, shutdowns and      *)
(* crashes do, and in whatever order a call left to itself lands, every     *)
(* step is a transaction of the store, which hands over output that follows *)
(* on and fits the bound of the store's log, or it leaves the store alone.  *)
THEOREM ImplementsStore == Spec => StoreSpec
<1>1. Init => Store!Init
    BY DEF Init
<1>2. Inv /\ [Next]_vars => [UNCHANGED store \/ Store!Next]_store
    BY EveryStepIsStore
<1> QED
    BY <1>1, <1>2, InvHolds, PTL DEF Spec, StoreSpec
=============================================================================
