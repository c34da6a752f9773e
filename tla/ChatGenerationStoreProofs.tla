--------------------- MODULE ChatGenerationStoreProofs ---------------------
(***************************************************************************)
(* Theorems about the tables of durable chat generations, for every set of  *)
(* runs, chats and prompts, and every batch of output.                      *)
(*                                                                          *)
(* A transaction may touch many rows (a sweep, a deletion), but what it     *)
(* does to one row is one of eight things: RowStep names them and           *)
(* EveryRowSteps proves that there are no others.  Each part of the         *)
(* invariant is then proved row by row from RowStep.                        *)
(***************************************************************************)
EXTENDS ChatGenerationStore, SequenceTheorems, TLAPS

Output == [type : EventTypes, n : Nat]

-----------------------------------------------------------------------------
(* Lemmas about what the transactions are made of.                          *)

LEMMA StatusFacts ==
    /\ "none" \notin ACTIVE_STATUSES \cup TERMINAL_STATUSES
    /\ ACTIVE_STATUSES \cap TERMINAL_STATUSES = {}
    /\ NoRow \in RunRow /\ NoRow.status = "none" /\ NoRow.last = 0 /\ ~NoRow.cancel
    /\ Unmanaged \in Message /\ ~Unmanaged.claim /\ ~Unmanaged.settled
BY DEF ACTIVE_STATUSES, TERMINAL_STATUSES, NoRow, RunRow, Unmanaged, Message, Statuses

LEMMA MarkIsOutput ==
    ASSUME NEW t \in {"queued", "running", "cancelling"} \cup TERMINAL_STATUSES
    PROVE  Mark(t) \in Output /\ Mark(t).type = t
BY DEF Mark, Output, EventTypes

LEMMA BatchIsOutput ==
    ASSUME NEW b \in Batches \cup {<<>>}
    PROVE  b \in Seq(Output) /\ \A i \in 1..Len(b) : b[i].type \notin TERMINAL_STATUSES
<1>1. CASE b \in Batches
    <2>1. b \in Seq([type : {"chunk"}, n : Nat])
        BY <1>1, RunAssumption
    <2>2. ASSUME NEW i \in 1..Len(b)
          PROVE  b[i] \in Output /\ b[i].type = "chunk"
        <3>1. b[i] \in [type : {"chunk"}, n : Nat]
            BY <2>1, ElementOfSeq
        <3> QED
            BY <3>1 DEF Output, EventTypes
    <2>3. b \in Seq(Output)
        BY <2>1, <2>2, SeqDef, LenProperties
    <2> QED
        BY <2>2, <2>3 DEF TERMINAL_STATUSES
<1>2. CASE b = <<>>
    BY <1>2
<1> QED
    BY <1>1, <1>2

LEMMA AppendedType ==
    ASSUME TypeOK, NEW r \in Runs, NEW b \in Seq(Output)
    PROVE  Appended(r, b) \in SUBSET Event
<1> SUFFICES ASSUME NEW i \in 1..Len(b)
             PROVE  [seq |-> runs[r].last + i, type |-> b[i].type, n |-> b[i].n] \in Event
    BY DEF Appended, TypeOK
<1>1. b[i] \in Output
    OBVIOUS
<1>2. runs[r].last + i \in Nat
    BY DEF TypeOK, RunRow
<1> QED
    BY <1>1, <1>2 DEF Output, Event

LEMMA SyncedType ==
    ASSUME TypeOK, NEW r \in Runs, NEW status \in Statuses
    PROVE  Synced(r, status) \in Message
BY DEF Synced, TypeOK, Message

-----------------------------------------------------------------------------
(* The type invariant.                                                      *)

LEMMA TypeInit == Init => TypeOK
BY StatusFacts DEF Init, TypeOK

LEMMA TypeAdvance ==
    ASSUME TypeOK, NEW r \in Runs, NEW status \in {"running", "cancelling"},
           NEW cancel \in BOOLEAN, NEW stale \in BOOLEAN, Advance(r, status, cancel, stale)
    PROVE  TypeOK'
<1>1. <<Mark(status)>> \in Seq(Output)
    BY MarkIsOutput
<1>2. Appended(r, <<Mark(status)>>) \in SUBSET Event
    BY <1>1, AppendedType
<1>3. status \in Statuses /\ Synced(r, status) \in Message
    BY SyncedType DEF Statuses, ACTIVE_STATUSES
<1>4. [status |-> status, cancel |-> cancel, last |-> runs[r].last + 1, stale |-> stale] \in RunRow
    BY <1>3 DEF TypeOK, RunRow
<1> QED
    BY <1>2, <1>3, <1>4 DEF Advance, TypeOK

LEMMA TypeSettle ==
    ASSUME TypeOK, NEW S \in SUBSET Runs, NEW outcome, NEW cancel, NEW b \in Seq(Output),
           \A r \in S : outcome[r] \in TERMINAL_STATUSES /\ cancel[r] \in BOOLEAN,
           Settle(S, outcome, cancel, b)
    PROVE  TypeOK'
<1>1. ASSUME NEW r \in S
      PROVE  /\ Append(b, Mark(outcome[r])) \in Seq(Output)
             /\ Appended(r, Append(b, Mark(outcome[r]))) \in SUBSET Event
             /\ Synced(r, outcome[r]) \in Message
             /\ [status |-> outcome[r], cancel |-> cancel[r],
                 last |-> runs[r].last + Len(b) + 1, stale |-> FALSE] \in RunRow
    <2>1. Mark(outcome[r]) \in Output
        BY MarkIsOutput
    <2>2. Append(b, Mark(outcome[r])) \in Seq(Output)
        BY <2>1
    <2>3. outcome[r] \in Statuses
        BY DEF Statuses
    <2>4. runs[r].last + Len(b) + 1 \in Nat
        BY DEF TypeOK, RunRow
    <2> QED
        BY <2>2, <2>3, <2>4, AppendedType, SyncedType DEF RunRow
<1> QED
    BY <1>1 DEF Settle, TypeOK

LEMMA TypeDrop ==
    ASSUME TypeOK, NEW S \in SUBSET Runs, Drop(S)
    PROVE  /\ runs' \in [Runs -> RunRow]
           /\ events' \in [Runs -> SUBSET Event]
           /\ tombstones' \subseteq Runs
BY StatusFacts DEF Drop, TypeOK

LEMMA TypeNext ==
    ASSUME TypeOK, [Next]_store
    PROVE  TypeOK'
<1>1. ASSUME NEW r \in Runs, CreateRun(r)  PROVE TypeOK'
    <2>1. [NoRow EXCEPT !.status = "queued", !.last = 1] \in RunRow
        BY DEF NoRow, RunRow, Statuses, ACTIVE_STATUSES
    <2>2. [seq |-> 1, type |-> "queued", n |-> 0] \in Event
        BY DEF Event, EventTypes
    <2>3. [Unmanaged EXCEPT !.claim = TRUE, !.status = "queued"] \in Message
        BY DEF Unmanaged, Message, Statuses, ACTIVE_STATUSES
    <2> QED
        BY <1>1, <2>1, <2>2, <2>3 DEF CreateRun, TypeOK
<1>2. ASSUME NEW r \in Runs, NEW batch \in Batches, AppendEvents(r, batch)  PROVE TypeOK'
    <2>1. batch \in Seq(Output)
        BY BatchIsOutput
    <2>2. Appended(r, batch) \in SUBSET Event
        BY <2>1, AppendedType
    <2>3. [status |-> runs[r].status, cancel |-> runs[r].cancel,
           last |-> runs[r].last + Len(batch), stale |-> FALSE] \in RunRow
        <3>1. Len(batch) \in Nat /\ runs[r] \in RunRow
            BY <2>1, LenProperties DEF TypeOK
        <3> QED
            BY <3>1 DEF RunRow
    <2> QED
        BY <1>2, <2>2, <2>3 DEF AppendEvents, TypeOK
<1>3. ASSUME NEW r \in Runs, MarkRunning(r)  PROVE TypeOK'
    BY <1>3, TypeAdvance DEF MarkRunning
<1>4. ASSUME NEW r \in Runs, RequestCancel(r)  PROVE TypeOK'
    <2>1. CASE runs[r].status = "queued"
        <3>1. Settle({r}, [s \in {r} |-> "cancelled"], [s \in {r} |-> TRUE], <<>>)
            BY <1>4, <2>1 DEF RequestCancel
        <3>2. <<>> \in Seq(Output) /\ {r} \in SUBSET Runs
            OBVIOUS
        <3>3. \A s \in {r} : /\ [q \in {r} |-> "cancelled"][s] \in TERMINAL_STATUSES
                             /\ [q \in {r} |-> TRUE][s] \in BOOLEAN
            BY DEF TERMINAL_STATUSES
        <3> QED
            BY <3>1, <3>2, <3>3, TypeSettle
    <2>2. CASE runs[r].status = "running"
        <3>1. runs[r].stale \in BOOLEAN
            BY DEF TypeOK, RunRow
        <3> QED
            BY <1>4, <2>2, <3>1, TypeAdvance DEF RequestCancel
    <2> QED
        BY <1>4, <2>1, <2>2 DEF RequestCancel
<1>5. ASSUME NEW r \in Runs, NEW status \in TERMINAL_STATUSES, NEW batch \in Batches \cup {<<>>},
             FinishRun(r, status, batch)
      PROVE  TypeOK'
    <2>1. Outcome(r, status) \in TERMINAL_STATUSES /\ runs[r].cancel \in BOOLEAN
        BY DEF Outcome, TERMINAL_STATUSES, TypeOK, RunRow
    <2> QED
        BY <1>5, <2>1, BatchIsOutput, TypeSettle DEF FinishRun
<1>6. ASSUME NEW S \in SUBSET Runs, ReconcileRuns(S)  PROVE TypeOK'
    <2> DEFINE outcome == [r \in S |-> ReconciledAs(r)]
               cancel  == [r \in S |-> runs[r].cancel]
    <2>1. \A r \in S : outcome[r] \in TERMINAL_STATUSES /\ cancel[r] \in BOOLEAN
        BY DEF ReconciledAs, TERMINAL_STATUSES, TypeOK, RunRow
    <2>2. <<>> \in Seq(Output)
        OBVIOUS
    <2>3. Settle(S, outcome, cancel, <<>>)
        BY <1>6 DEF ReconcileRuns
    <2> HIDE DEF outcome, cancel
    <2> QED
        BY <2>1, <2>2, <2>3, TypeSettle
<1>7. ASSUME NEW r \in Runs, LeaseRunsOut(r) \/ TouchProgress(r)  PROVE TypeOK'
    <2>1. PICK stale \in BOOLEAN : runs' = [runs EXCEPT ![r].stale = stale]
        BY <1>7 DEF LeaseRunsOut, TouchProgress
    <2>2. [runs[r] EXCEPT !.stale = stale] \in RunRow
        BY DEF TypeOK, RunRow
    <2>3. runs' \in [Runs -> RunRow]
        BY <2>1, <2>2 DEF TypeOK
    <2> QED
        BY <1>7, <2>3 DEF LeaseRunsOut, TouchProgress, TypeOK
<1>8. ASSUME NEW r \in Runs, NEW status \in ACTIVE_STATUSES \cup TERMINAL_STATUSES,
             NEW seq \in 0..runs[r].last, NEW settled \in BOOLEAN, SaveMessage(r, status, seq, settled)
      PROVE  TypeOK'
    <2>1. [claim |-> TRUE, status |-> status, seq |-> seq, settled |-> settled] \in Message
        BY DEF Message, Statuses, TypeOK, RunRow
    <2> QED
        BY <1>8, <2>1 DEF SaveMessage, TypeOK
<1>9. ASSUME NEW r \in Runs, DetachMessage(r)  PROVE TypeOK'
    BY <1>9, TypeDrop, StatusFacts DEF DetachMessage, TypeOK
<1>10. ASSUME NEW T \in SUBSET Threads, DeleteThreads(T)  PROVE TypeOK'
    <2> DEFINE gone == {r \in Runs : ThreadOf[r] \in T}
    <2>1. Drop(gone)
        BY <1>10 DEF DeleteThreads
    <2> QED
        BY <1>10, <2>1, TypeDrop, StatusFacts DEF DeleteThreads, TypeOK
<1>11. ASSUME NEW p \in Prompts, DeletePrompt(p)  PROVE TypeOK'
    <2> DEFINE gone == {r \in Runs : PromptOf[r] = p /\ Row(r)}
    <2>1. Drop(gone)
        BY <1>11 DEF DeletePrompt
    <2> QED
        BY <1>11, <2>1, TypeDrop DEF DeletePrompt, TypeOK
<1>12. CASE UNCHANGED store
    BY <1>12 DEF store, TypeOK
<1> QED
    BY <1>1, <1>2, <1>3, <1>4, <1>5, <1>6, <1>7, <1>8, <1>9, <1>10, <1>11, <1>12 DEF Next

(* Every transaction keeps the tables' types: the statuses, the numbers and *)
(* the events the code writes are the ones its schema has.                  *)
THEOREM TypeCorrect == Spec => []TypeOK
<1>1. Init => TypeOK
    BY TypeInit
<1>2. TypeOK /\ [Next]_store => TypeOK'
    BY TypeNext
<1> QED
    BY <1>1, <1>2, PTL DEF Spec

-----------------------------------------------------------------------------
(* What a step may do to one run: the alternatives of RowStep.              *)

SameTombstone(r) == r \in tombstones' <=> r \in tombstones
Untouched(r) ==
    /\ runs'[r] = runs[r] /\ events'[r] = events[r] /\ messages'[r] = messages[r]
    /\ SameTombstone(r)
LeaseMoved(r) ==
    /\ runs'[r].status = runs[r].status /\ runs'[r].cancel = runs[r].cancel
    /\ runs'[r].last = runs[r].last
    /\ ~IsActive(r) => ~runs'[r].stale
    /\ events'[r] = events[r] /\ messages'[r] = messages[r]
    /\ SameTombstone(r)
Saved(r) == \E status, seq, settled : SaveMessage(r, status, seq, settled)

(* The log and last_event_seq take a batch with no terminal event in it.    *)
Written(r, b) ==
    /\ events'[r] = Appended(r, b)
    /\ runs'[r].last = runs[r].last + Len(b)
Lasting(b) == \A i \in 1..Len(b) : b[i].type \notin TERMINAL_STATUSES

Produced(r) ==
    /\ IsActive(r)
    /\ runs'[r].status = runs[r].status /\ runs'[r].cancel = runs[r].cancel
    /\ messages'[r] = messages[r]
    /\ \E b \in Seq(Output) : Written(r, b) /\ Lasting(b)
    /\ SameTombstone(r)
Advanced(r) ==
    /\ \/ runs[r].status = "queued" /\ runs'[r].status = "running" /\ ~runs'[r].cancel
       \/ runs[r].status = "running" /\ runs'[r].status = "cancelling"
    /\ messages'[r] = Synced(r, runs'[r].status)
    /\ \E b \in Seq(Output) : Written(r, b) /\ Lasting(b)
    /\ SameTombstone(r)
Ended(r) ==
    /\ IsActive(r) /\ runs'[r].status \in TERMINAL_STATUSES
    /\ runs'[r].cancel => runs'[r].status = "cancelled"
    /\ ~runs'[r].stale
    /\ messages'[r] = Synced(r, runs'[r].status)
    /\ \E b \in Seq(Output) : Written(r, Append(b, Mark(runs'[r].status))) /\ Lasting(b)
    /\ SameTombstone(r)
Gone(r) ==
    /\ runs'[r] = NoRow /\ events'[r] = {} /\ messages'[r] \in {messages[r], Unmanaged}
    /\ r \in tombstones => r \in tombstones'
    /\ Row(r) => r \in tombstones'
    /\ ~Row(r) => SameTombstone(r)

RowStep(r) ==
    \/ Untouched(r) \/ LeaseMoved(r) \/ Saved(r) \/ CreateRun(r)
    \/ Produced(r) \/ Advanced(r) \/ Ended(r) \/ Gone(r)

LEMMA AdvanceRow ==
    ASSUME TypeOK, NEW q \in Runs, NEW status \in {"running", "cancelling"},
           NEW cancel \in BOOLEAN, NEW stale \in BOOLEAN, Advance(q, status, cancel, stale),
           \/ runs[q].status = "queued" /\ status = "running" /\ ~cancel
           \/ runs[q].status = "running" /\ status = "cancelling",
           NEW r \in Runs
    PROVE  Untouched(r) \/ Advanced(r)
<1>1. CASE r # q
    BY <1>1 DEF Advance, Untouched, SameTombstone, TypeOK
<1>2. CASE r = q
    <2>1. runs'[r] = [status |-> status, cancel |-> cancel, last |-> runs[r].last + 1, stale |-> stale]
        BY <1>2 DEF Advance, TypeOK
    <2>2. events'[r] = Appended(r, <<Mark(status)>>) /\ messages'[r] = Synced(r, status)
        BY <1>2 DEF Advance, TypeOK
    <2>3. <<Mark(status)>> \in Seq(Output) /\ Len(<<Mark(status)>>) = 1 /\ Lasting(<<Mark(status)>>)
        BY MarkIsOutput DEF Lasting, TERMINAL_STATUSES
    <2>4. SameTombstone(r)
        BY DEF Advance, SameTombstone
    <2>5. Written(r, <<Mark(status)>>)
        BY <2>1, <2>2, <2>3 DEF Written
    <2> QED
        BY <1>2, <2>1, <2>2, <2>3, <2>4, <2>5 DEF Advanced
<1> QED
    BY <1>1, <1>2

LEMMA SettleRow ==
    ASSUME TypeOK, NEW S \in SUBSET Runs, NEW outcome, NEW cancel,
           NEW b \in Seq(Output), Lasting(b),
           \A s \in S : /\ outcome[s] \in TERMINAL_STATUSES
                        /\ cancel[s] => outcome[s] = "cancelled"
                        /\ IsActive(s),
           Settle(S, outcome, cancel, b), NEW r \in Runs
    PROVE  Untouched(r) \/ Ended(r)
<1>1. CASE r \notin S
    BY <1>1 DEF Settle, Untouched, SameTombstone
<1>2. CASE r \in S
    <2>1. runs'[r] = [status |-> outcome[r], cancel |-> cancel[r],
                      last |-> runs[r].last + Len(b) + 1, stale |-> FALSE]
        BY <1>2 DEF Settle
    <2>2. events'[r] = Appended(r, Append(b, Mark(outcome[r]))) /\ messages'[r] = Synced(r, outcome[r])
        BY <1>2 DEF Settle
    <2>3. Len(Append(b, Mark(outcome[r]))) = Len(b) + 1 /\ Len(b) \in Nat
        OBVIOUS
    <2>4. SameTombstone(r)
        BY DEF Settle, SameTombstone
    <2>5. runs[r].last \in Nat
        BY DEF TypeOK, RunRow
    <2>6. Written(r, Append(b, Mark(runs'[r].status)))
        <3>1. runs'[r].status = outcome[r] /\ runs'[r].last = runs[r].last + Len(b) + 1
            BY <2>1
        <3>2. events'[r] = Appended(r, Append(b, Mark(runs'[r].status)))
            BY <2>2, <3>1
        <3>3. runs'[r].last = runs[r].last + Len(Append(b, Mark(runs'[r].status)))
            BY <2>3, <2>5, <3>1
        <3> QED
            BY <3>2, <3>3 DEF Written
    <2>7. /\ runs'[r].status = outcome[r] /\ ~runs'[r].stale
          /\ runs'[r].cancel => runs'[r].status = "cancelled"
        BY <1>2, <2>1
    <2>8. messages'[r] = Synced(r, runs'[r].status)
        BY <2>2, <2>7
    <2>9. runs'[r].status \in TERMINAL_STATUSES /\ IsActive(r)
        BY <1>2, <2>7
    <2>10. \E c \in Seq(Output) : Written(r, Append(c, Mark(runs'[r].status))) /\ Lasting(c)
        BY <2>6
    <2> QED
        BY <2>4, <2>7, <2>8, <2>9, <2>10 DEF Ended
<1> QED
    BY <1>1, <1>2

LEMMA DropRow ==
    ASSUME TypeOK, NEW S \in SUBSET Runs, Drop(S), NEW r \in Runs,
           messages'[r] \in {messages[r], Unmanaged},
           r \notin S => messages'[r] = messages[r]
    PROVE  Untouched(r) \/ Gone(r)
BY DEF Drop, Untouched, Gone, SameTombstone

LEMMA EveryRowSteps ==
    ASSUME TypeOK, [Next]_store, NEW r \in Runs
    PROVE  RowStep(r)
<1>1. ASSUME NEW q \in Runs, CreateRun(q)  PROVE RowStep(r)
    <2>1. CASE r = q
        BY <1>1, <2>1 DEF RowStep
    <2>2. CASE r # q
        BY <1>1, <2>2 DEF CreateRun, RowStep, Untouched, SameTombstone, TypeOK
    <2> QED
        BY <2>1, <2>2
<1>2. ASSUME NEW q \in Runs, NEW batch \in Batches, AppendEvents(q, batch)  PROVE RowStep(r)
    <2>1. CASE r = q
        <3>1. batch \in Seq(Output) /\ Lasting(batch)
            BY BatchIsOutput DEF Lasting
        <3>2. runs'[r] = [status |-> runs[r].status, cancel |-> runs[r].cancel,
                          last |-> runs[r].last + Len(batch), stale |-> FALSE]
            BY <1>2, <2>1 DEF AppendEvents, TypeOK
        <3>3. events'[r] = Appended(r, batch) /\ messages'[r] = messages[r] /\ SameTombstone(r)
            BY <1>2, <2>1 DEF AppendEvents, TypeOK, SameTombstone
        <3>4. Written(r, batch)
            BY <3>2, <3>3 DEF Written
        <3>5. Produced(r)
            BY <1>2, <2>1, <3>1, <3>2, <3>3, <3>4 DEF Produced, AppendEvents, TakesOutput
        <3> QED
            BY <3>5 DEF RowStep
    <2>2. CASE r # q
        BY <1>2, <2>2 DEF AppendEvents, RowStep, Untouched, SameTombstone, TypeOK
    <2> QED
        BY <2>1, <2>2
<1>3. ASSUME NEW q \in Runs, MarkRunning(q)  PROVE RowStep(r)
    BY <1>3, AdvanceRow DEF MarkRunning, RowStep
<1>4. ASSUME NEW q \in Runs, RequestCancel(q)  PROVE RowStep(r)
    <2>1. CASE runs[q].status = "queued"
        <3> DEFINE outcome == [s \in {q} |-> "cancelled"]
                   cancel  == [s \in {q} |-> TRUE]
        <3>1. Settle({q}, outcome, cancel, <<>>)
            BY <1>4, <2>1 DEF RequestCancel
        <3>2. \A s \in {q} : /\ outcome[s] \in TERMINAL_STATUSES
                             /\ cancel[s] => outcome[s] = "cancelled"
                             /\ IsActive(s)
            BY <2>1 DEF TERMINAL_STATUSES, IsActive, ACTIVE_STATUSES
        <3>3. <<>> \in Seq(Output) /\ Lasting(<<>>) /\ {q} \in SUBSET Runs
            BY DEF Lasting
        <3> HIDE DEF outcome, cancel
        <3> QED
            BY <3>1, <3>2, <3>3, SettleRow DEF RowStep
    <2>2. CASE runs[q].status = "running"
        <3>1. runs[q].stale \in BOOLEAN
            BY DEF TypeOK, RunRow
        <3> QED
            BY <1>4, <2>2, <3>1, AdvanceRow DEF RequestCancel, RowStep
    <2> QED
        BY <1>4, <2>1, <2>2 DEF RequestCancel
<1>5. ASSUME NEW q \in Runs, NEW status \in TERMINAL_STATUSES, NEW batch \in Batches \cup {<<>>},
             FinishRun(q, status, batch)
      PROVE  RowStep(r)
    <2> DEFINE outcome == [s \in {q} |-> Outcome(q, status)]
               cancel  == [s \in {q} |-> runs[q].cancel]
    <2>1. Settle({q}, outcome, cancel, batch)
        BY <1>5 DEF FinishRun
    <2>2. \A s \in {q} : /\ outcome[s] \in TERMINAL_STATUSES
                         /\ cancel[s] => outcome[s] = "cancelled"
                         /\ IsActive(s)
        BY <1>5 DEF TERMINAL_STATUSES, FinishRun, Outcome
    <2>3. batch \in Seq(Output) /\ Lasting(batch) /\ {q} \in SUBSET Runs
        BY BatchIsOutput DEF Lasting
    <2> HIDE DEF outcome, cancel
    <2> QED
        BY <2>1, <2>2, <2>3, SettleRow DEF RowStep
<1>6. ASSUME NEW S \in SUBSET Runs, ReconcileRuns(S)  PROVE RowStep(r)
    <2> DEFINE outcome == [s \in S |-> ReconciledAs(s)]
               cancel  == [s \in S |-> runs[s].cancel]
    <2>1. Settle(S, outcome, cancel, <<>>)
        BY <1>6 DEF ReconcileRuns
    <2>2. \A s \in S : /\ outcome[s] \in TERMINAL_STATUSES
                       /\ cancel[s] => outcome[s] = "cancelled"
                       /\ IsActive(s)
        BY <1>6 DEF TERMINAL_STATUSES, ReconcileRuns, ReconciledAs
    <2>3. <<>> \in Seq(Output) /\ Lasting(<<>>)
        BY DEF Lasting
    <2> HIDE DEF outcome, cancel
    <2> QED
        BY <2>1, <2>2, <2>3, SettleRow DEF RowStep
<1>7. ASSUME NEW q \in Runs, LeaseRunsOut(q) \/ TouchProgress(q)  PROVE RowStep(r)
    <2>1. CASE r = q
        <3>1. events'[r] = events[r] /\ messages'[r] = messages[r] /\ SameTombstone(r)
            BY <1>7 DEF LeaseRunsOut, TouchProgress, SameTombstone
        <3>2. /\ runs'[r].status = runs[r].status /\ runs'[r].cancel = runs[r].cancel
              /\ runs'[r].last = runs[r].last
              /\ ~IsActive(r) => ~runs'[r].stale
            BY <1>7, <2>1 DEF LeaseRunsOut, TouchProgress, TypeOK, RunRow
        <3> QED
            BY <3>1, <3>2 DEF LeaseMoved, RowStep
    <2>2. CASE r # q
        BY <1>7, <2>2 DEF LeaseRunsOut, TouchProgress, RowStep, Untouched, SameTombstone, TypeOK
    <2> QED
        BY <2>1, <2>2
<1>8. ASSUME NEW q \in Runs, NEW status, NEW seq, NEW settled, SaveMessage(q, status, seq, settled)
      PROVE  RowStep(r)
    <2>1. CASE r = q
        BY <1>8, <2>1 DEF Saved, RowStep
    <2>2. CASE r # q
        BY <1>8, <2>2 DEF SaveMessage, RowStep, Untouched, SameTombstone, TypeOK
    <2> QED
        BY <2>1, <2>2
<1>9. ASSUME NEW q \in Runs, DetachMessage(q)  PROVE RowStep(r)
    <2>1. Drop({q}) /\ {q} \in SUBSET Runs
        BY <1>9 DEF DetachMessage
    <2>2. /\ messages'[r] \in {messages[r], Unmanaged}
          /\ r \notin {q} => messages'[r] = messages[r]
        BY <1>9 DEF DetachMessage, TypeOK
    <2> QED
        BY <2>1, <2>2, DropRow DEF RowStep
<1>10. ASSUME NEW T \in SUBSET Threads, DeleteThreads(T)  PROVE RowStep(r)
    <2> DEFINE gone == {q \in Runs : ThreadOf[q] \in T}
    <2>1. Drop(gone) /\ gone \in SUBSET Runs
        BY <1>10 DEF DeleteThreads
    <2>2. /\ messages'[r] \in {messages[r], Unmanaged}
          /\ r \notin gone => messages'[r] = messages[r]
        BY <1>10 DEF DeleteThreads
    <2> HIDE DEF gone
    <2> QED
        BY <2>1, <2>2, DropRow DEF RowStep
<1>11. ASSUME NEW p \in Prompts, DeletePrompt(p)  PROVE RowStep(r)
    <2> DEFINE gone == {q \in Runs : PromptOf[q] = p /\ Row(q)}
    <2>1. Drop(gone) /\ gone \in SUBSET Runs
        BY <1>11 DEF DeletePrompt
    <2>2. messages'[r] = messages[r]
        BY <1>11 DEF DeletePrompt
    <2> HIDE DEF gone
    <2> QED
        BY <2>1, <2>2, DropRow DEF RowStep
<1>12. CASE UNCHANGED store
    BY <1>12 DEF store, RowStep, Untouched, SameTombstone
<1> QED
    BY <1>1, <1>2, <1>3, <1>4, <1>5, <1>6, <1>7, <1>8, <1>9, <1>10, <1>11, <1>12 DEF Next

-----------------------------------------------------------------------------
(* The inductive invariant.  Settled messages, logs and tombstones depend   *)
(* on each other through the status of the row; two facts no run checks are *)
(* needed besides: an ended run's lease is not looked at any more, and the  *)
(* message of an id that was never used is not managed.                     *)

EndedIsFresh == \A r \in Runs : ~IsActive(r) => ~runs[r].stale
UnusedIsUnmanaged ==
    \A r \in Runs : (~Row(r) /\ r \notin tombstones) => messages[r] = Unmanaged

Inv ==
    /\ TypeOK
    /\ NeverReused /\ UnusedIsUnmanaged /\ EndedIsFresh
    /\ StopIsHonoured
    /\ LogGapless /\ LogEndsWithRun
    /\ MessageFollowsRun
    /\ OneActiveRun

LEMMA RowFacts ==
    ASSUME TypeOK, NEW r \in Runs
    PROVE  /\ Row(r) <=> (IsActive(r) \/ IsTerminal(r))
           /\ ~(IsActive(r) /\ IsTerminal(r))
           /\ runs[r].last \in Nat /\ messages[r].seq \in Nat
           /\ runs[r].status \in Statuses /\ messages[r].status \in Statuses
           /\ messages[r].claim \in BOOLEAN /\ messages[r].settled \in BOOLEAN
           /\ runs[r].cancel \in BOOLEAN
BY DEF TypeOK, RunRow, Message, Statuses, Row, IsActive, IsTerminal, ACTIVE_STATUSES, TERMINAL_STATUSES

LEMMA InvInit == Init => Inv
<1> SUFFICES ASSUME Init PROVE Inv
    OBVIOUS
<1>1. TypeOK
    BY TypeInit
<1>2. \A r \in Runs : ~Row(r) /\ ~IsActive(r) /\ ~IsTerminal(r) /\ runs[r] = NoRow
                      /\ events[r] = {} /\ messages[r] = Unmanaged
    BY DEF Init, NoRow, Row, IsActive, IsTerminal, ACTIVE_STATUSES, TERMINAL_STATUSES
<1>3. NeverReused /\ UnusedIsUnmanaged /\ EndedIsFresh /\ StopIsHonoured
    BY <1>2 DEF Init, NeverReused, UnusedIsUnmanaged, EndedIsFresh, StopIsHonoured, NoRow
<1>4. LogGapless /\ LogEndsWithRun
    BY <1>2 DEF LogGapless, LogEndsWithRun, NoRow
<1>5. MessageFollowsRun /\ OneActiveRun
    BY <1>2 DEF MessageFollowsRun, OneActiveRun
<1> QED
    BY <1>1, <1>3, <1>4, <1>5 DEF Inv

LEMMA TombstonesStep ==
    ASSUME Inv, [Next]_store
    PROVE  NeverReused' /\ UnusedIsUnmanaged'
<1>1. tombstones \subseteq Runs /\ tombstones' \subseteq Runs
    BY TypeNext DEF Inv, TypeOK
<1> SUFFICES ASSUME NEW r \in Runs
             PROVE  /\ r \in tombstones' => ~Row(r)'
                    /\ (~Row(r)' /\ r \notin tombstones') => messages'[r] = Unmanaged
    BY <1>1 DEF NeverReused, UnusedIsUnmanaged
<1>2. RowStep(r)
    BY EveryRowSteps DEF Inv
<1>3. /\ r \in tombstones => ~Row(r)
      /\ (~Row(r) /\ r \notin tombstones) => messages[r] = Unmanaged
    BY DEF Inv, NeverReused, UnusedIsUnmanaged
<1>4. CASE Untouched(r) \/ LeaseMoved(r)
    BY <1>3, <1>4 DEF Untouched, LeaseMoved, SameTombstone, Row
<1>5. CASE Saved(r)
    BY <1>3, <1>5 DEF Saved, SaveMessage, Row
<1>6. CASE CreateRun(r)
    BY <1>6 DEF CreateRun, NewId, Row, NoRow, Inv, TypeOK
<1>7. CASE Produced(r) \/ Advanced(r) \/ Ended(r)
    BY <1>3, <1>7 DEF Produced, Advanced, Ended, SameTombstone, Row, IsActive, ACTIVE_STATUSES, TERMINAL_STATUSES
<1>8. CASE Gone(r)
    BY <1>3, <1>8 DEF Gone, SameTombstone, Row, NoRow
<1> QED
    BY <1>2, <1>4, <1>5, <1>6, <1>7, <1>8 DEF RowStep

LEMMA CancelStep ==
    ASSUME Inv, [Next]_store
    PROVE  StopIsHonoured' /\ EndedIsFresh'
<1> SUFFICES ASSUME NEW r \in Runs
             PROVE  /\ runs'[r].cancel => runs'[r].status \in {"cancelling", "cancelled"}
                    /\ ~IsActive(r)' => ~runs'[r].stale
    BY DEF StopIsHonoured, EndedIsFresh
<1>1. RowStep(r)
    BY EveryRowSteps DEF Inv
<1>2. /\ runs[r].cancel => runs[r].status \in {"cancelling", "cancelled"}
      /\ ~IsActive(r) => ~runs[r].stale
    BY DEF Inv, StopIsHonoured, EndedIsFresh
<1>3. CASE Untouched(r) \/ LeaseMoved(r) \/ Saved(r)
    BY <1>2, <1>3 DEF Untouched, LeaseMoved, Saved, SaveMessage, IsActive
<1>4. CASE CreateRun(r)
    BY <1>4 DEF CreateRun, NoRow, Inv, TypeOK
<1>5. CASE Produced(r)
    BY <1>2, <1>5 DEF Produced, IsActive
<1>6. CASE Advanced(r)
    BY <1>6 DEF Advanced, IsActive, ACTIVE_STATUSES
<1>7. CASE Ended(r)
    BY <1>7 DEF Ended
<1>8. CASE Gone(r)
    BY <1>8 DEF Gone, NoRow
<1> QED
    BY <1>1, <1>3, <1>4, <1>5, <1>6, <1>7, <1>8 DEF RowStep

LEMMA OneActiveStep ==
    ASSUME Inv, [Next]_store
    PROVE  OneActiveRun'
<1> SUFFICES ASSUME NEW r \in Runs, NEW s \in Runs, r # s, ThreadOf[r] = ThreadOf[s],
                    IsActive(r)', IsActive(s)'
             PROVE  FALSE
    BY DEF OneActiveRun
<1>1. ASSUME NEW q \in Runs  PROVE CreateRun(q) \/ (IsActive(q)' => IsActive(q))
    <2>1. RowStep(q)
        BY EveryRowSteps DEF Inv
    <2> QED
        BY <2>1 DEF RowStep, Untouched, LeaseMoved, Saved, SaveMessage, Produced, Advanced, Ended, Gone,
                    IsActive, ACTIVE_STATUSES, TERMINAL_STATUSES, NoRow
<1>2. ASSUME NEW p \in Runs, NEW q \in Runs, p # q, ThreadOf[p] = ThreadOf[q], CreateRun(p)
      PROVE  ~IsActive(q)'
    BY <1>2 DEF CreateRun, ChatIsFree, IsActive, Inv, TypeOK
<1>3. ~CreateRun(r) /\ ~CreateRun(s)
    BY <1>2
<1> QED
    BY <1>1, <1>3 DEF Inv, OneActiveRun

(* A batch put behind a gapless log leaves it gapless.                      *)
LEMMA WrittenIsGapless ==
    ASSUME TypeOK, LogGapless, NEW r \in Runs, NEW b \in Seq(Output), Written(r, b)
    PROVE  /\ {e.seq : e \in events'[r]} = 1..runs'[r].last
           /\ \A d, e \in events'[r] : d.seq = e.seq => d = e
           /\ \A e \in events'[r] : \/ e \in events[r] /\ e.seq <= runs[r].last
                                    \/ \E i \in 1..Len(b) : e.seq = runs[r].last + i /\ e.type = b[i].type
<1> DEFINE last == runs[r].last
           New(i) == [seq |-> last + i, type |-> b[i].type, n |-> b[i].n]
<1>1. last \in Nat /\ Len(b) \in Nat
    BY LenProperties DEF TypeOK, RunRow
<1>2. events'[r] = events[r] \cup {New(i) : i \in 1..Len(b)} /\ runs'[r].last = last + Len(b)
    BY DEF Written, Appended
<1>3. {e.seq : e \in events[r]} = 1..last /\ \A d, e \in events[r] : d.seq = e.seq => d = e
    BY DEF LogGapless
<1>4. \A e \in events[r] : e.seq \in 1..last
    BY <1>3
<1>5. \A i \in 1..Len(b) : New(i).seq = last + i /\ New(i).type = b[i].type
    OBVIOUS
<1> HIDE DEF last, New
<1>6. {e.seq : e \in events'[r]} = 1..(last + Len(b))
    <2>1. ASSUME NEW e \in events'[r]  PROVE e.seq \in 1..(last + Len(b))
        <3>1. CASE e \in events[r]
            BY <1>1, <1>4, <3>1
        <3>2. CASE e \in {New(i) : i \in 1..Len(b)}
            BY <1>1, <1>5, <3>2
        <3> QED
            BY <1>2, <3>1, <3>2
    <2>2. ASSUME NEW k \in 1..(last + Len(b))  PROVE \E e \in events'[r] : e.seq = k
        <3>1. CASE k <= last
            <4>1. k \in {e.seq : e \in events[r]}
                BY <1>1, <1>3, <3>1
            <4> QED
                BY <1>2, <4>1
        <3>2. CASE k > last
            <4>1. k - last \in 1..Len(b) /\ last + (k - last) = k
                BY <1>1, <3>2
            <4>2. New(k - last).seq = k /\ New(k - last) \in events'[r]
                BY <1>2, <1>5, <4>1
            <4> QED
                BY <4>2
        <3> QED
            BY <1>1, <3>1, <3>2
    <2> QED
        BY <2>1, <2>2
<1>7. ASSUME NEW d \in events'[r], NEW e \in events'[r], d.seq = e.seq  PROVE d = e
    <2>1. CASE d \in events[r] /\ e \in events[r]
        BY <1>3, <1>7, <2>1
    <2>2. CASE d \in {New(i) : i \in 1..Len(b)} /\ e \in {New(i) : i \in 1..Len(b)}
        <3>1. PICK i \in 1..Len(b), j \in 1..Len(b) : d = New(i) /\ e = New(j)
            BY <2>2
        <3>2. i = j
            BY <1>1, <1>5, <1>7, <3>1
        <3> QED
            BY <3>1, <3>2
    <2>3. ASSUME NEW x \in events[r], NEW i \in 1..Len(b)  PROVE x.seq # New(i).seq
        BY <1>1, <1>4, <1>5, <2>3
    <2> QED
        BY <1>2, <1>7, <2>1, <2>2, <2>3
<1>8. ASSUME NEW e \in events'[r]
      PROVE  \/ e \in events[r] /\ e.seq <= last
             \/ \E i \in 1..Len(b) : e.seq = last + i /\ e.type = b[i].type
    <2>1. CASE e \in events[r]
        BY <1>1, <1>4, <2>1
    <2>2. CASE e \in {New(i) : i \in 1..Len(b)}
        BY <1>5, <2>2
    <2> QED
        BY <1>2, <2>1, <2>2
<1> QED
    BY <1>2, <1>6, <1>7, <1>8 DEF last

LEMMA LogStep ==
    ASSUME Inv, [Next]_store
    PROVE  LogGapless' /\ LogEndsWithRun'
<1> SUFFICES ASSUME NEW r \in Runs
             PROVE  /\ {e.seq : e \in events'[r]} = 1..runs'[r].last
                    /\ \A d, e \in events'[r] : d.seq = e.seq => d = e
                    /\ \A e \in events'[r] :
                          IF IsTerminal(r)' /\ e.seq = runs'[r].last
                          THEN e.type = runs'[r].status
                          ELSE e.type \notin TERMINAL_STATUSES
    BY DEF LogGapless, LogEndsWithRun
<1>1. RowStep(r)
    BY EveryRowSteps DEF Inv
<1>2. /\ {e.seq : e \in events[r]} = 1..runs[r].last
      /\ \A d, e \in events[r] : d.seq = e.seq => d = e
      /\ \A e \in events[r] :
            IF IsTerminal(r) /\ e.seq = runs[r].last
            THEN e.type = runs[r].status
            ELSE e.type \notin TERMINAL_STATUSES
    BY DEF Inv, LogGapless, LogEndsWithRun
<1>3. TypeOK /\ LogGapless
    BY DEF Inv
<1>4. CASE Untouched(r) \/ LeaseMoved(r) \/ Saved(r)
    <2>1. /\ events'[r] = events[r] /\ runs'[r].last = runs[r].last
          /\ runs'[r].status = runs[r].status
        BY <1>4 DEF Untouched, LeaseMoved, Saved, SaveMessage
    <2> QED
        BY <1>2, <2>1 DEF IsTerminal
<1>5. CASE CreateRun(r)
    <2>1. /\ runs'[r].last = 1 /\ runs'[r].status = "queued"
          /\ events'[r] = {[seq |-> 1, type |-> "queued", n |-> 0]}
        BY <1>3, <1>5 DEF CreateRun, TypeOK, NoRow
    <2> QED
        BY <2>1 DEF IsTerminal, TERMINAL_STATUSES
<1>6. CASE Produced(r) \/ Advanced(r)
    <2>1. IsActive(r) /\ IsActive(r)'
        BY <1>6 DEF Produced, Advanced, IsActive, ACTIVE_STATUSES
    <2>2. ~IsTerminal(r) /\ ~IsTerminal(r)'
        BY <2>1 DEF IsActive, IsTerminal, ACTIVE_STATUSES, TERMINAL_STATUSES
    <2>3. PICK b \in Seq(Output) : Written(r, b) /\ Lasting(b)
        BY <1>6 DEF Produced, Advanced
    <2> QED
        BY <1>2, <1>3, <2>2, <2>3, WrittenIsGapless DEF Lasting
<1>7. CASE Ended(r)
    <2> DEFINE status == runs'[r].status
    <2>1. status \in TERMINAL_STATUSES /\ IsTerminal(r)' /\ ~IsTerminal(r)
        BY <1>7 DEF Ended, IsActive, IsTerminal, ACTIVE_STATUSES, TERMINAL_STATUSES
    <2>2. PICK b \in Seq(Output) : Written(r, Append(b, Mark(status))) /\ Lasting(b)
        BY <1>7 DEF Ended
    <2> DEFINE all == Append(b, Mark(status))
    <2>3. /\ all \in Seq(Output) /\ Len(b) \in Nat /\ Len(all) = Len(b) + 1
          /\ all[Len(b) + 1] = Mark(status) /\ \A i \in 1..Len(b) : all[i] = b[i]
        <3>1. Mark(status) \in Output
            BY <2>1, MarkIsOutput
        <3> HIDE DEF status
        <3> QED
            BY <3>1, AppendProperties, LenProperties
    <2>4. all[Len(b) + 1].type = status
        BY <2>1, <2>3, MarkIsOutput
    <2>5. \A i \in 1..Len(b) : all[i].type \notin TERMINAL_STATUSES
        BY <2>2, <2>3 DEF Lasting
    <2>6. Len(b) \in Nat /\ Len(all) = Len(b) + 1
        BY <2>3
    <2> HIDE DEF all, status
    <2>7. /\ {e.seq : e \in events'[r]} = 1..runs'[r].last
          /\ \A d, e \in events'[r] : d.seq = e.seq => d = e
          /\ \A e \in events'[r] :
                \/ e \in events[r] /\ e.seq <= runs[r].last
                \/ \E i \in 1..Len(all) : e.seq = runs[r].last + i /\ e.type = all[i].type
        BY <1>3, <2>2, <2>3, WrittenIsGapless DEF all
    <2>8. runs'[r].last = runs[r].last + Len(b) + 1 /\ runs[r].last \in Nat
        BY <1>3, <2>2, <2>3 DEF Written, TypeOK, RunRow, all
    <2>9. ~IsTerminal(r)
        BY <2>1
    <2>10. ASSUME NEW e \in events'[r]
          PROVE  IF e.seq = runs'[r].last THEN e.type = status ELSE e.type \notin TERMINAL_STATUSES
        <3>1. CASE e \in events[r] /\ e.seq <= runs[r].last
            BY <1>2, <2>8, <2>6, <2>9, <3>1
        <3>2. ASSUME NEW i \in 1..Len(all), e.seq = runs[r].last + i, e.type = all[i].type
              PROVE  IF e.seq = runs'[r].last THEN e.type = status ELSE e.type \notin TERMINAL_STATUSES
            <4>1. CASE i = Len(b) + 1
                <5>1. e.type = status
                    BY <2>4, <3>2, <4>1
                <5>2. e.seq = runs[r].last + Len(b) + 1
                    BY <2>8, <2>6, <3>2, <4>1
                <5> QED
                    BY <2>8, <5>1, <5>2
            <4>2. CASE i \in 1..Len(b)
                <5>1. e.type \notin TERMINAL_STATUSES
                    BY <2>5, <3>2, <4>2
                <5>2. e.seq # runs'[r].last
                    BY <2>8, <2>6, <3>2, <4>2
                <5> QED
                    BY <5>1, <5>2
            <4> QED
                BY <2>6, <4>1, <4>2
        <3> QED
            BY <2>7, <3>1, <3>2
    <2> QED
        BY <2>1, <2>7, <2>10 DEF status
<1>8. CASE Gone(r)
    BY <1>8 DEF Gone, NoRow
<1> QED
    BY <1>1, <1>4, <1>5, <1>6, <1>7, <1>8 DEF RowStep

LEMMA MessageStep ==
    ASSUME Inv, [Next]_store
    PROVE  MessageFollowsRun'
<1> SUFFICES ASSUME NEW r \in Runs, Row(r)'
             PROVE  /\ messages'[r].claim
                    /\ messages'[r].seq <= runs'[r].last
                    /\ IsActive(r)' => /\ messages'[r].status \in ACTIVE_STATUSES
                                       /\ Rank(runs'[r].status) <= Rank(messages'[r].status)
                    /\ IsTerminal(r)' => messages'[r].status = runs'[r].status
                    /\ messages'[r].settled => IsTerminal(r)' /\ messages'[r].seq = runs'[r].last
    BY DEF MessageFollowsRun
<1>1. RowStep(r)
    BY EveryRowSteps DEF Inv
<1>2. TypeOK /\ TypeOK'
    BY TypeNext DEF Inv
<1>3. Row(r) => /\ messages[r].claim
                /\ messages[r].seq <= runs[r].last
                /\ IsActive(r) => /\ messages[r].status \in ACTIVE_STATUSES
                                  /\ Rank(runs[r].status) <= Rank(messages[r].status)
                /\ IsTerminal(r) => messages[r].status = runs[r].status
                /\ messages[r].settled => IsTerminal(r) /\ messages[r].seq = runs[r].last
    BY DEF Inv, MessageFollowsRun
<1>4. \A s, t : Rank(s) \in Nat /\ (s = t => Rank(s) <= Rank(t))
    BY DEF Rank
<1>5. IsActive(r) => Row(r) /\ ~IsTerminal(r)
    BY DEF Row, IsActive, IsTerminal, ACTIVE_STATUSES, TERMINAL_STATUSES
<1>6. CASE Untouched(r) \/ LeaseMoved(r)
    BY <1>3, <1>6 DEF Untouched, LeaseMoved, Row, IsActive, IsTerminal
<1>7. CASE Saved(r)
    <2>1. PICK status, seq, settled : SaveMessage(r, status, seq, settled)
        BY <1>7 DEF Saved
    <2>2. messages'[r] = [claim |-> TRUE, status |-> status, seq |-> seq, settled |-> settled]
        BY <1>2, <2>1 DEF SaveMessage, TypeOK
    <2>3. runs'[r] = runs[r] /\ Row(r) /\ seq \in messages[r].seq..runs[r].last
        BY <2>1 DEF SaveMessage
    <2>4. seq <= runs[r].last
        BY <1>2, <2>3, RowFacts
    <2>5. IsActive(r) => /\ status \in ACTIVE_STATUSES
                         /\ Rank(messages[r].status) <= Rank(status)
        BY <1>3, <1>5, <2>1 DEF SaveMessage
    <2>6. IsActive(r) => Rank(runs[r].status) <= Rank(status)
        BY <1>3, <1>4, <2>3, <2>5
    <2>7. IsTerminal(r) => status = runs[r].status
        BY <2>1 DEF SaveMessage
    <2>8. settled => IsTerminal(r) /\ seq = runs[r].last
        BY <2>1 DEF SaveMessage
    <2> QED
        BY <2>2, <2>3, <2>4, <2>5, <2>6, <2>7, <2>8 DEF IsActive, IsTerminal
<1>8. CASE CreateRun(r)
    <2>1. /\ runs'[r].status = "queued" /\ runs'[r].last = 1
          /\ messages'[r] = [claim |-> TRUE, status |-> "queued", seq |-> 0, settled |-> FALSE]
        BY <1>2, <1>8 DEF CreateRun, TypeOK, NoRow, Unmanaged
    <2> QED
        BY <1>4, <2>1 DEF IsActive, IsTerminal, ACTIVE_STATUSES, TERMINAL_STATUSES
<1>9. CASE Produced(r)
    <2>1. /\ messages'[r] = messages[r] /\ runs'[r].status = runs[r].status
          /\ IsActive(r) /\ ~messages[r].settled
        BY <1>3, <1>5, <1>9 DEF Produced
    <2>2. runs[r].last <= runs'[r].last
        <3>1. PICK b \in Seq(Output) : Written(r, b)
            BY <1>9 DEF Produced
        <3>2. Len(b) \in Nat /\ runs[r].last \in Nat
            BY <1>2, <3>1, RowFacts, LenProperties
        <3> QED
            BY <3>1, <3>2 DEF Written
    <2>3. messages[r].seq <= runs'[r].last
        <3>1. runs'[r].last \in Nat
            BY <1>2 DEF TypeOK, RunRow
        <3> QED
            BY <1>2, <1>3, <1>5, <2>1, <2>2, <3>1, RowFacts
    <2> QED
        BY <1>3, <1>5, <2>1, <2>3 DEF IsActive, IsTerminal
<1>10. CASE Advanced(r) \/ Ended(r)
    <2>1. IsActive(r) /\ ~messages[r].settled /\ messages[r].claim /\ messages[r].seq <= runs[r].last
        BY <1>3, <1>5, <1>10 DEF Advanced, Ended, IsActive, ACTIVE_STATUSES
    <2>2. ASSUME Advanced(r)  PROVE runs[r].last <= runs'[r].last
        <3>1. PICK b \in Seq(Output) : Written(r, b)
            BY <2>2 DEF Advanced
        <3>2. Len(b) \in Nat /\ runs[r].last \in Nat
            BY <1>2, <3>1, RowFacts, LenProperties
        <3> QED
            BY <3>1, <3>2 DEF Written
    <2>3. ASSUME Ended(r)  PROVE runs[r].last <= runs'[r].last
        <3> DEFINE status == runs'[r].status
        <3>1. Mark(status) \in Output
            BY <2>3, MarkIsOutput DEF Ended
        <3>2. PICK b \in Seq(Output) : Written(r, Append(b, Mark(status)))
            BY <2>3 DEF Ended
        <3>3. Append(b, Mark(status)) \in Seq(Output)
            BY <3>1, AppendProperties
        <3>4. Len(Append(b, Mark(status))) \in Nat /\ runs[r].last \in Nat
            BY <1>2, <3>3, RowFacts, LenProperties
        <3> QED
            BY <3>2, <3>4 DEF Written
    <2>4. messages'[r] = [messages[r] EXCEPT !.status = runs'[r].status]
        BY <1>10, <2>1 DEF Advanced, Ended, Synced
    <2>5. /\ messages'[r].claim /\ ~messages'[r].settled
          /\ messages'[r].seq = messages[r].seq /\ messages'[r].status = runs'[r].status
        <3>1. messages[r] \in Message
            BY <1>2 DEF TypeOK
        <3> QED
            BY <2>1, <2>4, <3>1 DEF Message
    <2>6. messages'[r].seq <= runs'[r].last
        <3>1. runs'[r].last \in Nat
            BY <1>2 DEF TypeOK, RunRow
        <3> QED
            BY <1>2, <1>10, <2>1, <2>2, <2>3, <2>5, <3>1, RowFacts
    <2>7. Rank(runs'[r].status) <= Rank(messages'[r].status)
        BY <1>4, <2>5
    <2> QED
        BY <2>5, <2>6, <2>7 DEF IsActive
<1>11. CASE Gone(r)
    BY <1>11 DEF Gone, Row, NoRow
<1> QED
    BY <1>1, <1>6, <1>7, <1>8, <1>9, <1>10, <1>11 DEF RowStep

LEMMA InvNext ==
    ASSUME Inv, [Next]_store
    PROVE  Inv'
BY TypeNext, TombstonesStep, CancelStep, OneActiveStep, LogStep, MessageStep DEF Inv

THEOREM InvHolds == Spec => []Inv
BY InvInit, InvNext, PTL DEF Spec

-----------------------------------------------------------------------------
(* The safety properties of the store.                                      *)

(* A chat has one active generation, whichever tabs ask for one.            *)
THEOREM OneActiveRunHolds == Spec => []OneActiveRun
<1>1. Inv => OneActiveRun
    BY DEF Inv
<1> QED
    BY <1>1, InvHolds, PTL

(* A run whose cancellation was requested ends as cancelled.                *)
THEOREM StopIsHonouredHolds == Spec => []StopIsHonoured
<1>1. Inv => StopIsHonoured
    BY DEF Inv
<1> QED
    BY <1>1, InvHolds, PTL

(* The id of a deleted run never names a run again.                         *)
THEOREM NeverReusedHolds == Spec => []NeverReused
<1>1. Inv => NeverReused
    BY DEF Inv
<1> QED
    BY <1>1, InvHolds, PTL

(* A log has one event for every number up to last_event_seq.               *)
THEOREM LogGaplessHolds == Spec => []LogGapless
<1>1. Inv => LogGapless
    BY DEF Inv
<1> QED
    BY <1>1, InvHolds, PTL

(* The last event of an ended run, and no other, says how it ended.         *)
THEOREM LogEndsWithRunHolds == Spec => []LogEndsWithRun
<1>1. Inv => LogEndsWithRun
    BY DEF Inv
<1> QED
    BY <1>1, InvHolds, PTL

(* The message a tab saves never runs ahead of the log, and is settled only *)
(* with the whole log in it.                                                *)
THEOREM MessageFollowsRunHolds == Spec => []MessageFollowsRun
<1>1. Inv => MessageFollowsRun
    BY DEF Inv
<1> QED
    BY <1>1, InvHolds, PTL

LEMMA GrowStep ==
    ASSUME Inv, [Next]_store, NEW r \in Runs, Row(r), Row(r)'
    PROVE  /\ events[r] \subseteq events'[r]
           /\ IsTerminal(r) => runs'[r] = runs[r] /\ events'[r] = events[r]
<1>1. RowStep(r) /\ TypeOK /\ TypeOK'
    BY EveryRowSteps, TypeNext DEF Inv
<1>2. IsTerminal(r) => ~IsActive(r) /\ ~runs[r].stale
    BY DEF Inv, EndedIsFresh, IsActive, IsTerminal, ACTIVE_STATUSES, TERMINAL_STATUSES
<1>3. CASE Untouched(r) \/ Saved(r)
    BY <1>3 DEF Untouched, Saved, SaveMessage
<1>4. CASE LeaseMoved(r)
    <2>1. runs[r] \in RunRow /\ runs'[r] \in RunRow
        BY <1>1 DEF TypeOK
    <2>2. IsTerminal(r) => runs'[r] = runs[r]
        BY <1>2, <1>4, <2>1 DEF LeaseMoved, RunRow
    <2> QED
        BY <1>4, <2>2 DEF LeaseMoved
<1>5. CASE Produced(r) \/ Advanced(r) \/ Ended(r)
    <2>1. IsActive(r)
        BY <1>5 DEF Produced, Advanced, Ended, IsActive, ACTIVE_STATUSES
    <2> QED
        BY <1>2, <1>5, <2>1 DEF Produced, Advanced, Ended, Written, Appended
<1>6. ~CreateRun(r) /\ ~Gone(r)
    BY DEF CreateRun, NewId, Gone, Row, NoRow
<1> QED
    BY <1>1, <1>3, <1>4, <1>5, <1>6 DEF RowStep

(* A row that goes leaves a tombstone, which stays.                         *)
LEMMA GoneStep ==
    ASSUME Inv, [Next]_store, NEW r \in Runs
    PROVE  (r \in tombstones => r \in tombstones') /\ (Row(r) => Row(r)' \/ r \in tombstones')
<1>1. RowStep(r)
    BY EveryRowSteps DEF Inv
<1>2. CASE Untouched(r) \/ LeaseMoved(r) \/ Saved(r)
    BY <1>2 DEF Untouched, LeaseMoved, Saved, SaveMessage, SameTombstone, Row
<1>3. CASE CreateRun(r)
    BY <1>3 DEF CreateRun, NewId
<1>4. CASE Produced(r) \/ Advanced(r) \/ Ended(r)
    BY <1>4 DEF Produced, Advanced, Ended, SameTombstone, Row, IsActive, ACTIVE_STATUSES, TERMINAL_STATUSES
<1>5. CASE Gone(r)
    BY <1>5 DEF Gone
<1> QED
    BY <1>1, <1>2, <1>3, <1>4, <1>5 DEF RowStep

(* The log of a row begins with run.created.                                *)
Begun(r) == Row(r) => runs[r].last >= 1
LEMMA BegunStep ==
    ASSUME Inv, [Next]_store, NEW r \in Runs, Begun(r)
    PROVE  Begun(r)'
<1>1. RowStep(r) /\ runs[r].last \in Nat
    BY EveryRowSteps, RowFacts DEF Inv
<1>2. CASE Untouched(r) \/ LeaseMoved(r) \/ Saved(r)
    BY <1>2 DEF Untouched, LeaseMoved, Saved, SaveMessage, Begun, Row
<1>3. CASE CreateRun(r)
    BY <1>3 DEF CreateRun, Begun, NoRow, Inv, TypeOK
<1>4. CASE Produced(r) \/ Advanced(r) \/ Ended(r)
    <2>1. PICK b \in Seq(Output) : runs'[r].last = runs[r].last + Len(b)
        <3>1. ASSUME NEW b \in Seq(Output), NEW e \in Output PROVE Append(b, e) \in Seq(Output)
            OBVIOUS
        <3>2. Ended(r) => Mark(runs'[r].status) \in Output
            BY MarkIsOutput DEF Ended
        <3> QED
            BY <1>4, <3>1, <3>2 DEF Produced, Advanced, Ended, Written
    <2>2. Len(b) \in Nat /\ Row(r)
        BY <1>4 DEF Produced, Advanced, Ended, Row, IsActive, ACTIVE_STATUSES
    <2> QED
        BY <1>1, <2>1, <2>2 DEF Begun
<1>5. CASE Gone(r)
    BY <1>5 DEF Gone, Begun, Row, NoRow
<1> QED
    BY <1>1, <1>2, <1>3, <1>4, <1>5 DEF RowStep

(* A row that is there gains events only, and none once it has ended.       *)
THEOREM LogOnlyGrowsHolds == Spec => LogOnlyGrows
<1>1. Inv /\ [Next]_store => [\A r \in Runs : Row(r) /\ Row(r)' =>
            /\ events[r] \subseteq events'[r]
            /\ IsTerminal(r) => runs'[r] = runs[r] /\ events'[r] = events[r]]_store
    BY GrowStep
<1> QED
    BY <1>1, InvHolds, PTL DEF Spec, LogOnlyGrows

(* A settled message is not written again: it stays, or goes with its run.  *)
THEOREM SettledIsFinalHolds == Spec => SettledIsFinal
<1>1. ASSUME Inv, [Next]_store, NEW r \in Runs, messages[r].settled
      PROVE  messages'[r] \in {messages[r], Unmanaged}
    <2>1. RowStep(r)
        BY <1>1, EveryRowSteps DEF Inv
    <2>2. ~IsActive(r)
        BY <1>1 DEF Inv, MessageFollowsRun, Row, IsActive, IsTerminal, ACTIVE_STATUSES, TERMINAL_STATUSES
    <2>3. ~Saved(r)
        BY <1>1 DEF Saved, SaveMessage, Unsettled
    <2>4. ~CreateRun(r)
        BY <1>1 DEF CreateRun, NewId, Inv, UnusedIsUnmanaged, Unmanaged
    <2> QED
        BY <2>1, <2>2, <2>3, <2>4 DEF RowStep, Untouched, LeaseMoved, Produced, Advanced, Ended, Gone,
                                      IsActive, ACTIVE_STATUSES
<1>2. Inv /\ [Next]_store => [\A r \in Runs :
            messages[r].settled => messages'[r] \in {messages[r], Unmanaged}]_store
    BY <1>1
<1> QED
    BY <1>2, InvHolds, PTL DEF Spec, SettledIsFinal

(* The tables agree with each other.                                        *)
THEOREM ConsistentHolds == Spec => []Consistent
<1>1. Inv => Consistent
    BY DEF Inv, Consistent
<1> QED
    BY <1>1, InvHolds, PTL

(* What was recorded of a run stays, in its log and in its message.         *)
THEOREM RecordsStayHolds == Spec => RecordsStay
    BY LogOnlyGrowsHolds, SettledIsFinalHolds, PTL DEF RecordsStay
=============================================================================
