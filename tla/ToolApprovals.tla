--------------------------- MODULE ToolApprovals ----------------------------
(***************************************************************************)
(* state/tool_approvals.py: the calls of a tool loop that wait for the      *)
(* user's Allow or Deny, with the loop that asks (core/inference/           *)
(* llama_cpp.py, studio_tool_loop.py), the confirmations of routes/         *)
(* inference.py, Stop, the lease of a durable run and its sweeper, and the  *)
(* followers of RunSubscribers, which keep a durable approval open.         *)
(*                                                                          *)
(* A loop asks for one call at a time.  Each step is what runs under _lock, *)
(* or between two polls of the waiting thread.  Time is counted in polls: a *)
(* waiting thread polls once in each.                                       *)
(***************************************************************************)
EXTENDS RunSubscribers, FiniteSets

CONSTANTS
    Calls,              \* bound: a loop asks for calls 1..Calls
    ParkTimeout,        \* _PARK_TIMEOUT_S
    DecisionTimeout,    \* _DECISION_TIMEOUT, and the timeout of the callers
    RenewEvery,         \* _LEASE_RENEW_EVERY_S
    LeaseTimeout,       \* the sweeper's lease of a run without progress
    MaxFaults,          \* bound: renewals that raise
    None

ASSUME TimesAssumption ==
    /\ Calls \in Nat \ {0} /\ DecisionTimeout \in Nat \ {0} /\ MaxFaults \in Nat
    /\ ParkTimeout \in Nat \ {0}     \* "0 denies at the first 500ms poll, not instantly"
    /\ RenewEvery \in Nat \ {0}
    /\ LeaseTimeout \in Nat /\ LeaseTimeout > (ParkTimeout + RenewEvery - 1) * (MaxFaults + 1)
ASSUME NoneAssumption == None \notin {"allow", "deny", "answered", "cancelled", "expired"}

VARIABLES
    slots,      \* the slot of each call, and whether it is in _pending
    loops,      \* the loop of each run and its LiveToolPermissions
    waiters,    \* the thread in wait_tool_decision
    cancelled,  \* runs whose cancel event is set
    leases,     \* how long ago a durable run that asks made progress
    faults,     \* renewals that raised
    answers,    \* what each call's user was told is recorded
    verdicts    \* what each call's waiter returned, and why

vars == <<slots, loops, waiters, cancelled, leases, faults, answers, verdicts, followersVars>>
decided == <<answers, verdicts>>

(* Runs of the server's own, whose cancel event says so, against those a    *)
(* browser waits for.                                                       *)
Durable == {r \in Runs : loops[r].durable}

CallIds == 1..Calls
Verdicts == {"allow", "deny"}
Reasons == {"answered", "cancelled", "expired"}

NoSlot == [pending |-> FALSE, event |-> FALSE, decision |-> None, reason |-> None, bound |-> FALSE]
NoWaiter == [at |-> "none", call |-> 0, waited |-> 0, total |-> 0, renewed |-> None, polled |-> FALSE,
             verdict |-> None, reason |-> None]

TypeOK ==
    /\ FollowersTypeOK
    /\ slots \in [Runs -> [CallIds ->
           [pending : BOOLEAN, event : BOOLEAN, decision : Verdicts \cup {None},
            reason : Reasons \cup {None}, bound : BOOLEAN]]]
    /\ loops \in [Runs -> [at : {"thinking", "asking", "blocked", "closed"}, call : 0..Calls,
                        full : BOOLEAN, durable : BOOLEAN]]
    /\ waiters \in [Runs ->
           [at : {"none", "waiting", "settling", "leaving"}, call : 0..Calls, waited : Nat,
            total : Nat, renewed : Nat \cup {None}, polled : BOOLEAN,
            verdict : Verdicts \cup {None}, reason : Reasons \cup {None}]]
    /\ \A r \in Runs : waiters[r].at = "leaving" => waiters[r].verdict \in Verdicts
    /\ cancelled \subseteq Runs
    /\ leases \in [Runs -> Nat]
    /\ faults \in Nat
    /\ answers \in [Runs -> [CallIds -> Verdicts \cup {None}]]
    /\ verdicts \in [Runs -> [CallIds -> [verdict : Verdicts \cup {None}, reason : Reasons \cup {None}]]]

Init ==
    /\ FollowersInit
    /\ slots = [r \in Runs |-> [c \in CallIds |-> NoSlot]]
    /\ loops \in [Runs -> [at : {"thinking"}, call : {0}, full : {FALSE}, durable : BOOLEAN]]
    /\ waiters = [r \in Runs |-> NoWaiter]
    /\ cancelled = {}
    /\ leases = [r \in Runs |-> 0]
    /\ faults = 0
    /\ answers = [r \in Runs |-> [c \in CallIds |-> None]]
    /\ verdicts = [r \in Runs |-> [c \in CallIds |-> [verdict |-> None, reason |-> None]]]

-----------------------------------------------------------------------------
(* The loop                                                                 *)

(* begin_tool_decision, bind_permission_upgrade and the card, which is      *)
(* progress of the run.  With full access only the disclosure of an image   *)
(* is still asked for, and that never grants anything.                      *)
Ask(r) ==
    \E eligible \in BOOLEAN :
        /\ loops[r].at = "thinking" /\ loops[r].call < Calls
        /\ loops[r].full => ~eligible
        /\ loops' = [loops EXCEPT ![r].at = "asking", ![r].call = @ + 1]
        /\ slots' = [slots EXCEPT ![r][loops[r].call + 1] = [NoSlot EXCEPT !.pending = TRUE, !.bound = eligible]]
        /\ leases' = [leases EXCEPT ![r] = 0]
        /\ UNCHANGED <<waiters, cancelled, faults, decided, followersVars>>

Wait(r) ==
    /\ loops[r].at = "asking"
    /\ loops' = [loops EXCEPT ![r].at = "blocked"]
    /\ waiters' = [waiters EXCEPT ![r] = [NoWaiter EXCEPT !.at = "waiting", !.call = loops[r].call]]
    /\ UNCHANGED <<slots, cancelled, leases, faults, decided, followersVars>>

(* Variant: the slot is left to its waiter.                                 *)
AbortLeaves(slot) == slot
(* abort_tool_decision                                                      *)
Aborted(slot) == [slot EXCEPT !.pending = FALSE]

(* The stream of the loop is closed: before it waits, or, where the loop    *)
(* waits for its thread as a task, while it does.  The run is over.         *)
Close(r) ==
    /\ loops[r].at # "closed"
    /\ loops' = [loops EXCEPT ![r].at = "closed"]
    /\ IF loops[r].at \in {"asking", "blocked"}
       THEN slots' = [slots EXCEPT ![r][loops[r].call] = Aborted(@)]
       ELSE UNCHANGED slots
    /\ leases' = [leases EXCEPT ![r] = 0]
    /\ UNCHANGED <<waiters, cancelled, faults, decided, followersVars>>

-----------------------------------------------------------------------------
(* wait_tool_decision                                                       *)

Give(r, verdict, reason) ==
    waiters' = [waiters EXCEPT ![r].at = "settling", ![r].polled = TRUE,
                               ![r].verdict = verdict, ![r].reason = reason]

(* The numbers stop where nothing compares them any more.                   *)
UpTo(n, limit) == IF n < limit THEN n + 1 ELSE limit
Counted(w) ==
    [w EXCEPT !.polled = TRUE, !.waited = @ + 1, !.total = UpTo(@, DecisionTimeout),
              !.renewed = IF @ = None THEN None ELSE UpTo(@, RenewEvery)]

(* Variant: renewed once.                                                   *)
RenewalOnce(w) == w.renewed = None
RenewalDue(w) == w.renewed = None \/ w.renewed + 1 >= RenewEvery

(* Variant: counted from the last follower.                                 *)
OverdueAlone(w) == w.waited + 1 >= DecisionTimeout
(* A follower takes "waited" back to 0, and never "total".                  *)
Overdue(w) == w.total + 1 >= DecisionTimeout

(* The poll of a run that a browser waits for                               *)
PollOwned(r) ==
    /\ r \notin Durable
    /\ IF Overdue(waiters[r])
       THEN Give(r, "deny", "expired")
       ELSE waiters' = [waiters EXCEPT ![r] = Counted(waiters[r])]
    /\ UNCHANGED <<leases, faults>>

(* The polls of a durable one                                               *)
Watched(r, w) ==
    /\ ~Overdue(w)
    /\ IsAttended(r)
    /\ IF RenewalDue(w)
       THEN /\ waiters' = [waiters EXCEPT ![r] = [Counted(w) EXCEPT !.waited = 0, !.renewed = 0]]
            /\ \/ leases' = [leases EXCEPT ![r] = 0] /\ UNCHANGED faults
               \/ faults < MaxFaults /\ faults' = faults + 1 /\ UNCHANGED leases
       ELSE /\ waiters' = [waiters EXCEPT ![r] = [Counted(w) EXCEPT !.waited = 0]]
            /\ UNCHANGED <<leases, faults>>

Unwatched(r, w) ==
    /\ Overdue(w) \/ ~IsAttended(r)
    /\ IF Overdue(w) \/ w.waited + 1 >= ParkTimeout
       THEN Give(r, "deny", "expired")
       ELSE waiters' = [waiters EXCEPT ![r] = Counted(w)]
    /\ UNCHANGED <<leases, faults>>

(* A poll finds no answer.  Whatever it then decides, an answer may come    *)
(* before it has the lock.                                                  *)
Poll(r) ==
    /\ waiters[r].at = "waiting" /\ ~waiters[r].polled
    /\ ~slots[r][waiters[r].call].event
    /\ IF r \in cancelled
       THEN Give(r, "deny", "cancelled") /\ UNCHANGED <<leases, faults>>
       ELSE \/ PollOwned(r)
            \/ r \in Durable /\ (Watched(r, waiters[r]) \/ Unwatched(r, waiters[r]))
    /\ UNCHANGED <<slots, loops, cancelled, decided, followersVars>>

Answered(r) ==
    /\ waiters[r].at = "waiting" /\ slots[r][waiters[r].call].event
    /\ Give(r, slots[r][waiters[r].call].decision, "answered")
    /\ UNCHANGED <<slots, loops, cancelled, leases, faults, decided, followersVars>>

(* Variant: what the poll decided.                                          *)
SettleAsPlanned(slot, w) == [verdict |-> w.verdict, reason |-> w.reason]
(* _settle: an answer that was recorded first wins.                         *)
Settlement(slot, w) ==
    IF slot.event THEN [verdict |-> slot.decision, reason |-> "answered"]
    ELSE [verdict |-> w.verdict, reason |-> w.reason]

Settle(r) ==
    LET w == waiters[r]
        s == Settlement(slots[r][w.call], w)
    IN  /\ w.at = "settling"
        /\ waiters' = [waiters EXCEPT ![r].at = "leaving", ![r].verdict = s.verdict, ![r].reason = s.reason]
        /\ slots' = [slots EXCEPT ![r][w.call].reason = s.reason]
        /\ UNCHANGED <<loops, cancelled, leases, faults, decided, followersVars>>

(* The slot is taken out of _pending, and the loop goes on with the         *)
(* verdict, if it is still there.                                           *)
Leave(r) ==
    LET w == waiters[r]
    IN  /\ w.at = "leaving"
        /\ waiters' = [waiters EXCEPT ![r] = NoWaiter]
        /\ slots' = [slots EXCEPT ![r][w.call] = NoSlot]
        /\ verdicts' = [verdicts EXCEPT ![r][w.call] = [verdict |-> w.verdict, reason |-> w.reason]]
        /\ loops' = [loops EXCEPT ![r].at = IF @ = "blocked" THEN "thinking" ELSE @]
        /\ leases' = [leases EXCEPT ![r] = 0]
        /\ UNCHANGED <<cancelled, faults, answers, followersVars>>

-----------------------------------------------------------------------------
(* The user, Stop, the sweeper and time                                     *)

Accepts(r, c, decision, full) ==
    /\ slots[r][c].pending /\ ~slots[r][c].event /\ slots[r][c].reason = None
    /\ full => decision = "allow" /\ slots[r][c].bound /\ r \notin cancelled

(* resolve_tool_decision answers True; every other confirmation is refused  *)
(* and changes nothing.                                                     *)
Resolve(r) ==
    \E c \in CallIds, decision \in Verdicts, full \in BOOLEAN :
        /\ Accepts(r, c, decision, full)
        /\ slots' = [slots EXCEPT ![r][c].event = TRUE, ![r][c].decision = decision]
        /\ loops' = [loops EXCEPT ![r].full = @ \/ full]
        /\ answers' = [answers EXCEPT ![r][c] = decision]
        /\ UNCHANGED <<waiters, cancelled, leases, faults, verdicts, followersVars>>

Stop(r) ==
    /\ cancelled' = cancelled \cup {r}
    /\ UNCHANGED <<slots, loops, waiters, leases, faults, decided, followersVars>>

(* A durable run without progress for too long is settled, and stopped.     *)
(* While the loop thinks that may be any time.                              *)
Sweep(r) ==
    /\ r \in Durable
    /\ loops[r].at = "thinking" \/ leases[r] >= LeaseTimeout
    /\ cancelled' = cancelled \cup {r}
    /\ UNCHANGED <<slots, loops, waiters, leases, faults, decided, followersVars>>

Stream(f) ==
    /\ Follows[f] \in Durable
    /\ MarkSeen(f) \/ Depart(f)
    /\ UNCHANGED <<slots, loops, waiters, cancelled, leases, faults, decided>>

(* A thread that waits polls once in each unit of time, and the task that   *)
(* reads a durable run's stream goes on from the card to the wait.          *)
Tick ==
    /\ \A r \in Runs : waiters[r].at = "waiting" => waiters[r].polled
    /\ \A r \in Durable : loops[r].at # "asking"
    /\ StreamsTurn
    /\ stamps' = Older
    /\ waiters' = [r \in Runs |-> [waiters[r] EXCEPT !.polled = FALSE]]
    /\ leases' = [r \in Runs |->
           IF r \in Durable /\ loops[r].at = "blocked" THEN UpTo(leases[r], LeaseTimeout) ELSE leases[r]]
    /\ UNCHANGED <<slots, loops, cancelled, faults, decided, streams>>

Waiting(r) == Poll(r) \/ Answered(r) \/ Settle(r) \/ Leave(r)
Next ==
    \/ \E r \in Runs : Ask(r) \/ Wait(r) \/ Close(r) \/ Waiting(r) \/ Resolve(r) \/ Stop(r) \/ Sweep(r)
    \/ \E f \in Followers : Stream(f)
    \/ Tick

Spec == Init /\ [][Next]_vars
(* Threads are scheduled, streams turn and time passes.                     *)
FairSpec ==
    /\ Spec
    /\ \A r \in Runs : WF_vars(r \in Durable /\ Wait(r)) /\ WF_vars(Waiting(r))
    /\ \A f \in Followers : WF_vars(f \in streams /\ Stream(f))
    /\ WF_vars(Tick)

-----------------------------------------------------------------------------
(* The answer the user was told is recorded is the one the loop acts on,    *)
(* against Stop, the expiry and every other confirmation: nothing else is   *)
(* allowed, no answer is taken back, what the model is told of the outcome  *)
(* is true, and full access rests on an Allow that was given.               *)
AnswerIsKept ==
    \A r \in Runs :
        /\ \A c \in CallIds :
            LET v == verdicts[r][c]
            IN  v.verdict # None =>
                    /\ answers[r][c] # None => v.verdict = answers[r][c]
                    /\ v.verdict = "allow" => answers[r][c] = "allow"
                    /\ v.reason = "answered" <=> answers[r][c] # None
        /\ loops[r].full => \E c \in CallIds : answers[r][c] = "allow"

(* A confirmation that is still accepted has a loop that will read it: a    *)
(* reopened tab never shows buttons for a call nobody waits for.            *)
PendingIsAwaited ==
    \A r \in Runs, c \in CallIds :
        \E decision \in Verdicts : Accepts(r, c, decision, FALSE)
            => loops[r].at \in {"asking", "blocked"} /\ loops[r].call = c

(* The slots agree with the loops that wait for them.                       *)
Consistent == TypeOK /\ PendingIsAwaited

(* The park of a run that a tab follows ends with its answer, a Stop, or    *)
(* the hour, however many other tabs come and go.                           *)
WatchedParkLasts ==
    [][\A r \in Durable :
        (/\ waiters[r].at = "waiting" /\ waiters'[r].at = "settling" /\ waiters'[r].reason = "expired"
         /\ \E f \in streams : Follows[f] = r)
        => Overdue(waiters[r])]_vars

(* The lease sweeper never takes a run that waits for an approval: a park   *)
(* nobody follows expires first, and one that is followed renews.           *)
ParkIsNotSwept ==
    \A r \in Durable : waiters[r].at = "waiting" => leases[r] < LeaseTimeout

(* Every wait ends, with a tab that stays for good or one whose stamp was   *)
(* never taken back, and with the loop gone.                                *)
WaitsEnd == \A r \in Runs : waiters[r].at # "none" ~> waiters[r].at = "none"
=============================================================================
