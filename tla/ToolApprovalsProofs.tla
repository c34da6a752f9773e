------------------------- MODULE ToolApprovalsProofs ------------------------
(***************************************************************************)
(* Proofs about ToolApprovals: the answer that was recorded is the one the  *)
(* loop acts on, a park that is followed lasts, and none is swept, for any  *)
(* number of runs, calls and tabs and any times that TimesAssumption allows. *)
(*                                                                          *)
(* Runs share nothing but the followers, so most of the proof is about the  *)
(* state of one run: S its slots, L its loop, W its waiter, A its answers   *)
(* and V its verdicts.                                                      *)
(***************************************************************************)
EXTENDS ToolApprovals, TLAPS

Slot ==
    [pending : BOOLEAN, event : BOOLEAN, decision : Verdicts \cup {None},
     reason : Reasons \cup {None}, bound : BOOLEAN]
Loop ==
    [at : {"thinking", "asking", "blocked", "closed"}, call : 0..Calls, full : BOOLEAN,
     durable : BOOLEAN]
Waiter ==
    [at : {"none", "waiting", "settling", "leaving"}, call : 0..Calls, waited : Nat, total : Nat,
     renewed : Nat \cup {None}, polled : BOOLEAN, verdict : Verdicts \cup {None},
     reason : Reasons \cup {None}]
Outcome == [verdict : Verdicts \cup {None}, reason : Reasons \cup {None}]

RunTypes(S, L, W, A, V) ==
    /\ S \in [CallIds -> Slot]
    /\ L \in Loop
    /\ W \in Waiter
    /\ A \in [CallIds -> Verdicts \cup {None}]
    /\ V \in [CallIds -> Outcome]

-----------------------------------------------------------------------------
(* The inductive invariant of a run.  It has one call in the making: its    *)
(* loop asks for it, or waits for the thread that waits for the user, or    *)
(* has been closed over it.                                                 *)

WaiterOfLoop(L, W) ==
    /\ L.at \in {"asking", "blocked"} => L.call \in CallIds
    /\ W.at # "none" => W.call = L.call /\ W.call \in CallIds /\ L.at \in {"blocked", "closed"}
    /\ L.at = "blocked" => W.at # "none"

(* A slot says whether an answer was recorded, and which, for as long as    *)
(* the call is in the making.                                               *)
InTheMaking(c, L, W) == c = L.call /\ (L.at = "asking" \/ W.at # "none")
SlotSays(S, L, W, A) ==
    \A c \in CallIds :
        /\ S[c].event <=> S[c].decision # None
        /\ S[c].event => A[c] = S[c].decision
        /\ S[c].pending => c = L.call /\ L.at \in {"asking", "blocked"}
        /\ InTheMaking(c, L, W) /\ A[c] # None => S[c].event

(* What the waiter has settled is what the slot says, and is not overtaken: *)
(* from then on the slot has a reason.                                      *)
WaiterSays(S, W) ==
    /\ W.at = "settling" =>
          \/ W.reason = "answered" /\ S[W.call].event /\ W.verdict = S[W.call].decision
          \/ W.reason \in {"cancelled", "expired"} /\ W.verdict = "deny"
    /\ W.at = "leaving" =>
          /\ S[W.call].reason # None
          /\ S[W.call].event => W.verdict = S[W.call].decision /\ W.reason = "answered"
          /\ ~S[W.call].event => W.verdict = "deny" /\ W.reason \in {"cancelled", "expired"}

(* Calls that were not asked for yet have no answer and no verdict; a call  *)
(* has its verdict once its waiter has left.                                *)
Untouched(L, A, V) == \A c \in CallIds : c > L.call => A[c] = None /\ V[c].verdict = None
VerdictLast(S, L, W, V) ==
    \A c \in CallIds :
        V[c].verdict # None => ~S[c].pending /\ ~InTheMaking(c, L, W)

(* AnswerIsKept, of a run.                                                  *)
VerdictIsAnswer(a, v) ==
    v.verdict # None =>
        /\ a # None => v.verdict = a
        /\ v.verdict = "allow" => a = "allow"
        /\ v.reason = "answered" <=> a # None
Kept(L, A, V) ==
    /\ \A c \in CallIds : VerdictIsAnswer(A[c], V[c])
    /\ L.full => \E c \in CallIds : A[c] = "allow"

RunInv(S, L, W, A, V) ==
    /\ RunTypes(S, L, W, A, V)
    /\ WaiterOfLoop(L, W) /\ SlotSays(S, L, W, A) /\ WaiterSays(S, W)
    /\ Untouched(L, A, V) /\ VerdictLast(S, L, W, V) /\ Kept(L, A, V)

ApprovalInv ==
    /\ slots = [r \in Runs |-> slots[r]] /\ loops = [r \in Runs |-> loops[r]]
    /\ waiters = [r \in Runs |-> waiters[r]]
    /\ answers = [r \in Runs |-> answers[r]] /\ verdicts = [r \in Runs |-> verdicts[r]]
    /\ \A r \in Runs : RunInv(slots[r], loops[r], waiters[r], answers[r], verdicts[r])

(* The age of the lease of a run that waits.  It is at most one unwatched   *)
(* park, and what is left of a renewal's interval before it, since the last *)
(* renewal that was tried; and a renewal that failed added as much.         *)
Patience == ParkTimeout + RenewEvery - 1
Behind(w) == IF w.polled THEN 0 ELSE 1
LeaseFollows(L, W, lease, failed) ==
    /\ lease \in Nat
    /\ L.durable =>
        /\ L.at = "asking" => lease = 0
        /\ W.at = "waiting" =>
              /\ W.waited < ParkTimeout
              /\ lease <= Patience * failed + W.waited + (RenewEvery - 1) + Behind(W)
              /\ (W.renewed # None /\ W.renewed < RenewEvery)
                    => lease <= Patience * failed + W.renewed + Behind(W)
ParkInv ==
    /\ faults \in 0..MaxFaults
    /\ leases = [r \in Runs |-> leases[r]]
    /\ \A r \in Runs : LeaseFollows(loops[r], waiters[r], leases[r], faults)

(* An open stream has stamped no longer than one of its turns ago.          *)
FollowersInv == FollowersTypeOK /\ \A f \in streams : stamps[f] <= KeepAlive

IInv == ApprovalInv /\ ParkInv /\ FollowersInv /\ cancelled \subseteq Runs

-----------------------------------------------------------------------------

(* What a poll may make of the times of its waiter: Counted, with "waited"  *)
(* taken back, and the renewal's time too.                                  *)
CountedTo(w, watched, due) ==
    IF watched THEN IF due THEN [Counted(w) EXCEPT !.waited = 0, !.renewed = 0]
                    ELSE [Counted(w) EXCEPT !.waited = 0]
    ELSE Counted(w)

(* A poll changes the times of its waiter and nothing else.                 *)
LEMMA CountedWaiter ==
    ASSUME NEW w \in Waiter, NEW watched \in BOOLEAN, NEW due \in BOOLEAN
    PROVE  /\ CountedTo(w, watched, due) \in Waiter
           /\ CountedTo(w, watched, due).at = w.at /\ CountedTo(w, watched, due).call = w.call
           /\ CountedTo(w, watched, due).verdict = w.verdict /\ CountedTo(w, watched, due).reason = w.reason
<1>1. \A n \in Nat, limit \in Nat : UpTo(n, limit) \in Nat
    BY DEF UpTo
<1>2. DecisionTimeout \in Nat /\ RenewEvery \in Nat
    BY TimesAssumption
<1>3. /\ w.waited \in Nat /\ UpTo(w.total, DecisionTimeout) \in Nat
      /\ (IF w.renewed = None THEN None ELSE UpTo(w.renewed, RenewEvery)) \in Nat \cup {None}
    BY <1>1, <1>2 DEF Waiter
<1>5. /\ Counted(w) \in Waiter
      /\ Counted(w).at = w.at /\ Counted(w).call = w.call
      /\ Counted(w).verdict = w.verdict /\ Counted(w).reason = w.reason
    <2>1. PICK T \in Nat, N \in Nat \cup {None} :
            /\ T = UpTo(w.total, DecisionTimeout)
            /\ N = IF w.renewed = None THEN None ELSE UpTo(w.renewed, RenewEvery)
        BY <1>3
    <2>2. /\ Counted(w) = [w EXCEPT !.polled = TRUE, !.waited = w.waited + 1, !.total = T, !.renewed = N]
          /\ w.waited + 1 \in Nat
        BY <1>3, <2>1 DEF Counted, Waiter
    <2> QED
        BY <2>2 DEF Waiter
<1> QED
    BY <1>5 DEF CountedTo, Waiter

(* What happens to the calls of one run                                     *)

USE NoneAssumption DEF Verdicts, Reasons, CallIds

(* The state of a run r changes, that of the others does not.               *)
OnlyRun(r) ==
    /\ slots' = [slots EXCEPT ![r] = slots'[r]] /\ loops' = [loops EXCEPT ![r] = loops'[r]]
    /\ waiters' = [waiters EXCEPT ![r] = waiters'[r]]
    /\ answers' = [answers EXCEPT ![r] = answers'[r]]
    /\ verdicts' = [verdicts EXCEPT ![r] = verdicts'[r]]

(* A step of one run keeps the invariant when it keeps that of the run.     *)
LEMMA OneRun ==
    ASSUME ApprovalInv, NEW r \in Runs, OnlyRun(r),
           RunInv(slots'[r], loops'[r], waiters'[r], answers'[r], verdicts'[r])
    PROVE  ApprovalInv'
<1>1. ASSUME NEW q \in Runs, q # r
      PROVE  /\ slots'[q] = slots[q] /\ loops'[q] = loops[q] /\ waiters'[q] = waiters[q]
             /\ answers'[q] = answers[q] /\ verdicts'[q] = verdicts[q]
    BY <1>1 DEF ApprovalInv, OnlyRun
<1>2. \A q \in Runs : RunInv(slots'[q], loops'[q], waiters'[q], answers'[q], verdicts'[q])
    BY <1>1 DEF ApprovalInv
<1>3. /\ slots' = [q \in Runs |-> slots'[q]] /\ loops' = [q \in Runs |-> loops'[q]]
      /\ waiters' = [q \in Runs |-> waiters'[q]]
      /\ answers' = [q \in Runs |-> answers'[q]] /\ verdicts' = [q \in Runs |-> verdicts'[q]]
    BY DEF ApprovalInv, OnlyRun
<1> QED
    BY <1>2, <1>3 DEF ApprovalInv

(* The loop of a run asks for its next call.                                *)
LEMMA AskRun ==
    ASSUME NEW S, NEW L, NEW W, NEW A, NEW V, RunInv(S, L, W, A, V), NEW eligible \in BOOLEAN,
           L.at = "thinking", L.call < Calls
    PROVE  RunInv([S EXCEPT ![L.call + 1] = [NoSlot EXCEPT !.pending = TRUE, !.bound = eligible]],
                  [L EXCEPT !.at = "asking", !.call = @ + 1], W, A, V)
<1> DEFINE S2 == [S EXCEPT ![L.call + 1] = [NoSlot EXCEPT !.pending = TRUE, !.bound = eligible]]
           L2 == [L EXCEPT !.at = "asking", !.call = @ + 1]
<1>0. RunTypes(S, L, W, A, V) /\ L.call + 1 \in CallIds /\ Calls \in Nat
    BY TimesAssumption DEF RunInv, RunTypes, Loop
<1>1. RunTypes(S2, L2, W, A, V)
    <2>1. [NoSlot EXCEPT !.pending = TRUE, !.bound = eligible] \in Slot
        BY DEF NoSlot, Slot
    <2>2. S2 \in [CallIds -> Slot]
        BY <1>0, <2>1 DEF RunTypes
    <2>3. L2 \in Loop
        <3>1. L \in Loop /\ L.call + 1 \in 0..Calls
            BY <1>0 DEF RunTypes
        <3>2. \A n \in 0..Calls : [L EXCEPT !.at = "asking", !.call = n] \in Loop
            BY <3>1 DEF Loop
        <3> QED
            BY <3>1, <3>2
    <2> QED
        BY <1>0, <2>2, <2>3 DEF RunTypes
<1>2. WaiterOfLoop(L2, W)
    BY <1>0 DEF RunTypes, Loop, RunInv, WaiterOfLoop
<1>3. SlotSays(S2, L2, W, A)
    BY <1>0 DEF RunTypes, Loop, RunInv, WaiterOfLoop, SlotSays, Untouched, InTheMaking, NoSlot
<1>4. WaiterSays(S2, W)
    BY <1>0 DEF RunTypes, Loop, RunInv, WaiterOfLoop, WaiterSays
<1>5. Untouched(L2, A, V) /\ Kept(L2, A, V)
    BY <1>0 DEF RunTypes, Loop, RunInv, Untouched, Kept
<1>6. VerdictLast(S2, L2, W, V)
    BY <1>0 DEF RunTypes, Loop, RunInv, WaiterOfLoop, Untouched, VerdictLast, InTheMaking
<1> QED
    BY <1>1, <1>2, <1>3, <1>4, <1>5, <1>6 DEF RunInv

(* Its loop waits for the thread in wait_tool_decision.                     *)
LEMMA WaitRun ==
    ASSUME NEW S, NEW L, NEW W, NEW A, NEW V, RunInv(S, L, W, A, V), L.at = "asking"
    PROVE  RunInv(S, [L EXCEPT !.at = "blocked"], [NoWaiter EXCEPT !.at = "waiting", !.call = L.call], A, V)
<1> DEFINE L2 == [L EXCEPT !.at = "blocked"]
           W2 == [NoWaiter EXCEPT !.at = "waiting", !.call = L.call]
<1>0. RunTypes(S, L, W, A, V) /\ WaiterOfLoop(L, W)
    BY DEF RunInv
<1>1. RunTypes(S, L2, W2, A, V)
    BY <1>0 DEF RunTypes, WaiterOfLoop, NoSlot, NoWaiter, Slot, Loop, Waiter, Outcome
<1>2. WaiterOfLoop(L2, W2)
    BY <1>0 DEF RunTypes, Loop, Waiter, WaiterOfLoop, NoWaiter
<1>3. SlotSays(S, L2, W2, A)
    BY <1>0 DEF RunTypes, Slot, Loop, Waiter, RunInv, WaiterOfLoop, SlotSays, InTheMaking, NoSlot, NoWaiter
<1>4. WaiterSays(S, W2)
    BY <1>0 DEF RunTypes, Slot, Waiter, RunInv, WaiterOfLoop, SlotSays, InTheMaking, WaiterSays, NoWaiter
<1>5. Untouched(L2, A, V) /\ Kept(L2, A, V)
    BY <1>0 DEF RunTypes, Loop, Outcome, RunInv, WaiterOfLoop, SlotSays, WaiterSays, Untouched, Kept, InTheMaking, VerdictIsAnswer
<1>6. VerdictLast(S, L2, W2, V)
    BY <1>0 DEF RunTypes, Slot, Loop, Waiter, RunInv, WaiterOfLoop, SlotSays, WaiterSays, VerdictLast, InTheMaking, NoSlot, NoWaiter
<1> QED
    BY <1>1, <1>2, <1>3, <1>4, <1>5, <1>6 DEF RunInv

(* The stream is closed; a call it was making is taken out of _pending.     *)
LEMMA CloseRun ==
    ASSUME NEW S, NEW L, NEW W, NEW A, NEW V, RunInv(S, L, W, A, V), L.at \in {"asking", "blocked"}
    PROVE  RunInv([S EXCEPT ![L.call].pending = FALSE], [L EXCEPT !.at = "closed"], W, A, V)
<1> DEFINE S2 == [S EXCEPT ![L.call].pending = FALSE]
           L2 == [L EXCEPT !.at = "closed"]
<1>0. RunTypes(S, L, W, A, V) /\ WaiterOfLoop(L, W)
    BY DEF RunInv
<1>1. RunTypes(S2, L2, W, A, V)
    <2>1. S2 \in [CallIds -> Slot]
        BY <1>0 DEF RunTypes, WaiterOfLoop, Slot
    <2>2. L2 \in Loop
        BY <1>0 DEF RunTypes, Loop
    <2> QED
        BY <1>0, <2>1, <2>2 DEF RunTypes
<1>2. WaiterOfLoop(L2, W)
    BY <1>0 DEF RunTypes, Loop, Waiter, WaiterOfLoop, NoWaiter
<1>3. SlotSays(S2, L2, W, A)
    BY <1>0 DEF RunTypes, Slot, Loop, Waiter, RunInv, WaiterOfLoop, SlotSays, InTheMaking, NoSlot, NoWaiter
<1>4. WaiterSays(S2, W)
    BY <1>0 DEF RunTypes, Slot, Waiter, RunInv, WaiterOfLoop, SlotSays, InTheMaking, WaiterSays, NoWaiter
<1>5. Untouched(L2, A, V) /\ Kept(L2, A, V)
    BY <1>0 DEF RunTypes, Loop, Outcome, RunInv, WaiterOfLoop, SlotSays, WaiterSays, Untouched, Kept, InTheMaking, VerdictIsAnswer
<1>6. VerdictLast(S2, L2, W, V)
    BY <1>0 DEF RunTypes, Slot, Loop, Waiter, RunInv, WaiterOfLoop, SlotSays, WaiterSays, VerdictLast, InTheMaking, NoSlot, NoWaiter
<1> QED
    BY <1>1, <1>2, <1>3, <1>4, <1>5, <1>6 DEF RunInv

(* The stream is closed between two calls.                                  *)
LEMMA CloseIdleRun ==
    ASSUME NEW S, NEW L, NEW W, NEW A, NEW V, RunInv(S, L, W, A, V), L.at \notin {"asking", "blocked"}
    PROVE  RunInv(S, [L EXCEPT !.at = "closed"], W, A, V)
<1> DEFINE L2 == [L EXCEPT !.at = "closed"]
<1>0. RunTypes(S, L, W, A, V) /\ WaiterOfLoop(L, W)
    BY DEF RunInv
<1>1. RunTypes(S, L2, W, A, V)
    BY <1>0 DEF RunTypes, WaiterOfLoop, NoSlot, NoWaiter, Slot, Loop, Waiter, Outcome
<1>2. WaiterOfLoop(L2, W)
    BY <1>0 DEF RunTypes, Loop, Waiter, WaiterOfLoop, NoWaiter
<1>3. SlotSays(S, L2, W, A)
    BY <1>0 DEF RunTypes, Slot, Loop, Waiter, RunInv, WaiterOfLoop, SlotSays, InTheMaking, NoSlot, NoWaiter
<1>4. WaiterSays(S, W)
    BY <1>0 DEF RunTypes, Slot, Waiter, RunInv, WaiterOfLoop, SlotSays, InTheMaking, WaiterSays, NoWaiter
<1>5. Untouched(L2, A, V) /\ Kept(L2, A, V)
    BY <1>0 DEF RunTypes, Loop, Outcome, RunInv, WaiterOfLoop, SlotSays, WaiterSays, Untouched, Kept, InTheMaking, VerdictIsAnswer
<1>6. VerdictLast(S, L2, W, V)
    BY <1>0 DEF RunTypes, Slot, Loop, Waiter, RunInv, WaiterOfLoop, SlotSays, WaiterSays, VerdictLast, InTheMaking, NoSlot, NoWaiter
<1> QED
    BY <1>1, <1>2, <1>3, <1>4, <1>5, <1>6 DEF RunInv

(* Only the times of the waiter change.                                     *)
LEMMA CountRun ==
    ASSUME NEW S, NEW L, NEW W, NEW A, NEW V, RunInv(S, L, W, A, V), NEW X \in Waiter,
           X.at = W.at, X.call = W.call, X.verdict = W.verdict, X.reason = W.reason
    PROVE  RunInv(S, L, X, A, V)
<1> DEFINE W2 == X
<1>0. RunTypes(S, L, W, A, V) /\ WaiterOfLoop(L, W)
    BY DEF RunInv
<1>1. RunTypes(S, L, W2, A, V)
    BY <1>0 DEF RunTypes, WaiterOfLoop, NoSlot, NoWaiter, Slot, Loop, Waiter, Outcome
<1>2. WaiterOfLoop(L, W2)
    BY <1>0 DEF RunTypes, Loop, Waiter, WaiterOfLoop, NoWaiter
<1>3. SlotSays(S, L, W2, A)
    BY <1>0 DEF RunTypes, Slot, Loop, Waiter, RunInv, WaiterOfLoop, SlotSays, InTheMaking, NoSlot, NoWaiter
<1>4. WaiterSays(S, W2)
    BY <1>0 DEF RunTypes, Slot, Waiter, RunInv, WaiterOfLoop, SlotSays, InTheMaking, WaiterSays, NoWaiter
<1>5. Untouched(L, A, V) /\ Kept(L, A, V)
    BY <1>0 DEF RunTypes, Loop, Outcome, RunInv, WaiterOfLoop, SlotSays, WaiterSays, Untouched, Kept, InTheMaking, VerdictIsAnswer
<1>6. VerdictLast(S, L, W2, V)
    BY <1>0 DEF RunTypes, Slot, Loop, Waiter, RunInv, WaiterOfLoop, SlotSays, WaiterSays, VerdictLast, InTheMaking, NoSlot, NoWaiter
<1> QED
    BY <1>1, <1>2, <1>3, <1>4, <1>5, <1>6 DEF RunInv

(* A poll with a result.                                                    *)
LEMMA GiveRun ==
    ASSUME NEW S, NEW L, NEW W, NEW A, NEW V, RunInv(S, L, W, A, V), W.at = "waiting",
           NEW verdict, NEW reason,
           \/ reason = "answered" /\ S[W.call].event /\ verdict = S[W.call].decision
           \/ reason \in {"cancelled", "expired"} /\ verdict = "deny"
    PROVE  RunInv(S, L, [W EXCEPT !.at = "settling", !.polled = TRUE, !.verdict = verdict, !.reason = reason], A, V)
<1> DEFINE W2 == [W EXCEPT !.at = "settling", !.polled = TRUE, !.verdict = verdict, !.reason = reason]
<1>0. RunTypes(S, L, W, A, V) /\ WaiterOfLoop(L, W)
    BY DEF RunInv
<1>1. RunTypes(S, L, W2, A, V)
    BY <1>0 DEF RunTypes, WaiterOfLoop, NoSlot, NoWaiter, Slot, Loop, Waiter, Outcome
<1>2. WaiterOfLoop(L, W2)
    BY <1>0 DEF RunTypes, Loop, Waiter, WaiterOfLoop, NoWaiter
<1>3. SlotSays(S, L, W2, A)
    BY <1>0 DEF RunTypes, Slot, Loop, Waiter, RunInv, WaiterOfLoop, SlotSays, InTheMaking, NoSlot, NoWaiter
<1>4. WaiterSays(S, W2)
    BY <1>0 DEF RunTypes, Slot, Waiter, RunInv, WaiterOfLoop, SlotSays, InTheMaking, WaiterSays, NoWaiter
<1>5. Untouched(L, A, V) /\ Kept(L, A, V)
    BY <1>0 DEF RunTypes, Loop, Outcome, RunInv, WaiterOfLoop, SlotSays, WaiterSays, Untouched, Kept, InTheMaking, VerdictIsAnswer
<1>6. VerdictLast(S, L, W2, V)
    BY <1>0 DEF RunTypes, Slot, Loop, Waiter, RunInv, WaiterOfLoop, SlotSays, WaiterSays, VerdictLast, InTheMaking, NoSlot, NoWaiter
<1> QED
    BY <1>1, <1>2, <1>3, <1>4, <1>5, <1>6 DEF RunInv

(* _settle: the slot has the last word.                                     *)
LEMMA SettleRun ==
    ASSUME NEW S, NEW L, NEW W, NEW A, NEW V, RunInv(S, L, W, A, V), W.at = "settling",
           NEW s, s = Settlement(S[W.call], W)
    PROVE  RunInv([S EXCEPT ![W.call].reason = s.reason], L, [W EXCEPT !.at = "leaving", !.verdict = s.verdict, !.reason = s.reason], A, V)
<1> DEFINE S2 == [S EXCEPT ![W.call].reason = s.reason]
           W2 == [W EXCEPT !.at = "leaving", !.verdict = s.verdict, !.reason = s.reason]
<1>0. RunTypes(S, L, W, A, V) /\ WaiterOfLoop(L, W)
    BY DEF RunInv
<1>1. RunTypes(S2, L, W2, A, V)
    <2>1. S[W.call] \in Slot /\ W.call \in CallIds
        BY <1>0 DEF RunTypes, WaiterOfLoop
    <2>2. s.reason \in Reasons \cup {None} /\ s.verdict \in Verdicts \cup {None}
        BY <1>0, <2>1 DEF RunTypes, Settlement, Slot, Waiter
    <2>3. [S[W.call] EXCEPT !.reason = s.reason] \in Slot
        BY <2>1, <2>2 DEF Slot
    <2>4. S2 \in [CallIds -> Slot]
        BY <1>0, <2>1, <2>3 DEF RunTypes
    <2>5. W2 \in Waiter
        BY <1>0, <2>2 DEF RunTypes, Waiter
    <2> QED
        BY <1>0, <2>4, <2>5 DEF RunTypes
<1>2. WaiterOfLoop(L, W2)
    BY <1>0 DEF RunTypes, Loop, Waiter, WaiterOfLoop, NoWaiter
<1>3. SlotSays(S2, L, W2, A)
    BY <1>0 DEF RunTypes, Slot, Loop, Waiter, RunInv, WaiterOfLoop, SlotSays, InTheMaking, NoSlot, NoWaiter
<1>4. WaiterSays(S2, W2)
    <2>1. /\ W.call \in CallIds /\ W2.call = W.call /\ W2.at = "leaving"
          /\ W2.verdict = s.verdict /\ W2.reason = s.reason
        BY <1>0 DEF RunTypes, WaiterOfLoop, Waiter
    <2>2. /\ S2[W.call].reason = s.reason /\ S2[W.call].event = S[W.call].event
          /\ S2[W.call].decision = S[W.call].decision
        BY <1>0, <2>1 DEF RunTypes, Slot
    <2>3. /\ s.reason # None
          /\ S[W.call].event => s.verdict = S[W.call].decision /\ s.reason = "answered"
          /\ ~S[W.call].event => s.verdict = "deny" /\ s.reason \in {"cancelled", "expired"}
        BY <1>0 DEF Settlement, RunInv, WaiterSays
    <2> QED
        BY <2>1, <2>2, <2>3 DEF WaiterSays
<1>5. Untouched(L, A, V) /\ Kept(L, A, V)
    BY <1>0 DEF RunTypes, Loop, Outcome, RunInv, WaiterOfLoop, SlotSays, WaiterSays, Untouched, Kept, InTheMaking, VerdictIsAnswer
<1>6. VerdictLast(S2, L, W2, V)
    BY <1>0 DEF RunTypes, Slot, Loop, Waiter, RunInv, WaiterOfLoop, SlotSays, WaiterSays, VerdictLast, InTheMaking, NoSlot, NoWaiter
<1> QED
    BY <1>1, <1>2, <1>3, <1>4, <1>5, <1>6 DEF RunInv

(* The slot is taken out of _pending, and the call has its verdict.         *)
LEMMA LeaveRun ==
    ASSUME NEW S, NEW L, NEW W, NEW A, NEW V, RunInv(S, L, W, A, V), W.at = "leaving"
    PROVE  RunInv([S EXCEPT ![W.call] = NoSlot], [L EXCEPT !.at = IF @ = "blocked" THEN "thinking" ELSE @], NoWaiter, A, [V EXCEPT ![W.call] = [verdict |-> W.verdict, reason |-> W.reason]])
<1> DEFINE S2 == [S EXCEPT ![W.call] = NoSlot]
           L2 == [L EXCEPT !.at = IF @ = "blocked" THEN "thinking" ELSE @]
           W2 == NoWaiter
           V2 == [V EXCEPT ![W.call] = [verdict |-> W.verdict, reason |-> W.reason]]
<1>0. RunTypes(S, L, W, A, V) /\ WaiterOfLoop(L, W)
    BY DEF RunInv
<1>1. RunTypes(S2, L2, W2, A, V2)
    <2>1. NoSlot \in Slot /\ NoWaiter \in Waiter
        BY TimesAssumption DEF NoSlot, Slot, NoWaiter, Waiter
    <2>2. S2 \in [CallIds -> Slot] /\ L2 \in Loop
        BY <1>0, <2>1 DEF RunTypes, Loop
    <2>3. V2 \in [CallIds -> Outcome]
        BY <1>0 DEF RunTypes, Outcome, Waiter
    <2> QED
        BY <1>0, <2>1, <2>2, <2>3 DEF RunTypes
<1>2. WaiterOfLoop(L2, W2)
    BY <1>0 DEF RunTypes, Loop, Waiter, WaiterOfLoop, NoWaiter
<1>3. SlotSays(S2, L2, W2, A)
    BY <1>0 DEF RunTypes, Slot, Loop, Waiter, RunInv, WaiterOfLoop, SlotSays, InTheMaking, NoSlot, NoWaiter
<1>4. WaiterSays(S2, W2)
    BY <1>0 DEF RunTypes, Slot, Waiter, RunInv, WaiterOfLoop, SlotSays, InTheMaking, WaiterSays, NoWaiter
<1>5. Untouched(L2, A, V2) /\ Kept(L2, A, V2)
    BY <1>0 DEF RunTypes, Loop, Outcome, RunInv, WaiterOfLoop, SlotSays, WaiterSays, Untouched, Kept, InTheMaking, VerdictIsAnswer
<1>6. VerdictLast(S2, L2, W2, V2)
    BY <1>0 DEF RunTypes, Slot, Loop, Waiter, RunInv, WaiterOfLoop, SlotSays, WaiterSays, VerdictLast, InTheMaking, NoSlot, NoWaiter
<1> QED
    BY <1>1, <1>2, <1>3, <1>4, <1>5, <1>6 DEF RunInv

(* An answer is recorded.                                                   *)
LEMMA ResolveRun ==
    ASSUME NEW S, NEW L, NEW W, NEW A, NEW V, RunInv(S, L, W, A, V), NEW c \in CallIds,
           NEW decision \in Verdicts, NEW full \in BOOLEAN, full => decision = "allow",
           S[c].pending, ~S[c].event, S[c].reason = None
    PROVE  RunInv([S EXCEPT ![c].event = TRUE, ![c].decision = decision], [L EXCEPT !.full = @ \/ full], W, [A EXCEPT ![c] = decision], V)
<1> DEFINE S2 == [S EXCEPT ![c].event = TRUE, ![c].decision = decision]
           L2 == [L EXCEPT !.full = @ \/ full]
           A2 == [A EXCEPT ![c] = decision]
<1>0. RunTypes(S, L, W, A, V) /\ WaiterOfLoop(L, W)
    BY DEF RunInv
<1>1. RunTypes(S2, L2, W, A2, V)
    <2>1. [S[c] EXCEPT !.event = TRUE, !.decision = decision] \in Slot
        <3>1. S[c] \in Slot
            BY <1>0 DEF RunTypes
        <3>2. [S[c] EXCEPT !.event = TRUE] \in Slot
            BY <3>1 DEF Slot
        <3> QED
            BY <3>2 DEF Slot
    <2>2. S2 \in [CallIds -> Slot]
        BY <1>0, <2>1 DEF RunTypes
    <2>3. L2 \in Loop /\ A2 \in [CallIds -> Verdicts \cup {None}]
        BY <1>0 DEF RunTypes, Loop
    <2> QED
        BY <1>0, <2>2, <2>3 DEF RunTypes
<1>2. WaiterOfLoop(L2, W)
    BY <1>0 DEF RunTypes, Loop, Waiter, WaiterOfLoop, NoWaiter
<1>3. SlotSays(S2, L2, W, A2)
    BY <1>0 DEF RunTypes, Slot, Loop, Waiter, RunInv, WaiterOfLoop, SlotSays, InTheMaking, NoSlot, NoWaiter
<1>4. WaiterSays(S2, W)
    BY <1>0 DEF RunTypes, Slot, Waiter, RunInv, WaiterOfLoop, SlotSays, InTheMaking, WaiterSays, NoWaiter
<1>5. Untouched(L2, A2, V) /\ Kept(L2, A2, V)
    <2>1. c = L.call /\ V[c].verdict = None
        BY <1>0 DEF RunInv, RunTypes, Outcome, SlotSays, VerdictLast
    <2>2. Untouched(L2, A2, V)
        BY <1>0, <2>1 DEF RunTypes, Loop, RunInv, Untouched
    <2>3. \A d \in CallIds : VerdictIsAnswer(A2[d], V[d])
        BY <1>0, <2>1 DEF RunTypes, RunInv, Kept, VerdictIsAnswer
    <2>4. \A d \in CallIds : A[d] = "allow" => A2[d] = "allow"
        <3>1. S[c].event <=> A[c] # None
            BY <1>0, <2>1 DEF RunInv, SlotSays, InTheMaking, WaiterOfLoop
        <3> QED
            BY <1>0, <3>1 DEF RunTypes
    <2>5. L2.full => \E d \in CallIds : A2[d] = "allow"
        BY <1>0, <2>4 DEF RunTypes, Loop, RunInv, Kept
    <2> QED
        BY <2>2, <2>3, <2>5 DEF Kept
<1>6. VerdictLast(S2, L2, W, V)
    BY <1>0 DEF RunTypes, Slot, Loop, Waiter, RunInv, WaiterOfLoop, SlotSays, WaiterSays, VerdictLast, InTheMaking, NoSlot, NoWaiter
<1> QED
    BY <1>1, <1>2, <1>3, <1>4, <1>5, <1>6 DEF RunInv

-----------------------------------------------------------------------------
(* What happens to the calls of all runs                                    *)
LEMMA RunOf ==
    ASSUME ApprovalInv, NEW r \in Runs
    PROVE  RunInv(slots[r], loops[r], waiters[r], answers[r], verdicts[r])
    BY DEF ApprovalInv

(* The invariant of the calls is inductive.                                 *)
LEMMA ApprovalInit == Init => ApprovalInv
<1> SUFFICES ASSUME Init PROVE ApprovalInv
    OBVIOUS
<1>1. NoSlot \in Slot /\ NoWaiter \in Waiter
    BY TimesAssumption DEF NoSlot, Slot, NoWaiter, Waiter
<1>2. ASSUME NEW r \in Runs
      PROVE  RunInv(slots[r], loops[r], waiters[r], answers[r], verdicts[r])
    <2>1. /\ slots[r] = [c \in CallIds |-> NoSlot] /\ waiters[r] = NoWaiter
          /\ answers[r] = [c \in CallIds |-> None]
          /\ verdicts[r] = [c \in CallIds |-> [verdict |-> None, reason |-> None]]
        BY DEF Init
    <2>2. /\ loops[r] \in [at : {"thinking"}, call : {0}, full : {FALSE}, durable : BOOLEAN]
          /\ Calls \in Nat
        BY TimesAssumption DEF Init
    <2>3. /\ loops[r] \in Loop /\ loops[r].at = "thinking" /\ loops[r].call = 0 /\ loops[r].full = FALSE
        <3>1. PICK d \in BOOLEAN : loops[r] = [at |-> "thinking", call |-> 0, full |-> FALSE, durable |-> d]
            BY <2>2
        <3> QED
            BY <2>2, <3>1 DEF Loop
    <2>4. RunTypes(slots[r], loops[r], waiters[r], answers[r], verdicts[r])
        BY <1>1, <2>1, <2>3 DEF RunTypes, Outcome
    <2>5. WaiterOfLoop(loops[r], waiters[r]) /\ WaiterSays(slots[r], waiters[r])
        BY <2>1, <2>3 DEF WaiterOfLoop, WaiterSays, NoWaiter
    <2>6. SlotSays(slots[r], loops[r], waiters[r], answers[r])
        BY <2>1, <2>3 DEF SlotSays, InTheMaking, NoSlot, NoWaiter
    <2>7. /\ Untouched(loops[r], answers[r], verdicts[r])
          /\ VerdictLast(slots[r], loops[r], waiters[r], verdicts[r])
          /\ Kept(loops[r], answers[r], verdicts[r])
        BY <2>1, <2>3 DEF Untouched, VerdictLast, Kept, VerdictIsAnswer
    <2> QED
        BY <2>4, <2>5, <2>6, <2>7 DEF RunInv
<1> QED
    BY <1>2 DEF Init, ApprovalInv

LEMMA ApprovalStep == ApprovalInv /\ [Next]_vars => ApprovalInv'
<1> SUFFICES ASSUME ApprovalInv, [Next]_vars PROVE ApprovalInv'
    OBVIOUS
<1>1. ASSUME NEW r \in Runs, Ask(r) PROVE ApprovalInv'
    <2>1. PICK eligible \in BOOLEAN :
            /\ loops[r].at = "thinking" /\ loops[r].call < Calls
            /\ loops' = [loops EXCEPT ![r].at = "asking", ![r].call = @ + 1]
            /\ slots' = [slots EXCEPT ![r][loops[r].call + 1] =
                            [NoSlot EXCEPT !.pending = TRUE, !.bound = eligible]]
            /\ UNCHANGED <<waiters, decided>>
        BY <1>1 DEF Ask
    <2>2. RunInv([slots[r] EXCEPT ![loops[r].call + 1] =
                        [NoSlot EXCEPT !.pending = TRUE, !.bound = eligible]],
                 [loops[r] EXCEPT !.at = "asking", !.call = @ + 1], waiters[r], answers[r], verdicts[r])
        BY <2>1, RunOf, AskRun
    <2>3. /\ slots'[r] = [slots[r] EXCEPT ![loops[r].call + 1] =
                            [NoSlot EXCEPT !.pending = TRUE, !.bound = eligible]]
          /\ loops'[r] = [loops[r] EXCEPT !.at = "asking", !.call = @ + 1]
          /\ waiters' = waiters /\ answers' = answers /\ verdicts' = verdicts /\ OnlyRun(r)
        BY <2>1 DEF ApprovalInv, OnlyRun, decided
    <2> QED
        BY <2>2, <2>3, OneRun
<1>2. ASSUME NEW r \in Runs, Wait(r) PROVE ApprovalInv'
    <2>1. RunInv(slots[r], [loops[r] EXCEPT !.at = "blocked"],
                 [NoWaiter EXCEPT !.at = "waiting", !.call = loops[r].call], answers[r], verdicts[r])
        BY <1>2, RunOf, WaitRun DEF Wait
    <2>2. /\ loops'[r] = [loops[r] EXCEPT !.at = "blocked"]
          /\ waiters'[r] = [NoWaiter EXCEPT !.at = "waiting", !.call = loops[r].call]
          /\ slots' = slots /\ answers' = answers /\ verdicts' = verdicts /\ OnlyRun(r)
        BY <1>2 DEF ApprovalInv, OnlyRun, decided, Wait
    <2> QED
        BY <2>1, <2>2, OneRun
<1>3. ASSUME NEW r \in Runs, Close(r) PROVE ApprovalInv'
    <2>1. CASE loops[r].at \in {"asking", "blocked"}
        <3>1. RunInv([slots[r] EXCEPT ![loops[r].call].pending = FALSE], [loops[r] EXCEPT !.at = "closed"],
                     waiters[r], answers[r], verdicts[r])
            BY <2>1, RunOf, CloseRun
        <3>2. /\ slots'[r] = [slots[r] EXCEPT ![loops[r].call].pending = FALSE]
              /\ loops'[r] = [loops[r] EXCEPT !.at = "closed"]
              /\ waiters' = waiters /\ answers' = answers /\ verdicts' = verdicts /\ OnlyRun(r)
            BY <1>3, <2>1 DEF ApprovalInv, OnlyRun, decided, Close, Aborted
        <3> QED
            BY <3>1, <3>2, OneRun
    <2>2. CASE loops[r].at \notin {"asking", "blocked"}
        <3>1. RunInv(slots[r], [loops[r] EXCEPT !.at = "closed"], waiters[r], answers[r], verdicts[r])
            BY <2>2, RunOf, CloseIdleRun
        <3>2. /\ slots' = slots /\ loops'[r] = [loops[r] EXCEPT !.at = "closed"]
              /\ waiters' = waiters /\ answers' = answers /\ verdicts' = verdicts /\ OnlyRun(r)
            BY <1>3, <2>2 DEF ApprovalInv, OnlyRun, decided, Close
        <3> QED
            BY <3>1, <3>2, OneRun
    <2> QED
        BY <2>1, <2>2
<1>4. ASSUME NEW r \in Runs, Poll(r) \/ Answered(r) PROVE ApprovalInv'
    <2>0. /\ waiters[r].at = "waiting"
          /\ slots' = slots /\ loops' = loops /\ answers' = answers /\ verdicts' = verdicts
        BY <1>4 DEF Poll, Answered, decided
    <2>1. ASSUME NEW verdict, NEW reason, Give(r, verdict, reason),
                 \/ reason = "answered" /\ slots[r][waiters[r].call].event
                    /\ verdict = slots[r][waiters[r].call].decision
                 \/ reason \in {"cancelled", "expired"} /\ verdict = "deny"
          PROVE  ApprovalInv'
        <3>1. RunInv(slots[r], loops[r], [waiters[r] EXCEPT !.at = "settling", !.polled = TRUE,
                         !.verdict = verdict, !.reason = reason], answers[r], verdicts[r])
            BY <2>0, <2>1, RunOf, GiveRun
        <3>2. /\ waiters'[r] = [waiters[r] EXCEPT !.at = "settling", !.polled = TRUE,
                                    !.verdict = verdict, !.reason = reason]
              /\ OnlyRun(r)
            BY <2>0, <2>1 DEF ApprovalInv, OnlyRun, Give
        <3> QED
            BY <2>0, <3>1, <3>2, OneRun
    <2>2. ASSUME NEW X \in Waiter, waiters' = [waiters EXCEPT ![r] = X],
                 X.at = waiters[r].at, X.call = waiters[r].call,
                 X.verdict = waiters[r].verdict, X.reason = waiters[r].reason
          PROVE  ApprovalInv'
        <3>1. RunInv(slots[r], loops[r], X, answers[r], verdicts[r])
            BY <2>2, RunOf, CountRun
        <3>2. waiters'[r] = X /\ OnlyRun(r)
            BY <2>0, <2>2 DEF ApprovalInv, OnlyRun
        <3> QED
            BY <2>0, <3>1, <3>2, OneRun
    <2>3. CASE Answered(r)
        BY <2>1, <2>3 DEF Answered
    <2>4. CASE Poll(r)
        <3>1. /\ waiters[r] \in Waiter
              /\ \A a \in BOOLEAN, b \in BOOLEAN : \A X \in {CountedTo(waiters[r], a, b)} :
                    /\ X \in Waiter /\ X.at = waiters[r].at /\ X.call = waiters[r].call
                    /\ X.verdict = waiters[r].verdict /\ X.reason = waiters[r].reason
            BY RunOf, CountedWaiter DEF RunInv, RunTypes
        <3>2. \/ \E reason \in {"cancelled", "expired"} : Give(r, "deny", reason)
              \/ \E a \in BOOLEAN, b \in BOOLEAN :
                    waiters' = [waiters EXCEPT ![r] = CountedTo(waiters[r], a, b)]
            BY <2>4 DEF Poll, PollOwned, Watched, Unwatched, CountedTo
        <3> QED
            BY <2>1, <2>2, <3>1, <3>2
    <2> QED
        BY <1>4, <2>3, <2>4
<1>6. ASSUME NEW r \in Runs, Settle(r) PROVE ApprovalInv'
    <2> DEFINE w == waiters[r]
               s == Settlement(slots[r][w.call], w)
    <2>1. RunInv([slots[r] EXCEPT ![w.call].reason = s.reason], loops[r],
                 [w EXCEPT !.at = "leaving", !.verdict = s.verdict, !.reason = s.reason],
                 answers[r], verdicts[r])
        <3> HIDE DEF s
        <3> QED
            BY <1>6, RunOf, SettleRun DEF Settle, s
    <2>2. /\ slots'[r] = [slots[r] EXCEPT ![w.call].reason = s.reason]
          /\ waiters'[r] = [w EXCEPT !.at = "leaving", !.verdict = s.verdict, !.reason = s.reason]
          /\ loops' = loops /\ answers' = answers /\ verdicts' = verdicts /\ OnlyRun(r)
        BY <1>6 DEF ApprovalInv, OnlyRun, decided, Settle
    <2> HIDE DEF s, w
    <2> QED
        BY <2>1, <2>2, OneRun
<1>7. ASSUME NEW r \in Runs, Leave(r) PROVE ApprovalInv'
    <2> DEFINE w == waiters[r]
    <2>1. RunInv([slots[r] EXCEPT ![w.call] = NoSlot],
                 [loops[r] EXCEPT !.at = IF @ = "blocked" THEN "thinking" ELSE @], NoWaiter, answers[r],
                 [verdicts[r] EXCEPT ![w.call] = [verdict |-> w.verdict, reason |-> w.reason]])
        BY <1>7, RunOf, LeaveRun DEF Leave
    <2>2. /\ slots'[r] = [slots[r] EXCEPT ![w.call] = NoSlot]
          /\ loops'[r] = [loops[r] EXCEPT !.at = IF @ = "blocked" THEN "thinking" ELSE @]
          /\ waiters'[r] = NoWaiter /\ answers' = answers
          /\ verdicts'[r] = [verdicts[r] EXCEPT ![w.call] = [verdict |-> w.verdict, reason |-> w.reason]]
          /\ OnlyRun(r)
        BY <1>7 DEF ApprovalInv, OnlyRun, Leave
    <2> QED
        BY <2>1, <2>2, OneRun
<1>8. ASSUME NEW r \in Runs, Resolve(r) PROVE ApprovalInv'
    <2>1. PICK c \in CallIds, decision \in Verdicts, full \in BOOLEAN :
            /\ Accepts(r, c, decision, full)
            /\ slots' = [slots EXCEPT ![r][c].event = TRUE, ![r][c].decision = decision]
            /\ loops' = [loops EXCEPT ![r].full = @ \/ full]
            /\ answers' = [answers EXCEPT ![r][c] = decision]
            /\ UNCHANGED <<waiters, verdicts>>
        BY <1>8 DEF Resolve
    <2>2. RunInv([slots[r] EXCEPT ![c].event = TRUE, ![c].decision = decision],
                 [loops[r] EXCEPT !.full = @ \/ full], waiters[r], [answers[r] EXCEPT ![c] = decision],
                 verdicts[r])
        BY <2>1, RunOf, ResolveRun DEF Accepts
    <2>3. slots'[r] = [slots[r] EXCEPT ![c].event = TRUE, ![c].decision = decision]
        BY <2>1 DEF ApprovalInv
    <2>4. slots' = [slots EXCEPT ![r] = slots'[r]]
        BY <2>1, <2>3 DEF ApprovalInv
    <2>5. /\ loops'[r] = [loops[r] EXCEPT !.full = @ \/ full]
          /\ answers'[r] = [answers[r] EXCEPT ![c] = decision]
          /\ waiters' = waiters /\ verdicts' = verdicts
        BY <2>1 DEF ApprovalInv
    <2>6. OnlyRun(r)
        BY <2>1, <2>4, <2>5 DEF ApprovalInv, OnlyRun
    <2> QED
        BY <2>2, <2>3, <2>5, <2>6, OneRun
<1>9. CASE Tick
    <2>1. /\ slots' = slots /\ loops' = loops /\ answers' = answers /\ verdicts' = verdicts
          /\ waiters' = [r \in Runs |-> [waiters[r] EXCEPT !.polled = FALSE]]
        BY <1>9 DEF Tick, decided
    <2>2. ASSUME NEW r \in Runs
          PROVE  RunInv(slots[r], loops[r], [waiters[r] EXCEPT !.polled = FALSE], answers[r], verdicts[r])
        <3>1. RunInv(slots[r], loops[r], waiters[r], answers[r], verdicts[r]) /\ waiters[r] \in Waiter
            BY RunOf DEF RunInv, RunTypes
        <3>2. [waiters[r] EXCEPT !.polled = FALSE] \in Waiter
            BY <3>1 DEF Waiter
        <3>3. /\ [waiters[r] EXCEPT !.polled = FALSE].at = waiters[r].at
              /\ [waiters[r] EXCEPT !.polled = FALSE].call = waiters[r].call
              /\ [waiters[r] EXCEPT !.polled = FALSE].verdict = waiters[r].verdict
              /\ [waiters[r] EXCEPT !.polled = FALSE].reason = waiters[r].reason
            BY <3>1 DEF Waiter
        <3> QED
            BY <3>1, <3>2, <3>3, CountRun
    <2> QED
        BY <2>1, <2>2 DEF ApprovalInv
<1>10. CASE UNCHANGED <<slots, loops, waiters, answers, verdicts>>
    BY <1>10 DEF ApprovalInv
<1> QED
    BY <1>1, <1>2, <1>3, <1>4, <1>6, <1>7, <1>8, <1>9, <1>10
    DEF Next, Waiting, Stop, Sweep, Stream, decided, vars
-----------------------------------------------------------------------------
(* The leases                                                               *)

LEMMA PatienceFacts ==
    /\ Patience \in Nat /\ RenewEvery \in Nat /\ ParkTimeout \in Nat
    /\ RenewEvery >= 1 /\ ParkTimeout >= 1 /\ Patience = ParkTimeout + RenewEvery - 1
    /\ \A m \in Nat : Patience * m \in Nat /\ Patience * (m + 1) = Patience * m + Patience
<1>1. /\ RenewEvery \in Nat /\ ParkTimeout \in Nat /\ RenewEvery >= 1 /\ ParkTimeout >= 1
      /\ Patience = ParkTimeout + RenewEvery - 1
    BY TimesAssumption DEF Patience
<1>2. Patience \in Nat
    BY <1>1
<1>3. \A p \in Nat, m \in Nat : p * m \in Nat /\ p * (m + 1) = p * m + p
    OBVIOUS
<1> QED
    BY <1>1, <1>2, <1>3

(* A renewal that failed for another run leaves a run more time, not less.  *)
LEMMA FaultOfAnother ==
    ASSUME NEW L, NEW W \in Waiter, NEW lease, NEW failed \in Nat, LeaseFollows(L, W, lease, failed)
    PROVE  LeaseFollows(L, W, lease, failed + 1)
<1>1. /\ Patience * failed \in Nat /\ Patience * (failed + 1) \in Nat
      /\ Patience * failed <= Patience * (failed + 1)
    BY PatienceFacts
<1>2. W.waited \in Nat /\ (W.renewed # None => W.renewed \in Nat) /\ Behind(W) \in Nat /\ RenewEvery \in Nat
    BY PatienceFacts DEF Waiter, Behind
<1> DEFINE p == Patience * failed
           q == Patience * (failed + 1)
<1> HIDE DEF p, q
<1>3. p \in Nat /\ q \in Nat /\ p <= q
    BY <1>1 DEF p, q
<1> QED
    BY <1>2, <1>3 DEF LeaseFollows, p, q

(* The four polls of a durable run whose waiter goes on waiting: nobody     *)
(* follows it, or somebody does and no renewal is due, or one is and works, *)
(* or raises.                                                               *)
LEMMA UnwatchedLease ==
    ASSUME NEW L, NEW W \in Waiter, NEW lease, NEW failed \in Nat,
           L.durable, L.at # "asking", W.at = "waiting", ~W.polled, W.waited + 1 < ParkTimeout,
           LeaseFollows(L, W, lease, failed)
    PROVE  LeaseFollows(L, Counted(W), lease, failed)
<1> DEFINE p == Patience * failed
<1>1. /\ lease \in Nat /\ lease <= p + W.waited + (RenewEvery - 1) + 1
      /\ (W.renewed # None /\ W.renewed < RenewEvery) => lease <= p + W.renewed + 1
    BY DEF LeaseFollows, Behind
<1>2. p \in Nat
    BY PatienceFacts
<1> HIDE DEF p
<1>3. /\ W.waited \in Nat /\ Counted(W).waited = W.waited + 1 /\ Counted(W).at = "waiting"
      /\ Counted(W).polled = TRUE
      /\ Counted(W).renewed = IF W.renewed = None THEN None ELSE UpTo(W.renewed, RenewEvery)
    BY DEF Counted, Waiter
<1>4. /\ Counted(W).waited < ParkTimeout
      /\ lease <= p + Counted(W).waited + (RenewEvery - 1) + 0
    BY <1>1, <1>2, <1>3, PatienceFacts
<1>5. (Counted(W).renewed # None /\ Counted(W).renewed < RenewEvery) => lease <= p + Counted(W).renewed + 0
    <2> SUFFICES ASSUME Counted(W).renewed # None, Counted(W).renewed < RenewEvery
                 PROVE  lease <= p + Counted(W).renewed + 0
        OBVIOUS
    <2>1. W.renewed # None /\ W.renewed \in Nat /\ Counted(W).renewed = UpTo(W.renewed, RenewEvery)
        BY <1>3 DEF Waiter
    <2>2. W.renewed < RenewEvery /\ Counted(W).renewed = W.renewed + 1
        BY <2>1, PatienceFacts DEF UpTo
    <2> QED
        BY <1>1, <1>2, <2>1, <2>2
<1> QED
    BY <1>1, <1>3, <1>4, <1>5 DEF LeaseFollows, Behind, p

LEMMA WatchedLease ==
    ASSUME NEW L, NEW W \in Waiter, NEW lease, NEW failed \in Nat,
           L.durable, L.at # "asking", W.at = "waiting", ~W.polled, ~RenewalDue(W),
           LeaseFollows(L, W, lease, failed)
    PROVE  LeaseFollows(L, [Counted(W) EXCEPT !.waited = 0], lease, failed)
<1> DEFINE p == Patience * failed
           X == [Counted(W) EXCEPT !.waited = 0]
<1>1. /\ W.renewed \in Nat /\ W.renewed + 1 < RenewEvery
      /\ W.renewed # None
    BY PatienceFacts DEF RenewalDue, Waiter
<1>2. p \in Nat
    BY PatienceFacts
<1>3. lease \in Nat /\ lease <= p + W.renewed + 1
    BY <1>1, PatienceFacts DEF LeaseFollows, Behind
<1>4. /\ X.waited = 0 /\ X.at = "waiting" /\ X.polled = TRUE /\ X.renewed = W.renewed + 1
    BY <1>1, PatienceFacts DEF Counted, Waiter, UpTo
<1> HIDE DEF p, X
<1>5. /\ X.waited < ParkTimeout /\ lease <= p + X.waited + (RenewEvery - 1) + 0
      /\ lease <= p + X.renewed + 0
    BY <1>1, <1>2, <1>3, <1>4, PatienceFacts
<1>6. LeaseFollows(L, X, lease, failed)
    BY <1>3, <1>4, <1>5 DEF LeaseFollows, Behind, p
<1> QED
    BY <1>6 DEF X

LEMMA RenewedLease ==
    ASSUME NEW L, NEW W \in Waiter, NEW failed \in Nat, L.at # "asking"
    PROVE  LeaseFollows(L, [Counted(W) EXCEPT !.waited = 0, !.renewed = 0], 0, failed)
<1> DEFINE p == Patience * failed
           X == [Counted(W) EXCEPT !.waited = 0, !.renewed = 0]
<1>1. p \in Nat
    BY PatienceFacts
<1>2. X.waited = 0 /\ X.renewed = 0 /\ X.polled = TRUE
    BY DEF Counted, Waiter
<1> HIDE DEF p, X
<1>3. X.waited < ParkTimeout /\ 0 <= p + X.waited + (RenewEvery - 1) + 0 /\ 0 <= p + X.renewed + 0
    BY <1>1, <1>2, PatienceFacts
<1>4. LeaseFollows(L, X, 0, failed)
    BY <1>2, <1>3 DEF LeaseFollows, Behind, p
<1> QED
    BY <1>4 DEF X

LEMMA FaultyLease ==
    ASSUME NEW L, NEW W \in Waiter, NEW lease, NEW failed \in Nat,
           L.at # "asking", W.at = "waiting", ~W.polled,
           LeaseFollows(L, W, lease, failed)
    PROVE  LeaseFollows(L, [Counted(W) EXCEPT !.waited = 0, !.renewed = 0], lease, failed + 1)
<1> DEFINE p == Patience * failed
           q == Patience * (failed + 1)
           X == [Counted(W) EXCEPT !.waited = 0, !.renewed = 0]
<1>1. p \in Nat /\ q = p + ParkTimeout + RenewEvery - 1
    BY PatienceFacts
<1>2. /\ lease \in Nat
      /\ L.durable => W.waited < ParkTimeout /\ lease <= p + W.waited + (RenewEvery - 1) + 1
    BY DEF LeaseFollows, Behind
<1>3. X.waited = 0 /\ X.renewed = 0 /\ X.polled = TRUE /\ W.waited \in Nat
    BY DEF Counted, Waiter
<1> HIDE DEF p, q, X
<1>4. L.durable => lease <= q
    BY <1>1, <1>2, <1>3, PatienceFacts
<1>5. /\ q \in Nat /\ X.waited < ParkTimeout
      /\ L.durable => lease <= q + X.waited + (RenewEvery - 1) + 0 /\ lease <= q + X.renewed + 0
    BY <1>1, <1>2, <1>3, <1>4, PatienceFacts
<1>6. LeaseFollows(L, X, lease, failed + 1)
    BY <1>2, <1>3, <1>5 DEF LeaseFollows, Behind, q
<1> QED
    BY <1>6 DEF X

(* The state of a run r changes, and perhaps the number of faults grows.    *)
LEMMA OneLease ==
    ASSUME ApprovalInv, ParkInv, NEW r \in Runs, faults' \in 0..MaxFaults,
           faults' = faults \/ faults' = faults + 1,
           \A q \in Runs \ {r} :
               loops'[q] = loops[q] /\ waiters'[q] = waiters[q] /\ leases'[q] = leases[q],
           leases' = [q \in Runs |-> leases'[q]],
           LeaseFollows(loops'[r], waiters'[r], leases'[r], faults')
    PROVE  ParkInv'
<1>1. ASSUME NEW q \in Runs \ {r} PROVE LeaseFollows(loops'[q], waiters'[q], leases'[q], faults')
    <2>1. /\ LeaseFollows(loops[q], waiters[q], leases[q], faults) /\ waiters[q] \in Waiter
          /\ faults \in Nat
        BY RunOf DEF ParkInv, RunInv, RunTypes
    <2> QED
        BY <1>1, <2>1, FaultOfAnother
<1> QED
    BY <1>1 DEF ParkInv

(* The lease bound is inductive; a poll is the step that needs it.          *)
LEMMA ParkInit == Init => ParkInv
<1> SUFFICES ASSUME Init PROVE ParkInv
    OBVIOUS
<1>1. faults \in 0..MaxFaults /\ leases = [r \in Runs |-> leases[r]]
    BY TimesAssumption DEF Init
<1>2. ASSUME NEW r \in Runs PROVE LeaseFollows(loops[r], waiters[r], leases[r], faults)
    <2>1. loops[r].at = "thinking" /\ waiters[r].at = "none" /\ leases[r] = 0
        BY DEF Init, NoWaiter
    <2> QED
        BY <2>1 DEF LeaseFollows
<1> QED
    BY <1>1, <1>2 DEF ParkInv

LEMMA ParkPoll ==
    ASSUME ApprovalInv, ParkInv, NEW r \in Runs, Poll(r)
    PROVE  ParkInv'
<1> DEFINE W == waiters[r]
           L == loops[r]
<1>1. /\ W.at = "waiting" /\ ~W.polled /\ loops' = loops
      /\ W \in Waiter /\ L \in Loop /\ L.at # "asking"
      /\ LeaseFollows(L, W, leases[r], faults) /\ leases[r] \in Nat /\ faults \in Nat /\ MaxFaults \in Nat
    <2>1. RunTypes(slots[r], L, W, answers[r], verdicts[r]) /\ WaiterOfLoop(L, W)
        BY RunOf DEF RunInv
    <2>2. LeaseFollows(L, W, leases[r], faults) /\ faults \in Nat /\ MaxFaults \in Nat
        BY TimesAssumption DEF ParkInv
    <2>3. W.at = "waiting" /\ ~W.polled /\ loops' = loops
        BY DEF Poll
    <2>4. leases[r] \in Nat
        BY <2>2 DEF LeaseFollows
    <2> QED
        BY <2>1, <2>2, <2>3, <2>4 DEF RunTypes, WaiterOfLoop
<1>2. \/ waiters'[r].at = "settling" /\ UNCHANGED <<leases, faults>>
      \/ ~L.durable /\ UNCHANGED <<leases, faults>>
      \/ /\ L.durable /\ W.waited + 1 < ParkTimeout
         /\ waiters'[r] = Counted(W) /\ UNCHANGED <<leases, faults>>
      \/ /\ L.durable /\ ~RenewalDue(W)
         /\ waiters'[r] = [Counted(W) EXCEPT !.waited = 0] /\ UNCHANGED <<leases, faults>>
      \/ /\ waiters'[r] = [Counted(W) EXCEPT !.waited = 0, !.renewed = 0]
         /\ leases' = [leases EXCEPT ![r] = 0] /\ UNCHANGED faults
      \/ /\ waiters'[r] = [Counted(W) EXCEPT !.waited = 0, !.renewed = 0]
         /\ faults < MaxFaults /\ faults' = faults + 1 /\ UNCHANGED leases
    <2>1. waiters = [q \in Runs |-> waiters[q]] /\ (L.durable <=> r \in Durable)
        BY DEF ApprovalInv, Durable
    <2>2. CASE r \in cancelled
        <3>1. Give(r, "deny", "cancelled") /\ UNCHANGED <<leases, faults>>
            BY <2>2 DEF Poll
        <3>2. waiters'[r].at = "settling"
            BY <1>1, <2>1, <3>1 DEF Give, Waiter
        <3> QED
            BY <3>1, <3>2
    <2>3. CASE r \notin cancelled /\ PollOwned(r)
        BY <2>1, <2>3 DEF PollOwned
    <2>4. CASE r \in Durable /\ Watched(r, W)
        BY <2>1, <2>4 DEF Watched
    <2>5. CASE r \in Durable /\ Unwatched(r, W)
        BY <1>1, <2>1, <2>5, PatienceFacts DEF Unwatched, Give, Waiter
    <2> QED
        BY <2>2, <2>3, <2>4, <2>5 DEF Poll
<1>3. /\ \A q \in Runs \ {r} : waiters'[q] = waiters[q] /\ leases'[q] = leases[q]
      /\ leases' = [q \in Runs |-> leases'[q]]
    BY DEF Poll, PollOwned, Watched, Unwatched, Give, ApprovalInv, ParkInv
<1>4. faults' \in 0..MaxFaults /\ (faults' = faults \/ faults' = faults + 1)
    BY <1>1, <1>2 DEF ParkInv
<1>5. LeaseFollows(L, waiters'[r], leases'[r], faults')
    <2>1. CASE waiters'[r].at = "settling" /\ UNCHANGED <<leases, faults>>
        BY <1>1, <2>1 DEF LeaseFollows
    <2>2. CASE ~L.durable /\ UNCHANGED <<leases, faults>>
        BY <1>1, <2>2 DEF LeaseFollows
    <2>3. CASE /\ L.durable /\ W.waited + 1 < ParkTimeout
               /\ waiters'[r] = Counted(W) /\ UNCHANGED <<leases, faults>>
        BY <1>1, <2>3, UnwatchedLease
    <2>4. CASE /\ L.durable /\ ~RenewalDue(W)
               /\ waiters'[r] = [Counted(W) EXCEPT !.waited = 0] /\ UNCHANGED <<leases, faults>>
        BY <1>1, <2>4, WatchedLease
    <2>5. CASE /\ waiters'[r] = [Counted(W) EXCEPT !.waited = 0, !.renewed = 0]
               /\ leases' = [leases EXCEPT ![r] = 0] /\ UNCHANGED faults
        <3>1. leases'[r] = 0
            BY <2>5 DEF ParkInv
        <3>2. LeaseFollows(L, [Counted(W) EXCEPT !.waited = 0, !.renewed = 0], 0, faults)
            BY <1>1, RenewedLease
        <3> QED
            BY <2>5, <3>1, <3>2
    <2>6. CASE /\ waiters'[r] = [Counted(W) EXCEPT !.waited = 0, !.renewed = 0]
               /\ faults < MaxFaults /\ faults' = faults + 1 /\ UNCHANGED leases
        <3>1. LeaseFollows(L, [Counted(W) EXCEPT !.waited = 0, !.renewed = 0], leases[r], faults + 1)
            BY <1>1, FaultyLease
        <3> QED
            BY <2>6, <3>1
    <2> QED
        BY <1>2, <2>1, <2>2, <2>3, <2>4, <2>5, <2>6
<1> QED
    BY <1>1, <1>3, <1>4, <1>5, OneLease

LEMMA ParkStep == ApprovalInv /\ ParkInv /\ [Next]_vars => ParkInv'
<1> SUFFICES ASSUME ApprovalInv, ParkInv, [Next]_vars PROVE ParkInv'
    OBVIOUS
<1>1. ASSUME NEW r \in Runs, Ask(r) PROVE ParkInv'
    <2>1. waiters' = waiters /\ waiters[r].at = "none" /\ faults' = faults /\ leases' = [leases EXCEPT ![r] = 0]
        BY <1>1, RunOf DEF Ask, RunInv, RunTypes, WaiterOfLoop, Waiter
    <2>2. \A q \in Runs \ {r} : loops'[q] = loops[q]
        BY <1>1 DEF Ask, ApprovalInv
    <2>3. LeaseFollows(loops'[r], waiters'[r], leases'[r], faults')
        BY <2>1 DEF LeaseFollows, ParkInv
    <2> QED
        BY <2>1, <2>2, <2>3, OneLease DEF ParkInv
<1>2. ASSUME NEW r \in Runs, Wait(r) PROVE ParkInv'
    <2>1. /\ loops[r] \in Loop /\ loops[r].at = "asking" /\ UNCHANGED <<leases, faults>>
          /\ LeaseFollows(loops[r], waiters[r], leases[r], faults)
          /\ faults \in Nat /\ MaxFaults \in Nat
        BY <1>2, RunOf, TimesAssumption DEF Wait, RunInv, RunTypes, ParkInv
    <2>2. \A q \in Runs \ {r} : loops'[q] = loops[q] /\ waiters'[q] = waiters[q]
        BY <1>2 DEF Wait, ApprovalInv
    <2>3. /\ loops'[r].at = "blocked" /\ loops'[r].durable = loops[r].durable
          /\ waiters'[r].at = "waiting" /\ waiters'[r].waited = 0 /\ waiters'[r].renewed = None
          /\ ~waiters'[r].polled
        BY <1>2, <2>1 DEF Wait, ApprovalInv, Loop, NoWaiter
    <2>4. LeaseFollows(loops'[r], waiters'[r], leases'[r], faults')
        <3>1. Patience * faults \in Nat
            BY <2>1, PatienceFacts
        <3> DEFINE p == Patience * faults
        <3> HIDE DEF p
        <3>2. 0 <= p + 0 + (RenewEvery - 1) + 1 /\ 0 < ParkTimeout
            BY <3>1, PatienceFacts DEF p
        <3> QED
            BY <2>1, <2>3, <3>2 DEF LeaseFollows, Behind, p
    <2> QED
        BY <2>1, <2>2, <2>4, OneLease DEF ParkInv
<1>3. ASSUME NEW r \in Runs, Close(r) PROVE ParkInv'
    <2>1. /\ waiters' = waiters /\ faults' = faults /\ leases' = [leases EXCEPT ![r] = 0]
          /\ loops' = [loops EXCEPT ![r].at = "closed"] /\ loops[r] \in Loop /\ waiters[r] \in Waiter
          /\ LeaseFollows(loops[r], waiters[r], leases[r], faults) /\ faults \in Nat
        BY <1>3, RunOf, TimesAssumption DEF Close, RunInv, RunTypes, ParkInv
    <2>2. /\ \A q \in Runs \ {r} : loops'[q] = loops[q] /\ leases'[q] = leases[q]
          /\ leases'[r] = 0 /\ loops'[r].at = "closed" /\ loops'[r].durable = loops[r].durable
          /\ leases' = [q \in Runs |-> leases'[q]]
        BY <2>1 DEF ApprovalInv, ParkInv, Loop
    <2>3. LeaseFollows(loops'[r], waiters'[r], leases'[r], faults')
        <3> DEFINE p == Patience * faults
        <3>1. p \in Nat
            BY <2>1, PatienceFacts
        <3> HIDE DEF p
        <3>2. /\ 0 <= p + waiters[r].waited + (RenewEvery - 1) + Behind(waiters[r])
              /\ waiters[r].renewed # None => 0 <= p + waiters[r].renewed + Behind(waiters[r])
            BY <2>1, <3>1, PatienceFacts DEF Waiter, Behind
        <3> QED
            BY <2>1, <2>2, <3>2 DEF LeaseFollows, p
    <2> QED
        BY <2>1, <2>2, <2>3, OneLease DEF ParkInv
<1>4. ASSUME NEW r \in Runs, Answered(r) \/ Settle(r) PROVE ParkInv'
    <2>1. /\ UNCHANGED <<loops, leases, faults>> /\ waiters[r] \in Waiter
          /\ \/ waiters'[r].at = "settling"
             \/ waiters'[r].at = "leaving"
          /\ \A q \in Runs \ {r} : waiters'[q] = waiters[q]
          /\ LeaseFollows(loops[r], waiters[r], leases[r], faults)
        <3>1. waiters[r] \in Waiter /\ waiters = [q \in Runs |-> waiters[q]]
            BY RunOf DEF RunInv, RunTypes, ApprovalInv
        <3>2. CASE Answered(r)
            BY <3>1, <3>2 DEF Answered, Give, ParkInv
        <3>3. CASE Settle(r)
            BY <3>1, <3>3 DEF Settle, ParkInv
        <3> QED
            BY <1>4, <3>2, <3>3
    <2>2. LeaseFollows(loops'[r], waiters'[r], leases'[r], faults')
        BY <2>1 DEF LeaseFollows
    <2> QED
        BY <2>1, <2>2, OneLease DEF ParkInv
<1>5. ASSUME NEW r \in Runs, Leave(r) PROVE ParkInv'
    <2>1. /\ faults' = faults /\ waiters'[r].at = "none"
          /\ loops'[r].at # "asking" /\ leases'[r] = 0
          /\ \A q \in Runs \ {r} :
                loops'[q] = loops[q] /\ waiters'[q] = waiters[q] /\ leases'[q] = leases[q]
          /\ leases' = [q \in Runs |-> leases'[q]]
        BY <1>5, RunOf DEF Leave, NoWaiter, RunInv, RunTypes, Loop, WaiterOfLoop, ApprovalInv, ParkInv
    <2>2. LeaseFollows(loops'[r], waiters'[r], leases'[r], faults')
        BY <2>1 DEF LeaseFollows
    <2> QED
        BY <2>1, <2>2, OneLease DEF ParkInv
<1>6. ASSUME NEW r \in Runs, Resolve(r) PROVE ParkInv'
    <2>1. /\ UNCHANGED <<waiters, leases, faults>>
          /\ loops'[r].at = loops[r].at /\ loops'[r].durable = loops[r].durable
          /\ \A q \in Runs \ {r} : loops'[q] = loops[q]
          /\ LeaseFollows(loops[r], waiters[r], leases[r], faults)
        BY <1>6, RunOf DEF Resolve, RunInv, RunTypes, Loop, ApprovalInv, ParkInv
    <2>2. LeaseFollows(loops'[r], waiters'[r], leases'[r], faults')
        BY <2>1 DEF LeaseFollows
    <2> QED
        BY <2>1, <2>2, OneLease DEF ParkInv
<1>7. CASE Tick
    <2>1. ASSUME NEW r \in Runs
          PROVE  LeaseFollows(loops[r], [waiters[r] EXCEPT !.polled = FALSE],
                     IF r \in Durable /\ loops[r].at = "blocked" THEN UpTo(leases[r], LeaseTimeout)
                     ELSE leases[r], faults)
        <3> DEFINE W == waiters[r]
                   X == [W EXCEPT !.polled = FALSE]
                   new == IF r \in Durable /\ loops[r].at = "blocked" THEN UpTo(leases[r], LeaseTimeout)
                          ELSE leases[r]
                   p == Patience * faults
        <3>1. /\ W \in Waiter /\ loops[r] \in Loop /\ WaiterOfLoop(loops[r], W)
              /\ LeaseFollows(loops[r], W, leases[r], faults) /\ faults \in Nat
              /\ W.at = "waiting" => W.polled
            BY <1>7, RunOf, TimesAssumption DEF Tick, RunInv, RunTypes, ParkInv
        <3>2. X.at = W.at /\ X.waited = W.waited /\ X.renewed = W.renewed /\ ~X.polled
            BY <3>1 DEF Waiter
        <3>3. /\ new \in Nat /\ new <= leases[r] + 1 /\ leases[r] \in Nat
              /\ loops[r].at = "asking" => new = leases[r]
            BY <3>1, TimesAssumption DEF UpTo, LeaseFollows
        <3>4. p \in Nat
            BY <3>1, PatienceFacts
        <3> HIDE DEF new, p, X
        <3>5. ASSUME loops[r].durable, W.at = "waiting"
              PROVE  /\ X.waited < ParkTimeout
                     /\ new <= p + X.waited + (RenewEvery - 1) + 1
                     /\ (X.renewed # None /\ X.renewed < RenewEvery) => new <= p + X.renewed + 1
            <4>1. /\ W.waited < ParkTimeout /\ leases[r] <= p + W.waited + (RenewEvery - 1) + 0
                  /\ (W.renewed # None /\ W.renewed < RenewEvery) => leases[r] <= p + W.renewed + 0
                BY <3>1, <3>5 DEF LeaseFollows, Behind, p
            <4>2. W.waited \in Nat /\ (W.renewed # None => W.renewed \in Nat)
                BY <3>1 DEF Waiter
            <4>3. new <= p + W.waited + (RenewEvery - 1) + 1
                BY <3>3, <3>4, <4>1, <4>2, PatienceFacts
            <4>4. (W.renewed # None /\ W.renewed < RenewEvery) => new <= p + W.renewed + 1
                BY <3>3, <3>4, <4>1, <4>2
            <4> QED
                BY <3>2, <4>1, <4>3, <4>4
        <3>6. LeaseFollows(loops[r], X, new, faults)
            BY <3>1, <3>2, <3>3, <3>5 DEF LeaseFollows, Behind, p
        <3> QED
            BY <3>6 DEF X, new
    <2> QED
        BY <1>7, <2>1 DEF Tick, ParkInv
<1>8. CASE UNCHANGED <<loops, waiters, leases, faults>>
    BY <1>8 DEF ParkInv
<1> QED
    BY <1>1, <1>2, <1>3, <1>4, <1>5, <1>6, <1>7, <1>8, ParkPoll
    DEF Next, Waiting, Stop, Sweep, Stream, decided, vars

-----------------------------------------------------------------------------
(* The followers                                                            *)

LEMMA FollowersStart == Init => FollowersInv
    BY FollowersAssumption DEF Init, FollowersInit, FollowersInv, FollowersTypeOK

(* Nothing but a stream or time changes the stamps, and only Stop and the   *)
(* sweeper set a cancel event.                                              *)
LEMMA OthersStep ==
    ASSUME NEW r \in Runs,
           Ask(r) \/ Wait(r) \/ Close(r) \/ Waiting(r) \/ Resolve(r) \/ Stop(r) \/ Sweep(r)
    PROVE  followersVars' = followersVars /\ cancelled' \in {cancelled, cancelled \cup {r}}
<1>1. CASE Ask(r) \/ Wait(r) \/ Close(r)
    BY <1>1 DEF Ask, Wait, Close
<1>2. CASE Poll(r) \/ Answered(r)
    BY <1>2 DEF Poll, Answered
<1>3. CASE Settle(r) \/ Leave(r)
    BY <1>3 DEF Settle, Leave
<1>4. CASE Resolve(r) \/ Stop(r) \/ Sweep(r)
    BY <1>4 DEF Resolve, Stop, Sweep
<1> QED
    BY <1>1, <1>2, <1>3, <1>4 DEF Waiting

(* Only streams and time touch the stamps, and both keep the bound.         *)
LEMMA FollowersStep == FollowersInv /\ [Next]_vars => FollowersInv'
<1> SUFFICES ASSUME FollowersInv, [Next]_vars PROVE FollowersInv'
    OBVIOUS
<1> USE FollowersAssumption DEF FollowersInv, FollowersTypeOK
<1>1. ASSUME NEW f \in Followers, Stream(f) PROVE FollowersInv'
    BY <1>1 DEF Stream, MarkSeen, Depart, Departed
<1>2. CASE Tick
    BY <1>2 DEF Tick, StreamsTurn, Older
<1>3. CASE followersVars' = followersVars
    BY <1>3 DEF followersVars
<1>4. CASE UNCHANGED vars
    BY <1>3, <1>4 DEF vars, followersVars
<1> QED
    BY <1>1, <1>2, <1>3, <1>4, OthersStep DEF Next

LEMMA CancelledStep == cancelled \subseteq Runs /\ [Next]_vars => cancelled' \subseteq Runs
<1> SUFFICES ASSUME cancelled \subseteq Runs, [Next]_vars PROVE cancelled' \subseteq Runs
    OBVIOUS
<1>1. CASE Tick \/ (\E f \in Followers : Stream(f)) \/ UNCHANGED vars
    BY <1>1 DEF Tick, Stream, vars
<1> QED
    BY <1>1, OthersStep DEF Next

LEMMA IInvHolds == Spec => []IInv
<1>1. Init => IInv
    BY ApprovalInit, ParkInit, FollowersStart DEF IInv, Init
<1>2. IInv /\ [Next]_vars => IInv'
    BY ApprovalStep, ParkStep, FollowersStep, CancelledStep DEF IInv
<1> QED
    BY <1>1, <1>2, PTL DEF Spec

-----------------------------------------------------------------------------
(* Slots, loops and waiters keep their types, and a confirmation that is    *)
(* still accepted (resolve_tool_decision answers True) has a loop that will *)
(* read it.                                                                 *)
THEOREM ConsistentHolds == Spec => []Consistent
<1>1. IInv => TypeOK
    <2> SUFFICES ASSUME IInv PROVE TypeOK
        OBVIOUS
    <2>1. ASSUME NEW r \in Runs
          PROVE  /\ RunTypes(slots[r], loops[r], waiters[r], answers[r], verdicts[r])
                 /\ waiters[r].at = "leaving" => waiters[r].verdict \in Verdicts
        <3>1. /\ RunTypes(slots[r], loops[r], waiters[r], answers[r], verdicts[r])
              /\ WaiterOfLoop(loops[r], waiters[r]) /\ WaiterSays(slots[r], waiters[r])
              /\ SlotSays(slots[r], loops[r], waiters[r], answers[r])
            BY RunOf DEF IInv, RunInv
        <3>2. ASSUME waiters[r].at = "leaving" PROVE waiters[r].verdict \in Verdicts
            <4>1. waiters[r].call \in CallIds
                BY <3>1, <3>2 DEF WaiterOfLoop
            <4>2. \/ slots[r][waiters[r].call].event
                     /\ waiters[r].verdict = slots[r][waiters[r].call].decision
                  \/ waiters[r].verdict = "deny"
                BY <3>1, <3>2 DEF WaiterSays
            <4>3. slots[r][waiters[r].call] \in Slot
                BY <3>1, <4>1 DEF RunTypes
            <4> QED
                BY <3>1, <4>1, <4>2, <4>3 DEF SlotSays, Slot
        <3> QED
            BY <3>1, <3>2
    <2>2. /\ slots \in [Runs -> [CallIds -> Slot]] /\ loops \in [Runs -> Loop]
          /\ waiters \in [Runs -> Waiter] /\ answers \in [Runs -> [CallIds -> Verdicts \cup {None}]]
          /\ verdicts \in [Runs -> [CallIds -> Outcome]]
        BY <2>1 DEF IInv, ApprovalInv, RunTypes
    <2>3. leases \in [Runs -> Nat] /\ faults \in Nat
        BY TimesAssumption DEF IInv, ParkInv, LeaseFollows
    <2> QED
        BY <2>1, <2>2, <2>3 DEF TypeOK, IInv, FollowersInv, Slot, Loop, Waiter, Outcome
<1>2. IInv => PendingIsAwaited
    <2> SUFFICES ASSUME IInv, NEW r \in Runs, NEW c \in CallIds, slots[r][c].pending
                 PROVE  loops[r].at \in {"asking", "blocked"} /\ loops[r].call = c
        BY DEF PendingIsAwaited, Accepts
    <2> QED
        BY RunOf DEF IInv, RunInv, SlotSays
<1> QED
    BY <1>1, <1>2, IInvHolds, PTL DEF Consistent

(* The answer the user was told is recorded is the one the loop acts on,    *)
(* against Stop, the expiry of the wait (_settle under _lock) and every     *)
(* other confirmation.                                                      *)
THEOREM AnswerIsKeptHolds == Spec => []AnswerIsKept
<1>1. IInv => AnswerIsKept
    BY RunOf DEF IInv, RunInv, Kept, VerdictIsAnswer, AnswerIsKept
<1> QED
    BY <1>1, IInvHolds, PTL

(* A durable run that waits for an approval is never taken by the lease     *)
(* sweeper, for any times with LeaseTimeout above (ParkTimeout + RenewEvery *)
(* - 1) * (MaxFaults + 1): _PARK_TIMEOUT_S and _LEASE_RENEW_EVERY_S against *)
(* the lease of the sweeper.                                                *)
THEOREM ParkIsNotSweptHolds == Spec => []ParkIsNotSwept
<1>1. IInv => ParkIsNotSwept
    <2> SUFFICES ASSUME IInv, NEW r \in Runs, loops[r].durable, waiters[r].at = "waiting"
                 PROVE  leases[r] < LeaseTimeout
        BY DEF ParkIsNotSwept, Durable
    <2> DEFINE p == Patience * faults
               m == Patience * MaxFaults
    <2>1. /\ LeaseFollows(loops[r], waiters[r], leases[r], faults) /\ waiters[r] \in Waiter
          /\ faults \in 0..MaxFaults /\ MaxFaults \in Nat /\ Patience \in Nat
        BY RunOf, PatienceFacts, TimesAssumption DEF IInv, ParkInv, RunInv, RunTypes
    <2>2. \A a \in Nat, b \in Nat : b >= faults => a * faults <= a * b
        BY <2>1
    <2>3. /\ p \in Nat /\ m \in Nat /\ p <= m
          /\ (ParkTimeout + RenewEvery - 1) * (MaxFaults + 1) = m + Patience
        BY <2>1, <2>2, PatienceFacts
    <2>4. /\ waiters[r].waited \in Nat /\ waiters[r].waited < ParkTimeout /\ leases[r] \in Nat
          /\ leases[r] <= p + waiters[r].waited + (RenewEvery - 1) + 1
        BY <2>1, PatienceFacts DEF LeaseFollows, Behind, Waiter
    <2>5. LeaseTimeout \in Nat /\ LeaseTimeout > m + Patience
        BY <2>3, TimesAssumption
    <2> HIDE DEF p, m
    <2> QED
        BY <2>3, <2>4, <2>5, PatienceFacts
<1> QED
    BY <1>1, IInvHolds, PTL

(* The park of a run that an open stream follows ends only with its answer, *)
(* a Stop, or the DecisionTimeout counted from its start.                   *)
THEOREM WatchedParkLastsHolds == Spec => WatchedParkLasts
<1>1. ASSUME IInv, [Next]_vars, NEW r \in Durable, waiters[r].at = "waiting",
             waiters'[r].at = "settling", waiters'[r].reason = "expired",
             NEW f \in streams, Follows[f] = r
      PROVE  Overdue(waiters[r])
    <2>1. r \in Runs /\ IsAttended(r)
        BY <1>1, FollowersAssumption DEF Durable, IInv, FollowersInv, FollowersTypeOK, IsAttended
    <2>2. waiters[r] \in Waiter /\ waiters = [q \in Runs |-> waiters[q]]
        BY <1>1, <2>1, RunOf DEF IInv, RunInv, RunTypes, ApprovalInv
    <2>0. ASSUME NEW verdict, NEW reason, Give(r, verdict, reason) PROVE reason = "expired"
        <3>1. waiters'[r] = [waiters[r] EXCEPT !.at = "settling", !.polled = TRUE,
                                 !.verdict = verdict, !.reason = reason]
            BY <2>0, <2>1, <2>2 DEF Give
        <3>2. waiters'[r].reason = reason
            BY <2>2, <3>1 DEF Waiter
        <3> QED
            BY <1>1, <3>2
    <2>3. Poll(r)
        <3>1. waiters'[r].at # waiters[r].at
            BY <1>1
        <3>2. CASE \E q \in Runs : Ask(q) \/ Close(q) \/ Resolve(q) \/ Stop(q) \/ Sweep(q)
            <4>1. waiters' = waiters
                BY <3>2 DEF Ask, Close, Resolve, Stop, Sweep
            <4> QED
                BY <3>1, <4>1
        <3>3. ASSUME NEW q \in Runs, Wait(q) \/ Settle(q) \/ Leave(q) PROVE FALSE
            BY <1>1, <2>1, <2>2, <3>3 DEF Wait, Settle, Leave, NoWaiter
        <3>4. ASSUME NEW q \in Runs, Poll(q) \/ Answered(q) PROVE Poll(r)
            <4>1. CASE q = r
                BY <2>0, <3>4, <4>1 DEF Answered
            <4>2. CASE q # r
                <5>1. waiters'[r] = waiters[r]
                    BY <2>1, <2>2, <3>4, <4>2
                    DEF Poll, PollOwned, Watched, Unwatched, Answered, Give
                <5> QED
                    BY <3>1, <5>1
            <4> QED
                BY <4>1, <4>2
        <3>5. CASE Tick
            BY <2>1, <2>2, <3>1, <3>5 DEF Tick, Waiter
        <3>6. CASE (\E g \in Followers : Stream(g)) \/ UNCHANGED vars
            BY <3>1, <3>6 DEF Stream, vars
        <3> QED
            BY <1>1, <3>2, <3>3, <3>4, <3>5, <3>6 DEF Next, Waiting
    <2>4. Unwatched(r, waiters[r])
        <3>1. r \notin cancelled
            BY <2>0, <2>3 DEF Poll
        <3>2. ~Watched(r, waiters[r])
            <4>1. ASSUME NEW due \in BOOLEAN,
                         waiters' = [waiters EXCEPT ![r] = CountedTo(waiters[r], TRUE, due)]
                  PROVE  FALSE
                <5>1. waiters'[r].at = waiters[r].at
                    BY <2>1, <2>2, <4>1, CountedWaiter
                <5> QED
                    BY <1>1, <5>1
            <4> QED
                BY <4>1 DEF Watched, CountedTo
        <3> QED
            BY <1>1, <2>3, <3>1, <3>2 DEF Poll, PollOwned
    <2> QED
        BY <2>1, <2>4 DEF Unwatched
<1>2. IInv /\ [Next]_vars =>
        [\A r \in Durable :
            (/\ waiters[r].at = "waiting" /\ waiters'[r].at = "settling" /\ waiters'[r].reason = "expired"
             /\ \E f \in streams : Follows[f] = r)
            => Overdue(waiters[r])]_vars
    BY <1>1
<1> QED
    BY <1>2, IInvHolds, PTL DEF Spec, WatchedParkLasts
=============================================================================
