------------------------ MODULE ScheduledRunContract ------------------------
(***************************************************************************)
(* What a scheduled run promises whoever looks at it, with no transaction,  *)
(* thread or process in sight: it is queued, in progress and settled, and   *)
(* its chat appears in the one step that settles it as succeeded, never     *)
(* earlier, never for another outcome, and never again once deleted.        *)
(***************************************************************************)
CONSTANT Runs

VARIABLES
    phase,      \* where each run is
    shown       \* the runs whose chat stands outside a run in progress

Finished == {"succeeded", "failed"}

Init ==
    /\ phase = [r \in Runs |-> "none"]
    /\ shown = {}

Queue(r) == phase[r] = "none" /\ phase'[r] = "queued"
Begin(r) == phase[r] \in {"none", "queued"} /\ phase'[r] = "running"
Settle(r) == phase[r] = "running" /\ phase'[r] \in Finished
(* A claim given back: a Run now waits again, a scheduled run never was.    *)
GiveBack(r) == phase[r] = "running" /\ phase'[r] \in {"queued", "gone"}
(* Its task was deleted, or the history no longer keeps it.                 *)
Forget(r) == phase[r] # "running" /\ phase[r] # "none" /\ phase'[r] = "gone"
Stay(r) == phase'[r] = phase[r]

ShowOnlySuccess(r) ==
    r \notin shown /\ r \in shown' => phase[r] = "running" /\ phase'[r] = "succeeded"

Next ==
    /\ \A r \in Runs :
        /\ Queue(r) \/ Begin(r) \/ Settle(r) \/ GiveBack(r) \/ Forget(r) \/ Stay(r)
        /\ ShowOnlySuccess(r)
    /\ shown' \subseteq Runs

Spec == Init /\ [][Next]_<<phase, shown>>
=============================================================================
