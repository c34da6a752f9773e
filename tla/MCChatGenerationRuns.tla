----------------------- MODULE MCChatGenerationRuns ------------------------
(***************************************************************************)
(* One chat, one prompt; the tab follows the first run.                     *)
(*                                                                          *)
(* Three scenarios share the instance, for together they are too large: in  *)
(* "engine" the engine yields as much as it may, calls fail and the process *)
(* ends; in "again" the create request is repeated; in "tab" the tab comes  *)
(* and goes.  In the last two the process stays and the engine yields one   *)
(* chunk.                                                                   *)
(***************************************************************************)
EXTENDS ChatGenerationRuns

CONSTANTS r1, t1, p1, c1

VARIABLE scenario

MCThreadOf == [r \in Runs |-> t1]
MCPromptOf == [r \in Runs |-> p1]
MCFollows == [c \in Clients |-> r1]

MCvars == <<vars, scenario>>

Calm ==
    /\ faults = 0 /\ crashes = 0
    /\ \A r \in Runs : output[r] <= 1 /\ job[r].beats = 0
Repeats == starting' # starting /\ starting' # None /\ UNCHANGED store
Allowed ==
    /\ scenario # "engine" => Calm'
    /\ scenario # "again" => ~Repeats
    /\ scenario # "tab" => views' = views

MCInit == Init /\ scenario \in {"engine", "again", "tab"}
MCNext == Next /\ Allowed /\ UNCHANGED scenario
MCSpec == MCInit /\ [][MCNext]_MCvars /\ Fairness
=============================================================================
