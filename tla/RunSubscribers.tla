--------------------------- MODULE RunSubscribers ---------------------------
(***************************************************************************)
(* state/run_subscribers.py: who follows a run.  A follower is one event    *)
(* stream (a tab); it stamps its run in every turn of its loop and takes    *)
(* its stamp back when it is closed properly.  A stamp older than           *)
(* AttendedFor counts for nothing, so a stream that broke off is forgotten. *)
(***************************************************************************)
EXTENDS Integers

CONSTANTS
    Runs,           \* runs, each with the account it belongs to
    Followers,      \* streams
    Follows,        \* the run a stream follows
    AttendedFor,    \* _ATTENDED_FOR_S
    KeepAlive       \* the longest turn of a stream's loop

ASSUME FollowersAssumption ==
    /\ Follows \in [Followers -> Runs]
    /\ KeepAlive \in Nat \ {0} /\ AttendedFor \in Nat /\ KeepAlive < AttendedFor

VARIABLES
    stamps,     \* _SEEN: how long ago each stream stamped; AttendedFor is never, or too long ago
    streams     \* the streams that are open

followersVars == <<stamps, streams>>

FollowersTypeOK == stamps \in [Followers -> 0..AttendedFor] /\ streams \subseteq Followers

FollowersInit == stamps = [f \in Followers |-> AttendedFor] /\ streams = {}

(* is_attended: any follower will do                                        *)
IsAttended(r) == \E f \in Followers : Follows[f] = r /\ stamps[f] < AttendedFor

(* A stream opens and stamps before its first wait, and stamps again in     *)
(* each turn.                                                               *)
MarkSeen(f) ==
    /\ stamps' = [stamps EXCEPT ![f] = 0]
    /\ streams' = streams \cup {f}

(* Variant: the run's stamps go with the stream.                            *)
DepartedAll(f) == [g \in Followers |-> IF Follows[g] = Follows[f] THEN AttendedFor ELSE stamps[g]]
Departed(f) == [stamps EXCEPT ![f] = AttendedFor]

(* The loop of a stream ends: subscriber_departed takes the stamp back,     *)
(* unless the generator was dropped without being closed.                   *)
Depart(f) ==
    /\ f \in streams
    /\ streams' = streams \ {f}
    /\ stamps' \in {Departed(f), stamps}

(* No turn of an open stream is longer than KeepAlive.                      *)
StreamsTurn == \A f \in streams : stamps[f] < KeepAlive
Older == [f \in Followers |-> IF stamps[f] < AttendedFor THEN stamps[f] + 1 ELSE AttendedFor]
=============================================================================
