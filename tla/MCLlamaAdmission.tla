-------------------------- MODULE MCLlamaAdmission --------------------------
(* Small instances of LlamaAdmission for TLC.                               *)
EXTENDS LlamaAdmission, TLC

CONSTANTS c1, c2, c3

(* Two share the cache of four, the third does not fit beside them.         *)
MCCost == [c \in Clients |-> IF c = c3 THEN 3 ELSE 2]

(* An equal share of a cache of six.                                        *)
MCShare == [c \in Clients |-> 2]
=============================================================================
