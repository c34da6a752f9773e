--------------------------- MODULE MCResearchRuns ---------------------------
(***************************************************************************)
(* One request at a time, of a user who may retry once and ask once more.   *)
(***************************************************************************)
EXTENDS ResearchRuns

CONSTANTS request
=============================================================================
