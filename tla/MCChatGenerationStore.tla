----------------------- MODULE MCChatGenerationStore -----------------------
(***************************************************************************)
(* An answer and its regeneration, from the same prompt of one chat.        *)
(***************************************************************************)
EXTENDS ChatGenerationStore

CONSTANTS r1, r2, t1, p1

MCThreadOf == [r \in Runs |-> t1]
MCPromptOf == [r \in Runs |-> p1]
MCBatches == {<<Chunk(1)>>, <<Chunk(1), Chunk(2)>>}
=============================================================================
