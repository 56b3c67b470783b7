---------------------------- MODULE MCAgentTurn ------------------------------
EXTENDS AgentTurn

(* A session that starts with its compaction summary. *)
MCHistories == {<<User>>}
=============================================================================
