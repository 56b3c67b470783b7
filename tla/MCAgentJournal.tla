---------------------------- MODULE MCAgentJournal ----------------------------
(* Finite instances of AgentJournal: the processes are interchangeable.    *)
EXTENDS AgentJournal, TLC

Symmetry == Permutations(Procs)

=============================================================================
