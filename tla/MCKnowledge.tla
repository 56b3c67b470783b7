----------------------------- MODULE MCKnowledge -----------------------------
(* Knowledge instantiated for TLC.                                         *)
EXTENDS Knowledge, TLC

(* Keys are interchangeable, and so are worker slots.                      *)
Symmetric == Permutations(Keys) \cup Permutations(Workers)

=============================================================================
