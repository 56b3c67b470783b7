------------------------------ MODULE MCAssets ------------------------------
(* Assets instantiated for TLC.                                            *)
EXTENDS Assets, TLC

(* Values of one kind are interchangeable.                                 *)
Symmetric == Permutations(Storers) \cup Permutations(Temps)

=============================================================================
