---------------------------- MODULE MCModelStore ----------------------------
(* Instances of ModelStore for TLC.                                        *)
EXTENDS ModelStore, TLC

Symmetry == Permutations(Procs) \cup Permutations(Entries)
=============================================================================
