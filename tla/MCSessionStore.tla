---------------------------- MODULE MCSessionStore ----------------------------
(* Finite instances of SessionStore: the slots are interchangeable.        *)
EXTENDS SessionStore, TLC

Symmetry == Permutations(Handles) \cup Permutations(Workers)

=============================================================================
