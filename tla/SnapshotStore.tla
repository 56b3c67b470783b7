---------------------------- MODULE SnapshotStore ----------------------------
(***************************************************************************)
(* What the model store promises to durable sessions: a snapshot is there  *)
(* or it is not, a session binds only to a snapshot that is there, and a   *)
(* snapshot that any session binds does not go away.                       *)
(***************************************************************************)
CONSTANTS
    Snaps,      \* exact snapshot ids
    Sessions,   \* durable sessions
    NoOne       \* no snapshot

VARIABLES
    installed,  \* the snapshots at their destination
    bound       \* the snapshot each session is bound to

vars == <<installed, bound>>

Init == installed = {} /\ bound = [x \in Sessions |-> NoOne]

(* Publication of a certified snapshot.                                    *)
Install(s) == s \notin installed /\ installed' = installed \cup {s} /\ UNCHANGED bound

(* Removal, replacement of an invalid occupant, a publication undone.      *)
Withdraw(s) ==
    /\ s \in installed /\ \A x \in Sessions : bound[x] # s
    /\ installed' = installed \ {s} /\ UNCHANGED bound

Bind(x, s) ==
    /\ s \in installed /\ bound[x] \in {NoOne, s}
    /\ bound' = [bound EXCEPT ![x] = s] /\ UNCHANGED installed

(* The session is deleted and its name used again.                         *)
Release(x) == bound' = [bound EXCEPT ![x] = NoOne] /\ UNCHANGED installed

Next ==
    \/ \E s \in Snaps : Install(s) \/ Withdraw(s)
    \/ \E x \in Sessions : Release(x) \/ \E s \in Snaps : Bind(x, s)

Spec == Init /\ [][Next]_vars
=============================================================================
