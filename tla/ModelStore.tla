----------------------------- MODULE ModelStore -----------------------------
(***************************************************************************)
(* Installed model snapshots under one Emelex Home, changed by several     *)
(* processes: Hub downloads through a resumable workspace, local imports,  *)
(* publication by rename, binding to sessions, loads that refresh the      *)
(* verification stamp, removal to quarantine and its garbage collection.   *)
(*                                                                         *)
(* Two file locks order the processes: one per Hub revision around its     *)
(* transfer workspace, and the snapshot-mutation lock of the home.  Every  *)
(* file-system call that a crash can separate from the next, or that runs  *)
(* outside the mutation lock, is an action of its own.                     *)
(*                                                                         *)
(* Abstractions: the bytes of a snapshot are good or bad; ownership and    *)
(* modes are valid except the write bit of a published directory; ages are *)
(* old enough or not; a rename is atomic, and durable once the parent      *)
(* directory was synced.                                                   *)
(***************************************************************************)
EXTENDS Naturals, FiniteSets, Functions

CONSTANTS
    Hub,            \* exact Hub revisions
    Local,          \* local names with a content digest
    Procs,          \* processes
    Sessions,       \* durable sessions
    Entries,        \* names for quarantine directories
    NoOne,          \* nobody, nothing
    Ops,            \* the operations that processes begin
    Faults,         \* the faults that happen
    MaxOps,         \* bound: operations begun
    MaxFaults       \* bound: faults

Snaps == Hub \cup Local
Imports == {"copy", "move", "link"}

ASSUME ModelStoreAssumption ==
    /\ NoOne \notin Procs \cup Snaps \cup Entries /\ Hub \cap Local = {}
    /\ Ops \subseteq Imports \cup {"download", "remove", "bind", "load", "gc", "delete"}
    /\ Faults \subseteq {"drift", "rot", "edit", "crash", "power"}
    /\ MaxOps \in Nat /\ MaxFaults \in Nat

VARIABLES
    dest,       \* what stands at each snapshot's destination
    work,       \* the transfer workspace of each Hub revision
    stage,      \* the staging directory of each process's import
    quar,       \* the quarantine
    mlock,      \* holder of the snapshot-mutation lock
    bound,      \* sessions.model_snapshot
    source,     \* the directory that imports read
    proc,       \* the running operations
    begun, faulted

vars == <<dest, work, stage, quar, mlock, bound, source, proc, begun, faulted>>

(* stamp: .verified agrees with the files' metadata, or the metadata moved *)
(* on, or it is missing or torn.                                           *)
Install == [source : {"hub", "owned", "link"}, files : {"good", "bad"},
            stamp : {"valid", "drift", "none"}, writable : BOOLEAN, synced : BOOLEAN]
None == [source |-> "none"]

Payload == {"none", "partial", "bad", "complete", "sealed"}
Workspace == [holder : Procs \cup {NoOne}, record : {"none", "torn", "full"}, payload : Payload]

QuarantineEntry == [record : BOOLEAN, snap : Snaps \cup {NoOne}, payload : BOOLEAN, old : BOOLEAN]

(* orig: the mode that refresh_verification_stamp will restore, through a  *)
(* descriptor that follows a directory moved meanwhile.                    *)
Process == [op : Ops \cup {"none"},
            pc : {"idle", "acquire", "reuse", "prepare", "recorded", "fetch", "certify", "publish",
                  "seal", "recheck", "rename", "confirm", "finish", "clear", "release", "retire",
                  "sweep", "mkdir", "record", "move", "validate", "prep", "unlink", "write",
                  "restore", "commit", "gc", "gclock", "gcrm", "done"},
            snap : Snaps \cup {NoOne}, from : {"dest", "payload", "stage"},
            next : {"idle", "prepare", "certify", "rename", "finish", "clear", "sweep", "commit",
                    "mkdir", "done"},
            entry : Entries \cup {NoOne}, orig : {"ro", "rw", "moved"}, session : Sessions \cup {NoOne},
            todo : SUBSET Entries]

TypeOK ==
    /\ dest \in [Snaps -> Install \cup {None}]
    /\ work \in [Hub -> Workspace]
    /\ stage \in [Procs -> {"none", "complete", "sealed"}]
    /\ DOMAIN quar \subseteq Entries /\ \A e \in DOMAIN quar : quar[e] \in QuarantineEntry
    /\ mlock \in Procs \cup {NoOne}
    /\ bound \in [Sessions -> Snaps \cup {NoOne}]
    /\ source \in {"here", "changed", "gone"}
    /\ proc \in [Procs -> Process]
    /\ begun \in 0..MaxOps /\ faulted \in 0..MaxFaults

Idle == [op |-> "none", pc |-> "idle", snap |-> NoOne, from |-> "dest", next |-> "idle",
         entry |-> NoOne, orig |-> "ro", session |-> NoOne, todo |-> {}]

Init ==
    /\ dest = [s \in Snaps |-> None]
    /\ work = [s \in Hub |-> [holder |-> NoOne, record |-> "none", payload |-> "none"]]
    /\ stage = [p \in Procs |-> "none"]
    /\ quar = <<>> /\ mlock = NoOne
    /\ bound = [x \in Sessions |-> NoOne]
    /\ source = "here"
    /\ proc = [p \in Procs |-> Idle]
    /\ begun = 0 /\ faulted = 0

-----------------------------------------------------------------------------
Me(p) == proc[p]
At(p, pc) == proc[p].pc = pc
Goto(p, pc) == proc' = [proc EXCEPT ![p].pc = pc]
Snap(p) == proc[p].snap

Referenced(s) == \E x \in Sessions : bound[x] = s

(* load_installed_at and revalidate_installed_snapshot accept what stands  *)
(* at the destination: the stamp vouches for the files, or the metadata    *)
(* moved on and the files still hash to the manifest.  A link record has   *)
(* no stamp and is always hashed.                                          *)
Healthy(s) ==
    /\ dest[s] # None
    /\ \/ dest[s].source = "link" /\ dest[s].files = "good"
       \/ dest[s].source # "link" /\ dest[s].stamp = "valid"
       \/ dest[s].source # "link" /\ dest[s].stamp = "drift" /\ dest[s].files = "good"

SourceOf(op) == CASE op = "download" -> "hub" [] op = "link" -> "link" [] OTHER -> "owned"

(* What verify_installed_files finds is good enough to reuse, in the way   *)
(* of another kind of import, or invalid.                                  *)
Occupant(p) ==
    LET s == Snap(p) IN
    CASE dest[s] = None -> "absent"
      [] Healthy(s) /\ dest[s].source = SourceOf(Me(p).op) -> "reuse"
      [] Healthy(s) /\ dest[s].source # SourceOf(Me(p).op) -> "conflict"
      [] OTHER -> IF Referenced(s) THEN "referenced" ELSE "invalid"

(* Where an operation goes when its outcome is known: the workspace of a   *)
(* download is finished, the staging of an import swept.                   *)
Ending(p) ==
    CASE Me(p).op = "download" -> "finish"
      [] Me(p).op \in Imports -> "sweep"
      [] OTHER -> "done"

Settled(p) == IF Me(p).op = "move" THEN "retire" ELSE Ending(p)

MayLock(p) == mlock \in {NoOne, p}
Unlocked(p) == IF mlock = p THEN NoOne ELSE mlock

-----------------------------------------------------------------------------
(* Beginning and ending.  A download may name any Hub revision, an import  *)
(* any local name; the other operations act on what an earlier resolution  *)
(* found.                                                                  *)
Begin(p, op, s, x, pc) ==
    /\ At(p, "idle") /\ op \in Ops /\ begun < MaxOps
    /\ proc' = [proc EXCEPT ![p] = [Idle EXCEPT !.op = op, !.pc = pc, !.snap = s, !.session = x]]
    /\ begun' = begun + 1

Unchanged == UNCHANGED <<dest, work, quar, mlock, bound, source, faulted>>

BeginDownload(p) ==
    \E s \in Hub : Begin(p, "download", s, NoOne, "acquire") /\ Unchanged /\ UNCHANGED stage

(* import_with_options and import_symlink up to the first reuse check: the *)
(* copies are verified as they are staged; a link stages nothing yet.      *)
BeginImport(p) ==
    \E s \in Local, op \in Imports :
        /\ source = "here"
        /\ Begin(p, op, s, NoOne, "reuse")
        /\ stage' = [stage EXCEPT ![p] = IF op = "link" THEN "none" ELSE "complete"]
        /\ Unchanged

BeginOnInstalled(p) ==
    \E s \in Snaps :
        /\ Healthy(s)
        /\ \/ \E op \in {"remove", "load"} : Begin(p, op, s, NoOne, "validate")
           \/ \E x \in Sessions : Begin(p, "bind", s, x, "validate")
        /\ Unchanged /\ UNCHANGED stage

End(p) ==
    /\ At(p, "done")
    /\ proc' = [proc EXCEPT ![p] = Idle]
    /\ UNCHANGED <<dest, work, stage, quar, mlock, bound, source, begun, faulted>>

(* delete_session drops the row and the reference with it.                 *)
DeleteSession(x) ==
    /\ "delete" \in Ops /\ begun < MaxOps /\ bound[x] # NoOne
    /\ bound' = [bound EXCEPT ![x] = NoOne] /\ begun' = begun + 1
    /\ UNCHANGED <<dest, work, stage, quar, mlock, source, proc, faulted>>

-----------------------------------------------------------------------------
(* move_to_quarantine: a directory, its synced record, the rename.  It is  *)
(* called with the mutation lock for destinations and without it for       *)
(* payloads and staging.                                                   *)
Quarantine(p, from, next) ==
    proc' = [proc EXCEPT ![p].pc = "mkdir", ![p].from = from, ![p].next = next]

(* Names are never used twice while anyone remembers them.                 *)
FreeEntries ==
    {e \in Entries \ DOMAIN quar : \A p \in Procs : e # proc[p].entry /\ e \notin proc[p].todo}

(* Without a free name the directory cannot be created, as on a full disk. *)
MakeEntry(p) ==
    /\ At(p, "mkdir")
    /\ \/ \E e \in FreeEntries :
            /\ quar' = [f \in DOMAIN quar \cup {e} |->
                          IF f = e THEN [record |-> FALSE, payload |-> FALSE, old |-> FALSE,
                                         snap |-> IF Me(p).from = "stage" THEN NoOne ELSE Snap(p)]
                                   ELSE quar[f]]
            /\ proc' = [proc EXCEPT ![p].pc = "record", ![p].entry = e]
            /\ UNCHANGED mlock
       \/ /\ FreeEntries = {}
          /\ proc' = [proc EXCEPT ![p].pc =
                        IF Me(p).from = "payload" THEN "release"
                        ELSE IF Me(p).from = "dest" THEN Ending(p) ELSE "done"]
          /\ mlock' = Unlocked(p) /\ UNCHANGED quar
    /\ UNCHANGED <<dest, work, stage, bound, source, begun, faulted>>

(* A collection that meets the directory before its record stops there.    *)
RecordEntry(p) ==
    /\ At(p, "record")
    /\ quar' = [quar EXCEPT ![Me(p).entry].record = TRUE]
    /\ Goto(p, "move")
    /\ UNCHANGED <<dest, work, stage, mlock, bound, source, begun, faulted>>

(* The lock is kept only by a publication that goes on to its rename.  A   *)
(* load in the middle of its refresh keeps the moved directory open.  A    *)
(* collection may have deleted the entry under a move without the lock.    *)
MoveEntry(p) ==
    LET e == Me(p).entry
        there == e \in DOMAIN quar
        fail == IF Me(p).from = "payload" THEN "release" ELSE "done" IN
    /\ At(p, "move")
    /\ quar' = IF there THEN [quar EXCEPT ![e].payload = TRUE] ELSE quar
    /\ dest' = IF Me(p).from = "dest" THEN [dest EXCEPT ![Snap(p)] = None] ELSE dest
    /\ work' = IF Me(p).from = "payload" /\ there
               THEN [work EXCEPT ![Snap(p)].payload = "none"] ELSE work
    /\ stage' = IF Me(p).from = "stage" THEN [stage EXCEPT ![p] = "none"] ELSE stage
    /\ proc' = [q \in Procs |->
                  IF q = p THEN [proc[q] EXCEPT !.pc = IF there THEN Me(p).next ELSE fail,
                                                !.entry = NoOne]
                  ELSE IF Me(p).from = "dest" /\ Snap(q) = Snap(p)
                          /\ proc[q].pc \in {"unlink", "write", "restore"}
                  THEN [proc[q] EXCEPT !.orig = "moved"] ELSE proc[q]]
    /\ mlock' = IF Me(p).next = "rename" THEN mlock ELSE Unlocked(p)
    /\ UNCHANGED <<bound, source, begun, faulted>>

-----------------------------------------------------------------------------
(* Reuse.  reuse_existing_locked with the lock taken for it alone, or with *)
(* the lock of the publication: a healthy snapshot of the same kind is     *)
(* returned, an invalid one that no session binds is quarantined.          *)
ReuseExisting(p, absent) ==
    LET found == Occupant(p) IN
    IF found = "invalid"
    THEN Quarantine(p, "dest", absent) /\ mlock' = p
    ELSE /\ Goto(p, CASE found = "absent" -> absent
                     [] found = "reuse" -> Settled(p)
                     [] OTHER -> Ending(p))
         /\ mlock' = IF found = "absent" /\ absent = "rename" THEN mlock ELSE Unlocked(p)

CheckExisting(p) ==
    /\ At(p, "reuse") /\ MayLock(p)
    /\ ReuseExisting(p, IF Me(p).op = "download" THEN "prepare" ELSE "certify")
    /\ UNCHANGED <<dest, work, stage, quar, bound, source, begun, faulted>>

RecheckExisting(p) ==
    /\ At(p, "recheck")
    /\ ReuseExisting(p, "rename")
    /\ UNCHANGED <<dest, work, stage, quar, bound, source, begun, faulted>>

-----------------------------------------------------------------------------
(* The Hub transfer workspace.                                             *)
Acquire(p) ==
    /\ At(p, "acquire") /\ work[Snap(p)].holder = NoOne
    /\ work' = [work EXCEPT ![Snap(p)].holder = p]
    /\ Goto(p, "reuse")
    /\ UNCHANGED <<dest, stage, quar, mlock, bound, source, begun, faulted>>

(* prepare_hub_transfer: a payload without its record is unsafe, a record  *)
(* that a crash tore does not parse; both end the transfer.                *)
PrepareTransfer(p) ==
    LET w == work[Snap(p)] IN
    /\ At(p, "prepare")
    /\ CASE w.record = "full" -> Goto(p, "recorded") /\ UNCHANGED work
         [] w.record = "none" /\ w.payload = "none" ->
              Goto(p, "recorded") /\ work' = [work EXCEPT ![Snap(p)].record = "torn"]
         [] OTHER -> Goto(p, "finish") /\ UNCHANGED work
    /\ UNCHANGED <<dest, stage, quar, mlock, bound, source, begun, faulted>>

(* Mutant: what was sealed is fetched again.                               *)
NormalizedAfresh(payload) == IF payload \in {"none", "sealed"} THEN "partial" ELSE payload

(* The record is synced before the payload exists.  What an interrupted    *)
(* publication sealed is opened again without its manifest and stamp.      *)
Normalized(payload) ==
    CASE payload = "none" -> "partial" [] payload = "sealed" -> "complete" [] OTHER -> payload

NormalizePayload(p) ==
    /\ At(p, "recorded")
    /\ work' = [work EXCEPT ![Snap(p)].record = "full", ![Snap(p)].payload = Normalized(@)]
    /\ Goto(p, "fetch")
    /\ UNCHANGED <<dest, stage, quar, mlock, bound, source, begun, faulted>>

(* The missing bytes arrive, the right ones or not; files that are         *)
(* complete are not fetched again.                                         *)
Fetch(p) ==
    /\ At(p, "fetch")
    /\ \E got \in {"complete", "bad"} :
           work' = [work EXCEPT ![Snap(p)].payload = IF @ = "partial" THEN got ELSE @]
    /\ Goto(p, "certify")
    /\ UNCHANGED <<dest, stage, quar, mlock, bound, source, begun, faulted>>

(* verify_files_controlled and the runtime probe of a download, the probe  *)
(* of an import, which may also fail for the model itself.                 *)
Verified(p) == Me(p).op = "download" => work[Snap(p)].payload = "complete"

Certify(p) ==
    /\ At(p, "certify") /\ Verified(p)
    /\ Goto(p, IF Me(p).op = "download" THEN "publish" ELSE "seal")
    /\ UNCHANGED <<dest, work, stage, quar, mlock, bound, source, begun, faulted>>

(* An error that retain_hub_transfer_after does not retain, or any error   *)
(* of an import before publication.                                        *)
Fail(p) ==
    /\ \/ Me(p).op = "download" /\ Me(p).pc \in {"reuse", "prepare", "fetch", "certify"}
       \/ Me(p).op \in Imports /\ Me(p).pc \in {"certify", "seal"}
    /\ Goto(p, Ending(p))
    /\ UNCHANGED <<dest, work, stage, quar, mlock, bound, source, begun, faulted>>

(* Cancellation, a lost connection, a full disk: the workspace is kept as  *)
(* it is and the next download of the revision resumes it.                 *)
Pause(p) ==
    /\ Me(p).op = "download"
    /\ Me(p).pc \in {"acquire", "reuse", "prepare", "fetch", "certify", "publish", "seal", "recheck",
                     "rename"}
    /\ Goto(p, "release") /\ mlock' = Unlocked(p)
    /\ UNCHANGED <<dest, work, stage, quar, bound, source, begun, faulted>>

(* finish_hub_transfer: what is left of the payload is quarantined without *)
(* the mutation lock, then the record goes, then the workspace lock.       *)
FinishTransfer(p) ==
    /\ At(p, "finish")
    /\ IF work[Snap(p)].payload = "none" THEN Goto(p, "clear") ELSE Quarantine(p, "payload", "clear")
    /\ UNCHANGED <<dest, work, stage, quar, mlock, bound, source, begun, faulted>>

ClearTransfer(p) ==
    /\ At(p, "clear")
    /\ work' = [work EXCEPT ![Snap(p)].record = "none"]
    /\ Goto(p, "release")
    /\ UNCHANGED <<dest, stage, quar, mlock, bound, source, begun, faulted>>

(* Mutant: the workspace lock is not released.                             *)
ReleaseNothing(p) ==
    /\ At(p, "release") /\ Goto(p, "done")
    /\ UNCHANGED <<dest, work, stage, quar, mlock, bound, source, begun, faulted>>

ReleaseTransfer(p) ==
    /\ At(p, "release")
    /\ work' = [work EXCEPT ![Snap(p)].holder = IF @ = p THEN NoOne ELSE @]
    /\ Goto(p, "done")
    /\ UNCHANGED <<dest, stage, quar, mlock, bound, source, begun, faulted>>

-----------------------------------------------------------------------------
(* Publication.  A download writes its manifest and stamp with the         *)
(* mutation lock held, an import before it takes the lock.                 *)
PublishLock(p) ==
    /\ At(p, "publish") /\ MayLock(p)
    /\ mlock' = p
    /\ Goto(p, IF Me(p).op = "download" THEN "seal" ELSE "recheck")
    /\ UNCHANGED <<dest, work, stage, quar, bound, source, begun, faulted>>

Seal(p) ==
    /\ At(p, "seal")
    /\ IF Me(p).op = "download"
       THEN work' = [work EXCEPT ![Snap(p)].payload = "sealed"] /\ UNCHANGED stage
       ELSE stage' = [stage EXCEPT ![p] = "sealed"] /\ UNCHANGED work
    /\ Goto(p, IF Me(p).op = "download" THEN "recheck" ELSE "publish")
    /\ UNCHANGED <<dest, quar, mlock, bound, source, begun, faulted>>

Rename(p) ==
    /\ At(p, "rename")
    /\ dest' = [dest EXCEPT ![Snap(p)] =
                  [source |-> SourceOf(Me(p).op), files |-> "good", stamp |-> "valid",
                   writable |-> TRUE, synced |-> FALSE]]
    /\ IF Me(p).op = "download"
       THEN work' = [work EXCEPT ![Snap(p)].payload = "none"] /\ UNCHANGED stage
       ELSE stage' = [stage EXCEPT ![p] = "none"] /\ UNCHANGED work
    /\ Goto(p, "confirm")
    /\ UNCHANGED <<quar, mlock, bound, source, begun, faulted>>

(* Mutant: the directory above is not synced.                              *)
ConfirmUnsynced(p) ==
    /\ At(p, "confirm") /\ Healthy(Snap(p))
    /\ dest' = [dest EXCEPT ![Snap(p)].writable = FALSE]
    /\ Goto(p, Settled(p)) /\ mlock' = Unlocked(p)
    /\ UNCHANGED <<work, stage, quar, bound, source, begun, faulted>>

(* The directory above is synced, the snapshot is loaded back and becomes  *)
(* read-only; any failure quarantines it before the lock is released.      *)
Confirm(p) ==
    /\ At(p, "confirm")
    /\ \/ /\ Healthy(Snap(p))
          /\ dest' = [dest EXCEPT ![Snap(p)].synced = TRUE, ![Snap(p)].writable = FALSE]
          /\ Goto(p, Settled(p)) /\ mlock' = Unlocked(p)
       \/ Quarantine(p, "dest", Ending(p)) /\ UNCHANGED <<dest, mlock>>
    /\ UNCHANGED <<work, stage, quar, bound, source, begun, faulted>>

(* retire_source_files: only files that are still the ones copied go.      *)
Retire(p) ==
    /\ At(p, "retire")
    /\ source' = IF source = "here" THEN "gone" ELSE source
    /\ Goto(p, "sweep")
    /\ UNCHANGED <<dest, work, stage, quar, mlock, bound, begun, faulted>>

(* StagingGuard::drop hands what is left to the cleanup thread.            *)
Sweep(p) ==
    /\ At(p, "sweep")
    /\ IF stage[p] = "none" THEN Goto(p, "done") ELSE Quarantine(p, "stage", "done")
    /\ UNCHANGED <<dest, work, stage, quar, mlock, bound, source, begun, faulted>>

-----------------------------------------------------------------------------
(* revalidate_installed_snapshot: binding and removal hold the mutation    *)
(* lock around it, loading and inspecting do not.                          *)
Validate(p) ==
    LET s == Snap(p)
        locks == Me(p).op \in {"bind", "remove"} IN
    /\ At(p, "validate") /\ (locks => MayLock(p))
    /\ IF Healthy(s)
       THEN /\ IF dest[s].stamp = "drift" /\ dest[s].source # "link"
               THEN proc' = [proc EXCEPT ![p].pc = "prep",
                                         ![p].next = IF locks THEN "commit" ELSE "done"]
               ELSE Goto(p, IF locks THEN "commit" ELSE "done")
            /\ mlock' = IF locks THEN p ELSE mlock
       ELSE Goto(p, "done") /\ UNCHANGED mlock
    /\ UNCHANGED <<dest, work, stage, quar, bound, source, begun, faulted>>

(* refresh_verification_stamp after a rehash: the directory is made        *)
(* writable, the old stamp removed, a new one created, the mode restored.  *)
(* Each call may meet what another refresh did meanwhile.                  *)
PrepareMode(p) ==
    LET s == Snap(p) IN
    /\ At(p, "prep")
    /\ IF dest[s] = None
       THEN Goto(p, "done") /\ mlock' = Unlocked(p) /\ UNCHANGED dest
       ELSE /\ proc' = [proc EXCEPT ![p].pc = "unlink",
                                    ![p].orig = IF dest[s].writable THEN "rw" ELSE "ro"]
            /\ dest' = [dest EXCEPT ![s].writable = TRUE] /\ UNCHANGED mlock
    /\ UNCHANGED <<work, stage, quar, bound, source, begun, faulted>>

Refused(p) == proc' = [proc EXCEPT ![p].pc = "restore", ![p].next = "done"]

RemoveStamp(p) ==
    LET s == Snap(p) IN
    /\ At(p, "unlink")
    /\ IF dest[s] = None \/ dest[s].stamp = "none"
       THEN Goto(p, "write") /\ UNCHANGED dest
       ELSE IF dest[s].writable
       THEN Goto(p, "write") /\ dest' = [dest EXCEPT ![s].stamp = "none"]
       ELSE Refused(p) /\ UNCHANGED dest
    /\ UNCHANGED <<work, stage, quar, mlock, bound, source, begun, faulted>>

WriteStamp(p) ==
    LET s == Snap(p)
        may == dest[s] # None /\ dest[s].files = "good" /\ dest[s].writable /\ dest[s].stamp = "none" IN
    /\ At(p, "write")
    /\ IF may THEN Goto(p, "restore") /\ dest' = [dest EXCEPT ![s].stamp = "valid"]
              ELSE Refused(p) /\ UNCHANGED dest
    /\ UNCHANGED <<work, stage, quar, mlock, bound, source, begun, faulted>>

RestoreMode(p) ==
    /\ At(p, "restore")
    /\ dest' = IF Me(p).orig = "moved" THEN dest
               ELSE [dest EXCEPT ![Snap(p)].writable = Me(p).orig = "rw"]
    /\ Goto(p, Me(p).next)
    /\ mlock' = IF Me(p).next = "done" THEN Unlocked(p) ELSE mlock
    /\ UNCHANGED <<work, stage, quar, bound, source, begun, faulted>>

(* The transaction of bind_session_model; the reference check and the      *)
(* quarantine of remove.                                                   *)
CommitBinding(p) ==
    /\ At(p, "commit") /\ Me(p).op = "bind"
    /\ bound' = IF bound[Me(p).session] = NoOne
                THEN [bound EXCEPT ![Me(p).session] = Snap(p)] ELSE bound
    /\ Goto(p, "done") /\ mlock' = Unlocked(p)
    /\ UNCHANGED <<dest, work, stage, quar, source, begun, faulted>>

(* Mutant: removal asks no session.                                        *)
RemoveUnasked(p) ==
    /\ At(p, "commit") /\ Me(p).op = "remove"
    /\ Quarantine(p, "dest", "done")
    /\ UNCHANGED <<dest, work, stage, quar, mlock, bound, source, begun, faulted>>

Remove(p) ==
    /\ At(p, "commit") /\ Me(p).op = "remove"
    /\ IF Referenced(Snap(p)) THEN Goto(p, "done") /\ mlock' = Unlocked(p)
                              ELSE Quarantine(p, "dest", "done") /\ UNCHANGED mlock
    /\ UNCHANGED <<dest, work, stage, quar, bound, source, begun, faulted>>

-----------------------------------------------------------------------------
(* gc_quarantine reads the directory and goes through it; an entry without *)
(* a record, or whose snapshot a session binds, ends the pass with an      *)
(* error.                                                                  *)
BeginGc(p) ==
    /\ At(p, "idle") /\ "gc" \in Ops /\ quar # <<>>
    /\ proc' = [proc EXCEPT ![p] = [Idle EXCEPT !.op = "gc", !.pc = "gc", !.todo = DOMAIN quar]]
    /\ UNCHANGED <<dest, work, stage, quar, mlock, bound, source, begun, faulted>>

GcEntry(p) ==
    /\ At(p, "gc")
    /\ \/ Me(p).todo = {} /\ Goto(p, "done")
       \/ \E e \in Me(p).todo :
            proc' = [proc EXCEPT ![p].todo = @ \ {e}, ![p].entry = e,
                       ![p].pc = IF e \notin DOMAIN quar \/ ~quar[e].record THEN "done"
                                 ELSE IF quar[e].old THEN "gclock" ELSE "gc"]
    /\ UNCHANGED <<dest, work, stage, quar, mlock, bound, source, begun, faulted>>

GcLock(p) ==
    LET e == Me(p).entry IN
    /\ At(p, "gclock") /\ MayLock(p)
    /\ IF e \notin DOMAIN quar \/ Referenced(quar[e].snap)
       THEN Goto(p, "done") /\ UNCHANGED <<quar, mlock>>
       ELSE /\ quar' = [quar EXCEPT ![e].record = FALSE]
            /\ Goto(p, "gcrm") /\ mlock' = p
    /\ UNCHANGED <<dest, work, stage, bound, source, begun, faulted>>

GcRemove(p) ==
    /\ At(p, "gcrm")
    /\ quar' = Restrict(quar, DOMAIN quar \ {Me(p).entry})
    /\ Goto(p, "gc") /\ mlock' = Unlocked(p)
    /\ UNCHANGED <<dest, work, stage, bound, source, begun, faulted>>

(* Time passes for a quarantined directory that has its record.            *)
Age(e) ==
    /\ e \in DOMAIN quar /\ quar[e].record /\ ~quar[e].old
    /\ quar' = [quar EXCEPT ![e].old = TRUE]
    /\ UNCHANGED <<dest, work, stage, mlock, bound, source, proc, begun, faulted>>

-----------------------------------------------------------------------------
(* Faults: file metadata moves on (a restored backup), contents rot, the   *)
(* owner edits the source of an import, a process is killed, power fails.  *)
Fault(kind) == kind \in Faults /\ faulted < MaxFaults /\ faulted' = faulted + 1

Disturb(s) ==
    /\ dest[s] # None /\ dest[s].synced
    /\ \/ /\ Fault("drift") /\ dest[s].stamp = "valid"
          /\ dest' = [dest EXCEPT ![s].stamp = "drift"]
       \/ /\ Fault("rot")
          /\ dest' = [dest EXCEPT ![s].files = "bad",
                                  ![s].stamp = IF @ = "valid" THEN "drift" ELSE @]
    /\ UNCHANGED <<work, stage, quar, mlock, bound, source, proc, begun>>

Edit ==
    /\ Fault("edit") /\ source = "here" /\ source' = "changed"
    /\ UNCHANGED <<dest, work, stage, quar, mlock, bound, proc, begun>>

Freed(P) == [s \in Hub |-> [work[s] EXCEPT !.holder = IF @ \in P THEN NoOne ELSE @]]

Crash(p) ==
    /\ Fault("crash") /\ ~At(p, "idle")
    /\ proc' = [proc EXCEPT ![p] = Idle]
    /\ mlock' = Unlocked(p) /\ work' = Freed({p})
    /\ stage' = [stage EXCEPT ![p] = "none"]
    /\ UNCHANGED <<dest, quar, bound, source, begun>>

(* A publication whose directory was not synced may be undone; what is     *)
(* there afterwards is on disk.                                            *)
PowerLoss ==
    /\ Fault("power")
    /\ \E lost \in SUBSET {s \in Snaps : dest[s] # None /\ ~dest[s].synced} :
          /\ dest' = [s \in Snaps |-> IF s \in lost \/ dest[s] = None THEN None
                                      ELSE [dest[s] EXCEPT !.synced = TRUE]]
          /\ work' = [s \in Hub |-> [Freed(Procs)[s] EXCEPT
                        !.payload = IF s \in lost THEN "sealed" ELSE @]]
    /\ proc' = [p \in Procs |-> Idle] /\ stage' = [p \in Procs |-> "none"]
    /\ mlock' = NoOne
    /\ UNCHANGED <<quar, bound, source, begun>>

-----------------------------------------------------------------------------
Step(p) ==
    \/ End(p) \/ MakeEntry(p) \/ RecordEntry(p) \/ MoveEntry(p)
    \/ CheckExisting(p) \/ RecheckExisting(p) \/ Acquire(p) \/ PrepareTransfer(p)
    \/ NormalizePayload(p) \/ Fetch(p) \/ Certify(p) \/ Fail(p) \/ FinishTransfer(p)
    \/ ClearTransfer(p) \/ ReleaseTransfer(p) \/ PublishLock(p) \/ Seal(p) \/ Rename(p)
    \/ Confirm(p) \/ Retire(p) \/ Sweep(p) \/ Validate(p) \/ PrepareMode(p) \/ RemoveStamp(p)
    \/ WriteStamp(p) \/ RestoreMode(p) \/ CommitBinding(p) \/ Remove(p) \/ GcEntry(p)
    \/ GcLock(p) \/ GcRemove(p)

Next ==
    \/ \E p \in Procs : \/ Step(p) \/ Pause(p) \/ Crash(p)
                       \/ BeginDownload(p) \/ BeginImport(p) \/ BeginOnInstalled(p) \/ BeginGc(p)
    \/ \E x \in Sessions : DeleteSession(x)
    \/ \E e \in Entries : Age(e)
    \/ \E s \in Snaps : Disturb(s)
    \/ Edit \/ PowerLoss

Spec == Init /\ [][Next]_vars

(* An operation that began goes on, the locks it polls or waits for are    *)
(* granted, time passes, and garbage collection is run again and again.    *)
FairSpec ==
    /\ Spec
    /\ \A p \in Procs : WF_vars(Step(p)) /\ WF_vars(BeginGc(p))
    /\ \A e \in Entries : WF_vars(Age(e))

-----------------------------------------------------------------------------
(* The store keeps its promise to sessions: every step of the processes    *)
(* is a step of the abstract store, or none (remove, bind_session_model,   *)
(* reuse_existing_locked, publication).                                    *)
Promise == INSTANCE SnapshotStore WITH installed <- {s \in Snaps : dest[s] # None}
KeepsPromise == Promise!Spec

(* A payload in a transfer workspace is always claimed by a whole record   *)
(* of its revision, whatever step of prepare_hub_transfer, publication or  *)
(* finish_hub_transfer was the last, so that no interrupted transfer is    *)
(* refused as unsafe and thrown away.                                      *)
PayloadIsClaimed == \A s \in Hub : work[s].payload # "none" => work[s].record = "full"

(* The copied snapshot is committed before the source of a move import is  *)
(* retired: from then on only its removal takes it away, a power failure   *)
(* at any moment does not, unless a removed copy is still in quarantine    *)
(* (import_with_options).                                                  *)
MovedIsNotLost ==
    [][\A s \in Local : source = "gone" /\ dest[s] # None /\ dest'[s] = None =>
         \/ \E p \in Procs : Snap(p) = s /\ At(p, "move")
         \/ \E e \in DOMAIN quar : quar[e].snap = s]_vars

(* A source that its owner changed after the copy stays                    *)
(* (retire_source_files).                                                  *)
ChangedSourceIsKept == [][source = "changed" => source' = "changed"]_vars

(* Bytes that a download completed are not fetched again: only an error    *)
(* that ends the transfer, or the publication, takes them out of the       *)
(* workspace (Pause, Crash and PowerLoss do not).                          *)
CompleteIsKept ==
    [][\A s \in Hub : work[s].payload \in {"complete", "sealed"} =>
         \/ work'[s].payload \in {"complete", "sealed"}
         \/ \E p \in Procs : Snap(p) = s /\ (At(p, "rename") \/ (At(p, "move") /\ Me(p).from = "payload"))]_vars

(* Whatever was begun comes to its end, whoever holds the locks.           *)
OperationsEnd == \A p \in Procs : ~At(p, "idle") ~> At(p, "idle")

(* An entry that a crash left without its record, or whose snapshot was    *)
(* installed again and bound, ends every pass where it is met.             *)
Blocked == \E e \in DOMAIN quar : ~quar[e].record \/ Referenced(quar[e].snap)

(* Where no such entry stays, what is old enough in quarantine is          *)
(* permanently deleted (gc_quarantine).                                    *)
QuarantineIsCollected ==
    <>[]~Blocked => []<>(\A e \in DOMAIN quar : ~quar[e].old)

(* A healthy local copy is revalidated and reused: reuse_existing_locked   *)
(* puts only what is really damaged into quarantine.                       *)
HealthyIsReused ==
    \A p \in Procs :
        At(p, "move") /\ Me(p).from = "dest" /\ Me(p).next \in {"prepare", "certify", "rename"}
            => dest[Snap(p)].files = "bad"

(* A published directory is writable only while a stamp is being replaced. *)
ReadOnlyAtRest ==
    \A s \in Snaps :
        dest[s] # None /\ dest[s].writable =>
            \E p \in Procs : Snap(p) = s /\ ~At(p, "idle")

(* A move import never costs the user the only good copy, and never an     *)
(* edit made meanwhile.                                                    *)
SourcesAreKept == MovedIsNotLost /\ ChangedSourceIsKept

(* Interrupted transfers are resumed: their bytes stay, under a record     *)
(* that the next process accepts.                                          *)
TransfersAreKept == [](TypeOK /\ PayloadIsClaimed) /\ CompleteIsKept

(* Nobody waits for ever for a lock, and quarantine is emptied. *)
StoreSettles == OperationsEnd /\ QuarantineIsCollected
=============================================================================
