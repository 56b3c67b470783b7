-------------------------- MODULE ModelStoreProofs --------------------------
(***************************************************************************)
(* Proofs about ModelStore: while the power stays on, every process, crash *)
(* and disturbance is a step of the abstract store or none, and a transfer *)
(* that was interrupted is always left as the next process resumes it.     *)
(* The numbers of processes, snapshots, sessions, operations and faults    *)
(* are arbitrary.                                                          *)
(*                                                                         *)
(* The argument is that of a lock: who holds the snapshot-mutation lock is *)
(* the only one to add or take away what stands at a destination or to     *)
(* bind a session, and what it found under the lock stays true until it    *)
(* lets the lock go.  Loads rewrite stamps without the lock, which changes *)
(* a snapshot and never whether it is there.                               *)
(***************************************************************************)
EXTENDS ModelStore, TLAPS

Moving == {"mkdir", "record", "move"}
Stamping == {"prep", "unlink", "write", "restore"}
Opened == {"unlink", "write", "restore"}

(* Which operation is where, and what it goes on to.                       *)
ShapeInv(p) ==
    LET r == proc[p] IN
    /\ r.op = "download" => r.snap \in Hub
    /\ r.op \in Imports \cup {"bind", "remove", "load"} => r.snap \in Snaps
    /\ r.op = "bind" => r.session \in Sessions
    /\ r.pc \in {"acquire", "prepare", "recorded", "fetch", "finish", "clear", "release"} => r.op = "download"
    /\ r.pc \in {"reuse", "certify", "publish", "seal", "recheck", "rename", "confirm"} =>
         r.op \in {"download"} \cup Imports
    /\ r.pc \in {"retire", "sweep"} => r.op \in Imports
    /\ r.pc \in Stamping \cup {"validate", "commit"} => r.op \in {"bind", "remove", "load"}
    /\ r.pc \in Stamping => r.next \in {"commit", "done"}
    /\ r.pc \in Moving =>
         \/ r.from = "payload" /\ r.op = "download" /\ r.next = "clear"
         \/ r.from = "stage" /\ r.op \in Imports /\ r.next = "done"
         \/ r.from = "dest" /\ r.op = "download" /\ r.next \in {"prepare", "rename", "finish"}
         \/ r.from = "dest" /\ r.op \in Imports /\ r.next \in {"certify", "rename", "sweep"}
         \/ r.from = "dest" /\ r.op = "remove" /\ r.next = "done"

(* Where the snapshot-mutation lock is held.                               *)
Locks(r) ==
    \/ r.pc \in {"recheck", "rename", "confirm", "commit", "gcrm"}
    \/ r.pc = "seal" /\ r.op = "download"
    \/ r.pc \in Moving /\ r.from = "dest"
    \/ r.pc \in Stamping /\ r.next = "commit"

LockInv(p) == Locks(proc[p]) => mlock = p

(* What was found under the lock and is still true.                        *)
FoundInv(p) ==
    LET r == proc[p] IN
    /\ r.pc = "rename" => dest[r.snap] = None
    /\ r.pc = "confirm" \/ (r.pc \in Moving /\ r.from = "dest") => ~Referenced(r.snap)
    /\ r.pc = "commit" \/ (r.pc \in Stamping /\ r.next = "commit") => dest[r.snap] # None
    /\ r.pc \in Opened /\ r.orig # "moved" => dest[r.snap] # None

(* The workspace belongs to its holder, and what was recorded in it stays. *)
Owns(r) ==
    /\ r.op = "download"
    /\ r.pc \in {"reuse", "prepare", "recorded", "fetch", "certify", "publish", "seal", "recheck",
                 "rename", "confirm", "finish", "clear"} \cup Moving

TransferInv(p) ==
    LET r == proc[p] IN
    /\ Owns(r) => work[r.snap].holder = p
    /\ r.op = "download" /\ r.pc \in {"fetch", "certify", "publish", "seal"} => work[r.snap].record = "full"
    /\ r.pc = "clear" => work[r.snap].payload = "none"

ProcInv(p) == ShapeInv(p) /\ LockInv(p) /\ FoundInv(p) /\ TransferInv(p)

(* A session is bound to a snapshot that is there.                         *)
BoundInv == \A x \in Sessions : bound[x] # NoOne => dest[bound[x]] # None

StoreInv == TypeOK /\ (\A p \in Procs : ProcInv(p)) /\ BoundInv /\ PayloadIsClaimed

-----------------------------------------------------------------------------
Pcs == {"idle", "acquire", "reuse", "prepare", "recorded", "fetch", "certify", "publish",
        "seal", "recheck", "rename", "confirm", "finish", "clear", "release", "retire",
        "sweep", "mkdir", "record", "move", "validate", "prep", "unlink", "write",
        "restore", "commit", "gc", "gclock", "gcrm", "done"}

(* Only the record of p changes, and it stays a record.                    *)
Alone(p) == proc' \in [Procs -> Process] /\ \A q \in Procs \ {p} : proc'[q] = proc[q]

(* Nobody but p loses the lock, and p takes it only when it is free.       *)
LockFrame(p) == mlock' \in Procs \cup {NoOne} /\ \A q \in Procs \ {p} : mlock = q => mlock' = q

(* What a step of p leaves to the other processes.                         *)
Like(q) ==
    /\ proc'[q].op = proc[q].op /\ proc'[q].pc = proc[q].pc /\ proc'[q].snap = proc[q].snap
    /\ proc'[q].from = proc[q].from /\ proc'[q].next = proc[q].next
    /\ proc'[q].session = proc[q].session
    /\ proc'[q].orig \in {proc[q].orig, "moved"}

SameWork(s) ==
    /\ work'[s].holder = work[s].holder /\ work'[s].record = work[s].record
    /\ work'[s].payload = work[s].payload

Frame(p) ==
    /\ LockFrame(p)
    /\ \A q \in Procs \ {p} :
         /\ Like(q)
         /\ proc[q].pc \in Opened /\ proc'[q].orig # "moved" /\ dest[Snap(q)] # None =>
              dest'[Snap(q)] # None
    /\ \A s \in Snaps : mlock = p \/ (dest'[s] = None <=> dest[s] = None)
    /\ \A x \in Sessions : mlock = p \/ bound'[x] \in {bound[x], NoOne}
    /\ \A s \in Hub : work[s].holder \in {p, NoOne} \/ SameWork(s)

(* NoOne is nobody.                                                        *)
LEMMA Nobody == NoOne \notin Procs /\ NoOne \notin Snaps /\ NoOne \notin Entries /\ Hub \subseteq Snaps
  BY ModelStoreAssumption DEF Snaps

(* What stands at a destination differs from nothing.                      *)
LEMMA ThereIs ==
    ASSUME NEW d
    PROVE  d \in Install => d # None
  BY DEF Install, None

(* What is known of a process that does not act stays known.               *)
LEMMA OthersKeep ==
    ASSUME StoreInv, NEW p \in Procs \cup {NoOne}, Frame(p), NEW q \in Procs, q # p
    PROVE  ProcInv(q)'
  <1>1. ProcInv(q) /\ Like(q) /\ q \in Procs \ {p} /\ q # NoOne
    BY Nobody DEF StoreInv, Frame
  <1>2. ShapeInv(q)'
    BY <1>1 DEF ProcInv, ShapeInv, Like
  <1>3. Locks(proc'[q]) <=> Locks(proc[q])
    BY <1>1 DEF Locks, Like
  <1>4. LockInv(q)'
    BY <1>1, <1>3 DEF ProcInv, LockInv, Frame, LockFrame
  <1>5. ASSUME Locks(proc[q])
        PROVE  /\ proc[q].snap \in Snaps => (dest'[proc[q].snap] = None <=> dest[proc[q].snap] = None)
               /\ ~Referenced(proc[q].snap) /\ proc[q].snap \in Snaps => \A x \in Sessions : bound'[x] # proc[q].snap
    <2>1. mlock # p
      BY <1>1, <1>5 DEF ProcInv, LockInv
    <2> QED BY <2>1, Nobody DEF Frame, Referenced
  <1>6. FoundInv(q)'
    <2>1. proc[q].pc \in {"rename", "confirm", "commit"} \cup Moving \cup Stamping =>
            proc[q].snap \in Snaps
      BY <1>1, Nobody DEF ProcInv, ShapeInv, Imports
    <2>2. proc'[q].pc = "rename" => dest'[proc'[q].snap] = None
      BY <1>1, <1>5, <2>1 DEF ProcInv, FoundInv, Like, Locks
    <2>3. proc'[q].pc = "confirm" \/ (proc'[q].pc \in Moving /\ proc'[q].from = "dest") =>
            \A x \in Sessions : bound'[x] # proc'[q].snap
      BY <1>1, <1>5, <2>1 DEF ProcInv, FoundInv, Like, Locks
    <2>4. proc'[q].pc = "commit" \/ (proc'[q].pc \in Stamping /\ proc'[q].next = "commit") => dest'[proc'[q].snap] # None
      BY <1>1, <1>5, <2>1 DEF ProcInv, FoundInv, Like, Locks
    <2>5. proc'[q].pc \in Opened /\ proc'[q].orig # "moved" => dest'[proc'[q].snap] # None
      BY <1>1 DEF ProcInv, FoundInv, Like, Frame, Snap
    <2> QED BY <2>2, <2>3, <2>4, <2>5 DEF FoundInv, Referenced
  <1>7. TransferInv(q)'
    <2>1. Owns(proc'[q]) <=> Owns(proc[q])
      BY <1>1 DEF Owns, Like
    <2>2. proc[q].op = "download" => proc[q].snap \in Hub
      BY <1>1 DEF ProcInv, ShapeInv
    <2>3. Owns(proc[q]) => SameWork(proc[q].snap)
      BY <1>1, <2>2 DEF ProcInv, TransferInv, Frame, Owns
    <2>4. proc[q].pc = "clear" \/ (proc[q].op = "download" /\ proc[q].pc \in {"fetch", "certify", "publish", "seal"})
            => Owns(proc[q])
      BY <1>1 DEF ProcInv, ShapeInv, Owns
    <2> QED BY <1>1, <2>1, <2>3, <2>4 DEF ProcInv, TransferInv, Like, SameWork
  <1> QED BY <1>2, <1>4, <1>6, <1>7 DEF ProcInv

-----------------------------------------------------------------------------
(* What Goto and Quarantine write.                                         *)
Went(p, pc) ==
    /\ proc'[p].pc = pc /\ proc'[p].op = proc[p].op /\ proc'[p].snap = proc[p].snap
    /\ proc'[p].from = proc[p].from /\ proc'[p].next = proc[p].next
    /\ proc'[p].session = proc[p].session /\ proc'[p].orig = proc[p].orig

SetsAside(p, from, next) ==
    /\ proc'[p].pc = "mkdir" /\ proc'[p].op = proc[p].op /\ proc'[p].snap = proc[p].snap
    /\ proc'[p].from = from /\ proc'[p].next = next
    /\ proc'[p].session = proc[p].session /\ proc'[p].orig = proc[p].orig

(* Goto moves the place only.                                              *)
LEMMA GotoMoves ==
    ASSUME TypeOK, NEW p \in Procs, NEW pc \in Pcs, Goto(p, pc)
    PROVE  Alone(p) /\ Went(p, pc)
  <1>1. proc[p] \in Process /\ proc \in [Procs -> Process]
    BY DEF TypeOK
  <1>2. [proc[p] EXCEPT !.pc = pc] \in Process
    BY <1>1 DEF Process, Pcs
  <1> QED BY <1>1, <1>2 DEF Goto, Alone, Went, Process

(* Quarantine notes what is moved and what follows.                        *)
LEMMA QuarantineMoves ==
    ASSUME TypeOK, NEW p \in Procs, NEW from \in {"dest", "payload", "stage"},
           NEW next \in {"prepare", "certify", "rename", "finish", "clear", "sweep", "done"},
           Quarantine(p, from, next)
    PROVE  Alone(p) /\ SetsAside(p, from, next)
  <1>1. proc[p] \in Process /\ proc \in [Procs -> Process]
    BY DEF TypeOK
  <1>2. [proc[p] EXCEPT !.pc = "mkdir", !.from = from, !.next = next] \in Process
    <2>1. PICK r \in Process : r = proc[p]
      BY <1>1
    <2>2. PICK t : t = [r EXCEPT !.pc = "mkdir", !.from = from, !.next = next]
      OBVIOUS
    <2>3. /\ t.op = r.op /\ t.pc = "mkdir" /\ t.snap = r.snap /\ t.from = from /\ t.next = next
          /\ t.entry = r.entry /\ t.orig = r.orig /\ t.session = r.session /\ t.todo = r.todo
      BY <2>2 DEF Process
    <2>4. t = [op |-> r.op, pc |-> "mkdir", snap |-> r.snap, from |-> from, next |-> next,
               entry |-> r.entry, orig |-> r.orig, session |-> r.session, todo |-> r.todo]
      BY <2>2 DEF Process
    <2>5. t \in Process
      BY <2>4 DEF Process
    <2> QED BY <2>1, <2>2, <2>5
  <1>3. proc' = [proc EXCEPT ![p] = [proc[p] EXCEPT !.pc = "mkdir", !.from = from, !.next = next]]
    BY <1>1 DEF Quarantine
  <1> QED BY <1>1, <1>2, <1>3 DEF Alone, SetsAside, Process

(* Releasing the lock, or taking it when it is free, is all a step does to it. *)
LEMMA LockMoves ==
    ASSUME TypeOK, NEW p \in Procs,
           mlock' = mlock \/ mlock' = Unlocked(p) \/ (mlock' = p /\ MayLock(p))
    PROVE  LockFrame(p)
  BY Nobody DEF TypeOK, LockFrame, Unlocked, MayLock


-----------------------------------------------------------------------------
(* What every step keeps besides the invariant.                            *)
CompleteStays ==
    \A s \in Hub : work[s].payload \in {"complete", "sealed"} =>
         \/ work'[s].payload \in {"complete", "sealed"}
         \/ \E p \in Procs : Snap(p) = s /\ (At(p, "rename") \/ (At(p, "move") /\ Me(p).from = "payload"))

PromiseStep == Promise!Next \/ UNCHANGED Promise!vars

Good(p) ==
    /\ Frame(p) /\ TypeOK' /\ ProcInv(p)' /\ BoundInv' /\ PayloadIsClaimed'
    /\ CompleteStays /\ PromiseStep

(* The process that acts is where its step finds it.                       *)
Here(p) ==
    /\ TypeOK /\ ProcInv(p) /\ proc[p] \in Process /\ proc \in [Procs -> Process]
    /\ mlock \in Procs \cup {NoOne}
    /\ \A s \in Snaps : dest[s] \in Install \cup {None}
    /\ \A s \in Hub : work[s] \in Workspace

(* It is, in every state of the invariant.                                *)
LEMMA HereIs ==
    ASSUME StoreInv, NEW p \in Procs
    PROVE  Here(p)
  BY DEF StoreInv, TypeOK, Here

(* A step that leaves destinations, workspaces and bindings alone.         *)
LEMMA Quiet ==
    ASSUME StoreInv, NEW p \in Procs, Alone(p), LockFrame(p), UNCHANGED <<dest, work, bound>>
    PROVE  Frame(p) /\ BoundInv' /\ PayloadIsClaimed' /\ CompleteStays /\ PromiseStep
  <1>1. Frame(p)
    BY DEF Alone, Frame, Like, SameWork, Snap
  <1>2. BoundInv' /\ PayloadIsClaimed' /\ CompleteStays
    BY DEF StoreInv, BoundInv, PayloadIsClaimed, CompleteStays
  <1>3. UNCHANGED Promise!vars
    BY DEF Promise!vars
  <1> QED BY <1>1, <1>2, <1>3 DEF PromiseStep

(* Such a step is good when the rest of the state keeps its type.          *)
LEMMA QuietIsGood ==
    ASSUME StoreInv, NEW p \in Procs, Alone(p), LockFrame(p), UNCHANGED <<dest, work, bound>>,
           ProcInv(p)', stage' \in [Procs -> {"none", "complete", "sealed"}],
           DOMAIN quar' \subseteq Entries, \A e \in DOMAIN quar' : quar'[e] \in QuarantineEntry,
           source' \in {"here", "changed", "gone"}, begun' \in 0..MaxOps, faulted' \in 0..MaxFaults
    PROVE  Good(p)
  <1>1. TypeOK'
    BY DEF StoreInv, TypeOK, Alone, LockFrame
  <1> QED BY <1>1, Quiet DEF Good

(* The types of what a step usually leaves alone.                          *)
LEMMA RestIs ==
    ASSUME StoreInv
    PROVE  /\ UNCHANGED stage => stage' \in [Procs -> {"none", "complete", "sealed"}]
           /\ UNCHANGED quar => DOMAIN quar' \subseteq Entries /\ \A e \in DOMAIN quar' : quar'[e] \in QuarantineEntry
           /\ UNCHANGED source => source' \in {"here", "changed", "gone"}
           /\ UNCHANGED begun => begun' \in 0..MaxOps
           /\ UNCHANGED faulted => faulted' \in 0..MaxFaults
  BY DEF StoreInv, TypeOK

(* The record of a process at rest.                                        *)
LEMMA IdleIs ==
    /\ Idle.pc = "idle" /\ Idle.op = "none" /\ Idle \in Process
    /\ \A op \in Ops, pc \in Pcs, s \in Snaps, x \in Sessions \cup {NoOne} :
         [Idle EXCEPT !.op = op, !.pc = pc, !.snap = s, !.session = x] \in Process
    /\ \A todo \in SUBSET Entries : "gc" \in Ops => [Idle EXCEPT !.op = "gc", !.pc = "gc", !.todo = todo] \in Process
  <1>1. Idle.pc = "idle" /\ Idle.op = "none" /\ Idle \in Process
    BY DEF Idle, Process
  <1>2. ASSUME NEW op \in Ops, NEW pc \in Pcs, NEW s \in Snaps, NEW x \in Sessions \cup {NoOne}
        PROVE  [Idle EXCEPT !.op = op, !.pc = pc, !.snap = s, !.session = x] \in Process
    <2>1. PICK r \in Process : r = Idle
      BY <1>1
    <2>2. PICK t : t = [r EXCEPT !.op = op, !.pc = pc, !.snap = s, !.session = x]
      OBVIOUS
    <2>3. t = [op |-> op, pc |-> pc, snap |-> s, from |-> r.from, next |-> r.next,
               entry |-> r.entry, orig |-> r.orig, session |-> x, todo |-> r.todo]
      BY <2>2 DEF Process
    <2>4. t \in Process
      BY <2>3 DEF Process, Pcs
    <2> QED BY <2>1, <2>2, <2>4
  <1>3. ASSUME NEW todo \in SUBSET Entries, "gc" \in Ops
        PROVE  [Idle EXCEPT !.op = "gc", !.pc = "gc", !.todo = todo] \in Process
    <2>1. PICK r \in Process : r = Idle
      BY <1>1
    <2>2. PICK t : t = [r EXCEPT !.op = "gc", !.pc = "gc", !.todo = todo]
      OBVIOUS
    <2>3. t = [op |-> "gc", pc |-> "gc", snap |-> r.snap, from |-> r.from, next |-> r.next,
               entry |-> r.entry, orig |-> r.orig, session |-> r.session, todo |-> todo]
      BY <2>2 DEF Process
    <2>4. t \in Process
      BY <1>3, <2>3 DEF Process
    <2> QED BY <2>1, <2>2, <2>4
  <1> QED BY <1>1, <1>2, <1>3

(* The operation is over.                                                  *)
LEMMA EndStep ==
    ASSUME StoreInv, NEW p \in Procs, End(p)
    PROVE  Good(p)
  <1>1. Here(p)
    BY HereIs
  <1>2. Alone(p) /\ proc'[p] = Idle
    BY <1>1, IdleIs DEF End, Alone, Here
  <1>3. ProcInv(p)'
    BY <1>2 DEF Idle, ProcInv, ShapeInv, LockInv, FoundInv, TransferInv, Locks, Owns, Moving, Stamping, Opened, Imports
  <1>4. LockFrame(p)
    BY <1>1, LockMoves DEF End, Here
  <1> QED BY <1>2, <1>3, <1>4, QuietIsGood, RestIs DEF End


-----------------------------------------------------------------------------
(* Steps that move a process, its staging or the quarantine, and leave     *)
(* destinations, workspaces and bindings alone.                            *)

(* The payload or the staged copy was verified. *)
LEMMA CertifyStep ==
    ASSUME StoreInv, NEW p \in Procs, Certify(p)
    PROVE  Good(p)
  <1>1. Here(p)
    BY HereIs
  <1>2. PICK pc \in Pcs : pc = (IF proc[p].op = "download" THEN "publish" ELSE "seal")
    BY DEF Pcs, Ending
  <1>3. Goto(p, pc)
    BY <1>2 DEF Certify, Me
  <1>4. Alone(p) /\ Went(p, pc)
    BY <1>1, <1>3, GotoMoves DEF Here
  <1>5. ProcInv(p)'
    BY <1>1, <1>2, <1>4 DEF Here, Went, Ending, Me, Referenced, Certify, At, MayLock, ProcInv, ShapeInv, LockInv, FoundInv, TransferInv, Locks, Owns, Moving, Stamping, Opened, Imports
  <1>6. LockFrame(p)
    BY <1>1, LockMoves DEF Certify, Here
  <1> QED BY <1>4, <1>5, <1>6, QuietIsGood, RestIs DEF Certify

(* An error ends the operation. *)
LEMMA FailStep ==
    ASSUME StoreInv, NEW p \in Procs, Fail(p)
    PROVE  Good(p)
  <1>1. Here(p)
    BY HereIs
  <1>2. PICK pc \in Pcs : pc = Ending(p)
    BY DEF Pcs, Ending
  <1>3. Goto(p, pc)
    BY <1>2 DEF Fail, Me
  <1>4. Alone(p) /\ Went(p, pc)
    BY <1>1, <1>3, GotoMoves DEF Here
  <1>5. ProcInv(p)'
    BY <1>1, <1>2, <1>4 DEF Here, Went, Ending, Me, Referenced, Fail, At, MayLock, ProcInv, ShapeInv, LockInv, FoundInv, TransferInv, Locks, Owns, Moving, Stamping, Opened, Imports
  <1>6. LockFrame(p)
    BY <1>1, LockMoves DEF Fail, Here
  <1> QED BY <1>4, <1>5, <1>6, QuietIsGood, RestIs DEF Fail

(* The transfer is kept for the next download. *)
LEMMA PauseStep ==
    ASSUME StoreInv, NEW p \in Procs, Pause(p)
    PROVE  Good(p)
  <1>1. Here(p)
    BY HereIs
  <1>2. PICK pc \in Pcs : pc = "release"
    BY DEF Pcs, Ending
  <1>3. Goto(p, pc)
    BY <1>2 DEF Pause, Me
  <1>4. Alone(p) /\ Went(p, pc)
    BY <1>1, <1>3, GotoMoves DEF Here
  <1>5. ProcInv(p)'
    BY <1>1, <1>2, <1>4 DEF Here, Went, Ending, Me, Referenced, Pause, At, MayLock, ProcInv, ShapeInv, LockInv, FoundInv, TransferInv, Locks, Owns, Moving, Stamping, Opened, Imports
  <1>6. LockFrame(p)
    BY <1>1, LockMoves DEF Pause, Here
  <1> QED BY <1>4, <1>5, <1>6, QuietIsGood, RestIs DEF Pause

(* The lock is taken for publication. *)
LEMMA PublishLockStep ==
    ASSUME StoreInv, NEW p \in Procs, PublishLock(p)
    PROVE  Good(p)
  <1>1. Here(p)
    BY HereIs
  <1>2. PICK pc \in Pcs : pc = (IF proc[p].op = "download" THEN "seal" ELSE "recheck")
    BY DEF Pcs, Ending
  <1>3. Goto(p, pc)
    BY <1>2 DEF PublishLock, Me
  <1>4. Alone(p) /\ Went(p, pc)
    BY <1>1, <1>3, GotoMoves DEF Here
  <1>5. ProcInv(p)'
    BY <1>1, <1>2, <1>4 DEF Here, Went, Ending, Me, Referenced, PublishLock, At, MayLock, ProcInv, ShapeInv, LockInv, FoundInv, TransferInv, Locks, Owns, Moving, Stamping, Opened, Imports
  <1>6. LockFrame(p)
    BY <1>1, LockMoves DEF PublishLock, Here
  <1> QED BY <1>4, <1>5, <1>6, QuietIsGood, RestIs DEF PublishLock

(* The source of a move import is retired. *)
LEMMA RetireStep ==
    ASSUME StoreInv, NEW p \in Procs, Retire(p)
    PROVE  Good(p)
  <1>1. Here(p)
    BY HereIs
  <1>2. Alone(p) /\ Went(p, "sweep")
    BY <1>1, GotoMoves DEF Here, Retire, Pcs
  <1>3. ProcInv(p)'
    BY <1>1, <1>2 DEF Here, Went, Retire, At, ProcInv, ShapeInv, LockInv, FoundInv, TransferInv, Locks, Owns, Moving, Stamping, Opened, Imports
  <1>4. LockFrame(p) /\ source' \in {"here", "changed", "gone"}
    BY <1>1, LockMoves DEF Retire, Here, TypeOK
  <1> QED BY <1>2, <1>3, <1>4, QuietIsGood, RestIs DEF Retire

(* A process goes on, or sets something aside in quarantine first.         *)
LEMMA SetAsideStep ==
    ASSUME StoreInv, NEW p \in Procs, FinishTransfer(p) \/ Sweep(p) \/ Remove(p)
    PROVE  Good(p)
  <1>1. Here(p)
    BY HereIs
  <1>2. CASE \E pc \in Pcs : Goto(p, pc) /\ pc \in {"clear", "done"} /\
               (pc = "clear" => proc[p].pc = "finish" /\ work[proc[p].snap].payload = "none")
    <2>1. PICK pc \in Pcs : Goto(p, pc) /\ pc \in {"clear", "done"} /\
               (pc = "clear" => proc[p].pc = "finish" /\ work[proc[p].snap].payload = "none")
      BY <1>2
    <2>2. Alone(p) /\ Went(p, pc)
      BY <1>1, <2>1, GotoMoves DEF Here
    <2>3. UNCHANGED <<dest, work, bound, stage, quar, source, begun, faulted>>
      BY DEF FinishTransfer, Sweep, Remove
    <2>4. ProcInv(p)'
      BY <1>1, <2>1, <2>2, <2>3 DEF Here, Went, ProcInv, ShapeInv, LockInv, FoundInv, TransferInv, Locks, Owns, Moving, Stamping, Opened, Imports
    <2>5. LockFrame(p)
      BY <1>1, LockMoves DEF FinishTransfer, Sweep, Remove, Here
    <2> QED BY <2>2, <2>3, <2>4, <2>5, QuietIsGood, RestIs
  <1>3. CASE FinishTransfer(p) /\ Quarantine(p, "payload", "clear")
    <2>1. Alone(p) /\ SetsAside(p, "payload", "clear")
      BY <1>1, <1>3, QuarantineMoves DEF Here
    <2>2. ProcInv(p)'
      BY <1>1, <1>3, <2>1 DEF Here, SetsAside, FinishTransfer, At, ProcInv, ShapeInv, LockInv, FoundInv, TransferInv, Locks, Owns, Moving, Stamping, Opened, Imports
    <2>3. LockFrame(p)
      BY <1>1, <1>3, LockMoves DEF FinishTransfer, Here
    <2> QED BY <1>3, <2>1, <2>2, <2>3, QuietIsGood, RestIs DEF FinishTransfer
  <1>4. CASE Sweep(p) /\ Quarantine(p, "stage", "done")
    <2>1. Alone(p) /\ SetsAside(p, "stage", "done")
      BY <1>1, <1>4, QuarantineMoves DEF Here
    <2>2. ProcInv(p)'
      BY <1>1, <1>4, <2>1 DEF Here, SetsAside, Sweep, At, ProcInv, ShapeInv, LockInv, FoundInv, TransferInv, Locks, Owns, Moving, Stamping, Opened, Imports
    <2>3. LockFrame(p)
      BY <1>1, <1>4, LockMoves DEF Sweep, Here
    <2> QED BY <1>4, <2>1, <2>2, <2>3, QuietIsGood, RestIs DEF Sweep
  <1>5. CASE Remove(p) /\ Quarantine(p, "dest", "done") /\ ~Referenced(Snap(p)) /\ UNCHANGED mlock
    <2>1. Alone(p) /\ SetsAside(p, "dest", "done")
      BY <1>1, <1>5, QuarantineMoves DEF Here
    <2>2. ProcInv(p)'
      BY <1>1, <1>5, <2>1 DEF Here, SetsAside, Remove, At, Me, Snap, Referenced, ProcInv, ShapeInv, LockInv, FoundInv, TransferInv, Locks, Owns, Moving, Stamping, Opened, Imports
    <2>3. LockFrame(p)
      BY <1>1, <1>5, LockMoves DEF Here
    <2> QED BY <1>5, <2>1, <2>2, <2>3, QuietIsGood, RestIs DEF Remove
  <1>6. "clear" \in Pcs /\ "done" \in Pcs
    BY DEF Pcs
  <1> QED BY <1>2, <1>3, <1>4, <1>5, <1>6 DEF FinishTransfer, Sweep, Remove, At, Snap


(* What the occupant of the destination tells.                             *)
LEMMA OccupantIs ==
    ASSUME NEW p \in Procs
    PROVE  /\ Occupant(p) = "absent" => dest[Snap(p)] = None
           /\ Occupant(p) = "invalid" => ~Referenced(Snap(p))
  BY DEF Occupant

(* reuse_existing_locked, before the transfer or under the lock of the publication. *)
LEMMA ReuseStep ==
    ASSUME StoreInv, NEW p \in Procs, CheckExisting(p) \/ RecheckExisting(p)
    PROVE  Good(p)
  <1>1. Here(p)
    BY HereIs
  <1>2. PICK absent \in {"prepare", "certify", "rename"} :
          /\ ReuseExisting(p, absent)
          /\ absent = "rename" => proc[p].pc = "recheck" /\ mlock = p
          /\ absent = "prepare" => proc[p].op = "download"
          /\ absent = "certify" => proc[p].op \in Imports
          /\ proc[p].op \in {"download"} \cup Imports /\ MayLock(p)
          /\ proc[p].op = "download" => work[proc[p].snap].holder = p
    BY <1>1 DEF Here, CheckExisting, RecheckExisting, At, Me, MayLock, ProcInv, ShapeInv, LockInv, FoundInv, TransferInv, Locks, Owns, Moving, Stamping, Opened, Imports
  <1>3. UNCHANGED <<dest, work, bound, stage, quar, source, begun, faulted>>
    BY DEF CheckExisting, RecheckExisting
  <1>4. CASE Occupant(p) = "invalid"
    <2>1. Quarantine(p, "dest", absent) /\ mlock' = p
      BY <1>2, <1>4 DEF ReuseExisting
    <2>2. Alone(p) /\ SetsAside(p, "dest", absent)
      BY <1>1, <2>1, QuarantineMoves DEF Here
    <2>3. ~Referenced(Snap(p))
      BY <1>4, OccupantIs
    <2>4. ProcInv(p)'
      BY <1>1, <1>2, <1>3, <2>1, <2>2, <2>3 DEF Here, SetsAside, Snap, Referenced, ProcInv, ShapeInv, LockInv, FoundInv, TransferInv, Locks, Owns, Moving, Stamping, Opened, Imports
    <2>5. LockFrame(p)
      BY <1>1, <1>2, <2>1, LockMoves DEF Here
    <2> QED BY <1>3, <2>2, <2>4, <2>5, QuietIsGood, RestIs
  <1>5. CASE Occupant(p) # "invalid"
    <2>1. PICK pc \in Pcs : pc = CASE Occupant(p) = "absent" -> absent
                                 [] Occupant(p) = "reuse" -> Settled(p)
                                 [] OTHER -> Ending(p)
      BY DEF Pcs, Settled, Ending
    <2>2. /\ Goto(p, pc)
          /\ mlock' = IF Occupant(p) = "absent" /\ absent = "rename" THEN mlock ELSE Unlocked(p)
      BY <1>2, <1>5, <2>1 DEF ReuseExisting
    <2>3. Alone(p) /\ Went(p, pc)
      BY <1>1, <2>2, GotoMoves DEF Here
    <2>4. ASSUME Occupant(p) = "absent" PROVE ProcInv(p)'
      <3>1. pc = absent /\ dest[proc[p].snap] = None
        BY <2>1, <2>4, OccupantIs DEF Snap
      <3> QED BY <1>1, <1>2, <1>3, <2>2, <2>3, <2>4, <3>1 DEF Here, Went, ProcInv, ShapeInv, LockInv, FoundInv, TransferInv, Locks, Owns, Moving, Stamping, Opened, Imports
    <2>5. ASSUME Occupant(p) # "absent" PROVE ProcInv(p)'
      <3>1. /\ pc \in {"finish", "sweep", "retire"}
            /\ pc = "finish" => proc[p].op = "download"
            /\ pc \in {"sweep", "retire"} => proc[p].op \in Imports
        BY <1>2, <2>1, <2>5 DEF Settled, Ending, Me, Imports
      <3> QED BY <1>1, <1>2, <1>3, <2>3, <3>1 DEF Here, Went, ProcInv, ShapeInv, LockInv, FoundInv, TransferInv, Locks, Owns, Moving, Stamping, Opened, Imports
    <2>6. LockFrame(p)
      BY <1>1, <2>2, LockMoves DEF Here
    <2> QED BY <1>3, <2>3, <2>4, <2>5, <2>6, QuietIsGood, RestIs
  <1> QED BY <1>4, <1>5

(* What the steps of a validation write in the process that takes them. *)
LEMMA TwoFields ==
    ASSUME NEW r \in Process, NEW pc \in Pcs
    PROVE  /\ \A next \in {"commit", "done"} : [r EXCEPT !.pc = pc, !.next = next] \in Process
           /\ \A orig \in {"ro", "rw", "moved"} : [r EXCEPT !.pc = pc, !.orig = orig] \in Process
           /\ \A e \in Entries \cup {NoOne} : [r EXCEPT !.pc = pc, !.entry = e] \in Process
           /\ [r EXCEPT !.orig = "moved"] \in Process
  <1>1. ASSUME NEW next \in {"commit", "done"} PROVE [r EXCEPT !.pc = pc, !.next = next] \in Process
    <2>1. PICK t : t = [r EXCEPT !.pc = pc, !.next = next]
      OBVIOUS
    <2>2. t =
            [op |-> r.op, pc |-> pc, snap |-> r.snap, from |-> r.from, next |-> next,
             entry |-> r.entry, orig |-> r.orig, session |-> r.session, todo |-> r.todo]
      BY <2>1 DEF Process
    <2>3. t \in Process
      BY <2>2 DEF Process, Pcs
    <2> QED BY <2>1, <2>3
  <1>2. ASSUME NEW orig \in {"ro", "rw", "moved"} PROVE [r EXCEPT !.pc = pc, !.orig = orig] \in Process
    <2>1. PICK t : t = [r EXCEPT !.pc = pc, !.orig = orig]
      OBVIOUS
    <2>2. t =
            [op |-> r.op, pc |-> pc, snap |-> r.snap, from |-> r.from, next |-> r.next,
             entry |-> r.entry, orig |-> orig, session |-> r.session, todo |-> r.todo]
      BY <2>1 DEF Process
    <2>3. t \in Process
      BY <2>2 DEF Process, Pcs
    <2> QED BY <2>1, <2>3
  <1>3. ASSUME NEW e \in Entries \cup {NoOne} PROVE [r EXCEPT !.pc = pc, !.entry = e] \in Process
    <2>1. PICK t : t = [r EXCEPT !.pc = pc, !.entry = e]
      OBVIOUS
    <2>2. t =
            [op |-> r.op, pc |-> pc, snap |-> r.snap, from |-> r.from, next |-> r.next,
             entry |-> e, orig |-> r.orig, session |-> r.session, todo |-> r.todo]
      BY <2>1 DEF Process
    <2>3. t \in Process
      BY <2>2 DEF Process, Pcs
    <2> QED BY <2>1, <2>3
  <1>4. [r EXCEPT !.orig = "moved"] \in Process
    BY DEF Process
  <1> QED BY <1>1, <1>2, <1>3, <1>4

(* What setting the place and what follows writes. *)
LEMMA NextMoves ==
    ASSUME TypeOK, NEW p \in Procs, NEW pc \in Pcs, NEW next \in {"commit", "done"},
           proc' = [proc EXCEPT ![p].pc = pc, ![p].next = next]
    PROVE  /\ Alone(p) /\ proc'[p].pc = pc /\ proc'[p].next = next /\ proc'[p].op = proc[p].op
           /\ proc'[p].snap = proc[p].snap /\ proc'[p].session = proc[p].session
           /\ proc'[p].orig = proc[p].orig
  <1>1. proc[p] \in Process /\ proc \in [Procs -> Process]
    BY DEF TypeOK
  <1>2. PICK r \in Process : r = [proc[p] EXCEPT !.pc = pc, !.next = next]
    BY <1>1, TwoFields
  <1>3. proc' = [proc EXCEPT ![p] = r]
    BY <1>1, <1>2
  <1>4. /\ r.pc = pc /\ r.next = next /\ r.op = proc[p].op /\ r.snap = proc[p].snap
        /\ r.session = proc[p].session /\ r.orig = proc[p].orig
    BY <1>1, <1>2 DEF Process
  <1> QED BY <1>1, <1>3, <1>4 DEF Alone

(* revalidate_installed_snapshot. *)
LEMMA ValidateStep ==
    ASSUME StoreInv, NEW p \in Procs, Validate(p)
    PROVE  Good(p)
  <1>1. Here(p)
    BY HereIs
  <1>2. PICK to \in {"commit", "done"} : to = IF proc[p].op \in {"bind", "remove"} THEN "commit" ELSE "done"
    BY Zenon
  <1>3. /\ At(p, "validate") /\ (to = "commit" => MayLock(p))
        /\ UNCHANGED <<dest, work, stage, quar, bound, source, begun, faulted>>
    BY <1>2 DEF Validate, Me
  <1>4. ASSUME ~Healthy(Snap(p)) PROVE Alone(p) /\ LockFrame(p) /\ ProcInv(p)'
    <2>1. Goto(p, "done") /\ UNCHANGED mlock
      BY <1>4 DEF Validate
    <2>2. Alone(p) /\ Went(p, "done")
      BY <1>1, <2>1, GotoMoves DEF Here, Pcs
    <2>3. ProcInv(p)'
      BY <1>1, <2>2 DEF Here, Went, ProcInv, ShapeInv, LockInv, FoundInv, TransferInv, Locks, Owns, Moving, Stamping, Opened, Imports
    <2>4. LockFrame(p)
      BY <1>1, <2>1, LockMoves DEF Here
    <2> QED BY <2>2, <2>3, <2>4
  <1>5. ASSUME Healthy(Snap(p)) PROVE Alone(p) /\ LockFrame(p) /\ ProcInv(p)'
    <2>1. dest[proc[p].snap] # None
      BY <1>5 DEF Healthy, Snap
    <2>2. mlock' = IF to = "commit" THEN p ELSE mlock
      BY <1>2, <1>5 DEF Validate, Me
    <2>3. ASSUME Goto(p, to) PROVE Alone(p) /\ ProcInv(p)'
      <3>1. Alone(p) /\ Went(p, to)
        BY <1>1, <2>3, GotoMoves DEF Here, Pcs
      <3> QED BY <1>1, <1>2, <1>3, <2>1, <2>2, <3>1 DEF Here, Went, At, ProcInv, ShapeInv, LockInv, FoundInv, TransferInv, Locks, Owns, Moving, Stamping, Opened, Imports
    <2>4. ASSUME proc' = [proc EXCEPT ![p].pc = "prep", ![p].next = to] PROVE Alone(p) /\ ProcInv(p)'
      <3>1. /\ Alone(p) /\ proc'[p].pc = "prep" /\ proc'[p].next = to /\ proc'[p].op = proc[p].op
            /\ proc'[p].snap = proc[p].snap /\ proc'[p].session = proc[p].session
        BY <1>1, <2>4, NextMoves DEF Here, Pcs
      <3> QED BY <1>1, <1>2, <1>3, <2>1, <2>2, <3>1 DEF Here, At, ProcInv, ShapeInv, LockInv, FoundInv, TransferInv, Locks, Owns, Moving, Stamping, Opened, Imports
    <2>5. LockFrame(p)
      BY <1>1, <1>3, <2>2, LockMoves DEF Here
    <2>6. Goto(p, to) \/ proc' = [proc EXCEPT ![p].pc = "prep", ![p].next = to]
      BY <1>2, <1>5 DEF Validate, Me
    <2> QED BY <2>3, <2>4, <2>5, <2>6
  <1> QED BY <1>3, <1>4, <1>5, QuietIsGood, RestIs


-----------------------------------------------------------------------------
(* What stands in quarantine stays well formed when one entry's flag is set, *)
(* when an entry is created and when one is deleted.                       *)
LEMMA QuarantineTypes ==
    ASSUME StoreInv, NEW e
    PROVE  /\ DOMAIN [quar EXCEPT ![e].record = TRUE] \subseteq Entries
           /\ \A f \in DOMAIN [quar EXCEPT ![e].record = TRUE] : [quar EXCEPT ![e].record = TRUE][f] \in QuarantineEntry
           /\ DOMAIN [quar EXCEPT ![e].record = FALSE] \subseteq Entries
           /\ \A f \in DOMAIN [quar EXCEPT ![e].record = FALSE] : [quar EXCEPT ![e].record = FALSE][f] \in QuarantineEntry
           /\ DOMAIN [quar EXCEPT ![e].payload = TRUE] \subseteq Entries
           /\ \A f \in DOMAIN [quar EXCEPT ![e].payload = TRUE] : [quar EXCEPT ![e].payload = TRUE][f] \in QuarantineEntry
           /\ DOMAIN [quar EXCEPT ![e].old = TRUE] \subseteq Entries
           /\ \A f \in DOMAIN [quar EXCEPT ![e].old = TRUE] : [quar EXCEPT ![e].old = TRUE][f] \in QuarantineEntry
           /\ DOMAIN Restrict(quar, DOMAIN quar \ {e}) \subseteq Entries
           /\ \A f \in DOMAIN Restrict(quar, DOMAIN quar \ {e}) : Restrict(quar, DOMAIN quar \ {e})[f] \in QuarantineEntry
  <1>1. DOMAIN quar \subseteq Entries /\ \A f \in DOMAIN quar : quar[f] \in QuarantineEntry
    BY DEF StoreInv, TypeOK
  <1>2. \A r \in QuarantineEntry : /\ [r EXCEPT !.record = TRUE] \in QuarantineEntry
                                   /\ [r EXCEPT !.record = FALSE] \in QuarantineEntry
                                   /\ [r EXCEPT !.payload = TRUE] \in QuarantineEntry
                                   /\ [r EXCEPT !.old = TRUE] \in QuarantineEntry
    BY DEF QuarantineEntry
  <1> QED BY <1>1, <1>2 DEF Restrict

(* The directory of the entry is made, or there is no name left for it. *)
LEMMA MakeEntryStep ==
    ASSUME StoreInv, NEW p \in Procs, MakeEntry(p)
    PROVE  Good(p)
  <1>1. Here(p)
    BY HereIs
  <1>2. UNCHANGED <<dest, work, stage, bound, source, begun, faulted>>
    BY DEF MakeEntry
  <1>3. ASSUME NEW e \in FreeEntries,
               quar' = [f \in DOMAIN quar \cup {e} |->
                          IF f = e THEN [record |-> FALSE, payload |-> FALSE, old |-> FALSE,
                                         snap |-> IF Me(p).from = "stage" THEN NoOne ELSE Snap(p)]
                                   ELSE quar[f]],
               proc' = [proc EXCEPT ![p].pc = "record", ![p].entry = e], UNCHANGED mlock
        PROVE  Good(p)
    <2>1. e \in Entries
      BY DEF FreeEntries
    <2>2. PICK s \in Snaps \cup {NoOne} : s = IF Me(p).from = "stage" THEN NoOne ELSE Snap(p)
      BY <1>1 DEF Here, Process, Snap
    <2>3. [record |-> FALSE, payload |-> FALSE, old |-> FALSE, snap |-> s] \in QuarantineEntry
      BY DEF QuarantineEntry
    <2>4. DOMAIN quar' \subseteq Entries /\ \A f \in DOMAIN quar' : quar'[f] \in QuarantineEntry
      BY <1>1, <1>3, <2>1, <2>2, <2>3 DEF Here, TypeOK
    <2>5. PICK r \in Process : r = [proc[p] EXCEPT !.pc = "record", !.entry = e]
      BY <1>1, <2>1, TwoFields DEF Here, Pcs
    <2>6. proc' = [proc EXCEPT ![p] = r]
      BY <1>1, <1>3, <2>5 DEF Here
    <2>7. /\ r.pc = "record" /\ r.next = proc[p].next /\ r.op = proc[p].op /\ r.snap = proc[p].snap
          /\ r.session = proc[p].session /\ r.orig = proc[p].orig /\ r.from = proc[p].from
      BY <1>1, <2>5 DEF Here, Process
    <2>8. Alone(p) /\ Went(p, "record")
      BY <1>1, <2>6, <2>7 DEF Here, Alone, Went
    <2>9. ProcInv(p)'
      <3>1. proc[p].pc = "mkdir" /\ UNCHANGED mlock
        BY <1>3 DEF MakeEntry, At
      <3>2. ShapeInv(p)' /\ LockInv(p)'
        BY <1>1, <2>8, <3>1 DEF Here, Went, ProcInv, ShapeInv, LockInv, FoundInv, TransferInv, Locks, Owns, Moving, Stamping, Opened, Imports
      <3>3. FoundInv(p)' /\ TransferInv(p)'
        BY <1>1, <1>2, <2>8, <3>1 DEF Here, Went, Referenced, ProcInv, ShapeInv, LockInv, FoundInv, TransferInv, Locks, Owns, Moving, Stamping, Opened, Imports
      <3> QED BY <3>2, <3>3 DEF ProcInv
    <2>10. LockFrame(p)
      BY <1>1, <1>3, LockMoves DEF Here
    <2> QED BY <1>2, <2>4, <2>8, <2>9, <2>10, QuietIsGood, RestIs
  <1>4. ASSUME NEW pc,
               pc = (IF Me(p).from = "payload" THEN "release" ELSE IF Me(p).from = "dest" THEN Ending(p) ELSE "done"),
               Goto(p, pc), mlock' = Unlocked(p), UNCHANGED quar
        PROVE  Good(p)
    <2>1. /\ pc \in Pcs /\ pc \in {"release", "finish", "sweep", "done"}
          /\ pc \in {"release", "finish"} => proc[p].op = "download"
          /\ pc = "sweep" => proc[p].op \in Imports
      BY <1>1, <1>4 DEF Here, Pcs, Ending, Me, MakeEntry, At, ProcInv, ShapeInv, Moving
    <2>2. Alone(p) /\ Went(p, pc)
      BY <1>1, <1>4, <2>1, GotoMoves DEF Here
    <2>3. ProcInv(p)'
      BY <1>1, <1>2, <1>4, <2>1, <2>2 DEF Here, Went, MakeEntry, At, ProcInv, ShapeInv, LockInv, FoundInv, TransferInv, Locks, Owns, Moving, Stamping, Opened, Imports
    <2>4. LockFrame(p)
      BY <1>1, <1>4, LockMoves DEF Here
    <2> QED BY <1>2, <1>4, <2>2, <2>3, <2>4, QuietIsGood, RestIs
  <1> QED BY <1>3, <1>4 DEF MakeEntry, Goto

(* The record of the entry is written. *)
LEMMA RecordEntryStep ==
    ASSUME StoreInv, NEW p \in Procs, RecordEntry(p)
    PROVE  Good(p)
  <1>1. Here(p)
    BY HereIs
  <1>2. Alone(p) /\ Went(p, "move")
    BY <1>1, GotoMoves DEF Here, RecordEntry, Pcs
  <1>3. ProcInv(p)'
    BY <1>1, <1>2 DEF Here, Went, RecordEntry, At, Referenced, ProcInv, ShapeInv, LockInv, FoundInv, TransferInv, Locks, Owns, Moving, Stamping, Opened, Imports
  <1>4. LockFrame(p)
    BY <1>1, LockMoves DEF RecordEntry, Here
  <1>5. DOMAIN quar' \subseteq Entries /\ \A f \in DOMAIN quar' : quar'[f] \in QuarantineEntry
    <2>1. PICK e : e = Me(p).entry
      OBVIOUS
    <2> QED BY <2>1, QuarantineTypes DEF RecordEntry
  <1> QED BY <1>2, <1>3, <1>4, <1>5, QuietIsGood, RestIs DEF RecordEntry

(* gc_quarantine: the next entry, the lock for it, its deletion. *)
LEMMA GcStep ==
    ASSUME StoreInv, NEW p \in Procs, GcEntry(p) \/ GcLock(p) \/ GcRemove(p)
    PROVE  Good(p)
  <1>1. Here(p)
    BY HereIs
  <1>2. UNCHANGED <<dest, work, stage, bound, source, begun, faulted>>
    BY DEF GcEntry, GcLock, GcRemove
  <1>3. ASSUME NEW pc \in Pcs, pc \in {"done", "gc", "gclock", "gcrm"}, Alone(p),
               proc'[p].pc = pc, proc'[p].op = proc[p].op, proc'[p].snap = proc[p].snap,
               proc'[p].session = proc[p].session, pc = "gcrm" => mlock' = p, LockFrame(p),
               DOMAIN quar' \subseteq Entries, \A f \in DOMAIN quar' : quar'[f] \in QuarantineEntry
        PROVE  Good(p)
    <2>1. ProcInv(p)'
      BY <1>1, <1>3 DEF Here, ProcInv, ShapeInv, LockInv, FoundInv, TransferInv, Locks, Owns, Moving, Stamping, Opened, Imports
    <2> QED BY <1>2, <1>3, <2>1, QuietIsGood, RestIs
  <1>4. CASE GcEntry(p)
    <2>1. UNCHANGED mlock /\ UNCHANGED quar
      BY <1>4 DEF GcEntry
    <2>2. LockFrame(p)
      BY <1>1, <2>1, LockMoves DEF Here
    <2>3. CASE Goto(p, "done")
      <3>1. Alone(p) /\ Went(p, "done")
        BY <1>1, <2>3, GotoMoves DEF Here, Pcs
      <3>2. "done" \in Pcs
        BY DEF Pcs
      <3> QED BY <1>3, <2>1, <2>2, <3>1, <3>2, RestIs DEF Went
    <2>4. ASSUME NEW e \in Me(p).todo, NEW pc \in {"done", "gc", "gclock"},
                 proc' = [proc EXCEPT ![p].todo = @ \ {e}, ![p].entry = e, ![p].pc = pc]
          PROVE  Good(p)
      <3>1. pc \in Pcs /\ e \in Entries
        BY <1>1 DEF Here, Process, Me, Pcs
      <3>2. PICK t : t = [proc[p] EXCEPT !.todo = @ \ {e}, !.entry = e, !.pc = pc]
        OBVIOUS
      <3>3. t = [op |-> proc[p].op, pc |-> pc, snap |-> proc[p].snap, from |-> proc[p].from,
                 next |-> proc[p].next, entry |-> e, orig |-> proc[p].orig,
                 session |-> proc[p].session, todo |-> proc[p].todo \ {e}]
        BY <1>1, <3>2 DEF Here, Process
      <3>4. t \in Process
        BY <1>1, <3>1, <3>3 DEF Here, Process, Pcs
      <3>5. proc' = [proc EXCEPT ![p] = t]
        BY <1>1, <2>4, <3>2 DEF Here
      <3>6. /\ Alone(p) /\ proc'[p].pc = pc /\ proc'[p].op = proc[p].op /\ proc'[p].snap = proc[p].snap
            /\ proc'[p].session = proc[p].session
        BY <1>1, <3>3, <3>4, <3>5 DEF Here, Alone
      <3> QED BY <1>3, <2>1, <2>2, <3>1, <3>6, RestIs
    <2>5. ASSUME NEW e \in Me(p).todo,
                 proc' = [proc EXCEPT ![p].todo = @ \ {e}, ![p].entry = e,
                            ![p].pc = IF e \notin DOMAIN quar \/ ~quar[e].record THEN "done"
                                      ELSE IF quar[e].old THEN "gclock" ELSE "gc"]
          PROVE  Good(p)
      <3>1. PICK pc \in {"done", "gc", "gclock"} :
              pc = IF e \notin DOMAIN quar \/ ~quar[e].record THEN "done"
                   ELSE IF quar[e].old THEN "gclock" ELSE "gc"
        OBVIOUS
      <3> QED BY <2>4, <2>5, <3>1
    <2> QED BY <1>4, <2>3, <2>5 DEF GcEntry
  <1>5. CASE GcLock(p)
    <2>1. PICK e : e = Me(p).entry
      OBVIOUS
    <2>2. \/ Goto(p, "done") /\ UNCHANGED <<quar, mlock>>
          \/ quar' = [quar EXCEPT ![e].record = FALSE] /\ Goto(p, "gcrm") /\ mlock' = p /\ MayLock(p)
      BY <1>5, <2>1 DEF GcLock
    <2>3. "done" \in Pcs /\ "gcrm" \in Pcs
      BY DEF Pcs
    <2>4. LockFrame(p)
      BY <1>1, <2>2, LockMoves DEF Here
    <2>5. CASE Goto(p, "done") /\ UNCHANGED <<quar, mlock>>
      <3>1. Alone(p) /\ Went(p, "done")
        BY <1>1, <2>3, <2>5, GotoMoves DEF Here
      <3> QED BY <1>3, <2>3, <2>4, <2>5, <3>1, RestIs DEF Went
    <2>6. CASE quar' = [quar EXCEPT ![e].record = FALSE] /\ Goto(p, "gcrm") /\ mlock' = p
      <3>1. Alone(p) /\ Went(p, "gcrm")
        BY <1>1, <2>3, <2>6, GotoMoves DEF Here
      <3>2. DOMAIN quar' \subseteq Entries /\ \A f \in DOMAIN quar' : quar'[f] \in QuarantineEntry
        BY <2>6, QuarantineTypes
      <3> QED BY <1>3, <2>3, <2>4, <2>6, <3>1, <3>2 DEF Went
    <2> QED BY <2>2, <2>5, <2>6
  <1>6. CASE GcRemove(p)
    <2>1. Alone(p) /\ Went(p, "gc") /\ "gc" \in Pcs
      BY <1>1, <1>6, GotoMoves DEF Here, GcRemove, Pcs
    <2>2. DOMAIN quar' \subseteq Entries /\ \A f \in DOMAIN quar' : quar'[f] \in QuarantineEntry
      <3>1. PICK e : e = Me(p).entry
        OBVIOUS
      <3> QED BY <1>6, <3>1, QuarantineTypes DEF GcRemove
    <2>3. LockFrame(p)
      BY <1>1, <1>6, LockMoves DEF Here, GcRemove
    <2> QED BY <1>3, <2>1, <2>2, <2>3 DEF Went
  <1> QED BY <1>4, <1>5, <1>6


-----------------------------------------------------------------------------
(* An operation begins. *)
LEMMA BeginStep ==
    ASSUME StoreInv, NEW p \in Procs,
           BeginDownload(p) \/ BeginImport(p) \/ BeginOnInstalled(p) \/ BeginGc(p)
    PROVE  Good(p)
  <1>1. Here(p)
    BY HereIs
  <1>2. UNCHANGED <<dest, work, quar, mlock, bound, source, faulted>>
    BY DEF BeginDownload, BeginImport, BeginOnInstalled, BeginGc, Unchanged
  <1>3. LockFrame(p)
    BY <1>1, <1>2, LockMoves DEF Here
  <1>4. stage' \in [Procs -> {"none", "complete", "sealed"}]
    BY <1>1 DEF Here, TypeOK, BeginDownload, BeginImport, BeginOnInstalled, BeginGc
  <1>5. ASSUME NEW op, NEW s \in Snaps, NEW x \in Sessions \cup {NoOne},
               NEW pc \in {"acquire", "reuse", "validate"}, Begin(p, op, s, x, pc),
               \/ pc = "acquire" /\ op = "download" /\ s \in Hub
               \/ pc = "reuse" /\ op \in Imports
               \/ pc = "validate" /\ op \in {"remove", "load"}
               \/ pc = "validate" /\ op = "bind" /\ x \in Sessions
        PROVE  Good(p)
    <2>1. op \in Ops /\ pc \in Pcs
      BY <1>5 DEF Begin, Pcs
    <2>2. PICK r \in Process : r = [Idle EXCEPT !.op = op, !.pc = pc, !.snap = s, !.session = x]
      BY <2>1, IdleIs
    <2>3. r.op = op /\ r.pc = pc /\ r.snap = s /\ r.session = x
      BY <2>2 DEF Idle
    <2>4. Alone(p) /\ proc'[p] = r
      BY <1>1, <1>5, <2>2 DEF Here, Begin, Alone
    <2>5. ProcInv(p)'
      BY <1>5, <2>3, <2>4, Nobody DEF ProcInv, ShapeInv, LockInv, FoundInv, TransferInv, Locks, Owns, Moving, Stamping, Opened, Imports
    <2>6. begun' \in 0..MaxOps
      BY <1>1, <1>5, ModelStoreAssumption DEF Here, TypeOK, Begin
    <2> QED BY <1>2, <1>3, <1>4, <2>4, <2>5, <2>6, QuietIsGood, RestIs
  <1>6. CASE BeginDownload(p)
    BY <1>5, <1>6, Nobody DEF BeginDownload
  <1>7. CASE BeginImport(p)
    BY <1>5, <1>7 DEF BeginImport, Snaps
  <1>8. CASE BeginOnInstalled(p)
    BY <1>5, <1>8 DEF BeginOnInstalled
  <1>9. CASE BeginGc(p)
    <2>1. "gc" \in Ops /\ DOMAIN quar \in SUBSET Entries
      BY <1>1, <1>9 DEF Here, TypeOK, BeginGc
    <2>2. PICK r \in Process : r = [Idle EXCEPT !.op = "gc", !.pc = "gc", !.todo = DOMAIN quar]
      BY <2>1, IdleIs
    <2>3. r.op = "gc" /\ r.pc = "gc"
      BY <2>2 DEF Idle
    <2>4. Alone(p) /\ proc'[p] = r
      BY <1>1, <1>9, <2>2 DEF Here, BeginGc, Alone
    <2>5. ProcInv(p)'
      BY <2>3, <2>4 DEF ProcInv, ShapeInv, LockInv, FoundInv, TransferInv, Locks, Owns, Moving, Stamping, Opened, Imports
    <2> QED BY <1>2, <1>3, <1>4, <1>9, <2>4, <2>5, QuietIsGood, RestIs DEF BeginGc
  <1> QED BY <1>6, <1>7, <1>8, <1>9

-----------------------------------------------------------------------------
(* A step that changes the workspace of one revision, which its holder may. *)
LEMMA WorkIsGood ==
    ASSUME StoreInv, NEW p \in Procs, Alone(p), LockFrame(p), ProcInv(p)',
           UNCHANGED <<dest, stage, quar, bound, source, begun, faulted>>,
           NEW s \in Hub, NEW w \in Workspace, work' = [work EXCEPT ![s] = w],
           work[s].holder \in {p, NoOne} \/ w = work[s],
           w.payload # "none" => w.record = "full",
           work[s].payload \in {"complete", "sealed"} => w.payload \in {"complete", "sealed"}
    PROVE  Good(p)
  <1>1. Here(p) /\ work \in [Hub -> Workspace]
    BY HereIs DEF StoreInv, TypeOK
  <1>2. TypeOK'
    BY <1>1 DEF Here, TypeOK, Alone, LockFrame
  <1>3. work'[s] = w /\ \A t \in Hub \ {s} : work'[t] = work[t]
    BY <1>1
  <1>4. Frame(p)
    BY <1>3 DEF Alone, Frame, Like, SameWork, Snap
  <1>5. BoundInv' /\ PayloadIsClaimed' /\ CompleteStays
    BY <1>3 DEF StoreInv, BoundInv, PayloadIsClaimed, CompleteStays
  <1>6. UNCHANGED Promise!vars
    BY DEF Promise!vars
  <1> QED BY <1>2, <1>4, <1>5, <1>6 DEF Good, PromiseStep

(* What may be written into a workspace. *)
LEMMA WorkTypes ==
    ASSUME NEW w \in Workspace
    PROVE  /\ \A h \in Procs \cup {NoOne} : [w EXCEPT !.holder = h] \in Workspace
           /\ \A r \in {"none", "torn", "full"} : [w EXCEPT !.record = r] \in Workspace
           /\ \A c \in Payload : [w EXCEPT !.payload = c] \in Workspace
           /\ \A r \in {"none", "torn", "full"}, c \in Payload : [w EXCEPT !.record = r, !.payload = c] \in Workspace
  BY DEF Workspace

(* The workspace lock is taken. *)
LEMMA AcquireStep ==
    ASSUME StoreInv, NEW p \in Procs, Acquire(p)
    PROVE  Good(p)
  <1>1. Here(p)
    BY HereIs
  <1>2. Alone(p) /\ Went(p, "reuse")
    BY <1>1, GotoMoves DEF Here, Acquire, Pcs
  <1>3. PICK s \in Hub : s = proc[p].snap
    BY <1>1 DEF Here, Acquire, At, ProcInv, ShapeInv
  <1>4. PICK o \in Workspace : o = work[s] /\ (o.payload # "none" => o.record = "full")
    BY <1>1 DEF Here, StoreInv, PayloadIsClaimed
  <1>5. work \in [Hub -> Workspace]
    BY <1>1 DEF Here, TypeOK
  <1>6. PICK w \in Workspace : w = [o EXCEPT !.holder = p]
    BY WorkTypes
  <1>7. /\ work' = [work EXCEPT ![s] = w] /\ w.holder = p /\ w.record = o.record /\ w.payload = o.payload
        /\ work[s].holder = NoOne
    BY <1>3, <1>4, <1>5, <1>6 DEF Acquire, Snap, Workspace
  <1>8. /\ proc[p].pc = "acquire" /\ proc[p].op = "download" /\ work'[s] = w
        /\ UNCHANGED <<dest, stage, quar, mlock, bound, source, begun, faulted>>
    BY <1>1, <1>5, <1>7 DEF Here, Acquire, At, ProcInv, ShapeInv
  <1>9. ProcInv(p)'
    <2>1. ShapeInv(p)' /\ LockInv(p)' /\ FoundInv(p)'
      BY <1>1, <1>2, <1>8 DEF Here, Went, ProcInv, ShapeInv, LockInv, FoundInv, TransferInv, Locks, Owns, Moving, Stamping, Opened, Imports
    <2>2. TransferInv(p)'
      BY <1>1, <1>2, <1>3, <1>4, <1>7, <1>8 DEF Here, Went, ProcInv, ShapeInv, LockInv, FoundInv, TransferInv, Locks, Owns, Moving, Stamping, Opened, Imports
    <2> QED BY <2>1, <2>2 DEF ProcInv
  <1>10. LockFrame(p)
    BY <1>1, <1>8, LockMoves DEF Here
  <1>11. /\ work[s].holder \in {p, NoOne} \/ w = work[s]
         /\ w.payload # "none" => w.record = "full"
         /\ work[s].payload \in {"complete", "sealed"} => w.payload \in {"complete", "sealed"}
    BY <1>4, <1>6, <1>7
  <1> QED BY <1>2, <1>7, <1>8, <1>9, <1>10, <1>11, WorkIsGood

(* The record is whole and the payload opened again. *)
LEMMA NormalizePayloadStep ==
    ASSUME StoreInv, NEW p \in Procs, NormalizePayload(p)
    PROVE  Good(p)
  <1>1. Here(p)
    BY HereIs
  <1>2. Alone(p) /\ Went(p, "fetch")
    BY <1>1, GotoMoves DEF Here, NormalizePayload, Pcs
  <1>3. PICK s \in Hub : s = proc[p].snap
    BY <1>1 DEF Here, NormalizePayload, At, ProcInv, ShapeInv
  <1>4. PICK o \in Workspace : o = work[s] /\ (o.payload # "none" => o.record = "full")
    BY <1>1 DEF Here, StoreInv, PayloadIsClaimed
  <1>5. work \in [Hub -> Workspace]
    BY <1>1 DEF Here, TypeOK
  <1>6. PICK w \in Workspace : w = [o EXCEPT !.record = "full", !.payload = Normalized(o.payload)]
    <2>1. Normalized(o.payload) \in Payload
      BY DEF Normalized, Payload, Workspace
    <2>2. "full" \in {"none", "torn", "full"}
      OBVIOUS
    <2> QED BY <2>1, <2>2, WorkTypes
  <1>7. /\ work' = [work EXCEPT ![s] = w] /\ w.holder = o.holder /\ w.record = "full"
        /\ o.payload \in {"complete", "sealed"} => w.payload \in {"complete", "sealed"}
        /\ work[s].holder = p
    <2>1. work' = [work EXCEPT ![s] = w]
      BY <1>3, <1>4, <1>5, <1>6 DEF NormalizePayload, Snap
    <2>2. w.holder = o.holder /\ w.record = "full" /\ w.payload = Normalized(o.payload)
      BY <1>6 DEF Workspace
    <2>3. work[s].holder = p
      BY <1>1, <1>3 DEF Here, NormalizePayload, At, ProcInv, ShapeInv, TransferInv, Owns
    <2> QED BY <2>1, <2>2, <2>3 DEF Normalized
  <1>8. /\ proc[p].pc = "recorded" /\ proc[p].op = "download" /\ work'[s] = w
        /\ UNCHANGED <<dest, stage, quar, mlock, bound, source, begun, faulted>>
    BY <1>1, <1>5, <1>7 DEF Here, NormalizePayload, At, ProcInv, ShapeInv
  <1>9. ProcInv(p)'
    <2>1. ShapeInv(p)' /\ LockInv(p)' /\ FoundInv(p)'
      BY <1>1, <1>2, <1>8 DEF Here, Went, ProcInv, ShapeInv, LockInv, FoundInv, TransferInv, Locks, Owns, Moving, Stamping, Opened, Imports
    <2>2. TransferInv(p)'
      BY <1>1, <1>2, <1>3, <1>4, <1>7, <1>8 DEF Here, Went, ProcInv, ShapeInv, LockInv, FoundInv, TransferInv, Locks, Owns, Moving, Stamping, Opened, Imports
    <2> QED BY <2>1, <2>2 DEF ProcInv
  <1>10. LockFrame(p)
    BY <1>1, <1>8, LockMoves DEF Here
  <1>11. /\ work[s].holder \in {p, NoOne} \/ w = work[s]
         /\ w.payload # "none" => w.record = "full"
         /\ work[s].payload \in {"complete", "sealed"} => w.payload \in {"complete", "sealed"}
    BY <1>4, <1>6, <1>7
  <1> QED BY <1>2, <1>7, <1>8, <1>9, <1>10, <1>11, WorkIsGood

(* The record of a finished transfer goes. *)
LEMMA ClearTransferStep ==
    ASSUME StoreInv, NEW p \in Procs, ClearTransfer(p)
    PROVE  Good(p)
  <1>1. Here(p)
    BY HereIs
  <1>2. Alone(p) /\ Went(p, "release")
    BY <1>1, GotoMoves DEF Here, ClearTransfer, Pcs
  <1>3. PICK s \in Hub : s = proc[p].snap
    BY <1>1 DEF Here, ClearTransfer, At, ProcInv, ShapeInv
  <1>4. PICK o \in Workspace : o = work[s] /\ (o.payload # "none" => o.record = "full")
    BY <1>1 DEF Here, StoreInv, PayloadIsClaimed
  <1>5. work \in [Hub -> Workspace]
    BY <1>1 DEF Here, TypeOK
  <1>6. PICK w \in Workspace : w = [o EXCEPT !.record = "none"]
    BY WorkTypes
  <1>7. /\ work' = [work EXCEPT ![s] = w] /\ w.holder = o.holder /\ w.record = "none"
        /\ w.payload = "none" /\ o.payload = "none" /\ work[s].holder = p
    <2>1. work' = [work EXCEPT ![s] = w]
      BY <1>3, <1>4, <1>5, <1>6 DEF ClearTransfer, Snap
    <2>2. w.holder = o.holder /\ w.record = "none" /\ w.payload = o.payload
      BY <1>6 DEF Workspace
    <2>3. work[s].holder = p /\ work[s].payload = "none"
      BY <1>1, <1>3 DEF Here, ClearTransfer, At, ProcInv, ShapeInv, TransferInv, Owns
    <2> QED BY <1>4, <2>1, <2>2, <2>3
  <1>8. /\ proc[p].pc = "clear" /\ proc[p].op = "download" /\ work'[s] = w
        /\ UNCHANGED <<dest, stage, quar, mlock, bound, source, begun, faulted>>
    BY <1>1, <1>5, <1>7 DEF Here, ClearTransfer, At, ProcInv, ShapeInv
  <1>9. ProcInv(p)'
    <2>1. ShapeInv(p)' /\ LockInv(p)' /\ FoundInv(p)'
      BY <1>1, <1>2, <1>8 DEF Here, Went, ProcInv, ShapeInv, LockInv, FoundInv, TransferInv, Locks, Owns, Moving, Stamping, Opened, Imports
    <2>2. TransferInv(p)'
      BY <1>1, <1>2, <1>3, <1>4, <1>7, <1>8 DEF Here, Went, ProcInv, ShapeInv, LockInv, FoundInv, TransferInv, Locks, Owns, Moving, Stamping, Opened, Imports
    <2> QED BY <2>1, <2>2 DEF ProcInv
  <1>10. LockFrame(p)
    BY <1>1, <1>8, LockMoves DEF Here
  <1>11. /\ work[s].holder \in {p, NoOne} \/ w = work[s]
         /\ w.payload # "none" => w.record = "full"
         /\ work[s].payload \in {"complete", "sealed"} => w.payload \in {"complete", "sealed"}
    BY <1>4, <1>6, <1>7
  <1> QED BY <1>2, <1>7, <1>8, <1>9, <1>10, <1>11, WorkIsGood

(* The workspace lock is released. *)
LEMMA ReleaseTransferStep ==
    ASSUME StoreInv, NEW p \in Procs, ReleaseTransfer(p)
    PROVE  Good(p)
  <1>1. Here(p)
    BY HereIs
  <1>2. Alone(p) /\ Went(p, "done")
    BY <1>1, GotoMoves DEF Here, ReleaseTransfer, Pcs
  <1>3. PICK s \in Hub : s = proc[p].snap
    BY <1>1 DEF Here, ReleaseTransfer, At, ProcInv, ShapeInv
  <1>4. PICK o \in Workspace : o = work[s] /\ (o.payload # "none" => o.record = "full")
    BY <1>1 DEF Here, StoreInv, PayloadIsClaimed
  <1>5. work \in [Hub -> Workspace]
    BY <1>1 DEF Here, TypeOK
  <1>6. PICK w \in Workspace : w = [o EXCEPT !.holder = IF o.holder = p THEN NoOne ELSE o.holder]
    <2>1. (IF o.holder = p THEN NoOne ELSE o.holder) \in Procs \cup {NoOne}
      BY DEF Workspace
    <2> QED BY <2>1, WorkTypes
  <1>7. /\ work' = [work EXCEPT ![s] = w] /\ w.record = o.record /\ w.payload = o.payload
        /\ work[s].holder \in {p, NoOne} \/ w = o
    <2>1. work' = [work EXCEPT ![s] = w]
      BY <1>3, <1>4, <1>5, <1>6 DEF ReleaseTransfer, Snap
    <2>2. w.record = o.record /\ w.payload = o.payload
      BY <1>6 DEF Workspace
    <2>3. o.holder # p => w = o
      BY <1>6 DEF Workspace
    <2> QED BY <1>4, <2>1, <2>2, <2>3
  <1>8. /\ proc[p].pc = "release" /\ proc[p].op = "download" /\ work'[s] = w
        /\ UNCHANGED <<dest, stage, quar, mlock, bound, source, begun, faulted>>
    BY <1>1, <1>5, <1>7 DEF Here, ReleaseTransfer, At, ProcInv, ShapeInv
  <1>9. ProcInv(p)'
    <2>1. ShapeInv(p)' /\ LockInv(p)' /\ FoundInv(p)'
      BY <1>1, <1>2, <1>8 DEF Here, Went, ProcInv, ShapeInv, LockInv, FoundInv, TransferInv, Locks, Owns, Moving, Stamping, Opened, Imports
    <2>2. TransferInv(p)'
      BY <1>1, <1>2, <1>3, <1>4, <1>7, <1>8 DEF Here, Went, ProcInv, ShapeInv, LockInv, FoundInv, TransferInv, Locks, Owns, Moving, Stamping, Opened, Imports
    <2> QED BY <2>1, <2>2 DEF ProcInv
  <1>10. LockFrame(p)
    BY <1>1, <1>8, LockMoves DEF Here
  <1>11. /\ work[s].holder \in {p, NoOne} \/ w = work[s]
         /\ w.payload # "none" => w.record = "full"
         /\ work[s].payload \in {"complete", "sealed"} => w.payload \in {"complete", "sealed"}
    BY <1>4, <1>6, <1>7
  <1> QED BY <1>2, <1>7, <1>8, <1>9, <1>10, <1>11, WorkIsGood

(* The missing bytes arrive. *)
LEMMA FetchStep ==
    ASSUME StoreInv, NEW p \in Procs, Fetch(p)
    PROVE  Good(p)
  <1>1. Here(p)
    BY HereIs
  <1>2. Alone(p) /\ Went(p, "certify")
    BY <1>1, GotoMoves DEF Here, Fetch, Pcs
  <1>3. PICK s \in Hub : s = proc[p].snap
    BY <1>1 DEF Here, Fetch, At, ProcInv, ShapeInv
  <1>4. PICK o \in Workspace : o = work[s] /\ (o.payload # "none" => o.record = "full")
    BY <1>1 DEF Here, StoreInv, PayloadIsClaimed
  <1>5. work \in [Hub -> Workspace]
    BY <1>1 DEF Here, TypeOK
  <1>6. PICK got \in Payload : /\ work' = [work EXCEPT ![s].payload = got]
                               /\ got = o.payload \/ (o.payload = "partial" /\ got \in {"complete", "bad"})
    <2>1. PICK new \in {"complete", "bad"} :
            work' = [work EXCEPT ![s].payload = IF @ = "partial" THEN new ELSE @]
      BY <1>3 DEF Fetch, Snap
    <2>2. PICK got \in Payload : got = IF o.payload = "partial" THEN new ELSE o.payload
      BY DEF Payload, Workspace
    <2>3. work' = [work EXCEPT ![s].payload = got]
      BY <1>4, <1>5, <2>1, <2>2
    <2> QED BY <2>2, <2>3
  <1>7. PICK w \in Workspace :
        /\ work' = [work EXCEPT ![s] = w] /\ w.holder = o.holder /\ w.record = o.record /\ w.payload = got
        /\ work[s].holder = p /\ o.record = "full"
    <2>1. PICK w \in Workspace : w = [o EXCEPT !.payload = got]
      BY WorkTypes
    <2>2. work' = [work EXCEPT ![s] = w]
      BY <1>4, <1>5, <1>6, <2>1
    <2>3. w.holder = o.holder /\ w.record = o.record /\ w.payload = got
      BY <2>1 DEF Workspace
    <2>4. work[s].holder = p /\ work[s].record = "full"
      BY <1>1, <1>3 DEF Here, Fetch, At, ProcInv, ShapeInv, TransferInv, Owns
    <2> QED BY <1>4, <2>1, <2>2, <2>3, <2>4
  <1>8. /\ proc[p].pc = "fetch" /\ proc[p].op = "download" /\ work'[s] = w
        /\ UNCHANGED <<dest, stage, quar, mlock, bound, source, begun, faulted>>
    BY <1>1, <1>5, <1>7 DEF Here, Fetch, At, ProcInv, ShapeInv
  <1>9. ProcInv(p)'
    <2>1. ShapeInv(p)' /\ LockInv(p)' /\ FoundInv(p)'
      BY <1>1, <1>2, <1>8 DEF Here, Went, ProcInv, ShapeInv, LockInv, FoundInv, TransferInv, Locks, Owns, Moving, Stamping, Opened, Imports
    <2>2. TransferInv(p)'
      BY <1>1, <1>2, <1>3, <1>4, <1>7, <1>8 DEF Here, Went, ProcInv, ShapeInv, LockInv, FoundInv, TransferInv, Locks, Owns, Moving, Stamping, Opened, Imports
    <2> QED BY <2>1, <2>2 DEF ProcInv
  <1>10. LockFrame(p)
    BY <1>1, <1>8, LockMoves DEF Here
  <1>11. /\ work[s].holder \in {p, NoOne} \/ w = work[s]
         /\ w.payload # "none" => w.record = "full"
         /\ work[s].payload \in {"complete", "sealed"} => w.payload \in {"complete", "sealed"}
    BY <1>4, <1>6, <1>7
  <1> QED BY <1>2, <1>7, <1>8, <1>9, <1>10, <1>11, WorkIsGood

(* prepare_hub_transfer: the record is there, or is begun, or the transfer ends. *)
LEMMA PrepareTransferStep ==
    ASSUME StoreInv, NEW p \in Procs, PrepareTransfer(p)
    PROVE  Good(p)
  <1>1. Here(p)
    BY HereIs
  <1>2. PICK s \in Hub : s = proc[p].snap
    BY <1>1 DEF Here, PrepareTransfer, At, ProcInv, ShapeInv
  <1>3. PICK o \in Workspace : o = work[s] /\ (o.payload # "none" => o.record = "full")
    BY <1>1 DEF Here, StoreInv, PayloadIsClaimed
  <1>4. work \in [Hub -> Workspace]
    BY <1>1 DEF Here, TypeOK
  <1>5. /\ proc[p].pc = "prepare" /\ proc[p].op = "download" /\ work[s].holder = p
        /\ UNCHANGED <<dest, stage, quar, mlock, bound, source, begun, faulted>>
    BY <1>1, <1>2 DEF Here, PrepareTransfer, At, ProcInv, ShapeInv, TransferInv, Owns
  <1>6. LockFrame(p)
    BY <1>1, <1>5, LockMoves DEF Here
  <1>7. ASSUME NEW pc \in {"recorded", "finish"}, Goto(p, pc), NEW w \in Workspace,
               work' = [work EXCEPT ![s] = w], w.holder = o.holder, w.payload = o.payload,
               w.payload # "none" => w.record = "full"
        PROVE  Good(p)
    <2>1. Alone(p) /\ Went(p, pc)
      BY <1>1, <1>7, GotoMoves DEF Here, Pcs
    <2>2. work'[s] = w
      BY <1>4, <1>7
    <2>3. ShapeInv(p)' /\ LockInv(p)' /\ FoundInv(p)'
      BY <1>1, <1>5, <2>1 DEF Here, Went, ProcInv, ShapeInv, LockInv, FoundInv, TransferInv, Locks, Owns, Moving, Stamping, Opened, Imports
    <2>4. TransferInv(p)'
      BY <1>1, <1>2, <1>3, <1>5, <1>7, <2>1, <2>2 DEF Here, Went, ProcInv, ShapeInv, LockInv, FoundInv, TransferInv, Locks, Owns, Moving, Stamping, Opened, Imports
    <2>5. ProcInv(p)'
      BY <2>3, <2>4 DEF ProcInv
    <2> QED BY <1>3, <1>5, <1>6, <1>7, <2>1, <2>5, WorkIsGood
  <1>8. ASSUME UNCHANGED work, NEW pc \in {"recorded", "finish"}, Goto(p, pc) PROVE Good(p)
    <2>1. work' = [work EXCEPT ![s] = o]
      BY <1>3, <1>4, <1>8
    <2> QED BY <1>3, <1>7, <1>8, <2>1
  <1>9. ASSUME Goto(p, "recorded"), work' = [work EXCEPT ![s].record = "torn"], o.payload = "none" PROVE Good(p)
    <2>1. PICK w \in Workspace : w = [o EXCEPT !.record = "torn"]
      BY WorkTypes
    <2>2. work' = [work EXCEPT ![s] = w]
      BY <1>3, <1>4, <1>9, <2>1
    <2>3. w.holder = o.holder /\ w.payload = o.payload
      BY <2>1 DEF Workspace
    <2> QED BY <1>7, <1>9, <2>2, <2>3
  <1> QED BY <1>2, <1>3, <1>8, <1>9 DEF PrepareTransfer, Snap

(* The manifest and the stamp are written into the payload or the staged copy. *)
LEMMA SealStep ==
    ASSUME StoreInv, NEW p \in Procs, Seal(p)
    PROVE  Good(p)
  <1>1. Here(p)
    BY HereIs
  <1>2. /\ proc[p].pc = "seal" /\ proc[p].op \in {"download"} \cup Imports
        /\ UNCHANGED <<dest, quar, mlock, bound, source, begun, faulted>>
    BY <1>1 DEF Here, Seal, At, ProcInv, ShapeInv
  <1>3. LockFrame(p)
    BY <1>1, <1>2, LockMoves DEF Here
  <1>4. CASE proc[p].op = "download"
    <2>1. Goto(p, "recheck") /\ UNCHANGED stage
      BY <1>4 DEF Seal, Me
    <2>2. Alone(p) /\ Went(p, "recheck")
      BY <1>1, <2>1, GotoMoves DEF Here, Pcs
    <2>3. PICK s \in Hub : s = proc[p].snap
      BY <1>1, <1>4 DEF Here, ProcInv, ShapeInv
    <2>4. PICK o \in Workspace : o = work[s] /\ o.record = "full" /\ o.holder = p
      BY <1>1, <1>2, <1>4, <2>3 DEF Here, ProcInv, TransferInv, Owns
    <2>5. PICK w \in Workspace : w = [o EXCEPT !.payload = "sealed"]
      BY WorkTypes DEF Payload
    <2>6. w.holder = p /\ w.record = "full" /\ w.payload = "sealed"
      BY <2>4, <2>5 DEF Workspace
    <2>7. work' = [work EXCEPT ![s] = w] /\ work'[s] = w
      BY <1>1, <1>4, <2>3, <2>4, <2>5 DEF Here, TypeOK, Seal, Me, Snap
    <2>8. ShapeInv(p)' /\ LockInv(p)' /\ FoundInv(p)'
      BY <1>1, <1>2, <1>4, <2>2 DEF Here, Went, ProcInv, ShapeInv, LockInv, FoundInv, TransferInv, Locks, Owns, Moving, Stamping, Opened, Imports
    <2>9. TransferInv(p)'
      BY <1>4, <2>2, <2>3, <2>6, <2>7 DEF Went, ProcInv, ShapeInv, LockInv, FoundInv, TransferInv, Locks, Owns, Moving, Stamping, Opened, Imports
    <2>10. ProcInv(p)'
      BY <2>8, <2>9 DEF ProcInv
    <2> QED BY <1>2, <1>3, <2>1, <2>2, <2>4, <2>6, <2>7, <2>10, WorkIsGood
  <1>5. CASE proc[p].op # "download"
    <2>1. Goto(p, "publish") /\ UNCHANGED work /\ stage' = [stage EXCEPT ![p] = "sealed"]
      BY <1>5 DEF Seal, Me
    <2>2. Alone(p) /\ Went(p, "publish")
      BY <1>1, <2>1, GotoMoves DEF Here, Pcs
    <2>3. ProcInv(p)'
      BY <1>1, <1>2, <1>5, <2>2 DEF Here, Went, ProcInv, ShapeInv, LockInv, FoundInv, TransferInv, Locks, Owns, Moving, Stamping, Opened, Imports
    <2>4. stage' \in [Procs -> {"none", "complete", "sealed"}]
      BY <1>1, <2>1 DEF Here, TypeOK
    <2> QED BY <1>2, <1>3, <2>1, <2>2, <2>3, <2>4, QuietIsGood, RestIs
  <1> QED BY <1>4, <1>5

(* A process is killed: its locks are free, its operation is forgotten. *)
LEMMA CrashStep ==
    ASSUME StoreInv, NEW p \in Procs, Crash(p)
    PROVE  Good(p)
  <1>1. Here(p)
    BY HereIs
  <1>2. Alone(p) /\ proc'[p] = Idle
    BY <1>1, IdleIs DEF Crash, Alone, Here
  <1>3. ProcInv(p)'
    BY <1>2 DEF Idle, ProcInv, ShapeInv, LockInv, FoundInv, TransferInv, Locks, Owns, Moving, Stamping, Opened, Imports
  <1>4. LockFrame(p)
    BY <1>1, LockMoves DEF Crash, Here
  <1>5. work' \in [Hub -> Workspace] /\ \A s \in Hub : /\ work'[s].record = work[s].record
                                                       /\ work'[s].payload = work[s].payload
                                                       /\ work[s].holder = p \/ work'[s].holder = work[s].holder
    <2>1. ASSUME NEW s \in Hub
          PROVE  /\ work'[s] \in Workspace /\ work'[s].record = work[s].record /\ work'[s].payload = work[s].payload
                 /\ work[s].holder = p \/ work'[s].holder = work[s].holder
      <3>1. PICK o \in Workspace : o = work[s]
        BY <1>1 DEF Here
      <3>2. PICK h \in Procs \cup {NoOne} : h = IF o.holder \in {p} THEN NoOne ELSE o.holder
        BY DEF Workspace
      <3>3. work'[s] = [o EXCEPT !.holder = h]
        BY <3>1, <3>2 DEF Crash, Freed
      <3>4. [o EXCEPT !.holder = h] \in Workspace
        BY WorkTypes
      <3>5. /\ [o EXCEPT !.holder = h].holder = h /\ [o EXCEPT !.holder = h].record = o.record
            /\ [o EXCEPT !.holder = h].payload = o.payload
        BY DEF Workspace
      <3> QED BY <3>1, <3>2, <3>3, <3>4, <3>5
    <2>2. work' = [s \in Hub |-> [work[s] EXCEPT !.holder = IF @ \in {p} THEN NoOne ELSE @]]
      BY DEF Crash, Freed
    <2> QED BY <2>1, <2>2
  <1>6. faulted' \in 0..MaxFaults /\ UNCHANGED <<dest, quar, bound, source, begun>>
    BY <1>1, ModelStoreAssumption DEF Here, TypeOK, Crash, Fault
  <1>7. TypeOK'
    <2>1. stage' \in [Procs -> {"none", "complete", "sealed"}]
      BY <1>1 DEF Here, TypeOK, Crash
    <2> QED BY <1>1, <1>2, <1>4, <1>5, <1>6, <2>1 DEF Here, TypeOK, Alone, LockFrame
  <1>8. Frame(p)
    BY <1>2, <1>4, <1>5, <1>6 DEF Alone, Frame, Like, SameWork, Snap
  <1>9. BoundInv' /\ PayloadIsClaimed' /\ CompleteStays
    BY <1>5, <1>6 DEF StoreInv, BoundInv, PayloadIsClaimed, CompleteStays
  <1>10. UNCHANGED Promise!vars
    BY <1>6 DEF Promise!vars
  <1> QED BY <1>3, <1>7, <1>8, <1>9, <1>10 DEF Good, PromiseStep


-----------------------------------------------------------------------------
(* A step that changes what stands at one destination and not whether      *)
(* something does.                                                         *)
LEMMA DestIsGood ==
    ASSUME StoreInv, NEW p \in Procs, Alone(p), LockFrame(p), ProcInv(p)',
           UNCHANGED <<work, stage, quar, bound, source, begun, faulted>>,
           NEW s \in Snaps, NEW d \in Install \cup {None}, dest' = [dest EXCEPT ![s] = d],
           d = None <=> dest[s] = None
    PROVE  Good(p)
  <1>1. Here(p) /\ dest \in [Snaps -> Install \cup {None}]
    BY HereIs DEF StoreInv, TypeOK
  <1>2. TypeOK'
    BY <1>1 DEF Here, TypeOK, Alone, LockFrame
  <1>3. \A t \in Snaps : dest'[t] = None <=> dest[t] = None
    BY <1>1
  <1>4. Frame(p)
    <2>1. ASSUME NEW q \in Procs, proc[q].pc \in Opened PROVE Snap(q) \in Snaps
      BY <2>1 DEF StoreInv, ProcInv, ShapeInv, Opened, Stamping, Snap, Imports
    <2> QED BY <1>3, <2>1 DEF Alone, Frame, Like, SameWork, Snap
  <1>5. BoundInv' /\ PayloadIsClaimed' /\ CompleteStays
    <2>1. \A x \in Sessions : bound[x] \in Snaps \cup {NoOne}
      BY <1>1 DEF Here, TypeOK
    <2> QED BY <1>3, <2>1 DEF StoreInv, BoundInv, PayloadIsClaimed, CompleteStays
  <1>6. UNCHANGED Promise!vars
    BY <1>3 DEF Promise!vars
  <1> QED BY <1>2, <1>4, <1>5, <1>6 DEF Good, PromiseStep

(* What may be written at a destination where something stands. *)
LEMMA DestTypes ==
    ASSUME NEW d \in Install
    PROVE  /\ \A b \in BOOLEAN : [d EXCEPT !.writable = b] \in Install
           /\ \A v \in {"valid", "drift", "none"} : [d EXCEPT !.stamp = v] \in Install
           /\ [d EXCEPT !.synced = TRUE, !.writable = FALSE] \in Install
           /\ \A v \in {"valid", "drift", "none"} : [d EXCEPT !.files = "bad", !.stamp = v] \in Install
  <1>1. ASSUME NEW b \in BOOLEAN PROVE [d EXCEPT !.writable = b] \in Install
    BY DEF Install
  <1>2. ASSUME NEW v \in {"valid", "drift", "none"} PROVE [d EXCEPT !.stamp = v] \in Install
    BY DEF Install
  <1>3. [d EXCEPT !.synced = TRUE, !.writable = FALSE] \in Install
    <2>1. PICK t : t = [d EXCEPT !.synced = TRUE, !.writable = FALSE]
      OBVIOUS
    <2>2. t = [source |-> d.source, files |-> d.files, stamp |-> d.stamp, writable |-> FALSE, synced |-> TRUE]
      BY <2>1 DEF Install
    <2> QED BY <2>1, <2>2 DEF Install
  <1>4. ASSUME NEW v \in {"valid", "drift", "none"} PROVE [d EXCEPT !.files = "bad", !.stamp = v] \in Install
    <2>1. PICK t : t = [d EXCEPT !.files = "bad", !.stamp = v]
      OBVIOUS
    <2>2. t = [source |-> d.source, files |-> "bad", stamp |-> v, writable |-> d.writable, synced |-> d.synced]
      BY <2>1 DEF Install
    <2> QED BY <2>1, <2>2 DEF Install
  <1> QED BY <1>1, <1>2, <1>3, <1>4

(* The published snapshot is synced and becomes read-only, or goes back to quarantine. *)
LEMMA ConfirmStep ==
    ASSUME StoreInv, NEW p \in Procs, Confirm(p)
    PROVE  Good(p)
  <1>1. Here(p)
    BY HereIs
  <1>2. /\ proc[p].pc = "confirm" /\ proc[p].op \in {"download"} \cup Imports /\ mlock = p
        /\ UNCHANGED <<work, stage, quar, bound, source, begun, faulted>> /\ ~Referenced(Snap(p))
    BY <1>1 DEF Here, Confirm, At, Snap, ProcInv, ShapeInv, LockInv, Locks, FoundInv
  <1>3. PICK s \in Snaps : s = proc[p].snap
    BY <1>1, <1>2, Nobody DEF Here, ProcInv, ShapeInv
  <1>4. ASSUME Healthy(Snap(p)), dest' = [dest EXCEPT ![Snap(p)].synced = TRUE, ![Snap(p)].writable = FALSE],
               Goto(p, Settled(p)), mlock' = Unlocked(p)
        PROVE  Good(p)
    <2>1. PICK o \in Install : o = dest[s]
      BY <1>1, <1>3, <1>4 DEF Here, Healthy, Snap
    <2>2. PICK d \in Install : d = [o EXCEPT !.synced = TRUE, !.writable = FALSE]
      BY DestTypes
    <2>3. dest' = [dest EXCEPT ![s] = d]
      BY <1>1, <1>3, <1>4, <2>1, <2>2 DEF Here, TypeOK, Snap
    <2>4. d # None /\ o # None
      BY ThereIs
    <2>5. PICK pc \in Pcs : /\ pc = Settled(p) /\ pc \in {"finish", "sweep", "retire"}
                            /\ pc = "finish" => proc[p].op = "download"
                            /\ pc \in {"sweep", "retire"} => proc[p].op \in Imports
      BY <1>2 DEF Settled, Ending, Me, Imports, Pcs
    <2>6. Alone(p) /\ Went(p, pc)
      BY <1>1, <1>4, <2>5, GotoMoves DEF Here
    <2>7. ProcInv(p)'
      BY <1>1, <1>2, <2>5, <2>6 DEF Here, Went, ProcInv, ShapeInv, LockInv, FoundInv, TransferInv, Locks, Owns, Moving, Stamping, Opened, Imports
    <2>8. LockFrame(p)
      BY <1>1, <1>4, LockMoves DEF Here
    <2> QED BY <1>2, <2>1, <2>3, <2>4, <2>6, <2>7, <2>8, DestIsGood
  <1>5. ASSUME Quarantine(p, "dest", Ending(p)), UNCHANGED <<dest, mlock>>
        PROVE  Good(p)
    <2>1. PICK next \in {"finish", "sweep"} : /\ next = Ending(p)
                                              /\ next = "finish" => proc[p].op = "download"
                                              /\ next = "sweep" => proc[p].op \in Imports
      BY <1>2 DEF Ending, Me, Imports
    <2>2. Alone(p) /\ SetsAside(p, "dest", next)
      BY <1>1, <1>5, <2>1, QuarantineMoves DEF Here
    <2>3. ShapeInv(p)' /\ LockInv(p)'
      BY <1>1, <1>2, <1>5, <2>1, <2>2 DEF Here, SetsAside, ProcInv, ShapeInv, LockInv, FoundInv, TransferInv, Locks, Owns, Moving, Stamping, Opened, Imports
    <2>4. FoundInv(p)' /\ TransferInv(p)'
      BY <1>1, <1>2, <1>5, <2>1, <2>2 DEF Here, SetsAside, Snap, Referenced, ProcInv, ShapeInv, LockInv, FoundInv, TransferInv, Locks, Owns, Moving, Stamping, Opened, Imports
    <2>5. ProcInv(p)'
      BY <2>3, <2>4 DEF ProcInv
    <2>6. LockFrame(p)
      BY <1>1, <1>5, LockMoves DEF Here
    <2> QED BY <1>2, <1>5, <2>2, <2>5, <2>6, QuietIsGood, RestIs
  <1> QED BY <1>4, <1>5 DEF Confirm

(* refresh_verification_stamp, call by call. *)
LEMMA StampStep ==
    ASSUME StoreInv, NEW p \in Procs, PrepareMode(p) \/ RemoveStamp(p) \/ WriteStamp(p) \/ RestoreMode(p)
    PROVE  Good(p)
  <1>1. Here(p)
    BY HereIs
  <1>2. /\ proc[p].pc \in Stamping /\ proc[p].op \in {"bind", "remove", "load"} /\ proc[p].next \in {"commit", "done"}
        /\ UNCHANGED <<work, stage, quar, bound, source, begun, faulted>>
    BY <1>1 DEF Here, PrepareMode, RemoveStamp, WriteStamp, RestoreMode, At, ProcInv, ShapeInv, Stamping
  <1>3. PICK s \in Snaps : s = proc[p].snap
    BY <1>1, <1>2 DEF Here, ProcInv, ShapeInv
  <1>4. LockFrame(p)
    BY <1>1, LockMoves DEF Here, PrepareMode, RemoveStamp, WriteStamp, RestoreMode
  <1>5. dest \in [Snaps -> Install \cup {None}] /\ dest[s] \in Install \cup {None}
    BY <1>1 DEF Here, TypeOK
  <1>6. ASSUME NEW d \in Install \cup {None}, dest' = [dest EXCEPT ![s] = d], d = None <=> dest[s] = None,
               Alone(p), proc'[p].op = proc[p].op, proc'[p].snap = proc[p].snap, proc'[p].session = proc[p].session,
               NEW pc \in Opened \cup {"commit", "done"}, proc'[p].pc = pc,
               proc'[p].next = proc[p].next \/ proc'[p].next = "done",
               proc'[p].orig = proc[p].orig \/ dest[s] # None,
               pc \in Opened => proc[p].pc \in Opened \/ dest[s] # None,
               pc = "commit" => proc[p].next = "commit",
               (pc = "commit" \/ (proc'[p].next = "commit" /\ pc # "done")) => mlock' = mlock
        PROVE  Good(p)
    <2>1. dest'[s] = d
      BY <1>5, <1>6
    <2>2. ShapeInv(p)' /\ TransferInv(p)'
      BY <1>1, <1>2, <1>6 DEF Here, ProcInv, ShapeInv, LockInv, FoundInv, TransferInv, Locks, Owns, Moving, Stamping, Opened, Imports
    <2>3. LockInv(p)'
      BY <1>1, <1>2, <1>6 DEF Here, ProcInv, ShapeInv, LockInv, FoundInv, TransferInv, Locks, Owns, Moving, Stamping, Opened, Imports
    <2>4. FoundInv(p)'
      BY <1>1, <1>2, <1>3, <1>6, <2>1 DEF Here, ProcInv, ShapeInv, LockInv, FoundInv, TransferInv, Locks, Owns, Moving, Stamping, Opened, Imports
    <2>5. ProcInv(p)'
      BY <2>2, <2>3, <2>4 DEF ProcInv
    <2> QED BY <1>2, <1>4, <1>6, <2>5, DestIsGood
  <1>7. UNCHANGED dest => dest' = [dest EXCEPT ![s] = dest[s]]
    BY <1>5
  <1>8. ASSUME NEW pc \in Opened \cup {"commit", "done"}, Goto(p, pc)
        PROVE  Alone(p) /\ Went(p, pc)
    BY <1>1, <1>8, GotoMoves DEF Here, Pcs, Opened
  <1>9. ASSUME Refused(p)
        PROVE  /\ Alone(p) /\ proc'[p].pc = "restore" /\ proc'[p].next = "done" /\ proc'[p].op = proc[p].op
               /\ proc'[p].snap = proc[p].snap /\ proc'[p].session = proc[p].session
               /\ proc'[p].orig = proc[p].orig
    BY <1>1, <1>9, NextMoves DEF Here, Pcs, Refused
  <1>10. CASE PrepareMode(p)
    <2>1. proc[p].pc = "prep" /\ Snap(p) = s
      BY <1>3, <1>10 DEF PrepareMode, At, Snap
    <2>2. CASE dest[s] = None
      <3>1. Goto(p, "done") /\ UNCHANGED dest
        BY <1>10, <2>1, <2>2 DEF PrepareMode
      <3>2. "done" \in Opened \cup {"commit", "done"} /\ "done" \notin Opened
        BY DEF Opened
      <3> QED BY <1>5, <1>6, <1>7, <1>8, <3>1, <3>2 DEF Went
    <2>3. CASE dest[s] # None
      <3>1. PICK orig \in {"ro", "rw"} : orig = IF dest[s].writable THEN "rw" ELSE "ro"
        OBVIOUS
      <3>2. /\ proc' = [proc EXCEPT ![p].pc = "unlink", ![p].orig = orig]
            /\ dest' = [dest EXCEPT ![s].writable = TRUE] /\ UNCHANGED mlock
        BY <1>10, <2>1, <2>3, <3>1 DEF PrepareMode
      <3>3. PICK r \in Process : r = [proc[p] EXCEPT !.pc = "unlink", !.orig = orig]
        BY <1>1, TwoFields DEF Here, Pcs
      <3>4. proc' = [proc EXCEPT ![p] = r]
        BY <1>1, <3>2, <3>3 DEF Here
      <3>5. /\ r.pc = "unlink" /\ r.next = proc[p].next /\ r.op = proc[p].op /\ r.snap = proc[p].snap
            /\ r.session = proc[p].session
        BY <1>1, <3>3 DEF Here, Process
      <3>6. Alone(p) /\ proc'[p] = r
        BY <1>1, <3>4 DEF Here, Alone
      <3>7. PICK d \in Install : d = [dest[s] EXCEPT !.writable = TRUE]
        BY <1>5, <2>3, DestTypes
      <3>8. dest' = [dest EXCEPT ![s] = d] /\ d # None
        BY <1>5, <3>2, <3>7, ThereIs
      <3>9. "unlink" \in Opened \cup {"commit", "done"}
        BY DEF Opened
      <3> QED BY <1>6, <2>3, <3>2, <3>5, <3>6, <3>8, <3>9
    <2> QED BY <2>2, <2>3
  <1>11. CASE RemoveStamp(p)
    <2>1. proc[p].pc = "unlink" /\ Snap(p) = s /\ proc[p].pc \in Opened /\ UNCHANGED mlock
      BY <1>3, <1>11 DEF RemoveStamp, At, Snap, Opened
    <2>2. "write" \in Opened \cup {"commit", "done"} /\ "restore" \in Opened \cup {"commit", "done"}
      BY DEF Opened
    <2>3. CASE Goto(p, "write") /\ UNCHANGED dest
      BY <1>5, <1>6, <1>7, <1>8, <2>1, <2>2, <2>3 DEF Went
    <2>4. CASE Refused(p) /\ UNCHANGED dest
      BY <1>5, <1>6, <1>7, <1>9, <2>1, <2>2, <2>4
    <2>5. CASE Goto(p, "write") /\ dest' = [dest EXCEPT ![s].stamp = "none"] /\ dest[s] # None
      <3>1. PICK d \in Install : d = [dest[s] EXCEPT !.stamp = "none"]
        BY <1>5, <2>5, DestTypes
      <3>2. dest' = [dest EXCEPT ![s] = d] /\ d # None
        BY <1>5, <2>5, <3>1, ThereIs
      <3> QED BY <1>6, <1>8, <2>1, <2>2, <2>5, <3>2 DEF Went
    <2> QED BY <1>11, <2>1, <2>3, <2>4, <2>5 DEF RemoveStamp
  <1>12. CASE WriteStamp(p)
    <2>1. proc[p].pc = "write" /\ Snap(p) = s /\ proc[p].pc \in Opened /\ UNCHANGED mlock
      BY <1>3, <1>12 DEF WriteStamp, At, Snap, Opened
    <2>2. "restore" \in Opened \cup {"commit", "done"}
      BY DEF Opened
    <2>3. CASE Refused(p) /\ UNCHANGED dest
      BY <1>5, <1>6, <1>7, <1>9, <2>1, <2>2, <2>3
    <2>4. CASE Goto(p, "restore") /\ dest' = [dest EXCEPT ![s].stamp = "valid"] /\ dest[s] # None
      <3>1. PICK d \in Install : d = [dest[s] EXCEPT !.stamp = "valid"]
        BY <1>5, <2>4, DestTypes
      <3>2. dest' = [dest EXCEPT ![s] = d] /\ d # None
        BY <1>5, <2>4, <3>1, ThereIs
      <3> QED BY <1>6, <1>8, <2>1, <2>2, <2>4, <3>2 DEF Went
    <2> QED BY <1>12, <2>1, <2>3, <2>4 DEF WriteStamp
  <1>13. CASE RestoreMode(p)
    <2>1. /\ proc[p].pc = "restore" /\ Snap(p) = s /\ proc[p].pc \in Opened /\ Goto(p, proc[p].next)
          /\ proc[p].next = "commit" => mlock' = mlock
      BY <1>3, <1>13 DEF RestoreMode, At, Snap, Me, Opened
    <2>2. PICK pc \in {"commit", "done"} : pc = proc[p].next
      BY <1>2
    <2>3. pc \in Opened \cup {"commit", "done"} /\ pc \notin Opened
      BY DEF Opened
    <2>4. Alone(p) /\ Went(p, pc)
      BY <1>8, <2>1, <2>2, <2>3
    <2>5. CASE UNCHANGED dest
      BY <1>5, <1>6, <1>7, <2>1, <2>2, <2>3, <2>4, <2>5 DEF Went
    <2>6. CASE proc[p].orig # "moved"
      <3>1. dest[s] # None
        BY <1>1, <1>3, <2>1, <2>6 DEF Here, ProcInv, FoundInv
      <3>2. PICK b \in BOOLEAN : b = (proc[p].orig = "rw")
        BY Zenon
      <3>3. dest' = [dest EXCEPT ![s].writable = b]
        BY <1>13, <2>1, <2>6, <3>2 DEF RestoreMode, Me
      <3>4. PICK d \in Install : d = [dest[s] EXCEPT !.writable = b]
        BY <1>5, <3>1, DestTypes
      <3>5. dest' = [dest EXCEPT ![s] = d] /\ d # None
        BY <1>5, <3>3, <3>4, ThereIs
      <3> QED BY <1>6, <2>1, <2>2, <2>3, <2>4, <3>1, <3>5 DEF Went
    <2> QED BY <1>13, <2>5, <2>6 DEF RestoreMode, Me
  <1> QED BY <1>10, <1>11, <1>12, <1>13


-----------------------------------------------------------------------------
(* The steps the abstract store sees.                                      *)

(* Publication: the rename puts a snapshot where none was, under the lock. *)
LEMMA RenameStep ==
    ASSUME StoreInv, NEW p \in Procs, Rename(p)
    PROVE  Good(p)
  <1>1. Here(p)
    BY HereIs
  <1>2. /\ proc[p].pc = "rename" /\ proc[p].op \in {"download"} \cup Imports /\ mlock = p
        /\ UNCHANGED <<quar, mlock, bound, source, begun, faulted>> /\ dest[proc[p].snap] = None
        /\ proc[p].op = "download" => proc[p].snap \in Hub /\ work[proc[p].snap].holder = p
    BY <1>1 DEF Here, Rename, At, ProcInv, ShapeInv, LockInv, FoundInv, TransferInv, Locks, Owns, Moving, Stamping, Opened, Imports
  <1>3. PICK s \in Snaps : s = proc[p].snap
    BY <1>1, <1>2, Nobody DEF Here, ProcInv, ShapeInv
  <1>4. PICK d \in Install : d = [source |-> SourceOf(Me(p).op), files |-> "good", stamp |-> "valid",
                                  writable |-> TRUE, synced |-> FALSE]
    <2>1. SourceOf(Me(p).op) \in {"hub", "owned", "link"}
      BY DEF SourceOf
    <2> QED BY <2>1 DEF Install
  <1>5. dest \in [Snaps -> Install \cup {None}] /\ work \in [Hub -> Workspace]
    BY <1>1 DEF Here, TypeOK
  <1>6. dest' = [dest EXCEPT ![s] = d] /\ dest'[s] = d /\ d # None /\ \A t \in Snaps \ {s} : dest'[t] = dest[t]
    BY <1>3, <1>4, <1>5, ThereIs DEF Rename, Snap
  <1>7. Alone(p) /\ Went(p, "confirm")
    BY <1>1, GotoMoves DEF Here, Rename, Pcs
  <1>8. /\ work' \in [Hub -> Workspace] /\ stage' \in [Procs -> {"none", "complete", "sealed"}]
        /\ \A t \in Hub : /\ work'[t].holder = work[t].holder
                          /\ work'[t].payload # "none" => work'[t].payload = work[t].payload /\ work'[t].record = work[t].record
                          /\ SameWork(t) \/ (t = s /\ proc[p].op = "download")
    <2>1. CASE proc[p].op = "download"
      <3>1. s \in Hub /\ UNCHANGED stage
        BY <1>2, <1>3, <2>1 DEF Rename, Me
      <3>2. PICK w \in Workspace : w = [work[s] EXCEPT !.payload = "none"]
        BY <1>5, <3>1, WorkTypes DEF Payload
      <3>3. work' = [work EXCEPT ![s] = w]
        BY <1>3, <1>5, <2>1, <3>1, <3>2 DEF Rename, Me, Snap
      <3>4. w.holder = work[s].holder /\ w.payload = "none"
        BY <1>5, <3>1, <3>2 DEF Workspace
      <3> QED BY <1>1, <1>5, <2>1, <3>1, <3>3, <3>4 DEF SameWork, Here, TypeOK
    <2>2. CASE proc[p].op # "download"
      BY <1>1, <2>2 DEF Rename, Me, SameWork, Here, TypeOK
    <2> QED BY <2>1, <2>2
  <1>9. LockFrame(p)
    BY <1>1, <1>2, LockMoves DEF Here
  <1>10. TypeOK'
    BY <1>1, <1>2, <1>5, <1>6, <1>7, <1>8, <1>9 DEF Here, TypeOK, Alone, LockFrame
  <1>11. Frame(p)
    <2>1. ASSUME NEW q \in Procs, proc[q].pc \in Opened PROVE Snap(q) \in Snaps
      BY <2>1 DEF StoreInv, ProcInv, ShapeInv, Opened, Stamping, Snap, Imports
    <2>2. \A q \in Procs \ {p} : Like(q)
      BY <1>7 DEF Alone, Like
    <2>3. \A t \in Hub : work[t].holder \in {p, NoOne} \/ SameWork(t)
      BY <1>2, <1>3, <1>8
    <2> QED BY <1>2, <1>6, <1>9, <2>1, <2>2, <2>3 DEF Frame
  <1>12. ~Referenced(s)
    BY <1>2, <1>3, Nobody DEF StoreInv, BoundInv, Referenced
  <1>13. ProcInv(p)'
    <2>1. ShapeInv(p)' /\ LockInv(p)'
      BY <1>1, <1>2, <1>7 DEF Here, Went, ProcInv, ShapeInv, LockInv, FoundInv, TransferInv, Locks, Owns, Moving, Stamping, Opened, Imports
    <2>2. FoundInv(p)'
      BY <1>2, <1>3, <1>7, <1>12 DEF Went, Referenced, ProcInv, ShapeInv, LockInv, FoundInv, TransferInv, Locks, Owns, Moving, Stamping, Opened, Imports
    <2>3. TransferInv(p)'
      BY <1>2, <1>7, <1>8 DEF Went, ProcInv, ShapeInv, LockInv, FoundInv, TransferInv, Locks, Owns, Moving, Stamping, Opened, Imports
    <2> QED BY <2>1, <2>2, <2>3 DEF ProcInv
  <1>14. BoundInv' /\ PayloadIsClaimed'
    <2>1. BoundInv'
      BY <1>1, <1>2, <1>6 DEF StoreInv, BoundInv, Here, TypeOK
    <2>2. PayloadIsClaimed'
      BY <1>8 DEF StoreInv, PayloadIsClaimed
    <2> QED BY <2>1, <2>2
  <1>15. CompleteStays
    BY <1>2, <1>3, <1>8 DEF CompleteStays, SameWork, Snap, At
  <1>16. Promise!Install(s)
    BY <1>2, <1>3, <1>6 DEF Promise!Install
  <1> QED BY <1>10, <1>11, <1>13, <1>14, <1>15, <1>16 DEF Good, PromiseStep, Promise!Next

(* The transaction of bind_session_model, under the lock that validated.   *)
LEMMA CommitBindingStep ==
    ASSUME StoreInv, NEW p \in Procs, CommitBinding(p)
    PROVE  Good(p)
  <1>1. Here(p)
    BY HereIs
  <1>2. /\ proc[p].pc = "commit" /\ proc[p].op = "bind" /\ mlock = p /\ mlock' = Unlocked(p)
        /\ UNCHANGED <<dest, work, stage, quar, source, begun, faulted>> /\ dest[proc[p].snap] # None
        /\ proc[p].snap \in Snaps /\ proc[p].session \in Sessions
    BY <1>1 DEF Here, CommitBinding, At, Me, ProcInv, ShapeInv, LockInv, FoundInv, TransferInv, Locks, Owns, Moving, Stamping, Opened, Imports
  <1>3. PICK s \in Snaps, x \in Sessions : s = proc[p].snap /\ x = proc[p].session
    BY <1>2
  <1>4. Alone(p) /\ Went(p, "done")
    BY <1>1, GotoMoves DEF Here, CommitBinding, Pcs
  <1>5. ProcInv(p)'
    BY <1>1, <1>2, <1>4 DEF Here, Went, ProcInv, ShapeInv, LockInv, FoundInv, TransferInv, Locks, Owns, Moving, Stamping, Opened, Imports
  <1>6. LockFrame(p)
    BY <1>1, <1>2, LockMoves DEF Here
  <1>7. bound' = IF bound[x] = NoOne THEN [bound EXCEPT ![x] = s] ELSE bound
    BY <1>3 DEF CommitBinding, Me, Snap
  <1>8. bound \in [Sessions -> Snaps \cup {NoOne}] /\ bound' \in [Sessions -> Snaps \cup {NoOne}]
    BY <1>1, <1>7 DEF Here, TypeOK
  <1>9. TypeOK'
    BY <1>1, <1>2, <1>4, <1>6, <1>8 DEF Here, TypeOK, Alone, LockFrame
  <1>10. Frame(p)
    BY <1>2, <1>4, <1>6 DEF Alone, Frame, Like, SameWork, Snap
  <1>11. BoundInv' /\ PayloadIsClaimed' /\ CompleteStays
    <2>1. BoundInv'
      BY <1>2, <1>3, <1>7, <1>8 DEF StoreInv, BoundInv
    <2> QED BY <1>2, <2>1 DEF StoreInv, PayloadIsClaimed, CompleteStays
  <1>12. PromiseStep
    <2>1. CASE bound[x] = NoOne
      <3>1. Promise!Bind(x, s)
        BY <1>2, <1>3, <1>7, <2>1 DEF Promise!Bind
      <3> QED BY <3>1 DEF PromiseStep, Promise!Next
    <2>2. CASE bound[x] # NoOne
      BY <1>2, <1>7, <2>2 DEF PromiseStep, Promise!vars
    <2> QED BY <2>1, <2>2
  <1> QED BY <1>5, <1>9, <1>10, <1>11, <1>12 DEF Good

(* Removal and replacement: the rename into the quarantine, of a destination *)
(* under the lock, of a payload or a staging directory without it.         *)
LEMMA MoveEntryStep ==
    ASSUME StoreInv, NEW p \in Procs, MoveEntry(p)
    PROVE  Good(p)
  <1>1. Here(p)
    BY HereIs
  <1>2. PICK e : e = Me(p).entry
    OBVIOUS
  <1>3. proc[p].pc = "move" /\ UNCHANGED <<bound, source, begun, faulted>>
    BY DEF MoveEntry, At
  <1>4. PICK pc \in Pcs :
          /\ pc = IF e \in DOMAIN quar THEN Me(p).next ELSE IF Me(p).from = "payload" THEN "release" ELSE "done"
          /\ pc = proc[p].next \/ pc \in {"release", "done"}
          /\ pc = "release" => proc[p].from = "payload"
          /\ pc = "clear" => e \in DOMAIN quar
    BY <1>1, <1>3 DEF Here, ProcInv, ShapeInv, Moving, Pcs, Me
  <1>5. PICK r \in Process : r = [proc[p] EXCEPT !.pc = pc, !.entry = NoOne]
    BY <1>1, TwoFields DEF Here
  <1>6. /\ r.pc = pc /\ r.next = proc[p].next /\ r.op = proc[p].op /\ r.snap = proc[p].snap
        /\ r.session = proc[p].session /\ r.orig = proc[p].orig /\ r.from = proc[p].from
    BY <1>1, <1>5 DEF Here, Process
  <1>7. proc' = [q \in Procs |->
                  IF q = p THEN r
                  ELSE IF Me(p).from = "dest" /\ Snap(q) = Snap(p) /\ proc[q].pc \in {"unlink", "write", "restore"}
                  THEN [proc[q] EXCEPT !.orig = "moved"] ELSE proc[q]]
    BY <1>2, <1>4, <1>5 DEF MoveEntry
  <1>8. /\ proc' \in [Procs -> Process] /\ proc'[p] = r
        /\ \A q \in Procs \ {p} :
             /\ Like(q)
             /\ proc[q].pc \in Opened /\ proc'[q].orig # "moved" => ~(proc[p].from = "dest" /\ Snap(q) = Snap(p))
    <2>1. \A t \in Process :
            /\ [t EXCEPT !.orig = "moved"] \in Process /\ [t EXCEPT !.orig = "moved"].orig = "moved"
            /\ [t EXCEPT !.orig = "moved"].op = t.op /\ [t EXCEPT !.orig = "moved"].pc = t.pc
            /\ [t EXCEPT !.orig = "moved"].snap = t.snap /\ [t EXCEPT !.orig = "moved"].from = t.from
            /\ [t EXCEPT !.orig = "moved"].next = t.next /\ [t EXCEPT !.orig = "moved"].session = t.session
      BY DEF Process
    <2>2. ASSUME NEW q \in Procs \ {p}
          PROVE  /\ proc'[q] \in Process /\ Like(q)
                 /\ proc[q].pc \in Opened /\ proc'[q].orig # "moved" => ~(proc[p].from = "dest" /\ Snap(q) = Snap(p))
      <3>1. proc[q] \in Process
        BY <1>1 DEF Here
      <3>2. CASE Me(p).from = "dest" /\ Snap(q) = Snap(p) /\ proc[q].pc \in {"unlink", "write", "restore"}
        <4>1. proc'[q] = [proc[q] EXCEPT !.orig = "moved"]
          BY <1>7, <3>2
        <4> QED BY <2>1, <3>1, <4>1 DEF Like
      <3>3. CASE ~(Me(p).from = "dest" /\ Snap(q) = Snap(p) /\ proc[q].pc \in {"unlink", "write", "restore"})
        <4>1. proc'[q] = proc[q]
          BY <1>7, <3>3
        <4> QED BY <3>1, <3>3, <4>1 DEF Like, Opened, Me
      <3> QED BY <3>2, <3>3
    <2>3. proc'[p] = r
      BY <1>7
    <2> QED BY <1>7, <2>2, <2>3
  <1>9. LockFrame(p)
    BY <1>1, LockMoves DEF Here, MoveEntry
  <1>10. DOMAIN quar' \subseteq Entries /\ \A f \in DOMAIN quar' : quar'[f] \in QuarantineEntry
    BY <1>1, <1>2, QuarantineTypes DEF MoveEntry, Here, TypeOK
  <1>11. stage' \in [Procs -> {"none", "complete", "sealed"}]
    BY <1>1 DEF MoveEntry, Here, TypeOK
  <1>12. dest \in [Snaps -> Install \cup {None}] /\ work \in [Hub -> Workspace]
    BY <1>1 DEF Here, TypeOK
  <1>13. CASE proc[p].from = "dest"
    <2>1. /\ mlock = p /\ ~Referenced(Snap(p)) /\ proc[p].op \in {"download", "remove"} \cup Imports
          /\ proc[p].op = "download" => work[proc[p].snap].holder = p
      BY <1>1, <1>3, <1>13 DEF Here, Snap, ProcInv, ShapeInv, LockInv, FoundInv, TransferInv, Locks, Owns, Moving, Stamping, Opened, Imports
    <2>2. PICK s \in Snaps : s = proc[p].snap
      BY <1>1, <2>1, Nobody DEF Here, ProcInv, ShapeInv
    <2>3. dest' = [dest EXCEPT ![s] = None] /\ UNCHANGED work
      BY <1>13, <2>2 DEF MoveEntry, Me, Snap
    <2>4. dest'[s] = None /\ \A t \in Snaps \ {s} : dest'[t] = dest[t]
      BY <1>12, <2>3
    <2>5. dest' \in [Snaps -> Install \cup {None}]
      BY <1>12, <2>3
    <2>6. TypeOK'
      BY <1>1, <1>3, <1>8, <1>9, <1>10, <1>11, <2>3, <2>5 DEF Here, TypeOK, LockFrame
    <2>7. Frame(p)
      <3>1. ASSUME NEW q \in Procs, proc[q].pc \in Opened PROVE Snap(q) \in Snaps
        BY <3>1 DEF StoreInv, ProcInv, ShapeInv, Opened, Stamping, Snap, Imports
      <3> QED BY <1>3, <1>8, <1>9, <1>13, <2>1, <2>2, <2>3, <2>4, <3>1 DEF Frame, SameWork, Snap
    <2>8. ProcInv(p)'
      <3>1. pc = "rename" => mlock' = p
        BY <1>1, <1>3, <1>4, <2>1 DEF MoveEntry, Me, Here, ProcInv, ShapeInv, Moving
      <3>2. ShapeInv(p)' /\ LockInv(p)'
        BY <1>1, <1>3, <1>4, <1>6, <1>8, <1>13, <2>1, <3>1 DEF Here, ProcInv, ShapeInv, LockInv, FoundInv, TransferInv, Locks, Owns, Moving, Stamping, Opened, Imports
      <3>3. FoundInv(p)'
        BY <1>1, <1>3, <1>4, <1>6, <1>8, <1>13, <2>1, <2>2, <2>4 DEF Here, ProcInv, ShapeInv, LockInv, FoundInv, TransferInv, Locks, Owns, Moving, Stamping, Opened, Imports
      <3>4. TransferInv(p)'
        BY <1>1, <1>3, <1>4, <1>6, <1>8, <1>13, <2>1, <2>3 DEF Here, ProcInv, ShapeInv, LockInv, FoundInv, TransferInv, Locks, Owns, Moving, Stamping, Opened, Imports
      <3> QED BY <3>2, <3>3, <3>4 DEF ProcInv
    <2>9. BoundInv' /\ PayloadIsClaimed' /\ CompleteStays
      <3>1. \A x \in Sessions : bound[x] # s /\ bound[x] \in Snaps \cup {NoOne}
        BY <1>1, <2>1, <2>2 DEF Referenced, Snap, Here, TypeOK
      <3> QED BY <1>3, <2>3, <2>4, <3>1 DEF StoreInv, BoundInv, PayloadIsClaimed, CompleteStays
    <2>10. PromiseStep
      <3>1. \A x \in Sessions : bound[x] # s
        BY <2>1, <2>2 DEF Referenced, Snap
      <3>2. CASE dest[s] = None
        <4>1. UNCHANGED Promise!vars
          BY <1>3, <2>4, <3>2 DEF Promise!vars
        <4> QED BY <4>1 DEF PromiseStep
      <3>3. CASE dest[s] # None
        <4>1. Promise!Withdraw(s)
          BY <1>3, <2>4, <3>1, <3>3 DEF Promise!Withdraw
        <4> QED BY <4>1 DEF PromiseStep, Promise!Next
      <3> QED BY <3>2, <3>3
    <2> QED BY <2>6, <2>7, <2>8, <2>9, <2>10 DEF Good
  <1>14. CASE proc[p].from # "dest"
    <2>1. UNCHANGED dest
      BY <1>14 DEF MoveEntry, Me
    <2>2. /\ pc \in {"clear", "release", "done"}
          /\ pc \in {"clear", "release"} => proc[p].from = "payload" /\ proc[p].op = "download"
          /\ proc[p].from = "payload" => proc[p].op = "download"
          /\ proc[p].op = "download" => proc[p].snap \in Hub /\ work[proc[p].snap].holder = p
      BY <1>1, <1>3, <1>4, <1>14 DEF Here, ProcInv, ShapeInv, LockInv, FoundInv, TransferInv, Locks, Owns, Moving, Stamping, Opened, Imports
    <2>3. /\ work' \in [Hub -> Workspace]
          /\ \A t \in Hub : /\ work'[t].holder = work[t].holder
                            /\ work'[t].payload # "none" => work'[t].payload = work[t].payload /\ work'[t].record = work[t].record
                            /\ SameWork(t) \/ (t = proc[p].snap /\ proc[p].from = "payload" /\ work'[t].payload = "none")
          /\ pc = "clear" => work'[proc[p].snap].payload = "none"
      <3>1. CASE proc[p].from = "payload" /\ e \in DOMAIN quar
        <4>1. PICK s \in Hub : s = proc[p].snap
          BY <2>2, <3>1
        <4>2. PICK w \in Workspace : w = [work[s] EXCEPT !.payload = "none"]
          BY <1>12, WorkTypes DEF Payload
        <4>3. work' = [work EXCEPT ![s] = w]
          BY <1>2, <1>12, <3>1, <4>1, <4>2 DEF MoveEntry, Me, Snap
        <4>4. w.holder = work[s].holder /\ w.payload = "none"
          BY <1>12, <4>1, <4>2 DEF Workspace
        <4> QED BY <1>12, <3>1, <4>1, <4>3, <4>4 DEF SameWork
      <3>2. CASE ~(proc[p].from = "payload" /\ e \in DOMAIN quar)
        <4>1. UNCHANGED work /\ pc # "clear"
          BY <1>2, <1>4, <2>2, <3>2 DEF MoveEntry, Me
        <4> QED BY <1>12, <4>1 DEF SameWork
      <3> QED BY <3>1, <3>2
    <2>4. TypeOK'
      BY <1>1, <1>3, <1>8, <1>9, <1>10, <1>11, <2>1, <2>3 DEF Here, TypeOK, LockFrame
    <2>5. Frame(p)
      <3>1. \A t \in Hub : work[t].holder \in {p, NoOne} \/ SameWork(t)
        BY <2>2, <2>3
      <3> QED BY <1>3, <1>8, <1>9, <2>1, <3>1 DEF Frame
    <2>6. ProcInv(p)'
      <3>1. ShapeInv(p)' /\ LockInv(p)' /\ FoundInv(p)'
        BY <1>1, <1>6, <1>8, <2>2 DEF Here, ProcInv, ShapeInv, LockInv, FoundInv, TransferInv, Locks, Owns, Moving, Stamping, Opened, Imports
      <3>2. TransferInv(p)'
        BY <1>6, <1>8, <2>2, <2>3 DEF ProcInv, ShapeInv, LockInv, FoundInv, TransferInv, Locks, Owns, Moving, Stamping, Opened, Imports
      <3> QED BY <3>1, <3>2 DEF ProcInv
    <2>7. BoundInv' /\ PayloadIsClaimed' /\ CompleteStays
      <3>1. BoundInv' /\ PayloadIsClaimed'
        BY <1>3, <2>1, <2>3 DEF StoreInv, BoundInv, PayloadIsClaimed
      <3>2. CompleteStays
        BY <1>3, <2>3 DEF CompleteStays, SameWork, Snap, At, Me
      <3> QED BY <3>1, <3>2
    <2>8. PromiseStep
      BY <1>3, <2>1 DEF PromiseStep, Promise!vars
    <2> QED BY <2>4, <2>5, <2>6, <2>7, <2>8 DEF Good
  <1> QED BY <1>13, <1>14


-----------------------------------------------------------------------------
(* What happens around the processes: a session is deleted, time passes,   *)
(* metadata moves on or contents rot, a source is edited.                  *)
Around == (\E x \in Sessions : DeleteSession(x)) \/ (\E e \in Entries : Age(e)) \/ (\E s \in Snaps : Disturb(s)) \/ Edit

(* None of it touches a process, a lock, a workspace or whether a snapshot is there. *)
LEMMA AroundStep ==
    ASSUME StoreInv, Around
    PROVE  Frame(NoOne) /\ TypeOK' /\ BoundInv' /\ PayloadIsClaimed' /\ CompleteStays /\ PromiseStep
  <1>1. TypeOK
    BY DEF StoreInv
  <1>2. UNCHANGED <<work, stage, mlock, proc>>
    BY DEF Around, DeleteSession, Age, Disturb, Edit
  <1>3. ASSUME UNCHANGED bound, dest' \in [Snaps -> Install \cup {None}],
               \A t \in Snaps : dest'[t] = None <=> dest[t] = None
        PROVE  Frame(NoOne) /\ BoundInv' /\ PayloadIsClaimed' /\ CompleteStays /\ PromiseStep
    <2>1. Frame(NoOne)
      <3>1. ASSUME NEW q \in Procs, proc[q].pc \in Opened PROVE Snap(q) \in Snaps
        BY <3>1 DEF StoreInv, ProcInv, ShapeInv, Opened, Stamping, Snap, Imports
      <3> QED BY <1>1, <1>2, <1>3, <3>1 DEF Frame, LockFrame, Like, SameWork, TypeOK
    <2>2. BoundInv' /\ PayloadIsClaimed' /\ CompleteStays
      BY <1>1, <1>2, <1>3 DEF StoreInv, TypeOK, BoundInv, PayloadIsClaimed, CompleteStays
    <2>3. PromiseStep
      BY <1>3 DEF PromiseStep, Promise!vars
    <2> QED BY <2>1, <2>2, <2>3
  <1>4. CASE \E x \in Sessions : DeleteSession(x)
    <2>1. PICK x \in Sessions : DeleteSession(x)
      BY <1>4
    <2>2. bound' = [bound EXCEPT ![x] = NoOne] /\ UNCHANGED <<dest, quar, source, faulted>>
      BY <2>1 DEF DeleteSession
    <2>3. begun' \in 0..MaxOps
      BY <1>1, <2>1, ModelStoreAssumption DEF DeleteSession, TypeOK
    <2>4. TypeOK'
      BY <1>1, <1>2, <2>2, <2>3 DEF TypeOK
    <2>5. Frame(NoOne)
      BY <1>1, <1>2, <2>2 DEF Frame, LockFrame, Like, SameWork, TypeOK
    <2>6. BoundInv' /\ PayloadIsClaimed' /\ CompleteStays
      BY <1>1, <1>2, <2>2 DEF StoreInv, TypeOK, BoundInv, PayloadIsClaimed, CompleteStays
    <2>7. Promise!Release(x)
      BY <2>2 DEF Promise!Release
    <2> QED BY <2>4, <2>5, <2>6, <2>7 DEF PromiseStep, Promise!Next
  <1>5. CASE \E e \in Entries : Age(e)
    <2>1. PICK e \in Entries : Age(e)
      BY <1>5
    <2>2. TypeOK'
      BY <1>1, <1>2, <2>1, QuarantineTypes DEF Age, TypeOK
    <2> QED BY <1>1, <1>3, <2>1, <2>2 DEF Age, TypeOK
  <1>6. CASE \E s \in Snaps : Disturb(s)
    <2>1. PICK s \in Snaps : Disturb(s)
      BY <1>6
    <2>2. PICK o \in Install : o = dest[s]
      BY <1>1, <2>1 DEF Disturb, TypeOK
    <2>3. PICK v \in {"valid", "drift", "none"} : v = IF o.stamp = "valid" THEN "drift" ELSE o.stamp
      BY DEF Install
    <2>4. \/ dest' = [dest EXCEPT ![s] = [o EXCEPT !.stamp = "drift"]]
          \/ dest' = [dest EXCEPT ![s] = [o EXCEPT !.files = "bad", !.stamp = v]]
      BY <1>1, <2>1, <2>2, <2>3 DEF Disturb, TypeOK
    <2>5. PICK d \in Install : dest' = [dest EXCEPT ![s] = d]
      BY <2>4, DestTypes
    <2>6. dest' \in [Snaps -> Install \cup {None}] /\ \A t \in Snaps : dest'[t] = None <=> dest[t] = None
      BY <1>1, <2>2, <2>5, ThereIs DEF TypeOK
    <2>7. faulted' \in 0..MaxFaults /\ UNCHANGED <<quar, bound, source, begun>>
      BY <1>1, <2>1, ModelStoreAssumption DEF Disturb, Fault, TypeOK
    <2>8. TypeOK'
      BY <1>1, <1>2, <2>6, <2>7 DEF TypeOK
    <2> QED BY <1>3, <2>6, <2>7, <2>8
  <1>7. CASE Edit
    <2>1. faulted' \in 0..MaxFaults /\ source' \in {"here", "changed", "gone"} /\ UNCHANGED <<dest, quar, bound, begun>>
      BY <1>1, <1>7, ModelStoreAssumption DEF Edit, Fault, TypeOK
    <2>2. TypeOK'
      BY <1>1, <1>2, <2>1 DEF TypeOK
    <2> QED BY <1>1, <1>3, <2>1, <2>2 DEF TypeOK
  <1> QED BY <1>4, <1>5, <1>6, <1>7 DEF Around

(* Every step of a process, and its death at any of them. *)
LEMMA ProcessStep ==
    ASSUME StoreInv, NEW p \in Procs,
           \/ Step(p) \/ Pause(p) \/ Crash(p)
           \/ BeginDownload(p) \/ BeginImport(p) \/ BeginOnInstalled(p) \/ BeginGc(p)
    PROVE  Good(p)
  BY EndStep, CertifyStep, FailStep, PauseStep, PublishLockStep, RetireStep, SetAsideStep, ReuseStep,
     ValidateStep, MakeEntryStep, RecordEntryStep, GcStep, BeginStep, AcquireStep, NormalizePayloadStep,
     ClearTransferStep, ReleaseTransferStep, FetchStep, PrepareTransferStep, SealStep, CrashStep,
     ConfirmStep, StampStep, RenameStep, CommitBindingStep, MoveEntryStep DEF Step

(* An empty store. *)
LEMMA StoreInit == Init => StoreInv /\ Promise!Init
  <1> SUFFICES ASSUME Init PROVE StoreInv /\ Promise!Init
    OBVIOUS
  <1>1. TypeOK
    <2>1. \A s \in Hub : work[s] \in Workspace
      BY DEF Init, Workspace, Payload
    <2>2. DOMAIN quar = {}
      BY DEF Init
    <2>3. dest \in [Snaps -> Install \cup {None}] /\ work \in [Hub -> Workspace]
      BY <2>1 DEF Init
    <2>4. stage \in [Procs -> {"none", "complete", "sealed"}] /\ proc \in [Procs -> Process]
      BY IdleIs DEF Init
    <2>5. bound \in [Sessions -> Snaps \cup {NoOne}] /\ source \in {"here", "changed", "gone"} /\ mlock \in Procs \cup {NoOne}
      BY DEF Init
    <2>6. begun \in 0..MaxOps /\ faulted \in 0..MaxFaults
      BY ModelStoreAssumption DEF Init
    <2> QED BY <2>2, <2>3, <2>4, <2>5, <2>6 DEF TypeOK
  <1>2. ASSUME NEW p \in Procs PROVE ProcInv(p)
    <2>1. proc[p] = Idle
      BY DEF Init
    <2> QED BY <2>1 DEF Idle, ProcInv, ShapeInv, LockInv, FoundInv, TransferInv, Locks, Owns, Moving, Stamping, Opened, Imports
  <1>3. BoundInv /\ PayloadIsClaimed
    BY DEF Init, BoundInv, PayloadIsClaimed
  <1>4. Promise!Init
    BY DEF Init, Promise!Init
  <1> QED BY <1>1, <1>2, <1>3, <1>4 DEF StoreInv

(* StoreInv is inductive while the power stays on, and every step keeps    *)
(* the promise.                                                            *)
LEMMA StoreStep ==
    ASSUME "power" \notin Faults, StoreInv, [Next]_vars
    PROVE  StoreInv' /\ CompleteStays /\ PromiseStep
  <1>1. ASSUME NEW p \in Procs, Good(p) PROVE StoreInv' /\ CompleteStays /\ PromiseStep
    BY <1>1, OthersKeep DEF Good, StoreInv
  <1>2. CASE Around
    <2>1. \A q \in Procs : q # NoOne
      BY Nobody
    <2> QED BY <1>2, <2>1, AroundStep, OthersKeep DEF StoreInv
  <1>3. CASE UNCHANGED vars
    <2>1. StoreInv'
      BY <1>3 DEF vars, StoreInv, TypeOK, BoundInv, PayloadIsClaimed, Referenced, ProcInv, ShapeInv, LockInv, FoundInv, TransferInv, Locks, Owns, Moving, Stamping, Opened, Imports
    <2>2. CompleteStays /\ PromiseStep
      BY <1>3 DEF vars, CompleteStays, PromiseStep, Promise!vars
    <2> QED BY <2>1, <2>2
  <1>4. ~PowerLoss
    BY DEF PowerLoss, Fault
  <1> QED BY <1>1, <1>2, <1>3, <1>4, ProcessStep DEF Next, Around

(* While the power stays on, the snapshots of models/mod.rs refine the     *)
(* abstract store: whatever downloads, imports, loads, removals,           *)
(* collections, crashes, drift and rot interleave, a session binds only a  *)
(* snapshot that is there and no snapshot that a session binds goes away   *)
(* (bind_session_model, remove, reuse_existing_locked, publication).       *)
THEOREM StoreRefinesPromise == ASSUME "power" \notin Faults PROVE Spec => KeepsPromise
  <1>1. Init => StoreInv /\ Promise!Init
    BY StoreInit
  <1>2. StoreInv /\ [Next]_vars => StoreInv'
    BY StoreStep
  <1>3. StoreInv /\ [Next]_vars => [Promise!Next]_Promise!vars
    BY StoreStep DEF PromiseStep
  <1> QED BY <1>1, <1>2, <1>3, PTL DEF Spec, KeepsPromise, Promise!Spec

(* While the power stays on, a Hub transfer that any crash or pause        *)
(* interrupted is left as the next process resumes it: its payload under a *)
(* whole record, and the bytes that were complete still there              *)
(* (prepare_hub_transfer, retain_hub_transfer_after, finish_hub_transfer). *)
THEOREM TransfersSurvive == ASSUME "power" \notin Faults PROVE Spec => TransfersAreKept
  <1>1. Init => StoreInv
    BY StoreInit
  <1>2. StoreInv /\ [Next]_vars => StoreInv'
    BY StoreStep
  <1>3. StoreInv /\ [Next]_vars => CompleteStays
    BY StoreStep
  <1>4. StoreInv => TypeOK /\ PayloadIsClaimed
    BY DEF StoreInv
  <1> QED BY <1>1, <1>2, <1>3, <1>4, PTL DEF Spec, TransfersAreKept, CompleteIsKept, CompleteStays

-----------------------------------------------------------------------------
(* A snapshot is taken away by a move into quarantine and by nothing else. *)
LEMMA GoesByMove ==
    ASSUME StoreInv, NEW p \in Procs, NEW s \in Snaps, dest[s] # None, dest'[s] = None,
           \/ Step(p) \/ Pause(p) \/ Crash(p)
           \/ BeginDownload(p) \/ BeginImport(p) \/ BeginOnInstalled(p) \/ BeginGc(p)
    PROVE  Snap(p) = s /\ At(p, "move")
  <1>1. Here(p) /\ dest \in [Snaps -> Install \cup {None}]
    BY HereIs DEF StoreInv, TypeOK
  <1>2. PICK o \in Install : o = dest[s]
    BY <1>1
  <1>3. dest' # dest
    OBVIOUS
  <1>4. ASSUME NEW d \in Install, NEW t, dest' = [dest EXCEPT ![t] = d] PROVE FALSE
    BY <1>1, <1>4, ThereIs
  <1>5. CASE MoveEntry(p)
    BY <1>1, <1>3, <1>5 DEF MoveEntry, Snap, At
  <1>6. CASE Rename(p)
    <2>1. dest' = [dest EXCEPT ![Snap(p)] = [source |-> SourceOf(Me(p).op), files |-> "good",
                     stamp |-> "valid", writable |-> TRUE, synced |-> FALSE]]
      BY <1>6 DEF Rename
    <2>2. SourceOf(Me(p).op) # "none"
      BY DEF SourceOf
    <2>3. PICK d : /\ d = [source |-> SourceOf(Me(p).op), files |-> "good", stamp |-> "valid",
                           writable |-> TRUE, synced |-> FALSE]
                   /\ dest' = [dest EXCEPT ![Snap(p)] = d]
      BY <2>1
    <2>4. d # None
      BY <2>2, <2>3 DEF None
    <2> QED BY <1>1, <2>3, <2>4
  <1>7. CASE Confirm(p)
    <2>1. Healthy(Snap(p)) /\ dest' = [dest EXCEPT ![Snap(p)].synced = TRUE, ![Snap(p)].writable = FALSE]
      BY <1>3, <1>7 DEF Confirm
    <2>2. s = Snap(p)
      BY <1>1, <2>1
    <2>3. dest'[s] = [o EXCEPT !.synced = TRUE, !.writable = FALSE]
      BY <1>1, <1>2, <2>1, <2>2
    <2> QED BY <2>3, DestTypes, ThereIs
  <1>8. CASE PrepareMode(p) \/ RemoveStamp(p) \/ WriteStamp(p) \/ RestoreMode(p)
    <2>1. \/ dest' = [dest EXCEPT ![Snap(p)].writable = TRUE]
          \/ dest' = [dest EXCEPT ![Snap(p)].writable = Me(p).orig = "rw"]
          \/ \E v \in {"none", "valid"} : dest' = [dest EXCEPT ![Snap(p)].stamp = v]
      BY <1>3, <1>8 DEF PrepareMode, RemoveStamp, WriteStamp, RestoreMode
    <2>2. s = Snap(p)
      BY <1>1, <2>1
    <2>3. \/ \E b \in BOOLEAN : dest'[s] = [o EXCEPT !.writable = b]
          \/ \E v \in {"none", "valid"} : dest'[s] = [o EXCEPT !.stamp = v]
      BY <1>1, <1>2, <2>1, <2>2
    <2> QED BY <2>3, DestTypes, ThereIs
  <1>9. ~BeginOnInstalled(p) /\ ~BeginImport(p) /\ ~BeginDownload(p) /\ ~BeginGc(p) /\ ~Pause(p) /\ ~Crash(p)
    BY <1>3 DEF BeginOnInstalled, BeginImport, BeginDownload, BeginGc, Pause, Crash, Unchanged
  <1>10. Step(p) => MoveEntry(p) \/ Rename(p) \/ Confirm(p) \/ PrepareMode(p) \/ RemoveStamp(p) \/ WriteStamp(p) \/ RestoreMode(p)
    BY <1>3 DEF Step, End, MakeEntry, RecordEntry, CheckExisting, RecheckExisting, Acquire, PrepareTransfer,
       NormalizePayload, Fetch, Certify, Fail, FinishTransfer, ClearTransfer, ReleaseTransfer, PublishLock, Seal,
       Retire, Sweep, Validate, CommitBinding, Remove, GcEntry, GcLock, GcRemove
  <1> QED BY <1>5, <1>6, <1>7, <1>8, <1>9, <1>10

(* While the power stays on, a move import never costs its owner the last  *)
(* copy: whatever crashes, drifts, rots or is imported twice, once the     *)
(* source is retired the snapshot goes only into quarantine, and a source  *)
(* that was edited meanwhile stays (import_with_options,                   *)
(* retire_source_files, move_to_quarantine).                               *)
THEOREM MovesKeepACopy == ASSUME "power" \notin Faults PROVE Spec => SourcesAreKept
  <1>1. Init => StoreInv
    BY StoreInit
  <1>2. StoreInv /\ [Next]_vars => StoreInv'
    BY StoreStep
  <1>3. ASSUME StoreInv, [Next]_vars, NEW s \in Local, dest[s] # None, dest'[s] = None
        PROVE  \E p \in Procs : Snap(p) = s /\ At(p, "move")
    <2>1. s \in Snaps /\ ~PowerLoss /\ dest' # dest
      BY <1>3 DEF Snaps, PowerLoss, Fault
    <2>2. ~Around
      <3>1. ASSUME NEW t \in Snaps, Disturb(t) PROVE FALSE
        <4>1. dest \in [Snaps -> Install \cup {None}]
          BY <1>3 DEF StoreInv, TypeOK
        <4>2. PICK o \in Install : o = dest[t]
          BY <3>1, <4>1 DEF Disturb
        <4>3. PICK v \in {"valid", "drift", "none"} : v = IF o.stamp = "valid" THEN "drift" ELSE o.stamp
          BY DEF Install
        <4>4. \/ dest' = [dest EXCEPT ![t] = [o EXCEPT !.stamp = "drift"]]
              \/ dest' = [dest EXCEPT ![t] = [o EXCEPT !.files = "bad", !.stamp = v]]
          BY <3>1, <4>1, <4>2, <4>3 DEF Disturb
        <4>5. PICK d \in Install : dest' = [dest EXCEPT ![t] = d]
          BY <4>4, DestTypes
        <4> QED BY <1>3, <2>1, <4>1, <4>5, ThereIs
      <3> QED BY <2>1, <3>1 DEF Around, DeleteSession, Age, Edit
    <2>3. PICK p \in Procs : \/ Step(p) \/ Pause(p) \/ Crash(p)
                             \/ BeginDownload(p) \/ BeginImport(p) \/ BeginOnInstalled(p) \/ BeginGc(p)
      BY <1>3, <2>1, <2>2 DEF Next, Around, vars
    <2> QED BY <1>3, <2>1, <2>3, GoesByMove
  <1>4. ASSUME [Next]_vars, source = "changed" PROVE source' = "changed"
    <2>1. ASSUME NEW p \in Procs, Step(p) PROVE source' = "changed"
      BY <1>4, <2>1 DEF Step, End, MakeEntry, RecordEntry, MoveEntry, CheckExisting, RecheckExisting, Acquire,
         PrepareTransfer, NormalizePayload, Fetch, Certify, Fail, FinishTransfer, ClearTransfer, ReleaseTransfer,
         PublishLock, Seal, Rename, Confirm, Retire, Sweep, Validate, PrepareMode, RemoveStamp, WriteStamp,
         RestoreMode, CommitBinding, Remove, GcEntry, GcLock, GcRemove
    <2>2. ASSUME NEW p \in Procs, Pause(p) \/ Crash(p) \/ BeginDownload(p) \/ BeginImport(p) \/ BeginOnInstalled(p) \/ BeginGc(p)
          PROVE  source' = "changed"
      BY <1>4, <2>2 DEF Pause, Crash, BeginDownload, BeginImport, BeginOnInstalled, BeginGc, Unchanged
    <2>3. ASSUME \/ \E x \in Sessions : DeleteSession(x)
                 \/ \E e \in Entries : Age(e)
                 \/ \E s \in Snaps : Disturb(s)
                 \/ Edit \/ PowerLoss \/ UNCHANGED vars
          PROVE  source' = "changed"
      BY <1>4, <2>3 DEF DeleteSession, Age, Disturb, Edit, PowerLoss, vars
    <2> QED BY <1>4, <2>1, <2>2, <2>3 DEF Next
  <1>5. StoreInv /\ [Next]_vars =>
          /\ \A s \in Local : source = "gone" /\ dest[s] # None /\ dest'[s] = None =>
               \/ \E p \in Procs : Snap(p) = s /\ At(p, "move")
               \/ \E e \in DOMAIN quar : quar[e].snap = s
          /\ source = "changed" => source' = "changed"
    BY <1>3, <1>4
  <1> QED BY <1>1, <1>2, <1>5, PTL DEF Spec, SourcesAreKept, MovedIsNotLost, ChangedSourceIsKept
=============================================================================
