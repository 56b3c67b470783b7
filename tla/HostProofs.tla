------------------------------ MODULE HostProofs ------------------------------
(* Theorems about what the program does to the host: about HubDownload for *)
(* every plan, size, number of slots and bound on retries and faults, and  *)
(* about Workspace for every number of mutations, of other changes of the  *)
(* file, of processes of a shell and of faults.                            *)
EXTENDS MCHost, FiniteSetTheorems, WellFoundedInduction, TLAPS

(* The type invariant without the count of slots in use.                   *)
ShapeOK ==
    /\ part \in [Files -> File] /\ dest \in [Files -> File]
    /\ op \in [on : BOOLEAN, cancelled : BOOLEAN, error : Errors, returned : BOOLEAN]
    /\ task \in [Files -> Task] /\ late \subseteq Files
    /\ reported \in [Files -> 0..Size] /\ spoiled \in BOOLEAN /\ faults \in 0..MaxFaults

(* What a running task knows of its attempts and of its partial file.      *)
TaskInv(f) ==
    /\ task[f].pc \in {"queued", "reuse", "rehash"} => task[f].tries = 0
    /\ task[f].pc = "attempt" => task[f].tries <= Retries
    /\ task[f].pc \in {"send", "append", "receive", "report"} => part[f].len <= task[f].n
    /\ task[f].pc = "fresh" => task[f].n = 0

(* A worker that outlived its future holds a partial file that was hashed; *)
(* no task of a later operation writes to it.                              *)
LateInv(f) ==
    /\ task[f].pc \notin {"send", "append", "fresh", "receive", "report"}
    /\ part[f].there => Sound(f, part[f])
    /\ part[f].there \/ dest[f].there
    /\ task[f].pc = "attempt" => part[f].there

(* What is published, or about to be, was compared with the plan.          *)
VerifiedInv(f) ==
    /\ dest[f].there => Sound(f, dest[f])
    /\ task[f].pc \in {"publish", "rename"} /\ part[f].there => Sound(f, part[f])
    /\ task[f].pc = "rename" => part[f].there \/ dest[f].there
    /\ f \in late => LateInv(f)

FilesInv == \A f \in Files : TaskInv(f) /\ VerifiedInv(f)

(* Between operations no task is left.                                     *)
IdleInv == ~op.on => \A f \in Files : task[f].pc = "gone"

VerifyInv == ShapeOK /\ Cardinality(Running) <= Slots /\ FilesInv /\ IdleInv

-----------------------------------------------------------------------------
(* What HubDownloadAssumption says of the numbers. *)
LEMMA Bounds ==
    /\ Size \in Nat /\ Size > 0 /\ Slots \in Nat /\ Slots > 0
    /\ Retries \in Nat /\ MaxFaults \in Nat
  BY HubDownloadAssumption

(* Where a task can be.                                                    *)
Pcs == Active \cup {"queued", "ok", "err", "gone"}

(* The tasks a download starts from and ends in are well formed. *)
LEMMA RestingTasks == Queued \in Task /\ Gone \in Task /\ [Queued EXCEPT !.pc = "reuse"] \in Task
  <1>1. 0 \in 0..Size /\ 0 \in 0..Retries + 1
    BY Bounds
  <1> QED BY <1>1 DEF Task, Queued, Gone, Errors, Active

(* Moving a task on, or failing it, leaves a well formed task. *)
LEMMA TaskTypes ==
    ASSUME NEW t \in Task
    PROVE  /\ \A pc \in Pcs : [t EXCEPT !.pc = pc] \in Task
           /\ \A e \in Errors : [t EXCEPT !.pc = "err", !.error = e] \in Task
           /\ Queued \in Task /\ Gone \in Task /\ [Queued EXCEPT !.pc = "reuse"] \in Task
  <1>1. \A pc \in Pcs : [t EXCEPT !.pc = pc] \in Task
    BY DEF Task, Pcs
  <1>2. \A e \in Errors : [t EXCEPT !.pc = "err", !.error = e] \in Task
    BY DEF Task
  <1> QED BY <1>1, <1>2, RestingTasks

(* The files a transfer starts from and each received part are well formed. *)
LEMMA FileTypes ==
    /\ None \in File /\ Empty \in File
    /\ \A t \in File, good \in BOOLEAN :
          t.len < Size => [t EXCEPT !.len = @ + 1, !.good = @ /\ good] \in File
  <1>1. None \in File /\ Empty \in File
    BY Bounds DEF File, None, Empty
  <1>2. ASSUME NEW t \in File, NEW good \in BOOLEAN, t.len < Size
        PROVE  [t EXCEPT !.len = @ + 1, !.good = @ /\ good] \in File
    <2>1. t.len + 1 \in 0..Size
      BY <1>2, Bounds DEF File
    <2>2. (t.good /\ good) \in BOOLEAN
      OBVIOUS
    <2> QED BY <1>2, <2>1, <2>2 DEF File
  <1> QED BY <1>1, <1>2

(* The four ways a task moves.                                             *)
LEMMA MoveTypes ==
    ASSUME task \in [Files -> Task], NEW f \in Files
    PROVE  /\ \A t \in Task : [task EXCEPT ![f] = t] \in [Files -> Task]
           /\ \A pc \in Pcs : Goto(f, pc) => task' \in [Files -> Task]
           /\ \A e \in Errors : Fails(f, e) => task' \in [Files -> Task]
           /\ Transient(f) => task' \in [Files -> Task]
  <1>1. \A t \in Task : [task EXCEPT ![f] = t] \in [Files -> Task]
    OBVIOUS
  <1>2. ASSUME NEW pc \in Pcs PROVE [task EXCEPT ![f].pc = pc] \in [Files -> Task]
    <2>1. [task[f] EXCEPT !.pc = pc] \in Task
      BY TaskTypes
    <2> QED BY <1>1, <2>1
  <1>3. ASSUME NEW e \in Errors
        PROVE  [task EXCEPT ![f].pc = "err", ![f].error = e] \in [Files -> Task]
    <2>1. [task[f] EXCEPT !.pc = "err", !.error = e] \in Task
      BY TaskTypes
    <2>2. [task EXCEPT ![f].pc = "err", ![f].error = e] =
             [task EXCEPT ![f] = [task[f] EXCEPT !.pc = "err", !.error = e]]
      OBVIOUS
    <2> QED BY <1>1, <2>1, <2>2
  <1>4. "attempt" \in Pcs /\ "transient" \in Errors
    BY DEF Pcs, Active, Errors
  <1> QED BY <1>1, <1>2, <1>3, <1>4 DEF Goto, Fails, Transient

(* Every step of a file keeps its task well formed.                        *)
LEMMA TaskShape ==
    ASSUME ShapeOK, FilesInv, NEW f \in Files, FileStep(f)
    PROVE  task' \in [Files -> Task]
  <1> USE MoveTypes
  <1>1. task \in [Files -> Task] /\ task[f] \in Task /\ part[f] \in File
    BY DEF ShapeOK
  <1>2. /\ Active \subseteq Pcs /\ {"ok", "err"} \subseteq Pcs
        /\ {"attempt", "rehash", "append", "fresh", "receive", "report", "hash", "send",
            "publish", "rename", "reuse"} \subseteq Active
        /\ {"cancelled", "transient", "terminal"} \subseteq Errors
    BY DEF Pcs, Active, Errors
  <1>3. CASE Cancelled(f)
    BY <1>1, <1>2, <1>3 DEF Cancelled
  <1>4. CASE Reuse(f)
    BY <1>1, <1>2, <1>4 DEF Reuse
  <1>5. CASE Rehash(f)
    BY <1>1, <1>2, <1>5 DEF Rehash, Unsound
  <1>6. CASE Attempt(f)
    <2> DEFINE now == [task[f] EXCEPT !.n = part[f].len, !.known = part[f].there, !.tries = @ + 1]
    <2>1. task[f].tries + 1 \in 0..Retries + 1
      BY <1>1, <1>6, Bounds DEF Attempt, Step, At, FilesInv, TaskInv, Task
    <2>2. now \in Task
      BY <1>1, <2>1 DEF Task, File
    <2>3. [now EXCEPT !.pc = "hash"] \in Task /\ [now EXCEPT !.pc = "send"] \in Task
      BY <1>2, <2>2, TaskTypes
    <2> QED BY <1>1, <1>6, <2>3 DEF Attempt
  <1>7. CASE Respond(f)
    <2>1. ASSUME task' = [task EXCEPT ![f].pc = "fresh", ![f].n = 0] PROVE task' \in [Files -> Task]
      <3>1. [task[f] EXCEPT !.pc = "fresh", !.n = 0] \in Task
        <4>1. 0 \in 0..Size
          BY Bounds
        <4> QED BY <1>1, <4>1 DEF Task, Active
      <3>2. task' = [task EXCEPT ![f] = [task[f] EXCEPT !.pc = "fresh", !.n = 0]]
        BY <1>1, <2>1
      <3> QED BY <1>1, <3>1, <3>2
    <2> QED BY <1>1, <1>2, <1>7, <2>1 DEF Respond
  <1>8. CASE Open(f)
    BY <1>1, <1>2, <1>8 DEF Open
  <1>9. CASE Receive(f)
    <2>1. ASSUME task[f].n < Size, task' = [task EXCEPT ![f].pc = "report", ![f].n = @ + 1]
          PROVE  task' \in [Files -> Task]
      <3>1. task[f].n + 1 \in 0..Size
        BY <1>1, <2>1, Bounds DEF Task
      <3>2. [task[f] EXCEPT !.pc = "report", !.n = task[f].n + 1] \in Task
        BY <1>1, <3>1 DEF Task, Active
      <3>3. task' = [task EXCEPT ![f] = [task[f] EXCEPT !.pc = "report", !.n = task[f].n + 1]]
        BY <1>1, <2>1
      <3> QED BY <1>1, <3>2, <3>3
    <2> QED BY <1>1, <1>2, <1>9, <2>1 DEF Receive
  <1>10. CASE Report(f)
    BY <1>1, <1>2, <1>10 DEF Report
  <1>11. CASE Hash(f)
    BY <1>1, <1>2, <1>11 DEF Hash, Unsound
  <1>12. CASE Publish(f)
    BY <1>1, <1>2, <1>12 DEF Publish
  <1>13. CASE Rename(f)
    BY <1>1, <1>2, <1>13 DEF Rename
  <1>14. CASE Take(f)
    <2>1. [task EXCEPT ![f] = Gone] \in [Files -> Task]
      BY <1>1, TaskTypes
    <2>2. ASSUME NEW g \in Waiting PROVE [task EXCEPT ![f] = Gone, ![g].pc = "reuse"] \in [Files -> Task]
      <3>1. g \in Files /\ [task EXCEPT ![f] = Gone][g] \in Task
        BY <1>1, <2>1, <2>2 DEF Waiting
      <3>2. [[task EXCEPT ![f] = Gone][g] EXCEPT !.pc = "reuse"] \in Task
        BY <1>2, <3>1, TaskTypes
      <3> QED BY <2>1, <3>1, <3>2
    <2> QED BY <1>14, <2>1, <2>2 DEF Take
  <1>15. CASE LateRename(f)
    BY <1>1, <1>15 DEF LateRename
  <1> QED BY <1>3, <1>4, <1>5, <1>6, <1>7, <1>8, <1>9, <1>10, <1>11, <1>12, <1>13, <1>14, <1>15
        DEF FileStep

(* And the rest of the state.                                              *)
LEMMA ShapeFileStep ==
    ASSUME ShapeOK, FilesInv, NEW f \in Files, FileStep(f)
    PROVE  ShapeOK'
  <1> USE Bounds
  <1>1. task[f] \in Task /\ part[f] \in File /\ dest[f] \in File
    BY DEF ShapeOK
  <1>2. part' \in [Files -> File] /\ dest' \in [Files -> File]
    <2>1. ASSUME Renamed(f) PROVE part' \in [Files -> File] /\ dest' \in [Files -> File]
      BY <1>1, <2>1, FileTypes DEF Renamed, ShapeOK
    <2>2. CASE Open(f)
      BY <2>2, FileTypes DEF Open, ShapeOK
    <2>3. CASE Receive(f)
      <3>1. ASSUME task[f].n < Size, task[f].pc = "receive", NEW good \in BOOLEAN, Written(f, good)
            PROVE  part' \in [Files -> File]
        <4>1. part[f].len < Size
          BY <1>1, <3>1 DEF FilesInv, TaskInv, File, Task
        <4>2. [part[f] EXCEPT !.len = part[f].len + 1, !.good = part[f].good /\ good] \in File
          BY <1>1, <4>1, FileTypes
        <4>3. part' = [part EXCEPT ![f] =
                         [part[f] EXCEPT !.len = part[f].len + 1, !.good = part[f].good /\ good]]
          BY <3>1 DEF Written, ShapeOK
        <4> QED BY <4>2, <4>3 DEF ShapeOK
      <3> QED BY <2>3, <3>1 DEF Receive, Step, At, ShapeOK
    <2> QED BY <2>1, <2>2, <2>3 DEF FileStep, Cancelled, Reuse, Rehash, Attempt, Respond, Report,
          Hash, Publish, Rename, Take, LateRename, SameFiles, ShapeOK
  <1>3. op' \in [on : BOOLEAN, cancelled : BOOLEAN, error : Errors, returned : BOOLEAN]
    <2>1. CASE Take(f)
      <3>1. task[f].error \in Errors /\ op \in [on : BOOLEAN, cancelled : BOOLEAN, error : Errors, returned : BOOLEAN]
        BY <1>1 DEF Task, ShapeOK
      <3>2. op' = op \/ op' = [op EXCEPT !.error = task[f].error, !.cancelled = TRUE]
        BY <2>1 DEF Take
      <3> QED BY <3>1, <3>2
    <2> QED BY <2>1 DEF FileStep, Cancelled, Reuse, Rehash, Attempt, Respond, Report, Open, Receive,
          Hash, Publish, Rename, LateRename, Step, ShapeOK
  <1>4. late' \subseteq Files
    BY DEF FileStep, Cancelled, Reuse, Rehash, Attempt, Respond, Report, Open, Receive,
          Hash, Publish, Rename, Take, LateRename, SameFiles, ShapeOK
  <1>5. spoiled' \in BOOLEAN
    BY DEF FileStep, Cancelled, Reuse, Rehash, Attempt, Respond, Report, Open, Receive,
          Hash, Publish, Rename, Take, LateRename, Quietly, ShapeOK
  <1>6. faults' \in 0..MaxFaults
    <2>1. ASSUME Fault PROVE faults' \in 0..MaxFaults
      BY <2>1 DEF Fault, ShapeOK
    <2>2. UNCHANGED faults \/ Fault
      BY DEF FileStep, Cancelled, Reuse, Rehash, Attempt, Respond, Report, Open, Receive,
          Hash, Publish, Rename, Take, LateRename, Quietly
    <2> QED BY <2>1, <2>2 DEF ShapeOK
  <1>7. reported' \in [Files -> 0..Size]
    <2>1. part[f].len \in 0..Size /\ task[f].n \in 0..Size /\ 0 \in 0..Size
      BY <1>1 DEF File, Task
    <2>2. \/ UNCHANGED reported
          \/ \E n \in 0..Size : reported' = [reported EXCEPT ![f] = n]
      BY <2>1 DEF FileStep, Cancelled, Reuse, Rehash, Attempt, Respond, Report, Open, Receive,
          Hash, Publish, Rename, Take, LateRename, SameFiles
    <2> QED BY <2>2 DEF ShapeOK
  <1> QED BY <1>2, <1>3, <1>4, <1>5, <1>6, <1>7, TaskShape DEF ShapeOK

-----------------------------------------------------------------------------
(* What a move leaves of the task.                                         *)
LEMMA Moves ==
    ASSUME task \in [Files -> Task], NEW f \in Files
    PROVE  /\ \A pc \in Pcs : Goto(f, pc) =>
                /\ task'[f].pc = pc /\ task'[f].tries = task[f].tries /\ task'[f].n = task[f].n
           /\ \A e \in Errors : Fails(f, e) => task'[f].pc = "err"
           /\ Transient(f) => \/ task'[f].pc = "err"
                              \/ /\ task'[f].pc = "attempt" /\ task'[f].tries = task[f].tries
                                 /\ task[f].tries <= Retries
  BY DEF Goto, Fails, Transient, Task

(* A step of one file leaves the others alone, except that the scheduler   *)
(* may admit one that waits.                                               *)
LEMMA OtherFiles ==
    ASSUME ShapeOK, FilesInv, NEW f \in Files, FileStep(f), NEW g \in Files, g # f
    PROVE  /\ part'[g] = part[g] /\ dest'[g] = dest[g] /\ (g \in late' <=> g \in late)
           /\ reported'[g] = reported[g]
           /\ \/ task'[g] = task[g]
              \/ task[g].pc = "queued" /\ op.error = "none"
                 /\ task'[g] = [task[g] EXCEPT !.pc = "reuse"]
  <1>1. part'[g] = part[g] /\ dest'[g] = dest[g]
    BY DEF FileStep, Cancelled, Reuse, Rehash, Attempt, Respond, Report, Open, Receive,
          Hash, Publish, Rename, Take, LateRename, SameFiles, Renamed, Written, ShapeOK
  <1>2. g \in late' <=> g \in late
    BY DEF FileStep, Cancelled, Reuse, Rehash, Attempt, Respond, Report, Open, Receive,
          Hash, Publish, Rename, Take, LateRename, SameFiles
  <1>3. reported'[g] = reported[g]
    BY DEF FileStep, Cancelled, Reuse, Rehash, Attempt, Respond, Report, Open, Receive,
          Hash, Publish, Rename, Take, LateRename, SameFiles, ShapeOK
  <1>4. \/ task'[g] = task[g]
        \/ task[g].pc = "queued" /\ op.error = "none"
           /\ task'[g] = [task[g] EXCEPT !.pc = "reuse"]
    <2>1. CASE Take(f)
      BY <2>1 DEF Take, Waiting, At, ShapeOK
    <2> QED BY <2>1 DEF FileStep, Cancelled, Reuse, Rehash, Attempt, Respond, Report, Open, Receive,
          Hash, Publish, Rename, Take, LateRename, Goto, Fails, Transient, ShapeOK
  <1> QED BY <1>1, <1>2, <1>3, <1>4

(* A step of one file's task leaves what is known of every other file alone: the tasks
   share the semaphore and the lock, never a partial. *)
LEMMA OthersKeep ==
    ASSUME ShapeOK, FilesInv, NEW f \in Files, FileStep(f), NEW g \in Files, g # f
    PROVE  (TaskInv(g) /\ VerifiedInv(g))'
  <1>1. task[g] \in Task
    BY DEF ShapeOK
  <1>2. TaskInv(g) /\ VerifiedInv(g)
    BY DEF FilesInv
  <1>3. CASE task'[g] = task[g]
    BY <1>2, <1>3, OtherFiles DEF TaskInv, VerifiedInv, LateInv, Sound
  <1>4. CASE task[g].pc = "queued" /\ task'[g] = [task[g] EXCEPT !.pc = "reuse"]
    <2>1. task'[g].pc = "reuse" /\ task'[g].tries = task[g].tries
      BY <1>1, <1>4 DEF Task
    <2> QED BY <1>2, <1>4, <2>1, OtherFiles DEF TaskInv, VerifiedInv, LateInv, Sound
  <1> QED BY <1>3, <1>4, OtherFiles

(* The file that moves keeps what its task knows.                          *)
LEMMA OwnKeeps ==
    ASSUME ShapeOK, FilesInv, NEW f \in Files, FileStep(f)
    PROVE  (TaskInv(f) /\ VerifiedInv(f))'
  <1> USE DEF TaskInv, VerifiedInv, LateInv
  <1>1. /\ task \in [Files -> Task] /\ task[f] \in Task /\ part[f] \in File /\ dest[f] \in File
        /\ part \in [Files -> File] /\ dest \in [Files -> File]
    BY DEF ShapeOK
  <1>2. TaskInv(f) /\ VerifiedInv(f)
    BY DEF FilesInv
  <1>a. /\ {"attempt", "rehash", "append", "fresh", "receive", "report", "hash", "send",
            "publish", "rename", "reuse", "ok", "err"} \subseteq Pcs
        /\ {"cancelled", "transient", "terminal"} \subseteq Errors
    BY DEF Pcs, Active, Errors
  <1>3. CASE Cancelled(f)
    <2>1. task'[f].pc = "err"
      BY <1>1, <1>3, <1>a, Moves DEF Cancelled
    <2> QED BY <1>2, <1>3, <2>1 DEF Cancelled, SameFiles, Sound
  <1>4. CASE Reuse(f)
    <2>1. \/ task'[f].pc = "err"
          \/ task'[f].pc = "attempt" /\ ~dest[f].there /\ task'[f].tries = 0
          \/ task'[f].pc = "rehash" /\ task'[f].tries = 0
      BY <1>1, <1>2, <1>4, <1>a, Moves DEF Reuse, Step, At
    <2> QED BY <1>2, <1>4, <2>1, Bounds DEF Reuse, SameFiles, Sound
  <1>5. CASE Rehash(f)
    <2>1. task'[f].pc \in {"ok", "err"}
      BY <1>1, <1>5, <1>a, Moves DEF Rehash, Unsound
    <2> QED BY <1>2, <1>5, <2>1 DEF Rehash, SameFiles, Sound
  <1>6. CASE Attempt(f)
    <2>1. /\ task'[f].pc = IF part[f].len = Size /\ part[f].there THEN "hash" ELSE "send"
          /\ task'[f].n = part[f].len
          /\ UNCHANGED <<part, dest, late>>
      BY <1>1, <1>6 DEF Attempt, Task
    <2>2. task[f].pc = "attempt"
      BY <1>6 DEF Attempt, Step, At
    <2> QED BY <1>1, <1>2, <2>1, <2>2 DEF Sound, File
  <1>7. CASE Respond(f)
    <2>1. \/ task'[f].pc = "err"
          \/ task'[f].pc = "attempt" /\ task'[f].tries <= Retries
          \/ task'[f].pc = "append" /\ task'[f].n = task[f].n
          \/ task'[f].pc = "fresh" /\ task'[f].n = 0
      <3>1. task[f].n \in 0..Size
        BY <1>1 DEF Task
      <3>2. ASSUME task' = [task EXCEPT ![f].pc = "fresh", ![f].n = 0]
            PROVE  task'[f].pc = "fresh" /\ task'[f].n = 0
        BY <1>1, <3>2 DEF Task
      <3> QED BY <1>1, <1>2, <1>7, <1>a, <3>1, <3>2, Moves DEF Respond
    <2>2. task[f].pc = "send"
      BY <1>7 DEF Respond, Step, At
    <2> QED BY <1>2, <1>7, <2>1, <2>2 DEF Respond, SameFiles, Sound
  <1>8. CASE Open(f)
    <2>1. /\ task[f].pc \in {"append", "fresh"} /\ UNCHANGED <<dest, late>>
          /\ \/ task'[f].pc = "err" /\ UNCHANGED part
             \/ /\ task'[f].pc = "receive" /\ task'[f].n = task[f].n
                /\ \/ task[f].pc = "append" /\ UNCHANGED part
                   \/ task[f].pc = "fresh" /\ part'[f] = Empty
      BY <1>1, <1>8, <1>a, Moves DEF Open, Step, At
    <2> QED BY <1>2, <2>1 DEF Sound, Empty
  <1>9. CASE Receive(f)
    <2>1. task[f].pc = "receive" /\ UNCHANGED <<dest, late>>
      BY <1>9 DEF Receive, Step, At
    <2>2. \/ task'[f].pc \in {"err", "hash"}
          \/ task'[f].pc = "attempt" /\ task'[f].tries <= Retries
          \/ task'[f].pc = "report" /\ task'[f].n = task[f].n + 1 /\ part'[f].len = part[f].len + 1
      <3>1. ASSUME task' = [task EXCEPT ![f].pc = "report", ![f].n = @ + 1]
            PROVE  task'[f].pc = "report" /\ task'[f].n = task[f].n + 1
        BY <1>1, <3>1 DEF Task
      <3>2. ASSUME NEW good \in BOOLEAN, Written(f, good) PROVE part'[f].len = part[f].len + 1
        BY <1>1, <3>2 DEF Written, File
      <3> QED BY <1>1, <1>9, <1>a, <3>1, <3>2, Moves DEF Receive
    <2>3. part[f].len \in Nat /\ task[f].n \in Nat
      BY <1>1, Bounds DEF File, Task
    <2> QED BY <1>2, <2>1, <2>2, <2>3 DEF Sound
  <1>10. CASE Report(f)
    <2>1. \/ task'[f].pc = "err"
          \/ task'[f].pc = "receive" /\ task'[f].n = task[f].n
      BY <1>1, <1>10, <1>a, Moves DEF Report
    <2> QED BY <1>2, <1>10, <2>1 DEF Report, Step, At, Sound
  <1>11. CASE Hash(f)
    <2>1. \/ task'[f].pc = "err"
          \/ task'[f].pc = "publish" /\ Sound(f, part[f])
      BY <1>1, <1>11, <1>a, Moves DEF Hash, Unsound
    <2> QED BY <1>2, <1>11, <2>1 DEF Hash, SameFiles, Sound
  <1>12. CASE Publish(f)
    <2>1. \/ task'[f].pc = "err"
          \/ task'[f].pc = "rename" /\ part[f].there
      BY <1>1, <1>12, <1>a, Moves DEF Publish
    <2> QED BY <1>2, <1>12, <2>1 DEF Publish, Step, At, SameFiles, Sound
  <1>13. ASSUME Renamed(f)
         PROVE  \/ UNCHANGED <<part, dest>>
                \/ part[f].there /\ part'[f] = None /\ dest'[f] = part[f]
    BY <1>1, <1>13 DEF Renamed, CanRename
  <1>14. CASE Rename(f)
    <2>1. task'[f].pc \in {"ok", "err"} /\ task[f].pc = "rename" /\ UNCHANGED late
      BY <1>1, <1>14, <1>a, Moves DEF Rename, At
    <2> QED BY <1>2, <1>13, <1>14, <2>1 DEF Rename, Sound, None
  <1>15. CASE Take(f)
    <2>1. task'[f].pc = "gone"
      BY <1>1, <1>15 DEF Take, Waiting, At, Gone, Queued
    <2> QED BY <1>2, <1>15, <2>1 DEF Take, SameFiles, Sound
  <1>16. CASE LateRename(f)
    <2>1. f \in late /\ f \notin late' /\ UNCHANGED task
      BY <1>16 DEF LateRename
    <2>2. part[f].there \/ dest[f].there
      BY <1>2, <2>1
    <2> QED BY <1>2, <1>13, <1>16, <2>1, <2>2 DEF LateRename, Renamed, CanRename, Sound, None
  <1> QED BY <1>3, <1>4, <1>5, <1>6, <1>7, <1>8, <1>9, <1>10, <1>11, <1>12, <1>14, <1>15, <1>16
        DEF FileStep

-----------------------------------------------------------------------------
(* No step takes more slots than there are: a file is admitted only for    *)
(* one that is done.                                                       *)
LEMMA RunningFinite == IsFiniteSet(Running) /\ Cardinality(Running) \in Nat
  BY HubDownloadAssumption, FS_Subset, FS_CardinalityType DEF Running

(* No step of a task starts a transfer above the semaphore's permits. *)
LEMMA SlotsStep ==
    ASSUME ShapeOK, FilesInv, Cardinality(Running) <= Slots, NEW f \in Files, FileStep(f)
    PROVE  Cardinality(Running') <= Slots
  <1> DEFINE InWork(t) == t.pc \in Active \cup {"ok", "err"}
  <1>0. Running = {g \in Files : InWork(task[g])} /\ Running' = {g \in Files : InWork(task'[g])}
    BY DEF Running
  <1>1. task \in [Files -> Task] /\ "queued" \notin Active /\ "gone" \notin Active /\ "reuse" \in Active
    BY DEF ShapeOK, Active
  <1>2. CASE Take(f)
    <2>1. f \in Running
      BY <1>2 DEF Take, Running
    <2>2. CASE task' = [task EXCEPT ![f] = Gone]
      <3>1. Running' \subseteq Running
        BY <1>0, <1>1, <2>2 DEF Gone, Queued
      <3> QED BY <3>1, RunningFinite, FS_Subset, Bounds, FS_CardinalityType
    <2>3. ASSUME NEW g \in Waiting, task' = [task EXCEPT ![f] = Gone, ![g].pc = "reuse"]
          PROVE  Cardinality(Running') <= Slots
      <3>1. g \in Files /\ g # f /\ g \notin Running
        BY <1>1, <1>2, <2>3 DEF Waiting, Running, At, Take
      <3>2. task'[f].pc = "gone" /\ task'[g].pc = "reuse"
            /\ \A h \in Files \ {f, g} : task'[h] = task[h]
        BY <1>1, <2>3, <3>1 DEF Gone, Queued, Task
      <3>3. Running' = (Running \ {f}) \cup {g}
        BY <1>0, <1>1, <3>1, <3>2
      <3>4. Cardinality(Running \ {f}) = Cardinality(Running) - 1 /\ IsFiniteSet(Running \ {f})
        BY <2>1, RunningFinite, FS_RemoveElement
      <3>5. Cardinality((Running \ {f}) \cup {g}) = Cardinality(Running \ {f}) + 1
        BY <3>1, <3>4, FS_AddElement
      <3> QED BY <3>3, <3>4, <3>5, RunningFinite, Bounds
    <2> QED BY <1>2, <2>2, <2>3 DEF Take
  <1>3. CASE LateRename(f)
    BY <1>0, <1>3 DEF LateRename
  <1>4. CASE FileStep(f) /\ ~Take(f) /\ ~LateRename(f)
    <2>1. task[f].pc \in Active
      BY <1>4 DEF FileStep, Cancelled, Reuse, Rehash, Attempt, Respond, Report, Open, Receive,
          Hash, Publish, Rename, Take, LateRename, Step, At, Active
    <2>2. task'[f].pc \in Active \cup {"ok", "err"}
      <3>1. /\ {"attempt", "rehash", "append", "fresh", "receive", "report", "hash", "send",
                "publish", "rename", "reuse"} \subseteq Active
            /\ Active \cup {"ok", "err"} \subseteq Pcs
            /\ {"cancelled", "transient", "terminal"} \subseteq Errors
        BY DEF Pcs, Active, Errors
      <3>2. CASE Attempt(f)
        BY <1>1, <3>1, <3>2 DEF Attempt, Task
      <3>3. CASE Respond(f)
        <4>1. ASSUME task' = [task EXCEPT ![f].pc = "fresh", ![f].n = 0] PROVE task'[f].pc = "fresh"
          BY <1>1, <4>1 DEF Task
        <4> QED BY <1>1, <3>1, <3>3, <4>1, Moves DEF Respond
      <3>4. CASE Receive(f)
        <4>1. ASSUME task' = [task EXCEPT ![f].pc = "report", ![f].n = @ + 1]
              PROVE  task'[f].pc = "report"
          BY <1>1, <4>1 DEF Task
        <4> QED BY <1>1, <3>1, <3>4, <4>1, Moves DEF Receive
      <3> QED BY <1>1, <1>4, <3>1, <3>2, <3>3, <3>4, Moves DEF FileStep, Cancelled, Reuse, Rehash,
            Report, Open, Hash, Publish, Rename, Unsound
    <2>3. ASSUME NEW g \in Files, g # f PROVE InWork(task'[g]) <=> InWork(task[g])
      <3>1. task'[g] = task[g]
        BY <1>1, <1>4, <2>3 DEF FileStep, Cancelled, Reuse, Rehash, Attempt, Respond, Report, Open, Receive,
          Hash, Publish, Rename, Take, LateRename, Goto, Fails, Transient
      <3> QED BY <3>1
    <2> QED BY <1>0, <2>1, <2>2, <2>3
  <1> QED BY <1>2, <1>3, <1>4

(* The steps of the whole operation: begin, return, cancel, drop, discard. *)
LEMMA WholeStep ==
    ASSUME VerifyInv,
           Begin \/ Return \/ CallerCancels \/ DropFuture \/ Die \/ Discard
    PROVE  VerifyInv'
  <1> USE Bounds
  <1>1. ShapeOK /\ FilesInv /\ Cardinality(Running) <= Slots /\ IdleInv
    BY DEF VerifyInv
  <1>a. /\ \A e \in Errors, b \in BOOLEAN :
              [op EXCEPT !.error = e, !.returned = b] \in
                 [on : BOOLEAN, cancelled : BOOLEAN, error : Errors, returned : BOOLEAN]
        /\ [op EXCEPT !.cancelled = TRUE] \in
                 [on : BOOLEAN, cancelled : BOOLEAN, error : Errors, returned : BOOLEAN]
        /\ {"none", "terminal"} \subseteq Errors
    BY <1>1 DEF ShapeOK, Errors
  <1>b. IdleInv'
    <2>1. Gone.pc = "gone"
      BY DEF Gone, Queued
    <2> QED BY <1>1, <2>1 DEF IdleInv, Begin, Return, CallerCancels, DropFuture, Die, Drop, Discard,
          Admitted, ShapeOK
  <1>2. Gone \in Task /\ Queued \in Task /\ [Queued EXCEPT !.pc = "reuse"] \in Task
        /\ None \in File
    BY RestingTasks, FileTypes
  <1>3. ASSUME task' = [f \in Files |-> Gone] PROVE Cardinality(Running') <= Slots
    <2>1. Running' = {}
      BY <1>3 DEF Running, Gone, Queued, Active
    <2> QED BY <2>1, FS_EmptySet
  <1>4. CASE Begin
    <2>1. CASE UNCHANGED task
      <3>1. op' = [op EXCEPT !.error = "terminal", !.returned = TRUE] \/ op' =
               [on |-> TRUE, cancelled |-> FALSE, error |-> "none", returned |-> FALSE]
        BY <1>4 DEF Begin
      <3>2. ShapeOK'
        <4>1. op' \in [on : BOOLEAN, cancelled : BOOLEAN, error : Errors, returned : BOOLEAN]
          <5>1. [op EXCEPT !.error = "terminal", !.returned = TRUE] \in
                   [on : BOOLEAN, cancelled : BOOLEAN, error : Errors, returned : BOOLEAN]
            BY <1>a
          <5>2. [on |-> TRUE, cancelled |-> FALSE, error |-> "none", returned |-> FALSE] \in
                   [on : BOOLEAN, cancelled : BOOLEAN, error : Errors, returned : BOOLEAN]
            BY <1>a
          <5> QED BY <3>1, <5>1, <5>2
        <4> QED BY <1>1, <1>4, <2>1, <4>1 DEF Begin, SameFiles, Quietly, ShapeOK
      <3>3. Running' = Running
        BY <2>1 DEF Running
      <3>4. FilesInv'
        BY <1>1, <1>4, <2>1 DEF Begin, SameFiles, FilesInv, TaskInv, VerifiedInv, LateInv, Sound
      <3> QED BY <1>b, <1>1, <3>2, <3>3, <3>4 DEF VerifyInv
    <2>2. ASSUME NEW first \in SUBSET Files, task' = Admitted(first),
                 Cardinality(first) = Lesser(Cardinality(Files), Slots), Acceptable,
                 op' = [on |-> TRUE, cancelled |-> FALSE, error |-> "none", returned |-> FALSE]
          PROVE  VerifyInv'
      <3>1. ShapeOK'
        BY <1>1, <1>2, <1>4, <2>2 DEF Begin, Admitted, SameFiles, Quietly, ShapeOK, Errors
      <3>2. \A f \in Files : task'[f].pc \in {"queued", "reuse"} /\ task'[f].tries = 0
        BY <2>2 DEF Admitted, Queued
      <3>3. Running' = first
        BY <2>2 DEF Running, Admitted, Queued, Active
      <3>4. Cardinality(Running') <= Slots
        BY <2>2, <3>3, FS_CardinalityType, HubDownloadAssumption DEF Lesser
      <3>5. FilesInv'
        BY <1>1, <1>4, <3>2 DEF Begin, SameFiles, FilesInv, TaskInv, VerifiedInv, LateInv, Sound
      <3> QED BY <1>b, <3>1, <3>4, <3>5 DEF VerifyInv
    <2> QED BY <1>4, <2>1, <2>2 DEF Begin
  <1>5. CASE Return
    <2>1. ShapeOK'
      BY <1>1, <1>2, <1>5 DEF Return, SameFiles, Quietly, ShapeOK
    <2>2. FilesInv'
      BY <1>1, <1>5 DEF Return, SameFiles, FilesInv, TaskInv, VerifiedInv, LateInv, Sound, Gone, Queued
    <2> QED BY <1>b, <1>3, <1>5, <2>1, <2>2 DEF Return, VerifyInv
  <1>6. CASE CallerCancels
    <2>1. ShapeOK'
      <3>1. faults' \in 0..MaxFaults
        BY <1>1, <1>6 DEF CallerCancels, Fault, ShapeOK
      <3> QED BY <1>1, <1>6, <1>a, <3>1 DEF CallerCancels, SameFiles, ShapeOK
    <2>2. FilesInv'
      BY <1>1, <1>6 DEF CallerCancels, SameFiles, FilesInv, TaskInv, VerifiedInv, LateInv, Sound
    <2>3. Running' = Running
      BY <1>6 DEF CallerCancels, Running
    <2> QED BY <1>b, <1>1, <2>1, <2>2, <2>3 DEF VerifyInv
  <1>7. ASSUME NEW workers \in SUBSET {f \in Files : At(f, "rename")}, Drop(workers) PROVE VerifyInv'
    <2>1. ShapeOK'
      BY <1>1, <1>2, <1>7 DEF Drop, Fault, ShapeOK, Errors
    <2>2. ASSUME NEW f \in Files PROVE (TaskInv(f) /\ VerifiedInv(f))'
      <3>1. task'[f].pc = "gone" /\ UNCHANGED <<part, dest>>
        BY <1>7 DEF Drop, Gone, Queued
      <3>2. VerifiedInv(f)
        BY <1>1 DEF FilesInv
      <3>3. f \in late' => f \in late \/ task[f].pc = "rename"
        BY <1>7 DEF Drop, At
      <3> QED BY <3>1, <3>2, <3>3 DEF TaskInv, VerifiedInv, LateInv, Sound
    <2>3. FilesInv'
      BY <2>2 DEF FilesInv
    <2> QED BY <1>b, <1>3, <1>7, <2>1, <2>3 DEF Drop, VerifyInv
  <1>8. CASE Discard
    <2>1. ShapeOK'
      <3>1. part' \in [Files -> File] /\ dest' \in [Files -> File] /\ reported' \in [Files -> 0..Size]
        BY <1>2, <1>8 DEF Discard
      <3>2. op' \in [on : BOOLEAN, cancelled : BOOLEAN, error : Errors, returned : BOOLEAN]
        BY <1>8, <1>a DEF Discard
      <3> QED BY <1>1, <1>8, <3>1, <3>2 DEF Discard, ShapeOK
    <2>2. Running' = Running
      BY <1>8 DEF Discard, Running
    <2>3. ASSUME NEW f \in Files PROVE (TaskInv(f) /\ VerifiedInv(f))'
      <3>1. part'[f] = None /\ dest'[f] = None /\ f \notin late' /\ UNCHANGED task
        BY <1>8 DEF Discard
      <3>3. task[f].pc = "gone"
        BY <1>1, <1>8 DEF Discard, IdleInv
      <3> QED BY <3>1, <3>3 DEF TaskInv, VerifiedInv, None
    <2>4. FilesInv'
      BY <2>3 DEF FilesInv
    <2> QED BY <1>b, <1>1, <2>1, <2>2, <2>4 DEF VerifyInv
  <1> QED BY <1>4, <1>5, <1>6, <1>7, <1>8 DEF DropFuture, Die

(* The first downloads start from a directory whose files are verified. *)
LEMMA VerifyInit == Init => VerifyInv
  <1> SUFFICES ASSUME Init PROVE VerifyInv
    OBVIOUS
  <1> USE Bounds
  <1>1. None \in File /\ Gone \in Task
    BY FileTypes, RestingTasks
  <1>2. ShapeOK
    <2>1. 0 \in 0..Size /\ 0 \in 0..MaxFaults
      OBVIOUS
    <2>2. part \in [Files -> File] /\ dest \in [Files -> File]
      BY <1>1 DEF Init
    <2> QED BY <1>1, <2>1, <2>2 DEF Init, ShapeOK, Errors
  <1>3. \A f \in Files : task[f] = Gone /\ part[f] = None /\ dest[f] = None /\ late = {}
    BY DEF Init
  <1>4. FilesInv /\ IdleInv
    BY <1>3 DEF FilesInv, TaskInv, VerifiedInv, IdleInv, None, Gone, Queued
  <1>5. Running = {}
    BY <1>3 DEF Running, Gone, Queued, Active
  <1> QED BY <1>2, <1>4, <1>5, FS_EmptySet DEF VerifyInv

(* VerifyInv is inductive: one case for each action of the model. *)
LEMMA VerifyStep == VerifyInv /\ [Next]_vars => VerifyInv'
  <1> SUFFICES ASSUME VerifyInv, [Next]_vars PROVE VerifyInv'
    OBVIOUS
  <1>1. ASSUME NEW f \in Files, FileStep(f) PROVE VerifyInv'
    <2>1. ShapeOK /\ FilesInv /\ Cardinality(Running) <= Slots /\ IdleInv
      BY DEF VerifyInv
    <2>2. FilesInv'
      BY <1>1, <2>1, OthersKeep, OwnKeeps DEF FilesInv
    <2>3. IdleInv'
      <3>1. CASE op.on
        <4>1. op'.on
          BY <1>1, <2>1, <3>1 DEF FileStep, Cancelled, Reuse, Rehash, Attempt, Respond, Report, Open,
                Receive, Hash, Publish, Rename, Take, LateRename, Step, ShapeOK
        <4> QED BY <4>1 DEF IdleInv
      <3>2. CASE ~op.on
        <4>1. UNCHANGED <<op, task>>
          BY <1>1, <2>1, <3>2 DEF FileStep, Cancelled, Reuse, Rehash, Attempt, Respond, Report, Open,
                Receive, Hash, Publish, Rename, Take, LateRename, Step
        <4> QED BY <2>1, <4>1 DEF IdleInv
      <3> QED BY <3>1, <3>2
    <2> QED BY <1>1, <2>1, <2>2, <2>3, ShapeFileStep, SlotsStep DEF VerifyInv
  <1>2. CASE UNCHANGED vars
    BY <1>2 DEF vars, VerifyInv, ShapeOK, Running, FilesInv, TaskInv, VerifiedInv, LateInv, Sound,
          IdleInv
  <1> QED BY <1>1, <1>2, WholeStep DEF Next

(* Whatever was interrupted, resumed, retried or left to a worker that     *)
(* outlived its future, at most Slots files are in work and what stands    *)
(* under its final name has the planned size and digest (download_file,    *)
(* rename_exclusive), even if operations overlap.                          *)
THEOREM PublishedFilesAreVerified == Spec => []FilesAreVerified
  <1>1. VerifyInv => FilesAreVerified
    BY DEF VerifyInv, ShapeOK, FilesInv, VerifiedInv, FilesAreVerified, TypeOK, PublishedIsVerified
  <1> QED BY <1>1, VerifyInit, VerifyStep, PTL DEF Spec

-----------------------------------------------------------------------------
(* Resumption.  One operation at a time, and none while the worker of a    *)
(* dropped one may still rename: what an operation leaves is a state that  *)
(* its successor accepts.                                                  *)

(* A task knows the partial file it works on, and only a wrong answer of   *)
(* the server makes bytes bad or an error terminal.                        *)
ResumeInv(f) ==
    /\ ~(part[f].there /\ dest[f].there)
    /\ ~part[f].there => part[f].len = 0
    /\ task[f].pc \in Active \ {"reuse", "rehash"} => ~dest[f].there
    /\ task[f].pc \in {"send", "append", "fresh"} => task[f].known = part[f].there
    /\ task[f].pc \in {"send", "append", "receive", "report"} => task[f].n = part[f].len
    /\ task[f].pc = "append" => task[f].n > 0
    /\ task[f].pc \in {"receive", "report", "hash", "publish", "rename"} => part[f].there
    /\ ~part[f].good \/ ~dest[f].good => spoiled
    /\ task[f].pc = "err" /\ task[f].error = "terminal" => spoiled
    /\ reported[f] <= part[f].len \/ dest[f].there

(* The operation that runs is alone, and its first error cancels it.       *)
OneAtATime ==
    /\ op.on \/ op.returned => late = {}
    /\ op.on /\ op.error # "none" => op.cancelled
    /\ op.error = "terminal" => spoiled

AcceptInv == VerifyInv /\ OneAtATime /\ \A f \in Files : ResumeInv(f)

(* What Goto, Fails and Transient write in the task they move. *)
LEMMA FieldMoves ==
    ASSUME task \in [Files -> Task], NEW f \in Files
    PROVE  /\ \A pc \in Pcs : Goto(f, pc) =>
                /\ task'[f].pc = pc /\ task'[f].known = task[f].known /\ task'[f].n = task[f].n
           /\ \A e \in Errors : Fails(f, e) => task'[f].pc = "err" /\ task'[f].error = e
           /\ Transient(f) => \/ task'[f].pc = "err" /\ task'[f].error = "transient"
                              \/ task'[f].pc = "attempt"
  BY DEF Goto, Fails, Transient, Task

(* Nothing unspoils the directory but its disposal.                        *)
LEMMA SpoiledStays ==
    ASSUME NEW f \in Files, FileStep(f)
    PROVE  spoiled => spoiled'
  BY DEF FileStep, Cancelled, Reuse, Rehash, Attempt, Respond, Report, Open, Receive,
          Hash, Publish, Rename, Take, LateRename, Quietly

(* A step of one task leaves every other partial as resumable as it was. *)
LEMMA OthersResume ==
    ASSUME AcceptInv, NEW f \in Files, FileStep(f), NEW g \in Files, g # f
    PROVE  ResumeInv(g)'
  <1>1. ShapeOK /\ FilesInv /\ ResumeInv(g) /\ task[g] \in Task
    BY DEF AcceptInv, VerifyInv, ShapeOK
  <1>2. CASE task'[g] = task[g]
    BY <1>1, <1>2, OtherFiles, SpoiledStays DEF ResumeInv
  <1>3. CASE task[g].pc = "queued" /\ task'[g] = [task[g] EXCEPT !.pc = "reuse"]
    <2>1. task'[g].pc = "reuse"
      BY <1>1, <1>3 DEF Task
    <2> QED BY <1>1, <2>1, OtherFiles, SpoiledStays DEF ResumeInv
  <1> QED BY <1>1, <1>2, <1>3, OtherFiles

(* A step of one task keeps what is known of its own partial and of its own file. *)
LEMMA OwnResumes ==
    ASSUME AcceptInv, NEW f \in Files, FileStep(f)
    PROVE  ResumeInv(f)'
  <1> USE DEF ResumeInv
  <1>1. /\ task \in [Files -> Task] /\ task[f] \in Task /\ part[f] \in File /\ dest[f] \in File
        /\ part \in [Files -> File] /\ dest \in [Files -> File] /\ reported \in [Files -> 0..Size]
    BY DEF AcceptInv, VerifyInv, ShapeOK
  <1>2. ResumeInv(f) /\ VerifiedInv(f) /\ (op.on => late = {}) /\ (~op.on => task[f].pc = "gone")
    BY DEF AcceptInv, VerifyInv, FilesInv, OneAtATime, IdleInv
  <1>3. spoiled => spoiled'
    BY SpoiledStays
  <1>a. /\ {"attempt", "rehash", "append", "fresh", "receive", "report", "hash", "send",
            "publish", "rename", "reuse", "ok", "err"} \subseteq Pcs
        /\ {"cancelled", "transient", "terminal"} \subseteq Errors
    BY DEF Pcs, Active, Errors
  <1>b. part[f].len \in 0..Size /\ task[f].n \in 0..Size /\ dest[f].len \in 0..Size
    BY <1>1 DEF File, Task
  <1>4. CASE Cancelled(f)
    <2>1. task'[f].pc = "err" /\ task'[f].error = "cancelled"
      BY <1>1, <1>4, <1>a, FieldMoves DEF Cancelled
    <2> QED BY <1>2, <1>4, <2>1 DEF Cancelled, SameFiles, Quietly, Active
  <1>5. CASE Reuse(f)
    <2>1. \/ task'[f].pc = "attempt" /\ ~dest[f].there
          \/ task'[f].pc = "rehash"
      BY <1>1, <1>2, <1>5, <1>a, FieldMoves DEF Reuse, VerifiedInv, Sound
    <2> QED BY <1>2, <1>5, <2>1 DEF Reuse, SameFiles, Quietly, Active
  <1>6. CASE Rehash(f)
    <2>1. dest[f].len = Size \/ ~dest[f].there
      BY <1>2 DEF VerifiedInv, Sound
    <2>2. \/ task'[f].pc = "ok"
          \/ task'[f].pc = "err" /\ task'[f].error = Unsound(dest[f]) /\ ~Sound(f, dest[f])
      BY <1>1, <1>6, <1>a, FieldMoves DEF Rehash, Unsound
    <2>3. task'[f].pc = "err" /\ task'[f].error = "terminal" => spoiled
      <3>1. Sound(f, dest[f]) \/ dest[f].len < Size \/ spoiled
        BY <1>b, <1>2, Bounds DEF Sound
      <3> QED BY <2>2, <3>1 DEF Unsound
    <2> QED BY <1>2, <1>6, <2>2, <2>3 DEF Rehash, SameFiles, Quietly, Active
  <1>7. CASE Attempt(f)
    <2>1. /\ task'[f].pc = IF part[f].len = Size /\ part[f].there THEN "hash" ELSE "send"
          /\ task'[f].n = part[f].len /\ task'[f].known = part[f].there
          /\ reported'[f] = part[f].len
          /\ UNCHANGED <<part, dest, late, spoiled>>
      BY <1>1, <1>7 DEF Attempt, Task, Quietly
    <2>2. task[f].pc = "attempt"
      BY <1>7 DEF Attempt, Step, At
    <2> QED BY <1>2, <1>b, <2>1, <2>2 DEF Active
  <1>8. CASE Respond(f)
    <2>1. \/ task'[f].pc = "err" /\ (task'[f].error = "terminal" => spoiled')
          \/ task'[f].pc = "attempt"
          \/ task'[f].pc = "append" /\ task'[f].n = task[f].n /\ task'[f].known = task[f].known
             /\ task[f].n > 0
          \/ task'[f].pc = "fresh" /\ task'[f].known = task[f].known
      <3>1. ASSUME task' = [task EXCEPT ![f].pc = "fresh", ![f].n = 0]
            PROVE  task'[f].pc = "fresh" /\ task'[f].known = task[f].known
        BY <1>1, <3>1 DEF Task
      <3> QED BY <1>1, <1>8, <1>a, <3>1, FieldMoves DEF Respond
    <2>2. task[f].pc = "send"
      BY <1>8 DEF Respond, Step, At
    <2> QED BY <1>2, <1>3, <1>8, <2>1, <2>2 DEF Respond, SameFiles, Active
  <1>9. CASE Open(f)
    <2>1. /\ task[f].pc \in {"append", "fresh"} /\ UNCHANGED <<dest, late, spoiled>>
          /\ task'[f].pc = "receive" /\ task'[f].n = task[f].n
          /\ \/ task[f].pc = "append" /\ UNCHANGED <<part, reported>>
             \/ task[f].pc = "fresh" /\ part'[f] = Empty /\ reported'[f] = 0
      BY <1>1, <1>2, <1>9, <1>a, FieldMoves DEF Open, Step, At, Quietly
    <2>2. task[f].pc = "fresh" => task[f].n = 0
      BY DEF AcceptInv, VerifyInv, FilesInv, TaskInv
    <2> QED BY <1>2, <2>1, <2>2, <1>b DEF Empty, Active
  <1>10. CASE Receive(f)
    <2>1. task[f].pc = "receive" /\ UNCHANGED <<dest, late, reported>>
      BY <1>10 DEF Receive, Step, At
    <2>2. \/ task'[f].pc = "hash" /\ UNCHANGED part
          \/ task'[f].pc = "attempt" /\ UNCHANGED part
          \/ task'[f].pc = "err" /\ (task'[f].error = "terminal" => spoiled') /\ UNCHANGED part
          \/ /\ task'[f].pc = "report" /\ task'[f].n = task[f].n + 1
             /\ part'[f].len = part[f].len + 1 /\ part'[f].there = part[f].there
             /\ (~part'[f].good => ~part[f].good \/ spoiled')
      <3>1. ASSUME task' = [task EXCEPT ![f].pc = "report", ![f].n = @ + 1]
            PROVE  task'[f].pc = "report" /\ task'[f].n = task[f].n + 1
        BY <1>1, <3>1 DEF Task
      <3>2. ASSUME NEW good \in BOOLEAN, Written(f, good)
            PROVE  /\ part'[f].len = part[f].len + 1 /\ part'[f].there = part[f].there
                   /\ part'[f].good = (part[f].good /\ good)
        BY <1>1, <3>2 DEF Written, File
      <3> QED BY <1>1, <1>10, <1>a, <3>1, <3>2, FieldMoves DEF Receive
    <2>3. reported[f] \in 0..Size
      BY <1>1
    <2> QED BY <1>2, <1>3, <1>b, <2>1, <2>2, <2>3, Bounds DEF Active
  <1>11. CASE Report(f)
    <2>1. /\ \/ task'[f].pc = "err" /\ task'[f].error = "cancelled"
             \/ task'[f].pc = "receive" /\ task'[f].n = task[f].n
          /\ reported'[f] = task[f].n /\ task[f].pc = "report"
      BY <1>1, <1>11, <1>a, FieldMoves DEF Report, Step, At
    <2> QED BY <1>2, <1>11, <1>b, <2>1 DEF Report, Active
  <1>12. CASE Hash(f)
    <2>1. task[f].pc = "hash"
      BY <1>12 DEF Hash, Step, At
    <2>2. \/ task'[f].pc = "publish"
          \/ task'[f].pc = "err" /\ task'[f].error = Unsound(part[f]) /\ ~Sound(f, part[f])
      BY <1>1, <1>2, <1>12, <1>a, <2>1, FieldMoves DEF Hash, Unsound
    <2>3. task'[f].pc = "err" /\ task'[f].error = "terminal" => spoiled
      <3>1. Sound(f, part[f]) \/ part[f].len < Size \/ spoiled
        BY <1>b, <1>2, Bounds DEF Sound
      <3> QED BY <2>2, <3>1 DEF Unsound
    <2> QED BY <1>2, <1>12, <2>1, <2>2, <2>3 DEF Hash, SameFiles, Quietly, Active
  <1>13. CASE Publish(f)
    <2>1. task'[f].pc = "rename" /\ task[f].pc = "publish"
      BY <1>1, <1>2, <1>13, <1>a, FieldMoves DEF Publish, Step, At
    <2> QED BY <1>2, <1>13, <2>1 DEF Publish, SameFiles, Quietly, Active
  <1>14. CASE Rename(f)
    <2>1. task[f].pc = "rename" /\ CanRename(f)
      BY <1>2, <1>14 DEF Rename, At, CanRename, Active
    <2>2. part'[f] = None /\ dest'[f] = part[f] /\ task'[f].pc = "ok"
      BY <1>1, <1>14, <1>a, <2>1, FieldMoves DEF Rename, Renamed
    <2> QED BY <1>2, <1>3, <1>14, <2>1, <2>2 DEF Rename, Quietly, None, Active, CanRename
  <1>15. CASE Take(f)
    <2>1. task'[f].pc = "gone"
      BY <1>1, <1>15 DEF Take, Waiting, At, Gone, Queued
    <2> QED BY <1>2, <1>15, <2>1 DEF Take, SameFiles, Quietly, Active
  <1>16. CASE LateRename(f)
    <2>1. task[f].pc = "gone" /\ UNCHANGED <<task, reported, spoiled>>
      BY <1>2, <1>16 DEF LateRename, Quietly
    <2>2. \/ UNCHANGED <<part, dest>>
          \/ CanRename(f) /\ part'[f] = None /\ dest'[f] = part[f]
      BY <1>1, <1>16 DEF LateRename, Renamed
    <2> QED BY <1>2, <2>1, <2>2 DEF CanRename, None, Active
  <1> QED BY <1>4, <1>5, <1>6, <1>7, <1>8, <1>9, <1>10, <1>11, <1>12, <1>13, <1>14, <1>15, <1>16
        DEF FileStep

(* The steps of a file keep the operation alone.                           *)
LEMMA AloneFileStep ==
    ASSUME AcceptInv, NEW f \in Files, FileStep(f)
    PROVE  OneAtATime'
  <1>1. /\ OneAtATime /\ ResumeInv(f)
        /\ op \in [on : BOOLEAN, cancelled : BOOLEAN, error : Errors, returned : BOOLEAN]
    BY DEF AcceptInv, VerifyInv, ShapeOK
  <1>2. late' \subseteq late
    BY DEF FileStep, Cancelled, Reuse, Rehash, Attempt, Respond, Report, Open, Receive,
          Hash, Publish, Rename, Take, LateRename, SameFiles
  <1>3. CASE UNCHANGED op
    BY <1>1, <1>2, <1>3, SpoiledStays DEF OneAtATime
  <1>4. CASE op' # op
    <2>1. /\ Take(f) /\ task[f].pc = "err" /\ op.error = "none"
          /\ op' = [op EXCEPT !.error = task[f].error, !.cancelled = TRUE]
      BY <1>4 DEF FileStep, Cancelled, Reuse, Rehash, Attempt, Respond, Report, Open, Receive,
            Hash, Publish, Rename, Take, LateRename, Step, At
    <2>2. /\ op'.on = op.on /\ op'.returned = op.returned /\ op'.cancelled
          /\ op'.error = task[f].error /\ spoiled' = spoiled
      BY <1>1, <2>1 DEF Take, Quietly
    <2> QED BY <1>1, <1>2, <2>1, <2>2 DEF OneAtATime, ResumeInv
  <1> QED BY <1>3, <1>4

(* The steps of the whole operation, when none begins beside a worker that *)
(* is left: in particular what is found in the directory is accepted.      *)
LEMMA AcceptWhole ==
    ASSUME Overlap = FALSE, AcceptInv,
           Begin \/ Return \/ CallerCancels \/ DropFuture \/ Die \/ Discard
    PROVE  OneAtATime' /\ \A f \in Files : ResumeInv(f)'
  <1>1. /\ OneAtATime /\ ShapeOK /\ IdleInv
        /\ op \in [on : BOOLEAN, cancelled : BOOLEAN, error : Errors, returned : BOOLEAN]
    BY DEF AcceptInv, VerifyInv, ShapeOK
  <1>2. \A f \in Files : ResumeInv(f)
    BY DEF AcceptInv
  <1>3. ASSUME UNCHANGED <<part, dest, reported, spoiled>>, NEW f \in Files,
               task'[f].pc \in {"gone", "queued", "reuse"} \/ task'[f] = task[f]
        PROVE  ResumeInv(f)'
    BY <1>2, <1>3 DEF ResumeInv, Active
  <1>4. CASE Begin
    <2>1. Acceptable
      BY <1>2 DEF Acceptable, ResumeInv
    <2>2. PICK first \in SUBSET Files : task' = Admitted(first)
      BY <1>4, <2>1 DEF Begin
    <2>3. \A f \in Files : task'[f].pc \in {"queued", "reuse"}
      BY <2>2 DEF Admitted, Queued
    <2>4. /\ op' = [on |-> TRUE, cancelled |-> FALSE, error |-> "none", returned |-> FALSE]
          /\ late = {} /\ UNCHANGED <<part, dest, reported, spoiled, late>>
      BY <1>4, <2>1 DEF Begin, SameFiles, Quietly
    <2> QED BY <1>3, <2>3, <2>4 DEF OneAtATime
  <1>5. CASE Return
    <2>1. \A f \in Files : task'[f].pc = "gone"
      BY <1>5 DEF Return, Gone, Queued
    <2>2. /\ op'.on = FALSE /\ op'.error = op.error /\ op.on
          /\ UNCHANGED <<part, dest, reported, spoiled, late>>
      BY <1>1, <1>5 DEF Return, SameFiles, Quietly
    <2> QED BY <1>1, <1>3, <2>1, <2>2 DEF OneAtATime
  <1>6. CASE CallerCancels
    <2>1. /\ op'.on = op.on /\ op'.error = op.error /\ op'.returned = op.returned /\ op'.cancelled
          /\ UNCHANGED <<part, dest, reported, spoiled, late, task>>
      BY <1>1, <1>6 DEF CallerCancels, SameFiles
    <2> QED BY <1>1, <1>3, <2>1 DEF OneAtATime
  <1>7. CASE DropFuture \/ Die
    <2>1. /\ op' = [on |-> FALSE, cancelled |-> TRUE, error |-> "cancelled", returned |-> FALSE]
          /\ UNCHANGED <<part, dest, reported, spoiled>>
          /\ \A f \in Files : task'[f].pc = "gone"
      BY <1>7 DEF DropFuture, Die, Drop, Gone, Queued
    <2> QED BY <1>3, <2>1 DEF OneAtATime
  <1>8. CASE Discard
    <2>1. op'.error = "none" /\ late' = {}
      BY <1>1, <1>8 DEF Discard
    <2>2. ASSUME NEW f \in Files PROVE ResumeInv(f)'
      <3>1. part'[f] = None /\ dest'[f] = None /\ reported'[f] = 0 /\ task'[f].pc = "gone"
        BY <1>1, <1>8 DEF Discard, IdleInv
      <3> QED BY <3>1 DEF ResumeInv, None, Active
    <2> QED BY <2>1, <2>2 DEF OneAtATime
  <1> QED BY <1>4, <1>5, <1>6, <1>7, <1>8

(* The invariant of resumption is inductive.                               *)
LEMMA AcceptInit == Init => AcceptInv
  <1> SUFFICES ASSUME Init PROVE AcceptInv
    OBVIOUS
  <1>1. \A f \in Files : ResumeInv(f)
    BY DEF Init, ResumeInv, None, Gone, Queued, Active
  <1>2. OneAtATime
    BY DEF Init, OneAtATime
  <1> QED BY <1>1, <1>2, VerifyInit DEF AcceptInv

(* AcceptInv is inductive when no two downloads of one snapshot overlap. *)
LEMMA AcceptStep == Overlap = FALSE /\ AcceptInv /\ [Next]_vars => AcceptInv'
  <1> SUFFICES ASSUME Overlap = FALSE, AcceptInv, [Next]_vars PROVE AcceptInv'
    OBVIOUS
  <1>1. VerifyInv'
    BY VerifyStep DEF AcceptInv
  <1>2. ASSUME NEW f \in Files, FileStep(f) PROVE OneAtATime' /\ \A g \in Files : ResumeInv(g)'
    BY <1>2, AloneFileStep, OthersResume, OwnResumes
  <1>3. CASE UNCHANGED vars
    BY <1>1, <1>3 DEF vars, AcceptInv, OneAtATime, ResumeInv
  <1>4. OneAtATime' /\ \A g \in Files : ResumeInv(g)'
    BY <1>2, <1>3, AcceptWhole DEF Next, AcceptInv
  <1> QED BY <1>1, <1>4 DEF AcceptInv

(* As long as an operation waits for the workers of the one it follows,    *)
(* cancellation, drops, crashes and retries leave a directory that the     *)
(* next operation accepts, and that holds at least what observers were     *)
(* told (download_attempt, validate_download_staging, open_partial).       *)
THEOREM LeftoversAreResumable == Overlap = FALSE => (Spec => []LeftoversResume)
  <1> SUFFICES ASSUME Overlap = FALSE PROVE Spec => []LeftoversResume
    OBVIOUS
  <1>1. AcceptInv => LeftoversResume
    BY DEF AcceptInv, OneAtATime, ResumeInv, LeftoversResume, ReportedIsPersisted, LeftoversAreAccepted
  <1>2. AcceptInv /\ [Next]_vars => AcceptInv'
    BY AcceptStep
  <1> QED BY <1>1, <1>2, AcceptInit, PTL DEF Spec

(* A file in work after the first error stands still until the scheduler   *)
(* has taken it, and the directory is quiet once download has returned.    *)
THEOREM FirstErrorDrains == Overlap = FALSE => (Spec => ErrorsDrain)
  <1> SUFFICES ASSUME Overlap = FALSE PROVE Spec => ErrorsDrain
    OBVIOUS
  <1> DEFINE Stops == \A f \in Files : op.on /\ op.error # "none" /\ task'[f].pc \in Active => task'[f] = task[f]
             Quiet == ~op.on /\ op.returned /\ ~op'.on /\ op'.returned => UNCHANGED <<part, dest>>
  <1>1. AcceptInv /\ [Next]_vars => AcceptInv'
    BY AcceptStep
  <1>2. AcceptInv /\ [Next]_vars => [Stops]_vars
    <2> SUFFICES ASSUME AcceptInv, Next, op.on, op.error # "none", NEW g \in Files,
                        task'[g].pc \in Active
                 PROVE  task'[g] = task[g]
      BY DEF vars
    <2>1. op.cancelled /\ ShapeOK /\ FilesInv
      BY DEF AcceptInv, OneAtATime, VerifyInv
    <2>2. ASSUME NEW f \in Files, FileStep(f) PROVE task'[g] = task[g]
      <3>1. CASE g # f
        BY <2>1, <2>2, <3>1, OtherFiles
      <3>2. CASE g = f
        <4>1. Cancelled(f) \/ Rename(f) \/ Take(f) \/ LateRename(f)
          BY <2>1, <2>2 DEF FileStep, Reuse, Rehash, Attempt, Respond, Report, Open, Receive,
                Hash, Publish, Step
        <4>2. task \in [Files -> Task] /\ {"ok", "err"} \subseteq Pcs /\ {"cancelled", "terminal"} \subseteq Errors
          BY <2>1 DEF ShapeOK, Pcs, Errors
        <4>3. UNCHANGED task \/ task'[f].pc \in {"ok", "err", "gone"}
          <5>1. CASE Cancelled(f) \/ Rename(f)
            BY <4>2, <5>1, Moves DEF Cancelled, Rename
          <5>2. CASE Take(f)
            BY <4>2, <5>2 DEF Take, Gone, Queued
          <5>3. CASE LateRename(f)
            BY <5>3 DEF LateRename
          <5> QED BY <4>1, <5>1, <5>2, <5>3
        <4> QED BY <3>2, <4>3 DEF Active
      <3> QED BY <3>1, <3>2
    <2>3. CASE Begin \/ Discard
      BY <2>3 DEF Begin, Discard
    <2>4. CASE Return \/ DropFuture \/ Die
      BY <2>4 DEF Return, DropFuture, Die, Drop, Gone, Queued, Active
    <2>5. CASE CallerCancels
      BY <2>1, <2>5 DEF CallerCancels
    <2> QED BY <2>2, <2>3, <2>4, <2>5 DEF Next
  <1>3. AcceptInv /\ [Next]_vars => [Quiet]_vars
    <2> SUFFICES ASSUME AcceptInv, Next, ~op.on, op.returned, ~op'.on, op'.returned
                 PROVE  UNCHANGED <<part, dest>>
      BY DEF vars
    <2>1. late = {} /\ IdleInv /\ ShapeOK
      BY DEF AcceptInv, OneAtATime, VerifyInv
    <2>2. ASSUME NEW f \in Files, FileStep(f) PROVE UNCHANGED <<part, dest>>
      BY <2>1, <2>2 DEF FileStep, Cancelled, Reuse, Rehash, Attempt, Respond, Report, Open, Receive,
            Hash, Publish, Rename, Take, LateRename, Step
    <2>3. CASE Discard
      BY <2>1, <2>3 DEF Discard, ShapeOK
    <2> QED BY <2>2, <2>3 DEF Next, Begin, Return, CallerCancels, DropFuture, Die, Drop, SameFiles
  <1>4. Spec => [][Stops]_vars
    BY <1>1, <1>2, AcceptInit, PTL DEF Spec
  <1>5. Spec => [][Quiet]_vars
    BY <1>1, <1>3, AcceptInit, PTL DEF Spec
  <1> QED BY <1>4, <1>5 DEF ErrorsDrain, ErrorStopsOthers, ReturnedIsQuiet

-----------------------------------------------------------------------------
(* The mutating tools.                                                     *)

Steps == {"idle", "open", "create", "fill", "install", "verify", "unlink", "rollback", "drop",
          "sync", "done", "dead"}
(* A change is named by the mutation, or by the number of the save.        *)
Changes == Mutators \cup Nat
TextRec == [whole : BOOLEAN, has : SUBSET Changes]
WorkRec == [pc : Steps, op : {"write", "edit"}, open : {0} \cup Tools!Inodes, seen : SUBSET Changes,
            took : SUBSET Changes, outcome : {"none", "ok", "failed", "refused"}]

(* The types of the mutating tools' state.                                 *)
FilesType ==
    /\ entry \in [Tools!Names -> {0} \cup Tools!Inodes]
    /\ text \in [Tools!Inodes -> TextRec]
    /\ mut \in [Mutators -> WorkRec]
    /\ caller \in [Mutators -> {"none", "waiting", "over"}]
    /\ racers \in 0..MaxRacers /\ exposed \subseteq Changes

(* A save that may go: nothing protects it, or a mutation had read it.     *)
Covered(v) == v \in exposed \/ \E x \in Mutators : v \in mut[x].seen
CoveredIn(S) == \A v \in S : v \in Nat => Covered(v)

(* What the worker of m knows.                                             *)
WorkInv(m) ==
    LET k == mut[m] IN
    /\ k.pc \in {"idle", "open", "create", "sync"} => entry[m] = 0
    /\ k.pc \in {"fill", "install", "verify", "unlink", "rollback", "drop"} => entry[m] # 0
    /\ k.pc \in {"idle", "open", "create", "fill", "install"} => k.took = {}
    /\ k.pc \in {"idle", "open"} => k.seen = {}
    /\ k.pc \in {"idle", "open", "done", "dead"} => k.open = 0
    /\ k.pc \notin {"idle", "open", "done", "dead"} =>
          /\ k.open = 0 => k.seen = {}
          /\ k.open # 0 => text[k.open].has = k.seen
    /\ k.pc = "fill" => text[entry[m]].has = {}
    /\ k.pc = "install" => text[entry[m]].whole /\ text[entry[m]].has \subseteq {m} \cup k.seen
    /\ k.pc \in {"verify", "rollback", "unlink"} =>
          text[entry[m]].whole /\ text[entry[m]].has = k.took
    /\ k.pc = "verify" => k.open # 0
    /\ k.pc \in {"unlink", "sync"} => k.took = k.seen
    /\ k.outcome = "ok" => k.took = k.seen
    /\ k.pc \notin {"done", "dead"} => k.outcome = "none"
    /\ k.pc = "drop" => CoveredIn(text[entry[m]].has)
    /\ k.pc = "idle" => caller[m] = "none"
    /\ caller[m] = "over" => k.pc \in {"done", "dead"}

(* No two names lead to one inode, and nobody has read a file that is      *)
(* still to be filled.                                                     *)
DistinctInv == \A n, o \in Tools!Names : n # o /\ entry[n] # 0 => entry[n] # entry[o]
FreshInv == \A m, x \in Mutators : Tools!At(m, "fill") /\ Tools!Open(x) => mut[x].open # entry[m]

(* Between a swap and the look at what was swapped out, what the name of   *)
(* the file leads to may be thrown away; of two that are there at once,    *)
(* either may be given back what the other took.                           *)
SwapInv ==
    /\ Tools!Swapping # {} /\ entry[Target] # 0 => CoveredIn(text[entry[Target]].has)
    /\ \A m, x \in Tools!Swapping : m # x => CoveredIn(mut[m].took)

Named(v) == \E n \in Tools!Names : entry[n] # 0 /\ v \in text[entry[n]].has
KeptInv == \A i \in Tools!Inodes : \A v \in text[i].has : v \in Nat => Covered(v) \/ Named(v)

MutationInv ==
    /\ FilesType /\ \A m \in Mutators : WorkInv(m)
    /\ DistinctInv /\ FreshInv /\ Tools!TargetIsWhole /\ SwapInv /\ KeptInv

-----------------------------------------------------------------------------
(* Sizes are the same wherever they are taken.                             *)
LEMMA SameCardinality == \A S : Tools!Cardinality(S) = Cardinality(S)
  BY DEF Tools!Cardinality, Cardinality, Tools!IsFiniteSet, IsFiniteSet

(* There is an inode to take: names and descriptors are fewer.             *)
LEMMA FreeInodeIs ==
    ASSUME FilesType
    PROVE  Tools!FreeInode \in Tools!Inodes /\ Tools!FreeInode \notin Tools!Held
  <1> DEFINE N == Cardinality(Mutators)
             A == {entry[n] : n \in Tools!Names}
             M == {x \in Mutators : Tools!Open(x)}
             B == {mut[m].open : m \in M}
  <1>1. IsFiniteSet(Mutators) /\ N \in Nat /\ Target \notin Mutators
    BY ToolsAssumption, FS_CardinalityType
  <1>2. IsFiniteSet(Tools!Names) /\ Cardinality(Tools!Names) = N + 1
    <2>1. Tools!Names = Mutators \cup {Target}
      BY DEF Tools!Names
    <2> QED BY <1>1, <2>1, FS_AddElement
  <1>3. IsFiniteSet(M) /\ Cardinality(M) <= N
    BY <1>1, FS_Subset
  <1>4. IsFiniteSet(A) /\ Cardinality(A) <= N + 1
    <2> DEFINE f == [n \in Tools!Names |-> entry[n]]
    <2>1. f \in Surjection(Tools!Names, A)
      BY DEF Surjection
    <2> HIDE DEF f, A
    <2> QED BY <1>2, <2>1, FS_Surjection
  <1>5. IsFiniteSet(B) /\ Cardinality(B) <= N
    <2>1. IsFiniteSet(B) /\ Cardinality(B) <= Cardinality(M)
      <3> DEFINE f == [m \in M |-> mut[m].open]
      <3>1. f \in Surjection(M, B)
        BY DEF Surjection
      <3> HIDE DEF f, B, M
      <3> QED BY <1>3, <3>1, FS_Surjection
    <2>2. Cardinality(B) \in Nat /\ Cardinality(M) \in Nat
      BY <1>3, <2>1, FS_CardinalityType
    <2> QED BY <1>1, <1>3, <2>1, <2>2
  <1>6. Tools!Held = A \cup B
    BY DEF Tools!Held
  <1> HIDE DEF A, B, M, N
  <1>7. Cardinality(A) \in Nat /\ Cardinality(B) \in Nat /\ Cardinality(A \cap B) \in Nat
    <2>1. IsFiniteSet(A \cap B)
      BY <1>4, FS_Intersection
    <2> QED BY <1>4, <1>5, <2>1, FS_CardinalityType
  <1>8. IsFiniteSet(Tools!Held) /\ Cardinality(Tools!Held) <= 2 * N + 1 /\ Cardinality(Tools!Held) \in Nat
    <2>1. IsFiniteSet(Tools!Held) /\ Cardinality(Tools!Held) = Cardinality(A) + Cardinality(B) - Cardinality(A \cap B)
      BY <1>4, <1>5, <1>6, FS_Union
    <2>2. ASSUME NEW a \in Nat, NEW b \in Nat, NEW c \in Nat, NEW k \in Nat,
                 a <= k + 1, b <= k, c <= b
          PROVE  a + b - c <= 2 * k + 1 /\ a + b - c \in Nat
      BY <2>2
    <2>3. Cardinality(A \cap B) <= Cardinality(B)
      BY <1>5, FS_Subset
    <2> QED BY <1>1, <1>4, <1>5, <1>7, <2>1, <2>2, <2>3
  <1>9. IsFiniteSet(Tools!Inodes) /\ Cardinality(Tools!Inodes) = 2 * N + 2
    <2>1. Tools!Inodes = 1..(2 * N + 2)
      BY SameCardinality DEF Tools!Inodes, N
    <2>2. 1 \in Int /\ 2 * N + 2 \in Int /\ ~(1 > 2 * N + 2)
      BY <1>1
    <2>3. IsFiniteSet(1..(2 * N + 2)) /\ Cardinality(1..(2 * N + 2)) = (2 * N + 2) - 1 + 1
      BY <2>2, FS_Interval
    <2> QED BY <1>1, <2>1, <2>3
  <1>10. Tools!Inodes \ Tools!Held # {}
    <2> SUFFICES ASSUME Tools!Inodes \subseteq Tools!Held PROVE FALSE
      OBVIOUS
    <2>1. Cardinality(Tools!Inodes) <= Cardinality(Tools!Held)
      BY <1>8, FS_Subset
    <2> QED BY <1>1, <1>8, <1>9, <2>1
  <1>11. Tools!Inodes \subseteq Nat
    BY <1>1, SameCardinality DEF Tools!Inodes, N
  <1>12. PICK i \in Tools!Inodes \ Tools!Held : \A j \in Tools!Inodes \ Tools!Held : ~(<<j, i>> \in OpToRel(<, Nat))
    <2> DEFINE T == Tools!Inodes \ Tools!Held
    <2>1. T \subseteq Nat /\ T # {}
      BY <1>10, <1>11
    <2> HIDE DEF T
    <2>2. \E i \in T : \A j \in T : ~(<<j, i>> \in OpToRel(<, Nat))
      BY <2>1, WFMin, NatLessThanWellFounded
    <2> QED BY <2>2 DEF T
  <1>13. \A j \in Tools!Inodes \ Tools!Held : i <= j
    <2> SUFFICES ASSUME NEW j \in Tools!Inodes \ Tools!Held PROVE i <= j
      OBVIOUS
    <2>1. i \in Nat /\ j \in Nat
      BY <1>11, <1>12
    <2>2. ~(j < i)
      BY <1>12, <2>1 DEF OpToRel
    <2> QED BY <2>1, <2>2
  <1>14. Tools!FreeInode \in Tools!Inodes \ Tools!Held
    BY <1>12, <1>13 DEF Tools!FreeInode
  <1> QED BY <1>14

(* Only the record of m changes, and it stays a record.                    *)
Alone(m) == mut' \in [Mutators -> WorkRec] /\ \A x \in Mutators \ {m} : mut'[x] = mut[x]

(* The worker of m goes on, or ends.                                       *)
Went(m, pc) ==
    /\ mut'[m].pc = pc /\ mut'[m].op = mut[m].op /\ mut'[m].open = mut[m].open
    /\ mut'[m].seen = mut[m].seen /\ mut'[m].took = mut[m].took /\ mut'[m].outcome = mut[m].outcome
Over(m, outcome) ==
    /\ mut'[m].pc = "done" /\ mut'[m].open = 0 /\ mut'[m].outcome = outcome
    /\ mut'[m].seen = mut[m].seen /\ mut'[m].took = mut[m].took

LEMMA GotoIs ==
    ASSUME FilesType, NEW m \in Mutators, NEW pc \in Steps, Tools!Goto(m, pc)
    PROVE  Alone(m) /\ Went(m, pc)
  <1>1. mut \in [Mutators -> WorkRec] /\ mut[m] \in WorkRec
    BY DEF FilesType
  <1>2. mut' = [mut EXCEPT ![m] = [mut[m] EXCEPT !.pc = pc]]
    BY DEF Tools!Goto
  <1>3. [mut[m] EXCEPT !.pc = pc] \in WorkRec
    BY <1>1 DEF WorkRec
  <1>4. mut'[m] = [mut[m] EXCEPT !.pc = pc]
    BY <1>1, <1>2
  <1>5. Alone(m)
    BY <1>1, <1>2, <1>3 DEF Alone
  <1> QED BY <1>1, <1>4, <1>5 DEF Went, WorkRec

LEMMA DoneIs ==
    ASSUME FilesType, NEW m \in Mutators, NEW outcome \in {"ok", "failed", "refused"}, Tools!Done(m, outcome)
    PROVE  Alone(m) /\ Over(m, outcome)
  <1>1. mut \in [Mutators -> WorkRec] /\ mut[m] \in WorkRec
    BY DEF FilesType
  <1> DEFINE k == [mut[m] EXCEPT !.pc = "done", !.outcome = outcome, !.open = 0]
  <1>2. mut' = [mut EXCEPT ![m] = k]
    BY <1>1 DEF Tools!Done
  <1>3. k \in WorkRec
    BY <1>1 DEF WorkRec, Steps
  <1>4. k.pc = "done" /\ k.open = 0 /\ k.outcome = outcome /\ k.seen = mut[m].seen /\ k.took = mut[m].took
    BY <1>1 DEF WorkRec
  <1> HIDE DEF k
  <1>5. mut'[m] = k
    BY <1>1, <1>2
  <1>6. Alone(m)
    BY <1>1, <1>2, <1>3 DEF Alone
  <1> QED BY <1>4, <1>5, <1>6 DEF Over

-----------------------------------------------------------------------------
(* What is covered stays covered.                                          *)
Grows ==
    /\ \A x \in Mutators : mut[x].seen \subseteq mut'[x].seen
    /\ exposed \subseteq exposed'

LEMMA CoverGrows ==
    ASSUME Grows
    PROVE  /\ \A v : Covered(v) => Covered(v)'
           /\ \A S : CoveredIn(S) => \A v \in S : v \in Nat => Covered(v)'
  BY DEF Grows, Covered, CoveredIn

(* A worker that is left alone, with the texts it has a name or a          *)
(* descriptor of, knows what it knew.                                      *)
Untouched(x) ==
    /\ mut'[x] = mut[x] /\ caller'[x] = caller[x] /\ entry'[x] = entry[x]
    /\ \A i \in Tools!Inodes : i = entry[x] \/ (Tools!Open(x) /\ i = mut[x].open) => text'[i] = text[i]

LEMMA UntouchedKeeps ==
    ASSUME FilesType, NEW x \in Mutators, WorkInv(x), Untouched(x), Grows
    PROVE  WorkInv(x)'
  <1>1. mut[x] \in WorkRec /\ entry[x] \in {0} \cup Tools!Inodes /\ mut[x].open \in {0} \cup Tools!Inodes
    BY DEF FilesType, WorkRec, Tools!Names
  <1>2. entry[x] # 0 => text'[entry[x]] = text[entry[x]]
    BY <1>1 DEF Untouched
  <1>3. Tools!Open(x) /\ mut[x].open # 0 => text'[mut[x].open] = text[mut[x].open]
    BY <1>1 DEF Untouched
  <1>4. mut[x].pc \in {"fill", "install", "verify", "unlink", "rollback", "drop"} =>
            text'[entry[x]] = text[entry[x]]
    BY <1>2 DEF WorkInv
  <1>5. mut[x].pc \notin {"idle", "open", "done", "dead"} /\ mut[x].open # 0 =>
            text'[mut[x].open] = text[mut[x].open]
    BY <1>3 DEF Tools!Open
  <1>6. mut[x].pc = "drop" => CoveredIn(text[entry[x]].has)'
    <2> SUFFICES ASSUME mut[x].pc = "drop", NEW v \in text[entry[x]].has, v \in Nat
                 PROVE  Covered(v)'
      BY <1>4 DEF CoveredIn, Untouched
    <2>1. CoveredIn(text[entry[x]].has)
      BY DEF WorkInv
    <2> QED BY <2>1, CoverGrows
  <1>7. mut'[x] = mut[x] /\ entry'[x] = entry[x] /\ caller'[x] = caller[x]
    BY DEF Untouched
  <1> QED BY <1>4, <1>5, <1>6, <1>7 DEF WorkInv

(* A step of m that changes no file.                                       *)
Quiet(m) ==
    /\ Alone(m) /\ UNCHANGED <<entry, text, deleted, exposed>>
    /\ caller' \in [Mutators -> {"none", "waiting", "over"}]
    /\ \A x \in Mutators \ {m} : caller'[x] = caller[x]
    /\ racers' \in 0..MaxRacers
    /\ mut[m].seen \subseteq mut'[m].seen
    /\ mut'[m].pc = "fill" => Tools!At(m, "fill")
    /\ \/ mut'[m].open = 0 \/ mut'[m].open = entry[Target]
       \/ Tools!Open(m) /\ mut'[m].open = mut[m].open
    /\ mut'[m].pc \in {"verify", "rollback"} =>
          m \in Tools!Swapping /\ mut'[m].took = mut[m].took

LEMMA QuietKeeps ==
    ASSUME MutationInv, NEW m \in Mutators, Quiet(m), WorkInv(m)'
    PROVE  MutationInv'
  <1> USE DEF Quiet
  <1>0. Target \notin Mutators /\ Target \in Tools!Names /\ Mutators \subseteq Tools!Names
    BY ToolsAssumption DEF Tools!Names
  <1>1. FilesType /\ FilesType'
    <2>1. FilesType
      BY DEF MutationInv
    <2> QED BY <2>1 DEF FilesType, Alone
  <1>2. Grows
    BY DEF Grows, Alone
  <1>3. \A x \in Mutators : WorkInv(x)'
    <2> SUFFICES ASSUME NEW x \in Mutators, x # m PROVE WorkInv(x)'
      OBVIOUS
    <2>1. Untouched(x)
      BY DEF Untouched, Alone
    <2> QED BY <1>1, <1>2, <2>1, UntouchedKeeps DEF MutationInv
  <1>4. DistinctInv'
    BY DEF MutationInv, DistinctInv
  <1>5. FreshInv'
    <2> SUFFICES ASSUME NEW y \in Mutators, NEW x \in Mutators, Tools!At(y, "fill")', Tools!Open(x)'
                 PROVE  mut'[x].open # entry[y]
      BY DEF FreshInv
    <2>1. Tools!At(y, "fill")
      BY DEF Tools!At, Alone
    <2>2. entry[y] # 0 /\ entry[y] # entry[Target]
      <3>1. entry[y] # 0
        BY <2>1 DEF Tools!At, MutationInv, WorkInv
      <3> QED BY <1>0, <3>1 DEF MutationInv, DistinctInv
    <2>3. Tools!Open(x) => mut[x].open # entry[y]
      BY <2>1 DEF MutationInv, FreshInv
    <2>4. CASE x = m
      BY <2>2, <2>3, <2>4
    <2>5. CASE x # m
      BY <2>3, <2>5 DEF Alone, Tools!Open
    <2> QED BY <2>4, <2>5
  <1>6. Tools!TargetIsWhole'
    BY DEF MutationInv, Tools!TargetIsWhole
  <1>7. \A x \in Mutators : x \in Tools!Swapping' => x \in Tools!Swapping /\ mut'[x].took = mut[x].took
    BY DEF Tools!Swapping, Tools!At, Alone
  <1>8. SwapInv'
    <2>1. ASSUME Tools!Swapping' # {}, entry[Target] # 0, NEW v \in text[entry[Target]].has, v \in Nat
          PROVE  Covered(v)'
      <3>1. Tools!Swapping # {}
        BY <1>7, <2>1 DEF Tools!Swapping
      <3>2. CoveredIn(text[entry[Target]].has)
        BY <2>1, <3>1 DEF MutationInv, SwapInv
      <3> QED BY <1>2, <2>1, <3>2, CoverGrows
    <2>2. ASSUME NEW y \in Tools!Swapping', NEW x \in Tools!Swapping', y # x, NEW v \in mut'[y].took, v \in Nat
          PROVE  Covered(v)'
      <3>1. y \in Mutators /\ x \in Mutators
        BY DEF Tools!Swapping
      <3>2. y \in Tools!Swapping /\ x \in Tools!Swapping /\ v \in mut[y].took
        BY <1>7, <2>2, <3>1
      <3>3. CoveredIn(mut[y].took)
        BY <2>2, <3>2 DEF MutationInv, SwapInv
      <3> QED BY <1>2, <2>2, <3>2, <3>3, CoverGrows
    <2> QED BY <2>1, <2>2 DEF SwapInv, CoveredIn
  <1>9. KeptInv'
    <2> SUFFICES ASSUME NEW i \in Tools!Inodes, NEW v \in text[i].has, v \in Nat
                 PROVE  Covered(v)' \/ Named(v)'
      BY DEF KeptInv
    <2>1. Covered(v) \/ Named(v)
      BY DEF MutationInv, KeptInv
    <2>2. Named(v) => Named(v)'
      BY DEF Named
    <2> QED BY <1>2, <2>1, <2>2, CoverGrows
  <1> QED BY <1>1, <1>3, <1>4, <1>5, <1>6, <1>8, <1>9 DEF MutationInv

-----------------------------------------------------------------------------
(* The steps that change no file.                                          *)

(* What MutationInv says of one worker, with its types.                    *)
LEMMA WorkerKnows ==
    ASSUME MutationInv, NEW m \in Mutators
    PROVE  /\ FilesType /\ WorkInv(m) /\ mut[m] \in WorkRec /\ mut[m].open \in {0} \cup Tools!Inodes
           /\ entry[m] \in {0} \cup Tools!Inodes /\ entry[Target] \in {0} \cup Tools!Inodes
           /\ m \in Tools!Names /\ Target \in Tools!Names /\ m # Target /\ m \notin Nat
           /\ entry[m] # 0 => entry[m] # entry[Target]
  <1>1. FilesType /\ WorkInv(m)
    BY DEF MutationInv
  <1>2. m \in Tools!Names /\ Target \in Tools!Names /\ m # Target /\ m \notin Nat
    BY ToolsAssumption DEF Tools!Names
  <1> QED BY <1>1, <1>2 DEF FilesType, WorkRec, MutationInv, DistinctInv

(* The callers and the count of a step of a worker.                        *)
LEMMA WorkIs ==
    ASSUME FilesType, UNCHANGED <<caller, racers>>
    PROVE  /\ caller' \in [Mutators -> {"none", "waiting", "over"}]
           /\ \A x \in Mutators : caller'[x] = caller[x]
           /\ racers' \in 0..MaxRacers
  BY DEF FilesType

(* A worker that ends without success leaves the files as they are.        *)
LEMMA EndsQuietly ==
    ASSUME MutationInv, NEW m \in Mutators, NEW outcome \in {"ok", "failed", "refused"},
           Tools!Done(m, outcome), UNCHANGED <<entry, text, deleted, exposed, caller, racers>>,
           outcome = "ok" => mut[m].took = mut[m].seen, Tools!At(m, "idle") => FALSE
    PROVE  MutationInv'
  <1>1. FilesType /\ WorkInv(m)
    BY WorkerKnows
  <1>2. Alone(m) /\ Over(m, outcome)
    BY <1>1, DoneIs
  <1>3. Quiet(m)
    BY <1>1, <1>2, WorkIs DEF Quiet, Over
  <1>4. WorkInv(m)'
    BY <1>1, <1>2 DEF WorkInv, Over
  <1> QED BY <1>3, <1>4, QuietKeeps

(* A worker that drops its temporary file leaves nothing in it that        *)
(* somebody may miss.                                                      *)
LEMMA DropsQuietly ==
    ASSUME MutationInv, NEW m \in Mutators, Tools!Goto(m, "drop"),
           UNCHANGED <<entry, text, deleted, exposed, caller, racers>>,
           mut[m].pc \in {"fill", "install", "unlink"}
    PROVE  MutationInv'
  <1>1. FilesType /\ WorkInv(m) /\ m \notin Nat
    BY WorkerKnows
  <1>2. Alone(m) /\ Went(m, "drop")
    BY <1>1, GotoIs DEF Steps
  <1>3. Quiet(m)
    BY <1>1, <1>2, WorkIs DEF Quiet, Went, Tools!Open
  <1>4. Grows
    BY <1>2 DEF Grows, Alone, Went
  <1>5. CoveredIn(text[entry[m]].has)'
    <2> SUFFICES ASSUME NEW v \in text[entry[m]].has, v \in Nat PROVE Covered(v)'
      BY DEF CoveredIn
    <2>1. v \in mut[m].seen
      BY <1>1 DEF WorkInv
    <2>2. Covered(v)
      BY <2>1 DEF Covered
    <2> QED BY <1>4, <2>2, CoverGrows
  <1>6. WorkInv(m)'
    BY <1>1, <1>2, <1>5 DEF WorkInv, Went
  <1> QED BY <1>3, <1>6, QuietKeeps

LEMMA InvokeKeeps ==
    ASSUME MutationInv, NEW m \in Mutators, NEW kind \in {"write", "edit"}, Tools!Invoke(m, kind)
    PROVE  MutationInv'
  <1>1. FilesType /\ WorkInv(m) /\ mut[m] \in WorkRec
    BY WorkerKnows
  <1> DEFINE k == [mut[m] EXCEPT !.pc = "open", !.op = kind]
  <1>2. mut' = [mut EXCEPT ![m] = k]
    BY <1>1 DEF Tools!Invoke, FilesType
  <1>3. k \in WorkRec
    BY <1>1 DEF WorkRec, Steps
  <1>4. /\ k.pc = "open" /\ k.open = mut[m].open /\ k.seen = mut[m].seen /\ k.took = mut[m].took
        /\ k.outcome = mut[m].outcome
    BY <1>1 DEF WorkRec
  <1> HIDE DEF k
  <1>5. Alone(m) /\ mut'[m] = k
    BY <1>1, <1>2, <1>3 DEF Alone, FilesType
  <1>6. /\ caller' \in [Mutators -> {"none", "waiting", "over"}] /\ caller'[m] = "waiting"
        /\ \A x \in Mutators \ {m} : caller'[x] = caller[x]
    BY <1>1 DEF Tools!Invoke, FilesType
  <1>7. racers' \in 0..MaxRacers
    BY <1>1, ToolsAssumption DEF Tools!Invoke, FilesType
  <1>8. mut[m].pc = "idle"
    BY DEF Tools!Invoke, Tools!At
  <1>9. mut[m].open = 0 /\ mut[m].seen = {} /\ mut[m].took = {} /\ mut[m].outcome = "none" /\ entry[m] = 0
    BY <1>1, <1>8 DEF WorkInv
  <1>10. UNCHANGED <<entry, text, deleted, exposed>>
    BY DEF Tools!Invoke, Tools!SameFiles
  <1>11. Quiet(m)
    BY <1>4, <1>5, <1>6, <1>7, <1>9, <1>10 DEF Quiet
  <1>12. WorkInv(m)'
    BY <1>4, <1>5, <1>6, <1>9, <1>10 DEF WorkInv
  <1> QED BY <1>11, <1>12, QuietKeeps

LEMMA OpenTargetKeeps ==
    ASSUME MutationInv, NEW m \in Mutators, Tools!OpenTarget(m)
    PROVE  MutationInv'
  <1>1. /\ FilesType /\ WorkInv(m) /\ mut[m] \in WorkRec /\ entry[Target] \in {0} \cup Tools!Inodes
    BY WorkerKnows
  <1> DEFINE seen == IF entry[Target] = 0 THEN {} ELSE text[entry[Target]].has
             k == [mut[m] EXCEPT !.pc = "create", !.open = entry[Target], !.seen = seen]
  <1>2. mut' = [mut EXCEPT ![m] = k]
    BY <1>1 DEF Tools!OpenTarget, FilesType
  <1>3. seen \subseteq Changes
    BY <1>1 DEF FilesType, TextRec
  <1>4. entry[Target] # 0 => text[entry[Target]].has = seen
    OBVIOUS
  <1>5. entry[Target] = 0 => seen = {}
    OBVIOUS
  <1> HIDE DEF seen
  <1>6. k \in WorkRec
    BY <1>1, <1>3 DEF WorkRec, Steps
  <1>7. /\ k.pc = "create" /\ k.open = entry[Target] /\ k.seen = seen /\ k.took = mut[m].took
        /\ k.outcome = mut[m].outcome
    BY <1>1 DEF WorkRec
  <1> HIDE DEF k
  <1>8. Alone(m) /\ mut'[m] = k
    BY <1>1, <1>2, <1>6 DEF Alone, FilesType
  <1>9. /\ mut[m].pc = "open" /\ UNCHANGED <<entry, text, deleted, exposed, caller, racers>>
    BY DEF Tools!OpenTarget, Tools!At, Tools!SameFiles, Tools!Work
  <1>10. mut[m].seen = {} /\ mut[m].took = {} /\ mut[m].outcome = "none" /\ entry[m] = 0
    BY <1>1, <1>9 DEF WorkInv
  <1>11. Quiet(m)
    BY <1>1, <1>7, <1>8, <1>9, <1>10, WorkIs DEF Quiet
  <1>12. WorkInv(m)'
    BY <1>1, <1>4, <1>5, <1>7, <1>8, <1>9, <1>10 DEF WorkInv
  <1> QED BY <1>11, <1>12, QuietKeeps

LEMMA VerifyKeeps ==
    ASSUME MutationInv, NEW m \in Mutators, Tools!Verify(m)
    PROVE  MutationInv'
  <1>1. FilesType /\ WorkInv(m) /\ mut[m] \in WorkRec
    BY WorkerKnows
  <1>2. mut[m].pc = "verify" /\ UNCHANGED <<entry, text, deleted, exposed, caller, racers>>
    BY DEF Tools!Verify, Tools!At, Tools!SameFiles, Tools!Work
  <1>3. CASE entry[m] = mut[m].open /\ Tools!Goto(m, "unlink")
    <2>1. Alone(m) /\ Went(m, "unlink")
      BY <1>1, <1>3, GotoIs DEF Steps
    <2>2. Quiet(m)
      BY <1>1, <1>2, <2>1, WorkIs DEF Quiet, Went, Tools!Open
    <2>3. mut[m].took = mut[m].seen
      BY <1>1, <1>2, <1>3 DEF WorkInv
    <2>4. WorkInv(m)'
      BY <1>1, <1>2, <1>3, <2>1, <2>3 DEF WorkInv, Went
    <2> QED BY <2>2, <2>4, QuietKeeps
  <1>4. CASE Tools!Goto(m, "rollback")
    <2>1. Alone(m) /\ Went(m, "rollback")
      BY <1>1, <1>4, GotoIs DEF Steps
    <2>2. Quiet(m)
      BY <1>1, <1>2, <2>1, WorkIs DEF Quiet, Went, Tools!Open, Tools!Swapping, Tools!At
    <2>3. WorkInv(m)'
      BY <1>1, <1>2, <2>1 DEF WorkInv, Went
    <2> QED BY <2>2, <2>3, QuietKeeps
  <1> QED BY <1>3, <1>4 DEF Tools!Verify

LEMMA CrashKeeps ==
    ASSUME MutationInv, NEW m \in Mutators, Tools!Crash(m)
    PROVE  MutationInv'
  <1>1. FilesType /\ WorkInv(m) /\ mut[m] \in WorkRec
    BY WorkerKnows
  <1> DEFINE k == [mut[m] EXCEPT !.pc = "dead", !.open = 0]
  <1>2. mut' = [mut EXCEPT ![m] = k]
    BY <1>1 DEF Tools!Crash, FilesType
  <1>3. k \in WorkRec
    BY <1>1 DEF WorkRec, Steps
  <1>4. /\ k.pc = "dead" /\ k.open = 0 /\ k.seen = mut[m].seen /\ k.took = mut[m].took
        /\ k.outcome = mut[m].outcome
    BY <1>1 DEF WorkRec
  <1> HIDE DEF k
  <1>5. Alone(m) /\ mut'[m] = k
    BY <1>1, <1>2, <1>3 DEF Alone, FilesType
  <1>6. /\ caller' \in [Mutators -> {"none", "waiting", "over"}] /\ racers' \in 0..MaxRacers
        /\ \A x \in Mutators \ {m} : caller'[x] = caller[x]
    BY <1>1 DEF Tools!Crash, FilesType
  <1>7. UNCHANGED <<entry, text, deleted, exposed>>
    BY DEF Tools!Crash, Tools!SameFiles
  <1>8. Quiet(m)
    BY <1>4, <1>5, <1>6, <1>7 DEF Quiet
  <1>9. WorkInv(m)'
    BY <1>1, <1>4, <1>5, <1>7 DEF WorkInv
  <1> QED BY <1>8, <1>9, QuietKeeps

LEMMA ReturnsKeeps ==
    ASSUME MutationInv, NEW m \in Mutators, Tools!Returns(m)
    PROVE  MutationInv'
  <1>1. FilesType /\ WorkInv(m) /\ mut[m] \in WorkRec
    BY WorkerKnows
  <1>2. mut[m].pc = "done" /\ UNCHANGED <<entry, text, mut, deleted, exposed>>
    BY DEF Tools!Returns, Tools!At
  <1>3. /\ caller' \in [Mutators -> {"none", "waiting", "over"}] /\ racers' \in 0..MaxRacers
        /\ \A x \in Mutators \ {m} : caller'[x] = caller[x]
    BY <1>1 DEF Tools!Returns, FilesType
  <1>4. Alone(m)
    BY <1>1, <1>2 DEF Alone, FilesType
  <1>5. mut[m].open = 0
    BY <1>1, <1>2 DEF WorkInv
  <1>6. Quiet(m)
    BY <1>2, <1>3, <1>4, <1>5 DEF Quiet
  <1>7. WorkInv(m)'
    BY <1>1, <1>2 DEF WorkInv
  <1> QED BY <1>6, <1>7, QuietKeeps

-----------------------------------------------------------------------------
(* The steps that change a file.                                           *)

(* A step of m alone that moves files between the name of m and the name   *)
(* of the target, or takes one of them away.                               *)
Renames(m) ==
    /\ Alone(m) /\ UNCHANGED <<text, caller, racers>>
    /\ entry' \in [Tools!Names -> {0} \cup Tools!Inodes]
    /\ \A x \in Mutators \ {m} : entry'[x] = entry[x]
    /\ mut'[m].seen = mut[m].seen
    /\ mut'[m].pc # "fill"
    /\ mut'[m].open = 0 \/ (Tools!Open(m) /\ mut'[m].open = mut[m].open)
    /\ exposed \subseteq exposed' /\ exposed' \subseteq Changes

LEMMA RenamesKeep ==
    ASSUME MutationInv, NEW m \in Mutators, Renames(m), WorkInv(m)', DistinctInv', Tools!TargetIsWhole', SwapInv',
           \A n \in {m, Target} : entry[n] # 0 =>
              \A v \in text[entry[n]].has : v \in Nat => Covered(v) \/ Covered(v)' \/ Named(v)'
    PROVE  MutationInv'
  <1> USE DEF Renames
  <1>0. Tools!Names = {Target} \cup Mutators
    BY DEF Tools!Names
  <1>1. FilesType /\ FilesType'
    <2>1. FilesType
      BY DEF MutationInv
    <2> QED BY <2>1 DEF FilesType, Alone
  <1>2. Grows
    BY DEF Grows, Alone
  <1>3. \A x \in Mutators : WorkInv(x)'
    <2> SUFFICES ASSUME NEW x \in Mutators, x # m PROVE WorkInv(x)'
      OBVIOUS
    <2>1. Untouched(x)
      BY DEF Untouched, Alone
    <2> QED BY <1>1, <1>2, <2>1, UntouchedKeeps DEF MutationInv
  <1>4. FreshInv'
    <2> SUFFICES ASSUME NEW y \in Mutators, NEW x \in Mutators, Tools!At(y, "fill")', Tools!Open(x)'
                 PROVE  mut'[x].open # entry'[y]
      BY DEF FreshInv
    <2>1. y # m /\ Tools!At(y, "fill") /\ entry'[y] = entry[y]
      BY DEF Tools!At, Alone
    <2>2. entry[y] # 0
      BY <2>1 DEF Tools!At, MutationInv, WorkInv
    <2>3. Tools!Open(x) => mut[x].open # entry[y]
      BY <2>1 DEF MutationInv, FreshInv
    <2>4. CASE x = m
      BY <2>1, <2>2, <2>3, <2>4
    <2>5. CASE x # m
      BY <2>1, <2>3, <2>5 DEF Alone, Tools!Open
    <2> QED BY <2>4, <2>5
  <1>5. KeptInv'
    <2> SUFFICES ASSUME NEW i \in Tools!Inodes, NEW v \in text[i].has, v \in Nat
                 PROVE  Covered(v)' \/ Named(v)'
      BY DEF KeptInv
    <2>1. CASE Covered(v)
      BY <1>2, <2>1, CoverGrows
    <2>2. CASE \E n \in Tools!Names : entry[n] # 0 /\ v \in text[entry[n]].has
      <3>1. PICK n \in Tools!Names : entry[n] # 0 /\ v \in text[entry[n]].has
        BY <2>2
      <3>2. CASE n \in {m, Target}
        BY <1>2, <3>1, <3>2, CoverGrows
      <3>3. CASE n \notin {m, Target}
        <4>1. n \in Mutators /\ entry'[n] = entry[n]
          BY <1>0, <3>3
        <4> QED BY <1>0, <3>1, <4>1 DEF Named
      <3> QED BY <3>2, <3>3
    <2>3. Covered(v) \/ Named(v)
      BY DEF MutationInv, KeptInv
    <2> QED BY <2>1, <2>2, <2>3 DEF Named
  <1> QED BY <1>1, <1>3, <1>4, <1>5 DEF MutationInv

(* The swap of the two names.                                              *)
LEMMA SwappedIs ==
    ASSUME MutationInv, NEW m \in Mutators, entry' = Tools!Swapped(m)
    PROVE  /\ entry' \in [Tools!Names -> {0} \cup Tools!Inodes] /\ DistinctInv'
           /\ entry'[m] = entry[Target] /\ entry'[Target] = entry[m]
           /\ \A x \in Mutators \ {m} : entry'[x] = entry[x]
  <1>1. FilesType /\ m \in Tools!Names /\ Target \in Tools!Names /\ m # Target
    BY WorkerKnows
  <1>2. entry \in [Tools!Names -> {0} \cup Tools!Inodes] /\ Mutators \subseteq Tools!Names
    BY <1>1 DEF FilesType, Tools!Names
  <1>3. /\ entry' \in [Tools!Names -> {0} \cup Tools!Inodes]
        /\ entry'[m] = entry[Target] /\ entry'[Target] = entry[m]
        /\ \A n \in Tools!Names \ {m, Target} : entry'[n] = entry[n]
    BY <1>1, <1>2 DEF Tools!Swapped
  <1>4. DistinctInv'
    <2> SUFFICES ASSUME NEW n \in Tools!Names, NEW o \in Tools!Names, n # o, entry'[n] # 0
                 PROVE  entry'[n] # entry'[o]
      BY DEF DistinctInv
    <2>1. \A a, b \in Tools!Names : a # b /\ entry[a] # 0 => entry[a] # entry[b]
      BY DEF MutationInv, DistinctInv
    <2> QED BY <1>1, <1>2, <1>3, <2>1
  <1>5. Target \notin Mutators
    BY ToolsAssumption
  <1> QED BY <1>2, <1>3, <1>4, <1>5

(* The target takes over the file of m.                                    *)
LEMMA ExclusiveIs ==
    ASSUME MutationInv, NEW m \in Mutators, entry' = [Tools!Swapped(m) EXCEPT ![m] = 0]
    PROVE  /\ entry' \in [Tools!Names -> {0} \cup Tools!Inodes] /\ DistinctInv'
           /\ entry'[m] = 0 /\ entry'[Target] = entry[m]
           /\ \A x \in Mutators \ {m} : entry'[x] = entry[x]
  <1>1. FilesType /\ m \in Tools!Names /\ Target \in Tools!Names /\ m # Target
    BY WorkerKnows
  <1>2. entry \in [Tools!Names -> {0} \cup Tools!Inodes] /\ Mutators \subseteq Tools!Names
    BY <1>1 DEF FilesType, Tools!Names
  <1>3. /\ entry' \in [Tools!Names -> {0} \cup Tools!Inodes]
        /\ entry'[m] = 0 /\ entry'[Target] = entry[m]
        /\ \A n \in Tools!Names \ {m, Target} : entry'[n] = entry[n]
    BY <1>1, <1>2 DEF Tools!Swapped
  <1>4. DistinctInv'
    <2> SUFFICES ASSUME NEW n \in Tools!Names, NEW o \in Tools!Names, n # o, entry'[n] # 0
                 PROVE  entry'[n] # entry'[o]
      BY DEF DistinctInv
    <2>1. \A a, b \in Tools!Names : a # b /\ entry[a] # 0 => entry[a] # entry[b]
      BY DEF MutationInv, DistinctInv
    <2> QED BY <1>1, <1>2, <1>3, <2>1
  <1>5. Target \notin Mutators
    BY ToolsAssumption
  <1> QED BY <1>2, <1>3, <1>4, <1>5

(* A name is taken away.                                                   *)
LEMMA ClearedIs ==
    ASSUME MutationInv, NEW m \in Tools!Names, entry' = [entry EXCEPT ![m] = 0]
    PROVE  /\ entry' \in [Tools!Names -> {0} \cup Tools!Inodes] /\ DistinctInv'
           /\ entry'[m] = 0 /\ \A x \in Tools!Names \ {m} : entry'[x] = entry[x]
  <1>1. entry \in [Tools!Names -> {0} \cup Tools!Inodes]
    BY DEF FilesType, MutationInv
  <1>2. /\ entry' \in [Tools!Names -> {0} \cup Tools!Inodes]
        /\ entry'[m] = 0 /\ \A x \in Tools!Names \ {m} : entry'[x] = entry[x]
    BY <1>1
  <1>3. DistinctInv'
    <2> SUFFICES ASSUME NEW n \in Tools!Names, NEW o \in Tools!Names, n # o, entry'[n] # 0
                 PROVE  entry'[n] # entry'[o]
      BY DEF DistinctInv
    <2>1. \A a, b \in Tools!Names : a # b /\ entry[a] # 0 => entry[a] # entry[b]
      BY DEF MutationInv, DistinctInv
    <2> QED BY <1>2, <2>1
  <1> QED BY <1>2, <1>3

-----------------------------------------------------------------------------
(* What two names that were exchanged led to has a name still.             *)
LEMMA SwapNames ==
    ASSUME MutationInv, NEW m \in Mutators, UNCHANGED text,
           entry'[Target] = entry[m], entry'[m] = entry[Target] \/ entry[Target] = 0
    PROVE  \A n \in {m, Target} : entry[n] # 0 => \A v \in text[entry[n]].has : Named(v)'
  <1>1. m \in Tools!Names /\ Target \in Tools!Names
    BY WorkerKnows
  <1> SUFFICES ASSUME NEW n \in {m, Target}, entry[n] # 0, NEW v \in text[entry[n]].has
               PROVE  \E o \in Tools!Names : entry'[o] # 0 /\ v \in text[entry'[o]].has
    BY DEF Named
  <1>2. CASE n = m
    BY <1>1, <1>2
  <1>3. CASE n = Target
    BY <1>1, <1>3
  <1> QED BY <1>2, <1>3

(* The swap of Install.                                                    *)
LEMMA SwapInKeeps ==
    ASSUME MutationInv, NEW m \in Mutators, Tools!At(m, "install"), mut[m].open # 0, entry[Target] # 0,
           entry' = Tools!Swapped(m), UNCHANGED <<text, deleted, caller, racers>>,
           mut' = [mut EXCEPT ![m].pc = "verify", ![m].took = text[entry[Target]].has],
           exposed' = exposed \cup UNION {mut[x].took : x \in Tools!Swapping}
    PROVE  MutationInv'
  <1>1. /\ FilesType /\ WorkInv(m) /\ mut[m] \in WorkRec /\ mut[m].open \in {0} \cup Tools!Inodes
        /\ entry[Target] \in {0} \cup Tools!Inodes /\ m \notin Nat
    BY WorkerKnows
  <1>2. mut[m].pc = "install"
    BY DEF Tools!At
  <1>3. /\ entry' \in [Tools!Names -> {0} \cup Tools!Inodes] /\ DistinctInv'
        /\ entry'[m] = entry[Target] /\ entry'[Target] = entry[m]
        /\ \A x \in Mutators \ {m} : entry'[x] = entry[x]
    BY SwappedIs
  <1> DEFINE k == [mut[m] EXCEPT !.pc = "verify", !.took = text[entry[Target]].has]
  <1>4. mut' = [mut EXCEPT ![m] = k]
    BY <1>1 DEF FilesType
  <1>5. k \in WorkRec
    BY <1>1 DEF WorkRec, Steps, FilesType, TextRec
  <1>6. /\ k.pc = "verify" /\ k.open = mut[m].open /\ k.seen = mut[m].seen
        /\ k.took = text[entry[Target]].has /\ k.outcome = mut[m].outcome
    BY <1>1 DEF WorkRec
  <1> HIDE DEF k
  <1>7. Alone(m) /\ mut'[m] = k
    BY <1>1, <1>4, <1>5 DEF Alone, FilesType
  <1>8. exposed' \subseteq Changes
    BY <1>1 DEF FilesType, WorkRec, Tools!Swapping
  <1>9. Renames(m)
    BY <1>1, <1>2, <1>3, <1>6, <1>7, <1>8 DEF Renames, Tools!Open
  <1>10. Grows
    BY <1>6, <1>7 DEF Grows, Alone
  <1>11. text[entry[Target]].whole
    BY DEF MutationInv, Tools!TargetIsWhole
  <1>12. WorkInv(m)'
    <2>1. text'[entry'[m]] = text[entry[Target]] /\ text'[mut[m].open] = text[mut[m].open]
      BY <1>3
    <2>2. caller'[m] # "over" /\ entry'[m] # 0
      BY <1>1, <1>2, <1>3 DEF WorkInv
    <2> QED BY <1>1, <1>2, <1>6, <1>7, <1>11, <2>1, <2>2 DEF WorkInv
  <1>13. entry[m] # 0 /\ text[entry[m]].whole /\ text[entry[m]].has \subseteq {m} \cup mut[m].seen
    BY <1>1, <1>2 DEF WorkInv
  <1>14. Tools!TargetIsWhole'
    BY <1>3, <1>13 DEF Tools!TargetIsWhole
  <1>15. SwapInv'
    <2>1. ASSUME NEW v \in text[entry'[Target]].has, v \in Nat
          PROVE  Covered(v)'
      <3>1. v \in mut[m].seen
        BY <1>1, <1>3, <1>13, <2>1
      <3> QED BY <1>6, <1>7, <3>1 DEF Covered
    <2>2. ASSUME NEW y \in Tools!Swapping', NEW x \in Tools!Swapping', y # x, NEW v \in mut'[y].took, v \in Nat
          PROVE  Covered(v)'
      <3>1. y \in Mutators /\ x \in Mutators
        BY DEF Tools!Swapping
      <3>2. \A z \in Mutators : z # m /\ z \in Tools!Swapping' => z \in Tools!Swapping /\ mut'[z] = mut[z]
        BY <1>7 DEF Tools!Swapping, Tools!At, Alone
      <3>3. CASE y # m
        <4>1. y \in Tools!Swapping /\ v \in mut[y].took
          BY <2>2, <3>1, <3>2, <3>3
        <4> QED BY <4>1 DEF Covered
      <3>4. CASE y = m
        <4>1. Tools!Swapping # {}
          BY <2>2, <3>1, <3>2, <3>4
        <4>2. CoveredIn(text[entry[Target]].has)
          BY <4>1 DEF MutationInv, SwapInv
        <4>3. v \in text[entry[Target]].has
          BY <1>6, <1>7, <2>2, <3>4
        <4> QED BY <1>10, <2>2, <4>2, <4>3, CoverGrows
      <3> QED BY <3>3, <3>4
    <2> QED BY <2>1, <2>2 DEF SwapInv, CoveredIn
  <1>16. \A n \in {m, Target} : entry[n] # 0 => \A v \in text[entry[n]].has : Named(v)'
    BY <1>3, SwapNames
  <1> QED BY <1>3, <1>9, <1>12, <1>14, <1>15, <1>16, RenamesKeep

(* Only workers that were swapping still are, with what they took.         *)
LEMMA SwapsShrink ==
    ASSUME MutationInv, NEW m \in Mutators, Alone(m), mut'[m].pc \notin {"verify", "rollback"}
    PROVE  /\ Tools!Swapping' \subseteq Tools!Swapping \ {m}
           /\ \A x \in Tools!Swapping' : mut'[x] = mut[x]
  BY DEF Alone, Tools!Swapping, Tools!At

(* SwapInv after a step of a worker that does not swap.                    *)
LEMMA SwapInvKeeps ==
    ASSUME MutationInv, NEW m \in Mutators, Alone(m), mut'[m].pc \notin {"verify", "rollback"}, Grows,
           Tools!Swapping' # {} /\ entry'[Target] # 0 => \A v \in text'[entry'[Target]].has : v \in Nat => Covered(v)'
    PROVE  SwapInv'
  <1>1. /\ Tools!Swapping' \subseteq Tools!Swapping \ {m}
        /\ \A x \in Tools!Swapping' : mut'[x] = mut[x]
    BY SwapsShrink
  <1>2. ASSUME NEW y \in Tools!Swapping', NEW x \in Tools!Swapping', y # x, NEW v \in mut'[y].took, v \in Nat
        PROVE  Covered(v)'
    <2>1. CoveredIn(mut[y].took)
      BY <1>1, <1>2 DEF MutationInv, SwapInv
    <2> QED BY <1>1, <1>2, <2>1, CoverGrows
  <1> QED BY <1>2 DEF SwapInv, CoveredIn

(* Install without a file to replace.                                      *)
LEMMA ExclusiveKeeps ==
    ASSUME MutationInv, NEW m \in Mutators, Tools!At(m, "install"), mut[m].open = 0, entry[Target] = 0,
           entry' = [Tools!Swapped(m) EXCEPT ![m] = 0], Tools!Goto(m, "sync"),
           UNCHANGED <<text, deleted, exposed, caller, racers>>
    PROVE  MutationInv'
  <1>1. FilesType /\ WorkInv(m) /\ m \notin Nat
    BY WorkerKnows
  <1>2. mut[m].pc = "install"
    BY DEF Tools!At
  <1>3. /\ entry' \in [Tools!Names -> {0} \cup Tools!Inodes] /\ DistinctInv'
        /\ entry'[m] = 0 /\ entry'[Target] = entry[m]
        /\ \A x \in Mutators \ {m} : entry'[x] = entry[x]
    BY ExclusiveIs
  <1>4. Alone(m) /\ Went(m, "sync")
    BY <1>1, GotoIs DEF Steps
  <1>5. Renames(m)
    BY <1>1, <1>2, <1>3, <1>4 DEF Renames, Tools!Open, Went, FilesType
  <1>6. Grows
    BY <1>4 DEF Grows, Alone, Went
  <1>7. /\ entry[m] # 0 /\ text[entry[m]].whole /\ text[entry[m]].has \subseteq {m} \cup mut[m].seen
        /\ mut[m].took = {} /\ mut[m].seen = {} /\ caller[m] # "over"
    BY <1>1, <1>2 DEF WorkInv
  <1>8. WorkInv(m)'
    BY <1>1, <1>2, <1>3, <1>4, <1>7 DEF WorkInv, Went
  <1>9. Tools!TargetIsWhole'
    BY <1>3, <1>7 DEF Tools!TargetIsWhole
  <1>10. SwapInv'
    <2>1. \A v \in text'[entry'[Target]].has : v \notin Nat
      BY <1>1, <1>3, <1>7
    <2> QED BY <1>4, <1>6, <2>1, SwapInvKeeps DEF Went
  <1>11. \A n \in {m, Target} : entry[n] # 0 => \A v \in text[entry[n]].has : Named(v)'
    BY <1>3, SwapNames
  <1> QED BY <1>3, <1>5, <1>8, <1>9, <1>10, <1>11, RenamesKeep

LEMMA InstallKeeps ==
    ASSUME MutationInv, NEW m \in Mutators, Tools!Install(m)
    PROVE  MutationInv'
  <1>1. /\ Tools!At(m, "install") /\ mut[m].pc = "install"
        /\ UNCHANGED <<text, deleted, caller, racers>>
    BY DEF Tools!Install, Tools!At, Tools!Work
  <1>2. CASE Tools!Goto(m, "drop") /\ UNCHANGED <<entry, exposed>>
    BY <1>1, <1>2, DropsQuietly
  <1>3. CASE /\ mut[m].open # 0 /\ entry[Target] # 0 /\ entry' = Tools!Swapped(m)
             /\ mut' = [mut EXCEPT ![m].pc = "verify", ![m].took = text[entry[Target]].has]
             /\ exposed' = exposed \cup UNION {mut[x].took : x \in Tools!Swapping}
    BY <1>1, <1>3, SwapInKeeps
  <1>4. CASE /\ mut[m].open = 0 /\ entry[Target] = 0 /\ entry' = [Tools!Swapped(m) EXCEPT ![m] = 0]
             /\ Tools!Goto(m, "sync") /\ UNCHANGED exposed
    BY <1>1, <1>4, ExclusiveKeeps
  <1> QED BY <1>2, <1>3, <1>4 DEF Tools!Install

-----------------------------------------------------------------------------
(* The temporary name goes, and with it only what is covered.              *)
LEMMA ClearKeeps ==
    ASSUME MutationInv, NEW m \in Mutators, entry' = [entry EXCEPT ![m] = 0], Alone(m),
           mut'[m].seen = mut[m].seen, mut'[m].pc \in {"sync", "done"},
           mut'[m].open = 0 \/ (Tools!Open(m) /\ mut'[m].open = mut[m].open),
           CoveredIn(text[entry[m]].has), UNCHANGED <<text, deleted, exposed, caller, racers>>,
           entry'[m] = 0 => WorkInv(m)'
    PROVE  MutationInv'
  <1>1. FilesType /\ m \in Tools!Names /\ Target \in Tools!Names /\ m # Target
    BY WorkerKnows
  <1>2. /\ entry' \in [Tools!Names -> {0} \cup Tools!Inodes] /\ DistinctInv'
        /\ entry'[m] = 0 /\ \A x \in Tools!Names \ {m} : entry'[x] = entry[x]
    BY <1>1, ClearedIs
  <1>3. entry'[Target] = entry[Target]
    BY <1>1, <1>2
  <1>4. Mutators \subseteq Tools!Names
    BY DEF Tools!Names
  <1>5. Renames(m)
    BY <1>1, <1>2, <1>4 DEF Renames, FilesType
  <1>6. Grows
    BY DEF Grows, Alone
  <1>7. Tools!TargetIsWhole'
    BY <1>3 DEF Tools!TargetIsWhole, MutationInv
  <1>8. SwapInv'
    <2>1. ASSUME Tools!Swapping' # {}, entry'[Target] # 0, NEW v \in text'[entry'[Target]].has, v \in Nat
          PROVE  Covered(v)'
      <3>1. Tools!Swapping # {}
        BY <2>1, SwapsShrink
      <3>2. CoveredIn(text[entry[Target]].has)
        BY <1>3, <2>1, <3>1 DEF MutationInv, SwapInv
      <3> QED BY <1>3, <1>6, <2>1, <3>2, CoverGrows
    <2> QED BY <1>6, <2>1, SwapInvKeeps
  <1>9. \A n \in {m, Target} : entry[n] # 0 =>
            \A v \in text[entry[n]].has : v \in Nat => Covered(v) \/ Covered(v)' \/ Named(v)'
    BY <1>1, <1>3 DEF CoveredIn, Named
  <1> QED BY <1>2, <1>5, <1>7, <1>8, <1>9, RenamesKeep

LEMMA UnlinkKeeps ==
    ASSUME MutationInv, NEW m \in Mutators, Tools!Unlink(m)
    PROVE  MutationInv'
  <1>1. FilesType /\ WorkInv(m)
    BY WorkerKnows
  <1>2. mut[m].pc = "unlink" /\ UNCHANGED <<text, deleted, exposed, caller, racers>>
    BY DEF Tools!Unlink, Tools!At, Tools!Work
  <1>3. CASE entry' = [entry EXCEPT ![m] = 0] /\ Tools!Goto(m, "sync")
    <2>1. Alone(m) /\ Went(m, "sync")
      BY <1>1, <1>3, GotoIs DEF Steps
    <2>2. text[entry[m]].has = mut[m].seen /\ mut[m].took = mut[m].seen /\ caller[m] # "over"
      BY <1>1, <1>2 DEF WorkInv
    <2>3. CoveredIn(text[entry[m]].has)
      BY <2>2 DEF CoveredIn, Covered
    <2>4. ASSUME entry'[m] = 0 PROVE WorkInv(m)'
      BY <1>1, <1>2, <2>1, <2>2, <2>4 DEF WorkInv, Went
    <2> QED BY <1>2, <1>3, <2>1, <2>3, <2>4, ClearKeeps DEF Went, Tools!Open
  <1>4. CASE Tools!Goto(m, "drop") /\ UNCHANGED entry
    BY <1>2, <1>4, DropsQuietly
  <1> QED BY <1>3, <1>4 DEF Tools!Unlink

LEMMA DropTempKeeps ==
    ASSUME MutationInv, NEW m \in Mutators, Tools!DropTemp(m)
    PROVE  MutationInv'
  <1>1. FilesType /\ WorkInv(m)
    BY WorkerKnows
  <1>2. /\ mut[m].pc = "drop" /\ Tools!Done(m, "failed")
        /\ UNCHANGED <<text, deleted, exposed, caller, racers>>
    BY DEF Tools!DropTemp, Tools!At, Tools!Work
  <1>3. CASE entry' = [entry EXCEPT ![m] = 0]
    <2>1. Alone(m) /\ Over(m, "failed")
      BY <1>1, <1>2, DoneIs
    <2>2. CoveredIn(text[entry[m]].has)
      BY <1>1, <1>2 DEF WorkInv
    <2>3. ASSUME entry'[m] = 0 PROVE WorkInv(m)'
      BY <1>1, <1>2, <2>1, <2>3 DEF WorkInv, Over
    <2> QED BY <1>2, <1>3, <2>1, <2>2, <2>3, ClearKeeps DEF Over
  <1>4. CASE UNCHANGED entry
    BY <1>2, <1>4, EndsQuietly DEF Tools!At
  <1> QED BY <1>3, <1>4 DEF Tools!DropTemp

(* The swap back: what the target led to is covered, and what it leads to  *)
(* again too while another swaps.                                          *)
LEMMA SwapBackKeeps ==
    ASSUME MutationInv, NEW m \in Mutators, mut[m].pc = "rollback", entry[Target] # 0, entry' = Tools!Swapped(m),
           UNCHANGED <<text, deleted, exposed, caller, racers>>, Alone(m),
           Went(m, "drop") \/ Over(m, "failed")
    PROVE  MutationInv'
  <1>1. FilesType /\ WorkInv(m) /\ m \in Tools!Names /\ Target \in Tools!Names
    BY WorkerKnows
  <1>2. /\ entry' \in [Tools!Names -> {0} \cup Tools!Inodes] /\ DistinctInv'
        /\ entry'[m] = entry[Target] /\ entry'[Target] = entry[m]
        /\ \A x \in Mutators \ {m} : entry'[x] = entry[x]
    BY SwappedIs
  <1>3. Renames(m)
    BY <1>1, <1>2 DEF Renames, Tools!Open, Went, Over, FilesType
  <1>4. Grows
    BY DEF Grows, Alone, Went, Over
  <1>5. m \in Tools!Swapping
    BY DEF Tools!Swapping, Tools!At
  <1>6. /\ entry[m] # 0 /\ text[entry[m]].whole /\ text[entry[m]].has = mut[m].took
        /\ caller[m] # "over" /\ mut[m].outcome = "none"
    BY <1>1 DEF WorkInv
  <1>7. CoveredIn(text[entry[Target]].has)
    BY <1>5 DEF MutationInv, SwapInv
  <1>8. CoveredIn(text[entry[m]].has)'
    <2> SUFFICES ASSUME NEW v \in text[entry[Target]].has, v \in Nat PROVE Covered(v)'
      BY <1>2 DEF CoveredIn
    <2> QED BY <1>4, <1>7, CoverGrows
  <1>9. WorkInv(m)'
    <2>1. CASE Went(m, "drop")
      <3>1. entry'[m] # 0 /\ text' = text /\ caller'[m] # "over"
        BY <1>2, <1>6
      <3> QED BY <1>1, <1>6, <1>8, <2>1, <3>1 DEF WorkInv, Went
    <2>2. CASE Over(m, "failed")
      BY <1>6, <2>2 DEF WorkInv, Over
    <2> QED BY <2>1, <2>2
  <1>10. Tools!TargetIsWhole'
    BY <1>2, <1>6 DEF Tools!TargetIsWhole
  <1>11. mut'[m].pc \notin {"verify", "rollback"}
    BY DEF Went, Over
  <1>12. SwapInv'
    <2>1. ASSUME Tools!Swapping' # {}, NEW v \in text'[entry'[Target]].has, v \in Nat
          PROVE  Covered(v)'
      <3>1. PICK x \in Tools!Swapping : x # m
        BY <1>11, <2>1, SwapsShrink
      <3>2. CoveredIn(mut[m].took)
        BY <1>5, <3>1 DEF MutationInv, SwapInv
      <3>3. v \in mut[m].took
        BY <1>2, <1>6, <2>1
      <3> QED BY <1>4, <2>1, <3>2, <3>3, CoverGrows
    <2> QED BY <1>4, <1>11, <2>1, SwapInvKeeps
  <1>13. \A n \in {m, Target} : entry[n] # 0 => \A v \in text[entry[n]].has : Named(v)'
    BY <1>2, SwapNames
  <1> QED BY <1>2, <1>3, <1>9, <1>10, <1>12, <1>13, RenamesKeep

LEMMA RollbackKeeps ==
    ASSUME MutationInv, NEW m \in Mutators, Tools!Rollback(m)
    PROVE  MutationInv'
  <1>1. FilesType
    BY DEF MutationInv
  <1>2. mut[m].pc = "rollback" /\ UNCHANGED <<text, deleted, exposed, caller, racers>>
    BY DEF Tools!Rollback, Tools!At, Tools!Work
  <1>3. CASE entry[Target] # 0 /\ entry' = Tools!Swapped(m) /\ Tools!Goto(m, "drop")
    BY <1>1, <1>2, <1>3, GotoIs, SwapBackKeeps DEF Steps
  <1>4. CASE entry[Target] # 0 /\ entry' = Tools!Swapped(m) /\ Tools!Done(m, "failed")
    BY <1>1, <1>2, <1>4, DoneIs, SwapBackKeeps
  <1>5. CASE Tools!Done(m, "failed") /\ UNCHANGED entry
    BY <1>2, <1>5, EndsQuietly DEF Tools!At
  <1> QED BY <1>3, <1>4, <1>5 DEF Tools!Rollback

LEMMA SyncParentKeeps ==
    ASSUME MutationInv, NEW m \in Mutators, Tools!SyncParent(m)
    PROVE  MutationInv'
  <1>1. mut[m].pc = "sync" /\ UNCHANGED <<entry, text, deleted, exposed, caller, racers>>
    BY DEF Tools!SyncParent, Tools!At, Tools!SameFiles, Tools!Work
  <1>2. mut[m].took = mut[m].seen
    BY <1>1, WorkerKnows DEF WorkInv
  <1>3. Tools!Done(m, "ok") \/ Tools!Done(m, "failed")
    BY DEF Tools!SyncParent
  <1> QED BY <1>1, <1>2, <1>3, EndsQuietly DEF Tools!At

LEMMA StopsEarlyKeeps ==
    ASSUME MutationInv, NEW m \in Mutators, Tools!StopsEarly(m)
    PROVE  MutationInv'
  <1>1. /\ mut[m].pc = "open" /\ Tools!Done(m, "refused")
        /\ UNCHANGED <<entry, text, deleted, exposed, caller, racers>>
    BY DEF Tools!StopsEarly, Tools!At, Tools!SameFiles, Tools!Work
  <1> QED BY <1>1, EndsQuietly DEF Tools!At

-----------------------------------------------------------------------------
(* Steps that write a text: an inode that nobody but its writer holds.     *)

(* The text of an inode i is replaced; m is its writer, or nobody is, and  *)
(* no worker is left with a name or a descriptor of it.                    *)
LEMMA WrittenKeeps ==
    ASSUME MutationInv, FilesType', NEW i \in Tools!Inodes, NEW m,
           \A x \in Mutators \ {m} : mut'[x] = mut[x] /\ caller'[x] = caller[x] /\ entry'[x] = entry[x],
           \A j \in Tools!Inodes \ {i} : text'[j] = text[j],
           \A x \in Mutators \ {m} : entry[x] # i /\ (Tools!Open(x) => mut[x].open # i),
           Grows, m \in Mutators => WorkInv(m)'
    PROVE  \A x \in Mutators : WorkInv(x)'
  <1> SUFFICES ASSUME NEW x \in Mutators, x # m PROVE WorkInv(x)'
    OBVIOUS
  <1>1. Untouched(x)
    BY DEF Untouched
  <1> QED BY <1>1, UntouchedKeeps DEF MutationInv

(* SwapInv, when what the target leads to changes in no way.               *)
LEMMA SwapInvSame ==
    ASSUME MutationInv, Grows,
           \A x \in Mutators : x \in Tools!Swapping' => x \in Tools!Swapping /\ mut'[x].took = mut[x].took,
           Tools!Swapping' # {} /\ entry'[Target] # 0 => \A v \in text'[entry'[Target]].has : v \in Nat => Covered(v)'
    PROVE  SwapInv'
  <1>1. ASSUME NEW y \in Tools!Swapping', NEW x \in Tools!Swapping', y # x, NEW v \in mut'[y].took, v \in Nat
        PROVE  Covered(v)'
    <2>1. y \in Mutators /\ x \in Mutators
      BY DEF Tools!Swapping
    <2>2. CoveredIn(mut[y].took) /\ v \in mut[y].took
      BY <1>1, <2>1 DEF MutationInv, SwapInv
    <2> QED BY <1>1, <2>2, CoverGrows
  <1> QED BY <1>1 DEF SwapInv, CoveredIn

LEMMA CreateTempKeeps ==
    ASSUME MutationInv, NEW m \in Mutators, Tools!CreateTemp(m)
    PROVE  MutationInv'
  <1>1. /\ FilesType /\ WorkInv(m) /\ m \in Tools!Names /\ Target \in Tools!Names /\ m # Target
        /\ mut[m].open \in {0} \cup Tools!Inodes
    BY WorkerKnows
  <1>2. mut[m].pc = "create" /\ UNCHANGED <<deleted, exposed, caller, racers>>
    BY DEF Tools!CreateTemp, Tools!At, Tools!Work
  <1>3. CASE Tools!Done(m, "failed") /\ UNCHANGED <<entry, text>>
    BY <1>2, <1>3, EndsQuietly DEF Tools!At
  <1>4. ASSUME NEW i, i = Tools!FreeInode, entry' = [entry EXCEPT ![m] = i],
               text' = [text EXCEPT ![i] = Tools!NoText], Tools!Goto(m, "fill")
        PROVE  MutationInv'
    <2>1. i \in Tools!Inodes /\ i \notin Tools!Held /\ i # 0
      BY <1>1, <1>4, FreeInodeIs DEF Tools!Inodes
    <2>2. Alone(m) /\ Went(m, "fill")
      BY <1>1, <1>4, GotoIs DEF Steps
    <2>3. /\ entry' \in [Tools!Names -> {0} \cup Tools!Inodes] /\ entry'[m] = i
          /\ \A n \in Tools!Names \ {m} : entry'[n] = entry[n]
      BY <1>1, <1>4, <2>1 DEF FilesType
    <2>4. Tools!NoText \in TextRec /\ Tools!NoText.has = {}
      BY DEF Tools!NoText, TextRec
    <2>5. /\ text' \in [Tools!Inodes -> TextRec] /\ text'[i] = Tools!NoText
          /\ \A j \in Tools!Inodes \ {i} : text'[j] = text[j]
      BY <1>1, <1>4, <2>1, <2>4 DEF FilesType
    <2>6. FilesType'
      BY <1>1, <1>2, <2>2, <2>3, <2>5 DEF FilesType, Alone
    <2>7. Grows
      BY <1>2, <2>2 DEF Grows, Alone, Went
    <2>8. /\ \A n \in Tools!Names : entry[n] # i
          /\ \A x \in Mutators : Tools!Open(x) => mut[x].open # i
      BY <2>1 DEF Tools!Held
    <2>9. Mutators \subseteq Tools!Names /\ Tools!Open(m)
      BY <1>2 DEF Tools!Names, Tools!Open
    <2>10. WorkInv(m)'
      <3>1. mut[m].open # 0 => text'[mut[m].open] = text[mut[m].open]
        BY <1>1, <2>5, <2>8, <2>9
      <3>2. caller'[m] # "over"
        BY <1>1, <1>2 DEF WorkInv
      <3> QED BY <1>1, <1>2, <2>1, <2>2, <2>3, <2>4, <2>5, <3>1, <3>2 DEF WorkInv, Went
    <2>11. \A x \in Mutators : WorkInv(x)'
      <3>1. \A x \in Mutators \ {m} : mut'[x] = mut[x] /\ caller'[x] = caller[x] /\ entry'[x] = entry[x]
        BY <1>2, <2>2, <2>3, <2>9 DEF Alone
      <3>2. \A x \in Mutators \ {m} : entry[x] # i /\ (Tools!Open(x) => mut[x].open # i)
        BY <2>8, <2>9
      <3> QED BY <2>1, <2>5, <2>6, <2>7, <2>10, <3>1, <3>2, WrittenKeeps
    <2>12. DistinctInv'
      <3> SUFFICES ASSUME NEW n \in Tools!Names, NEW o \in Tools!Names, n # o, entry'[n] # 0
                   PROVE  entry'[n] # entry'[o]
        BY DEF DistinctInv
      <3>1. \A a, b \in Tools!Names : a # b /\ entry[a] # 0 => entry[a] # entry[b]
        BY DEF MutationInv, DistinctInv
      <3> QED BY <2>3, <2>8, <3>1
    <2>13. FreshInv'
      <3> SUFFICES ASSUME NEW y \in Mutators, NEW x \in Mutators, Tools!At(y, "fill")', Tools!Open(x)'
                   PROVE  mut'[x].open # entry'[y]
        BY DEF FreshInv
      <3>1. Tools!Open(x) /\ mut'[x].open = mut[x].open
        BY <2>2, <2>9 DEF Tools!Open, Alone, Went
      <3>2. CASE y = m
        BY <2>3, <2>8, <3>1, <3>2
      <3>3. CASE y # m
        <4>1. Tools!At(y, "fill") /\ entry'[y] = entry[y]
          BY <2>2, <2>3, <2>9, <3>3 DEF Tools!At, Alone
        <4> QED BY <3>1, <4>1 DEF MutationInv, FreshInv
      <3> QED BY <3>2, <3>3
    <2>14. entry'[Target] = entry[Target] /\ entry[Target] # i /\ (entry[Target] # 0 => entry[Target] \in Tools!Inodes)
      BY <1>1, <2>3, <2>8 DEF FilesType
    <2>15. entry[Target] # 0 => text'[entry[Target]] = text[entry[Target]]
      BY <2>5, <2>14
    <2>16. Tools!TargetIsWhole'
      BY <1>2, <2>14, <2>15 DEF Tools!TargetIsWhole, MutationInv
    <2>17. SwapInv'
      <3>1. \A x \in Mutators : x \in Tools!Swapping' => x \in Tools!Swapping /\ mut'[x].took = mut[x].took
        BY <2>2 DEF Tools!Swapping, Tools!At, Alone, Went
      <3>2. ASSUME Tools!Swapping' # {}, entry'[Target] # 0, NEW v \in text'[entry'[Target]].has, v \in Nat
            PROVE  Covered(v)'
        <4>1. Tools!Swapping # {}
          BY <3>1, <3>2 DEF Tools!Swapping
        <4>2. CoveredIn(text[entry[Target]].has)
          BY <2>14, <3>2, <4>1 DEF MutationInv, SwapInv
        <4> QED BY <2>7, <2>14, <2>15, <3>2, <4>2, CoverGrows
      <3> QED BY <2>7, <3>1, <3>2, SwapInvSame
    <2>18. KeptInv'
      <3> SUFFICES ASSUME NEW j \in Tools!Inodes, NEW v \in text'[j].has, v \in Nat
                   PROVE  Covered(v)' \/ Named(v)'
        BY DEF KeptInv
      <3>1. j # i /\ v \in text[j].has
        BY <2>4, <2>5
      <3>2. ASSUME Named(v) PROVE Named(v)'
        <4>1. PICK n \in Tools!Names : entry[n] # 0 /\ v \in text[entry[n]].has
          BY <3>2 DEF Named
        <4>2. n # m
          BY <1>1, <1>2, <4>1 DEF WorkInv
        <4>3. entry'[n] = entry[n] /\ text'[entry[n]] = text[entry[n]]
          BY <1>1, <2>3, <2>5, <2>8, <4>1, <4>2 DEF FilesType
        <4> QED BY <4>1, <4>3 DEF Named
      <3>3. Covered(v) \/ Named(v)
        BY <3>1 DEF MutationInv, KeptInv
      <3> QED BY <2>7, <3>2, <3>3, CoverGrows
    <2> QED BY <2>6, <2>11, <2>12, <2>13, <2>16, <2>17, <2>18 DEF MutationInv
  <1> QED BY <1>3, <1>4 DEF Tools!CreateTemp

LEMMA FillTempKeeps ==
    ASSUME MutationInv, NEW m \in Mutators, Tools!FillTemp(m)
    PROVE  MutationInv'
  <1>1. /\ FilesType /\ WorkInv(m) /\ m \in Tools!Names /\ Target \in Tools!Names /\ m # Target /\ m \notin Nat
        /\ mut[m].open \in {0} \cup Tools!Inodes /\ entry[m] \in {0} \cup Tools!Inodes
    BY WorkerKnows
  <1>2. mut[m].pc = "fill" /\ UNCHANGED <<entry, deleted, exposed, caller, racers>>
    BY DEF Tools!FillTemp, Tools!At, Tools!Work
  <1>3. CASE Tools!Goto(m, "drop") /\ UNCHANGED text
    BY <1>2, <1>3, DropsQuietly
  <1> DEFINE new == {m} \cup IF mut[m].op = "edit" THEN mut[m].seen ELSE {}
  <1>4. ASSUME NEW i, i = entry[m], text' = [text EXCEPT ![i].whole = TRUE, ![i].has = new],
               Tools!Goto(m, "install")
        PROVE  MutationInv'
    <2>0. new \subseteq {m} \cup mut[m].seen /\ mut[m].seen \subseteq Changes /\ m \in Changes
      BY <1>1 DEF FilesType, WorkRec, Changes
    <2> HIDE DEF new
    <2>1. i \in Tools!Inodes /\ i # 0 /\ text[i].has = {}
      BY <1>1, <1>2, <1>4 DEF WorkInv
    <2>2. Alone(m) /\ Went(m, "install")
      BY <1>1, <1>4, GotoIs DEF Steps
    <2>3. text[i] \in TextRec
      BY <1>1, <2>1 DEF FilesType
    <2>4. /\ [text[i] EXCEPT !.whole = TRUE, !.has = new] \in TextRec
          /\ [text[i] EXCEPT !.whole = TRUE, !.has = new].whole
          /\ [text[i] EXCEPT !.whole = TRUE, !.has = new].has = new
      BY <2>0, <2>3 DEF TextRec
    <2>5. text' = [text EXCEPT ![i] = [text[i] EXCEPT !.whole = TRUE, !.has = new]]
      BY <1>1, <1>4, <2>1 DEF FilesType
    <2>6. /\ text' \in [Tools!Inodes -> TextRec] /\ text'[i].whole /\ text'[i].has = new
          /\ \A j \in Tools!Inodes \ {i} : text'[j] = text[j]
      BY <1>1, <2>1, <2>4, <2>5 DEF FilesType
    <2>7. FilesType'
      BY <1>1, <1>2, <2>2, <2>6 DEF FilesType, Alone
    <2>8. Grows
      BY <1>2, <2>2 DEF Grows, Alone, Went
    <2>9. /\ \A n \in Tools!Names \ {m} : entry[n] # i
          /\ \A x \in Mutators : Tools!Open(x) => mut[x].open # i
      <3>1. \A n \in Tools!Names \ {m} : entry[m] # entry[n]
        BY <1>1, <1>4, <2>1 DEF MutationInv, DistinctInv
      <3>2. \A x \in Mutators : Tools!Open(x) => mut[x].open # entry[m]
        BY <1>2 DEF MutationInv, FreshInv, Tools!At
      <3> QED BY <1>4, <3>1, <3>2
    <2>10. Mutators \subseteq Tools!Names /\ Tools!Open(m)
      BY <1>2 DEF Tools!Names, Tools!Open
    <2>11. WorkInv(m)'
      <3>1. mut[m].open # 0 => text'[mut[m].open] = text[mut[m].open]
        BY <1>1, <2>6, <2>9, <2>10
      <3>2. caller'[m] # "over" /\ entry'[m] = i
        BY <1>1, <1>2, <1>4 DEF WorkInv
      <3> QED BY <1>1, <1>2, <2>0, <2>1, <2>2, <2>6, <3>1, <3>2 DEF WorkInv, Went
    <2>12. \A x \in Mutators : WorkInv(x)'
      <3>1. \A x \in Mutators \ {m} : mut'[x] = mut[x] /\ caller'[x] = caller[x] /\ entry'[x] = entry[x]
        BY <1>2, <2>2 DEF Alone
      <3>2. \A x \in Mutators \ {m} : entry[x] # i /\ (Tools!Open(x) => mut[x].open # i)
        BY <2>9, <2>10
      <3> QED BY <2>1, <2>6, <2>7, <2>8, <2>11, <3>1, <3>2, WrittenKeeps
    <2>13. DistinctInv'
      BY <1>2 DEF MutationInv, DistinctInv
    <2>14. FreshInv'
      <3> SUFFICES ASSUME NEW y \in Mutators, NEW x \in Mutators, Tools!At(y, "fill")', Tools!Open(x)'
                   PROVE  mut'[x].open # entry'[y]
        BY DEF FreshInv
      <3>1. Tools!Open(x) /\ mut'[x].open = mut[x].open
        BY <2>2, <2>10 DEF Tools!Open, Alone, Went
      <3>2. Tools!At(y, "fill")
        BY <2>2 DEF Tools!At, Alone, Went
      <3> QED BY <1>2, <3>1, <3>2 DEF MutationInv, FreshInv
    <2>15. entry[Target] # i /\ (entry[Target] # 0 => entry[Target] \in Tools!Inodes)
      BY <1>1, <2>9 DEF FilesType
    <2>16. entry[Target] # 0 => text'[entry[Target]] = text[entry[Target]]
      BY <2>6, <2>15
    <2>17. Tools!TargetIsWhole'
      BY <1>2, <2>16 DEF Tools!TargetIsWhole, MutationInv
    <2>18. SwapInv'
      <3>1. \A x \in Mutators : x \in Tools!Swapping' => x \in Tools!Swapping /\ mut'[x].took = mut[x].took
        BY <2>2 DEF Tools!Swapping, Tools!At, Alone, Went
      <3>2. ASSUME Tools!Swapping' # {}, entry'[Target] # 0, NEW v \in text'[entry'[Target]].has, v \in Nat
            PROVE  Covered(v)'
        <4>1. Tools!Swapping # {}
          BY <3>1, <3>2 DEF Tools!Swapping
        <4>2. CoveredIn(text[entry[Target]].has)
          BY <1>2, <3>2, <4>1 DEF MutationInv, SwapInv
        <4> QED BY <1>2, <2>8, <2>16, <3>2, <4>2, CoverGrows
      <3> QED BY <2>8, <3>1, <3>2, SwapInvSame
    <2>19. KeptInv'
      <3> SUFFICES ASSUME NEW j \in Tools!Inodes, NEW v \in text'[j].has, v \in Nat
                   PROVE  Covered(v)' \/ Named(v)'
        BY DEF KeptInv
      <3>1. CASE j = i
        <4>1. v \in mut[m].seen
          BY <1>1, <2>0, <2>6, <3>1
        <4>2. Covered(v)
          BY <4>1 DEF Covered
        <4> QED BY <2>8, <4>2, CoverGrows
      <3>2. CASE j # i
        <4>1. v \in text[j].has
          BY <2>6, <3>2
        <4>2. ASSUME Named(v) PROVE Named(v)'
          <5>1. PICK n \in Tools!Names : entry[n] # 0 /\ v \in text[entry[n]].has
            BY <4>2 DEF Named
          <5>2. n # m
            BY <1>4, <2>1, <5>1
          <5>3. entry'[n] = entry[n] /\ text'[entry[n]] = text[entry[n]]
            BY <1>1, <1>2, <2>6, <2>9, <5>1, <5>2 DEF FilesType
          <5> QED BY <5>1, <5>3 DEF Named
        <4>3. Covered(v) \/ Named(v)
          BY <4>1 DEF MutationInv, KeptInv
        <4> QED BY <2>8, <4>2, <4>3, CoverGrows
      <3> QED BY <3>1, <3>2
    <2> QED BY <2>7, <2>12, <2>13, <2>14, <2>17, <2>18, <2>19 DEF MutationInv
  <1> QED BY <1>3, <1>4 DEF Tools!FillTemp

LEMMA SaveKeeps ==
    ASSUME MutationInv, Tools!Save
    PROVE  MutationInv'
  <1>0. Target \in Tools!Names /\ Target \notin Mutators /\ Mutators \subseteq Tools!Names /\ Tools!Names = {Target} \cup Mutators
    BY ToolsAssumption DEF Tools!Names
  <1>1. FilesType /\ Tools!FreeInode \in Tools!Inodes /\ Tools!FreeInode \notin Tools!Held
    BY FreeInodeIs DEF MutationInv
  <1>2. PICK i : i = Tools!FreeInode
    OBVIOUS
  <1>3. i \in Tools!Inodes /\ i \notin Tools!Held /\ i # 0
    BY <1>1, <1>2 DEF Tools!Inodes
  <1> DEFINE old == IF entry[Target] = 0 THEN {} ELSE text[entry[Target]].has
             new == [whole |-> TRUE, has |-> {racers'} \cup old]
  <1>4. racers' \in 0..MaxRacers /\ racers' \in Nat
    BY <1>1, ToolsAssumption DEF Tools!Save, FilesType
  <1>5. new \in TextRec /\ new.whole /\ new.has = {racers'} \cup old
    BY <1>0, <1>1, <1>4 DEF TextRec, FilesType, Changes
  <1>6. entry' = [entry EXCEPT ![Target] = i] /\ text' = [text EXCEPT ![i] = new]
    BY <1>2 DEF Tools!Save
  <1> HIDE DEF new
  <1>7. /\ entry' \in [Tools!Names -> {0} \cup Tools!Inodes] /\ entry'[Target] = i
        /\ \A n \in Tools!Names \ {Target} : entry'[n] = entry[n]
    BY <1>0, <1>1, <1>3, <1>6 DEF FilesType
  <1>8. /\ text' \in [Tools!Inodes -> TextRec] /\ text'[i] = new
        /\ \A j \in Tools!Inodes \ {i} : text'[j] = text[j]
    BY <1>1, <1>3, <1>5, <1>6 DEF FilesType
  <1>9. /\ UNCHANGED <<mut, caller, deleted>> /\ exposed \subseteq exposed'
        /\ Tools!Swapping # {} => racers' \in exposed'
    BY DEF Tools!Save
  <1>10. exposed' \subseteq exposed \cup {racers'}
    BY DEF Tools!Save
  <1>11. FilesType'
    BY <1>1, <1>4, <1>7, <1>8, <1>9, <1>10 DEF FilesType, Changes
  <1>12. Grows
    BY <1>9 DEF Grows
  <1>13. /\ \A n \in Tools!Names : entry[n] # i
         /\ \A x \in Mutators : Tools!Open(x) => mut[x].open # i
    BY <1>3 DEF Tools!Held
  <1>14. \A x \in Mutators : WorkInv(x)'
    <2>1. \A x \in Mutators \ {Target} : mut'[x] = mut[x] /\ caller'[x] = caller[x] /\ entry'[x] = entry[x]
      BY <1>0, <1>7, <1>9
    <2>2. \A x \in Mutators \ {Target} : entry[x] # i /\ (Tools!Open(x) => mut[x].open # i)
      BY <1>0, <1>13
    <2> QED BY <1>0, <1>3, <1>8, <1>11, <1>12, <2>1, <2>2, WrittenKeeps
  <1>15. DistinctInv'
    <2> SUFFICES ASSUME NEW n \in Tools!Names, NEW o \in Tools!Names, n # o, entry'[n] # 0
                 PROVE  entry'[n] # entry'[o]
      BY DEF DistinctInv
    <2>1. \A a, b \in Tools!Names : a # b /\ entry[a] # 0 => entry[a] # entry[b]
      BY DEF MutationInv, DistinctInv
    <2> QED BY <1>7, <1>13, <2>1
  <1>16. FreshInv'
    BY <1>0, <1>7, <1>9 DEF FreshInv, MutationInv, Tools!At, Tools!Open
  <1>17. Tools!TargetIsWhole'
    BY <1>3, <1>5, <1>7, <1>8 DEF Tools!TargetIsWhole
  <1>18. SwapInv'
    <2>1. \A x \in Mutators : x \in Tools!Swapping' => x \in Tools!Swapping /\ mut'[x].took = mut[x].took
      BY <1>9 DEF Tools!Swapping, Tools!At
    <2>2. ASSUME Tools!Swapping' # {}, NEW v \in text'[entry'[Target]].has, v \in Nat
          PROVE  Covered(v)'
      <3>1. Tools!Swapping # {}
        BY <2>1, <2>2 DEF Tools!Swapping
      <3>2. v = racers' \/ (entry[Target] # 0 /\ v \in text[entry[Target]].has)
        BY <1>5, <1>7, <1>8, <2>2
      <3>3. CASE v = racers'
        BY <1>9, <3>1, <3>3 DEF Covered
      <3>4. CASE entry[Target] # 0 /\ v \in text[entry[Target]].has
        <4>1. CoveredIn(text[entry[Target]].has)
          BY <3>1, <3>4 DEF MutationInv, SwapInv
        <4> QED BY <1>12, <2>2, <3>4, <4>1, CoverGrows
      <3> QED BY <3>2, <3>3, <3>4
    <2> QED BY <1>12, <2>1, <2>2, SwapInvSame
  <1>19. KeptInv'
    <2> SUFFICES ASSUME NEW j \in Tools!Inodes, NEW v \in text'[j].has, v \in Nat
                 PROVE  Covered(v)' \/ Named(v)'
      BY DEF KeptInv
    <2>1. ASSUME v \in text'[i].has PROVE Named(v)'
      BY <1>0, <1>3, <1>7, <2>1 DEF Named
    <2>2. CASE j = i
      BY <2>1, <2>2
    <2>3. CASE j # i
      <3>1. v \in text[j].has
        BY <1>8, <2>3
      <3>2. ASSUME Named(v) PROVE Named(v)'
        <4>1. PICK n \in Tools!Names : entry[n] # 0 /\ v \in text[entry[n]].has
          BY <3>2 DEF Named
        <4>2. CASE n = Target
          <5>1. v \in text'[i].has
            BY <1>5, <1>8, <4>1, <4>2
          <5> QED BY <2>1, <5>1
        <4>3. CASE n # Target
          <5>1. entry'[n] = entry[n] /\ text'[entry[n]] = text[entry[n]]
            BY <1>1, <1>7, <1>8, <1>13, <4>1, <4>3 DEF FilesType
          <5> QED BY <4>1, <5>1 DEF Named
        <4> QED BY <4>2, <4>3
      <3>3. Covered(v) \/ Named(v)
        BY <3>1 DEF MutationInv, KeptInv
      <3> QED BY <1>12, <3>2, <3>3, CoverGrows
    <2> QED BY <2>2, <2>3
  <1> QED BY <1>11, <1>14, <1>15, <1>16, <1>17, <1>18, <1>19 DEF MutationInv

LEMMA DeleteKeeps ==
    ASSUME MutationInv, Tools!Delete
    PROVE  MutationInv'
  <1>0. Target \in Tools!Names /\ Target \notin Mutators /\ Mutators \subseteq Tools!Names
    BY ToolsAssumption DEF Tools!Names
  <1>1. FilesType
    BY DEF MutationInv
  <1>2. /\ entry' \in [Tools!Names -> {0} \cup Tools!Inodes] /\ DistinctInv'
        /\ entry'[Target] = 0 /\ \A x \in Tools!Names \ {Target} : entry'[x] = entry[x]
    BY <1>0, ClearedIs DEF Tools!Delete
  <1>3. /\ UNCHANGED <<text, mut, caller>> /\ deleted' = TRUE /\ entry[Target] # 0
        /\ exposed' = exposed \cup text[entry[Target]].has
    BY DEF Tools!Delete
  <1>4. racers' \in 0..MaxRacers
    BY <1>1, ToolsAssumption DEF Tools!Delete, FilesType
  <1>5. text[entry[Target]].has \subseteq Changes
    BY <1>0, <1>1, <1>3 DEF FilesType, TextRec
  <1>6. FilesType'
    BY <1>1, <1>2, <1>3, <1>4, <1>5 DEF FilesType
  <1>7. Grows
    BY <1>3 DEF Grows
  <1>8. \A x \in Mutators : WorkInv(x)'
    <2> SUFFICES ASSUME NEW x \in Mutators PROVE WorkInv(x)'
      OBVIOUS
    <2>1. Untouched(x)
      BY <1>0, <1>2, <1>3 DEF Untouched
    <2> QED BY <1>1, <1>7, <2>1, UntouchedKeeps DEF MutationInv
  <1>9. FreshInv'
    BY <1>0, <1>2, <1>3 DEF FreshInv, MutationInv, Tools!At, Tools!Open
  <1>10. Tools!TargetIsWhole'
    BY <1>2, <1>3 DEF Tools!TargetIsWhole
  <1>11. SwapInv'
    <2>1. \A x \in Mutators : x \in Tools!Swapping' => x \in Tools!Swapping /\ mut'[x].took = mut[x].took
      BY <1>3 DEF Tools!Swapping, Tools!At
    <2> QED BY <1>2, <1>7, <2>1, SwapInvSame
  <1>12. KeptInv'
    <2> SUFFICES ASSUME NEW j \in Tools!Inodes, NEW v \in text[j].has, v \in Nat
                 PROVE  Covered(v)' \/ Named(v)'
      BY <1>3 DEF KeptInv
    <2>1. ASSUME Named(v) PROVE Covered(v)' \/ Named(v)'
      <3>1. PICK n \in Tools!Names : entry[n] # 0 /\ v \in text[entry[n]].has
        BY <2>1 DEF Named
      <3>2. CASE n = Target
        BY <1>3, <3>1, <3>2 DEF Covered
      <3>3. CASE n # Target
        BY <1>2, <1>3, <3>1, <3>3 DEF Named
      <3> QED BY <3>2, <3>3
    <2>2. Covered(v) \/ Named(v)
      BY DEF MutationInv, KeptInv
    <2> QED BY <1>7, <2>1, <2>2, CoverGrows
  <1> QED BY <1>2, <1>6, <1>8, <1>9, <1>10, <1>11, <1>12 DEF MutationInv

LEMMA MutationStep ==
    ASSUME MutationInv, Tools!FileNext
    PROVE  MutationInv'
  <1>1. ASSUME NEW m \in Mutators, NEW kind \in {"write", "edit"}, Tools!Invoke(m, kind) PROVE MutationInv'
    BY <1>1, InvokeKeeps
  <1>2. ASSUME NEW m \in Mutators, Tools!MutatorStep(m) PROVE MutationInv'
    BY <1>2, StopsEarlyKeeps, OpenTargetKeeps, CreateTempKeeps, FillTempKeeps, InstallKeeps, VerifyKeeps,
       UnlinkKeeps, RollbackKeeps, DropTempKeeps, SyncParentKeeps, ReturnsKeeps DEF Tools!MutatorStep
  <1>3. ASSUME NEW m \in Mutators, Tools!Crash(m) PROVE MutationInv'
    BY <1>3, CrashKeeps
  <1>4. CASE Tools!Save
    BY <1>4, SaveKeeps
  <1>5. CASE Tools!Delete
    BY <1>5, DeleteKeeps
  <1> QED BY <1>1, <1>2, <1>3, <1>4, <1>5 DEF Tools!FileNext

LEMMA MutationsHoldStill ==
    ASSUME MutationInv, UNCHANGED Tools!files
    PROVE  MutationInv'
  <1>1. UNCHANGED <<entry, text, mut, caller, racers, deleted, exposed>>
    BY DEF Tools!files
  <1>2. FilesType'
    BY <1>1 DEF MutationInv, FilesType
  <1>3. Grows
    BY <1>1 DEF Grows
  <1>4. \A x \in Mutators : WorkInv(x)'
    <2> SUFFICES ASSUME NEW x \in Mutators PROVE WorkInv(x)'
      OBVIOUS
    <2>1. Untouched(x)
      BY <1>1 DEF Untouched
    <2> QED BY <1>3, <2>1, UntouchedKeeps DEF MutationInv
  <1>5. DistinctInv' /\ FreshInv' /\ Tools!TargetIsWhole'
    BY <1>1 DEF MutationInv, DistinctInv, FreshInv, Tools!TargetIsWhole, Tools!At, Tools!Open
  <1>6. SwapInv'
    <2>1. Tools!Swapping' = Tools!Swapping
      BY <1>1 DEF Tools!Swapping, Tools!At
    <2> QED BY <1>1, <2>1 DEF MutationInv, SwapInv, CoveredIn, Covered
  <1>7. KeptInv'
    BY <1>1 DEF MutationInv, KeptInv, Covered, Named
  <1> QED BY <1>2, <1>4, <1>5, <1>6, <1>7 DEF MutationInv

LEMMA MutationInit ==
    ASSUME Tools!Init
    PROVE  MutationInv
  <1>0. Target \in Tools!Names /\ Target \notin Mutators /\ Mutators \subseteq Tools!Names /\ Tools!Names = {Target} \cup Mutators
    BY ToolsAssumption DEF Tools!Names
  <1>1. Cardinality(Mutators) \in Nat
    BY ToolsAssumption, FS_CardinalityType
  <1>2. 1 \in Tools!Inodes
    BY <1>1, SameCardinality DEF Tools!Inodes
  <1>3. Tools!NoWork \in WorkRec
    BY DEF Tools!NoWork, WorkRec, Steps
  <1>4. /\ entry = [n \in Tools!Names |-> IF n = Target THEN 1 ELSE 0]
        /\ text = [i \in Tools!Inodes |-> IF i = 1 THEN [whole |-> TRUE, has |-> {}] ELSE Tools!NoText]
        /\ mut = [m \in Mutators |-> Tools!NoWork] /\ caller = [m \in Mutators |-> "none"]
        /\ racers = 0 /\ exposed = {}
    BY DEF Tools!Init
  <1>5. \A i \in Tools!Inodes : text[i] \in TextRec /\ text[i].has = {}
    BY <1>4 DEF TextRec, Tools!NoText
  <1>6. FilesType
    BY <1>2, <1>3, <1>4, <1>5, ToolsAssumption DEF FilesType, Changes
  <1>7. entry[Target] = 1 /\ text[1].whole /\ \A m \in Mutators : entry[m] = 0
    BY <1>0, <1>2, <1>4
  <1>8. \A m \in Mutators : WorkInv(m)
    BY <1>4, <1>7 DEF WorkInv, Tools!NoWork
  <1>9. DistinctInv
    BY <1>0, <1>7 DEF DistinctInv
  <1>10. FreshInv
    BY <1>4 DEF FreshInv, Tools!At, Tools!NoWork
  <1>11. Tools!TargetIsWhole
    BY <1>7 DEF Tools!TargetIsWhole
  <1>12. SwapInv
    BY <1>4 DEF SwapInv, Tools!Swapping, Tools!At, Tools!NoWork
  <1>13. KeptInv
    BY <1>5 DEF KeptInv
  <1> QED BY <1>6, <1>8, <1>9, <1>10, <1>11, <1>12, <1>13 DEF MutationInv

LEMMA MutationInvSafe ==
    ASSUME MutationInv
    PROVE  Tools!TargetIsWhole /\ Tools!SuccessIsInformed /\ Tools!SavesAreKept /\ Tools!NothingGoesOn
  <1>1. Tools!TargetIsWhole
    BY DEF MutationInv
  <1>2. Tools!SuccessIsInformed
    BY DEF Tools!SuccessIsInformed, MutationInv, WorkInv
  <1>3. Tools!NothingGoesOn
    BY DEF Tools!NothingGoesOn, Tools!Open, MutationInv, WorkInv
  <1>4. Tools!SavesAreKept
    <2> SUFFICES ASSUME NEW v \in Tools!Saved \ exposed
                 PROVE  \/ \E n \in Tools!Names : entry[n] # 0 /\ v \in text[entry[n]].has
                        \/ \E m \in Mutators : v \in mut[m].seen
      BY DEF Tools!SavesAreKept
    <2>1. v \in Nat
      BY DEF Tools!Saved, MutationInv, FilesType
    <2>2. PICK i \in Tools!Inodes : v \in text[i].has
      BY DEF Tools!Saved
    <2>3. Covered(v) \/ Named(v)
      BY <2>1, <2>2 DEF MutationInv, KeptInv
    <2> QED BY <2>3 DEF Covered, Named
  <1> QED BY <1>1, <1>2, <1>3, <1>4

-----------------------------------------------------------------------------
(* The shell.                                                              *)

ShellRec ==
    [pc : {"idle", "select", "stop", "exited", "drain", "over"},
     leader : {"none", "alive", "dying", "zombie", "reaped"}, kids : 0..MaxKids, outside : BOOLEAN,
     cancelled : BOOLEAN, armed : BOOLEAN, refused : BOOLEAN]

(* The group is guarded while something of it may run, and struck when the *)
(* guard is gone.                                                          *)
ShellInv ==
    /\ sh \in ShellRec /\ failures \in 0..MaxToolFaults
    /\ sh.pc = "idle" => sh.leader = "none" /\ sh.kids = 0
    /\ sh.pc \in {"select", "exited"} => sh.armed /\ ~sh.refused
    /\ sh.pc = "exited" => sh.leader = "reaped"
    /\ sh.pc \in {"stop", "drain", "over"} /\ ~sh.refused => sh.kids = 0 /\ sh.leader # "alive"

(* What a kill leaves of the leader, and of the group. *)
LEMMA StruckIs ==
    ASSUME NEW s \in ShellRec
    PROVE  /\ Tools!Struck(s) \in ShellRec /\ Tools!Struck(s).leader # "alive" /\ Tools!Struck(s).kids = s.kids
           /\ Tools!Struck(s).pc = s.pc /\ Tools!Struck(s).refused = s.refused /\ Tools!Struck(s).armed = s.armed
           /\ s.leader = "reaped" => Tools!Struck(s).leader = "reaped"
  <1>1. s.leader \in {"none", "alive", "dying", "zombie", "reaped"}
    BY DEF ShellRec
  <1>2. PICK w \in {"none", "dying", "zombie", "reaped"} :
           /\ Tools!Struck(s) = [s EXCEPT !.leader = w]
           /\ s.leader = "reaped" => w = "reaped"
    <2>1. CASE s.leader = "alive"
      BY <2>1 DEF Tools!Struck
    <2>2. CASE s.leader # "alive"
      <3>1. Tools!Struck(s) = [s EXCEPT !.leader = s.leader]
        BY <2>2 DEF Tools!Struck
      <3> QED BY <1>1, <2>2, <3>1
    <2> QED BY <2>1, <2>2
  <1> QED BY <1>2 DEF ShellRec

LEMMA GroupKilledIs ==
    ASSUME NEW s \in ShellRec
    PROVE  /\ Tools!GroupKilled(s) \in ShellRec
           /\ Tools!GroupKilled(s).pc = s.pc /\ Tools!GroupKilled(s).refused = s.refused
           /\ s.armed /\ ~s.refused => Tools!GroupKilled(s).kids = 0 /\ Tools!GroupKilled(s).leader # "alive"
           /\ s.kids = 0 => Tools!GroupKilled(s).kids = 0
           /\ s.leader = "reaped" => Tools!GroupKilled(s).leader = "reaped"
  <1>1. 0 \in 0..MaxKids
    BY ToolsAssumption
  <1>2. CASE s.armed /\ ~s.refused
    <2>1. PICK u \in ShellRec : u = Tools!Struck(s)
      BY StruckIs
    <2>2. Tools!GroupKilled(s) = [u EXCEPT !.kids = 0]
      BY <1>2, <2>1 DEF Tools!GroupKilled
    <2>3. /\ [u EXCEPT !.kids = 0] \in ShellRec /\ [u EXCEPT !.kids = 0].kids = 0
          /\ [u EXCEPT !.kids = 0].pc = u.pc /\ [u EXCEPT !.kids = 0].refused = u.refused
          /\ [u EXCEPT !.kids = 0].leader = u.leader
      BY <1>1, <2>1 DEF ShellRec
    <2> QED BY <2>1, <2>2, <2>3, StruckIs
  <1>3. CASE ~(s.armed /\ ~s.refused)
    BY <1>3 DEF Tools!GroupKilled
  <1> QED BY <1>2, <1>3

(* What the end of a call leaves. *)
LEMMA EndedIs ==
    ASSUME NEW s \in ShellRec
    PROVE  /\ Tools!Ended(s) \in ShellRec /\ Tools!Ended(s).pc = "over" /\ Tools!Ended(s).refused = s.refused
           /\ Tools!Ended(s).leader # "alive"
           /\ s.kids = 0 \/ (s.armed /\ ~s.refused) => Tools!Ended(s).kids = 0
  <1>1. PICK g \in ShellRec : g = Tools!GroupKilled(s)
    BY GroupKilledIs
  <1>2. PICK u \in ShellRec : u = Tools!Struck(g)
    BY StruckIs
  <1>3. Tools!Ended(s) = [u EXCEPT !.pc = "over", !.armed = FALSE]
    BY <1>1, <1>2 DEF Tools!Ended
  <1>4. /\ Tools!Ended(s) \in ShellRec /\ Tools!Ended(s).pc = "over" /\ Tools!Ended(s).refused = u.refused
        /\ Tools!Ended(s).leader = u.leader /\ Tools!Ended(s).kids = u.kids
    BY <1>2, <1>3 DEF ShellRec
  <1>5. u.refused = s.refused /\ u.leader # "alive" /\ u.kids = g.kids
    BY <1>1, <1>2, GroupKilledIs, StruckIs
  <1> QED BY <1>1, <1>4, <1>5, GroupKilledIs

LEMMA ShellStepKeeps ==
    ASSUME ShellInv, Tools!ShellNext
    PROVE  ShellInv'
  <1>1. sh \in ShellRec /\ MaxKids \in Nat /\ MaxToolFaults \in Nat
    BY ToolsAssumption DEF ShellInv
  <1>2. failures' \in 0..MaxToolFaults
    BY <1>1 DEF ShellInv, Tools!ShellNext, Tools!ShellStep, Tools!RunShell, Tools!Select,
                Tools!KillLeftovers, Tools!ReapKilled, Tools!JoinDrains, Tools!CancelShell,
                Tools!DropShell, Tools!Fork, Tools!KidEnds, Tools!LeavesGroup, Tools!OutsideEnds,
                Tools!LeaderEnds, Tools!Fine, Tools!Fault
  <1>3. CASE Tools!RunShell
    BY <1>1, <1>2, <1>3 DEF ShellInv, Tools!RunShell, Tools!Shell, Tools!NoShell, ShellRec
  <1>4. ASSUME sh' = Tools!Ended(sh), sh.pc \notin {"idle", "over"} PROVE ShellInv'
    <2>1. sh'.refused = FALSE => sh'.kids = 0
      BY <1>1, <1>4, EndedIs DEF ShellInv, ShellRec
    <2> QED BY <1>1, <1>2, <1>4, <2>1, EndedIs DEF ShellInv, ShellRec
  <1>5. CASE Tools!Select
    <2>1. CASE sh' = Tools!GroupKilled([sh EXCEPT !.pc = "stop"])
      <3>0. [sh EXCEPT !.pc = "stop"] \in ShellRec
        BY <1>1 DEF ShellRec
      <3>1. PICK s \in ShellRec :
               s = [sh EXCEPT !.pc = "stop"] /\ s.pc = "stop" /\ s.armed = sh.armed /\ s.refused = sh.refused
        <4>1. /\ [sh EXCEPT !.pc = "stop"].pc = "stop" /\ [sh EXCEPT !.pc = "stop"].armed = sh.armed
              /\ [sh EXCEPT !.pc = "stop"].refused = sh.refused
          BY <1>1 DEF ShellRec
        <4> QED BY <3>0, <4>1
      <3>2. s.armed /\ ~s.refused
        BY <1>5, <3>1 DEF Tools!Select, ShellInv
      <3> QED BY <1>2, <2>1, <3>1, <3>2, GroupKilledIs DEF ShellInv
    <2>2. CASE sh' = Tools!Struck([sh EXCEPT !.pc = "stop", !.refused = TRUE])
      BY <1>1, <1>2, <1>5, <2>2 DEF Tools!Select, ShellInv, Tools!Struck, ShellRec
    <2>3. CASE sh' = [sh EXCEPT !.pc = "exited", !.leader = "reaped"]
      BY <1>1, <1>2, <1>5, <2>3 DEF Tools!Select, ShellInv, ShellRec
    <2>4. CASE sh' = Tools!Ended(sh)
      BY <1>4, <1>5, <2>4 DEF Tools!Select
    <2> QED BY <1>5, <2>1, <2>2, <2>3, <2>4 DEF Tools!Select, Tools!Shell
  <1>6. CASE Tools!KillLeftovers
    <2>1. CASE sh' = Tools!Drains(Tools!GroupKilled(sh))
      <3>1. PICK g \in ShellRec : g = Tools!GroupKilled(sh)
        BY <1>1, GroupKilledIs
      <3>2. g.kids = 0 /\ g.leader # "alive"
        BY <1>1, <1>6, <3>1, GroupKilledIs DEF Tools!KillLeftovers, ShellInv
      <3> QED BY <1>2, <2>1, <3>1, <3>2 DEF Tools!Drains, ShellInv, ShellRec
    <2>2. CASE sh' = Tools!Ended([sh EXCEPT !.refused = TRUE])
      <3>1. [sh EXCEPT !.refused = TRUE] \in ShellRec /\ [sh EXCEPT !.refused = TRUE].refused
        BY <1>1 DEF ShellRec
      <3> QED BY <1>2, <2>2, <3>1, EndedIs DEF ShellInv
    <2> QED BY <1>6, <2>1, <2>2 DEF Tools!KillLeftovers, Tools!Shell
  <1>7. CASE Tools!ReapKilled
    <2>1. CASE sh' = Tools!Drains([sh EXCEPT !.leader = "reaped"])
      BY <1>1, <1>2, <1>7, <2>1 DEF Tools!ReapKilled, Tools!Drains, ShellInv, ShellRec
    <2>2. CASE sh' = Tools!Ended(sh)
      BY <1>4, <1>7, <2>2 DEF Tools!ReapKilled
    <2> QED BY <1>7, <2>1, <2>2 DEF Tools!ReapKilled, Tools!Shell
  <1>8. CASE Tools!JoinDrains \/ Tools!DropShell
    BY <1>4, <1>8 DEF Tools!JoinDrains, Tools!DropShell, Tools!Shell
  <1>9. CASE Tools!CancelShell
    BY <1>1, <1>2, <1>9 DEF ShellInv, Tools!CancelShell, Tools!Shell, ShellRec
  <1>10. CASE Tools!Fork
    BY <1>1, <1>2, <1>10 DEF ShellInv, Tools!Fork, Tools!Leads, Tools!Shell, ShellRec
  <1>11. CASE Tools!KidEnds \/ Tools!LeavesGroup
    <2>1. sh.kids \in 0..MaxKids /\ sh.kids > 0
      BY <1>1, <1>11 DEF Tools!KidEnds, Tools!LeavesGroup, ShellRec
    <2>2. sh.kids - 1 \in 0..MaxKids
      BY <1>1, <2>1
    <2>3. sh' = [sh EXCEPT !.kids = sh.kids - 1] \/ sh' = [sh EXCEPT !.kids = sh.kids - 1, !.outside = TRUE]
      BY <1>11 DEF Tools!KidEnds, Tools!LeavesGroup, Tools!Shell
    <2>4. /\ sh' \in ShellRec /\ sh'.pc = sh.pc /\ sh'.leader = sh.leader /\ sh'.armed = sh.armed
          /\ sh'.refused = sh.refused
      BY <1>1, <2>2, <2>3 DEF ShellRec
    <2>5. sh.pc \notin {"idle", "stop", "drain", "over"} \/ sh.refused
      BY <1>1, <2>1 DEF ShellInv, ShellRec
    <2> QED BY <1>2, <2>1, <2>4, <2>5 DEF ShellInv
  <1>12. CASE Tools!OutsideEnds
    BY <1>1, <1>2, <1>12 DEF ShellInv, Tools!OutsideEnds, Tools!Shell, ShellRec
  <1>13. CASE Tools!LeaderEnds
    BY <1>1, <1>2, <1>13 DEF ShellInv, Tools!LeaderEnds, Tools!Shell, ShellRec
  <1> QED BY <1>3, <1>5, <1>6, <1>7, <1>8, <1>9, <1>10, <1>11, <1>12, <1>13 DEF Tools!ShellNext, Tools!ShellStep

-----------------------------------------------------------------------------
(* The tools on their host.                                                *)

ToolInv == MutationInv /\ ShellInv

(* A mutation leaves the shell alone, and counts its faults.               *)
LEMMA FilesLeaveShell ==
    ASSUME ShellInv, Tools!FileNext
    PROVE  ShellInv'
  <1>1. MaxToolFaults \in Nat
    BY ToolsAssumption
  <1>2. ASSUME NEW m \in Mutators, Tools!MutatorStep(m)
        PROVE  sh' = sh /\ failures' \in 0..MaxToolFaults
    BY <1>1, <1>2 DEF ShellInv, Tools!MutatorStep, Tools!StopsEarly, Tools!OpenTarget, Tools!CreateTemp,
       Tools!FillTemp, Tools!Install, Tools!Verify, Tools!Unlink, Tools!Rollback, Tools!DropTemp,
       Tools!SyncParent, Tools!Returns, Tools!Work, Tools!Fine, Tools!Fault
  <1>3. ASSUME NEW m \in Mutators, NEW kind \in {"write", "edit"}, Tools!Invoke(m, kind)
        PROVE  sh' = sh /\ failures' \in 0..MaxToolFaults
    BY <1>3 DEF ShellInv, Tools!Invoke, Tools!Fine
  <1>4. ASSUME NEW m \in Mutators, Tools!Crash(m)
        PROVE  sh' = sh /\ failures' \in 0..MaxToolFaults
    BY <1>1, <1>4 DEF ShellInv, Tools!Crash, Tools!Fault
  <1>5. ASSUME Tools!Save \/ Tools!Delete
        PROVE  sh' = sh /\ failures' \in 0..MaxToolFaults
    BY <1>5 DEF ShellInv, Tools!Save, Tools!Delete
  <1>6. sh' = sh /\ failures' \in 0..MaxToolFaults
    BY <1>2, <1>3, <1>4, <1>5 DEF Tools!FileNext
  <1> QED BY <1>6 DEF ShellInv

LEMMA ShellLeavesFiles ==
    ASSUME Tools!ShellNext
    PROVE  UNCHANGED Tools!files
  BY DEF Tools!ShellNext, Tools!ShellStep, Tools!RunShell, Tools!Select, Tools!KillLeftovers,
         Tools!ReapKilled, Tools!JoinDrains, Tools!CancelShell, Tools!DropShell, Tools!Fork,
         Tools!KidEnds, Tools!LeavesGroup, Tools!OutsideEnds, Tools!LeaderEnds, Tools!Shell

(* Whatever the host is busy with, the tools keep what they promise. *)
LEMMA ToolStepKeeps ==
    ASSUME ToolInv, [HostNext]_hostVars
    PROVE  ToolInv'
  <1>1. ASSUME UNCHANGED toolVars PROVE ToolInv'
    <2>1. UNCHANGED Tools!files /\ UNCHANGED <<sh, failures>>
      BY <1>1 DEF toolVars, Tools!files
    <2> QED BY <2>1, MutationsHoldStill DEF ToolInv, ShellInv
  <1>2. ASSUME Tools!FileNext PROVE ToolInv'
    BY <1>2, MutationStep, FilesLeaveShell DEF ToolInv
  <1>3. ASSUME Tools!ShellNext PROVE ToolInv'
    BY <1>3, ShellStepKeeps, ShellLeavesFiles, MutationsHoldStill DEF ToolInv
  <1>4. \/ UNCHANGED toolVars \/ Tools!FileNext \/ Tools!ShellNext
    BY DEF HostNext, hostVars, HubStep, InHub, InFiles, InShell
  <1> QED BY <1>1, <1>2, <1>3, <1>4

LEMMA ToolInit ==
    ASSUME HostInit
    PROVE  ToolInv
  <1>1. Tools!Init /\ MaxKids \in Nat /\ MaxToolFaults \in Nat
    BY ToolsAssumption DEF HostInit
  <1>2. ShellInv
    BY <1>1 DEF Tools!Init, ShellInv, ShellRec, Tools!NoShell
  <1> QED BY <1>1, <1>2, MutationInit DEF ToolInv

LEMMA ToolsHold == HostSpec => []ToolInv
  BY ToolInit, ToolStepKeeps, PTL DEF HostSpec

(* Whatever fails, crashes or races: the file is always whole, success     *)
(* means that exactly the text that was read was replaced, a save goes     *)
(* only if a mutation had read it or nothing protects it, and nothing of a *)
(* call goes on once it is over.                                           *)
THEOREM MutationsStaySafe == HostSpec => []MutationsAreSafe
  <1>1. ASSUME ToolInv PROVE MutationsAreSafe
    <2>1. Tools!TypeOK
      <3>1. /\ entry \in [Tools!Names -> {0} \cup Tools!Inodes]
            /\ caller \in [Mutators -> {"none", "waiting", "over"}]
        BY <1>1 DEF ToolInv, MutationInv, FilesType
      <3>2. \A i \in Tools!Inodes : text[i].whole \in BOOLEAN
        BY <1>1 DEF ToolInv, MutationInv, FilesType, TextRec
      <3>3. \A m \in Mutators : mut[m].open \in {0} \cup Tools!Inodes
        BY <1>1 DEF ToolInv, MutationInv, FilesType, WorkRec
      <3>4. /\ sh.leader \in {"none", "alive", "dying", "zombie", "reaped"} /\ sh.kids \in 0..MaxKids
            /\ failures \in 0..MaxToolFaults
        BY <1>1 DEF ToolInv, ShellInv, ShellRec
      <3> QED BY <3>1, <3>2, <3>3, <3>4 DEF Tools!TypeOK
    <2> QED BY <1>1, <2>1, MutationInvSafe DEF MutationsAreSafe, Tools!MutationsAreSafe, ToolInv
  <1> QED BY <1>1, ToolsHold, PTL

(* However a shell call ends, nothing of its process group is left running *)
(* unless the system refuses the kill.                                     *)
THEOREM ShellStaysContained == HostSpec => []ShellIsContained
  <1>1. ToolInv => ShellIsContained
    BY DEF ToolInv, ShellInv, ShellIsContained, Tools!ShellIsContained
  <1> QED BY <1>1, ToolsHold, PTL

=============================================================================
