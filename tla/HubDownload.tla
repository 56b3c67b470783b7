---------------------------- MODULE HubDownload ----------------------------
(***************************************************************************)
(* The transfer of one immutable download plan into its staging directory: *)
(* a scheduler that runs a few files at a time, resumable partial files,   *)
(* retries, hashing and publication by an exclusive rename in a blocking   *)
(* worker that outlives a dropped future.                                  *)
(*                                                                         *)
(* Operations follow each other on the same staging directory: one may     *)
(* return, be cancelled, be dropped, or die with its process, and the next *)
(* one resumes.  An error that cannot be retried makes the model store     *)
(* discard the directory.                                                  *)
(*                                                                         *)
(* Abstractions: a file is a number of chunks, equal or not to the planned *)
(* bytes; modes, links and ACLs are valid; what identifies an unchanged    *)
(* file (inode, size, times) is its content.                               *)
(***************************************************************************)
EXTENDS Naturals, FiniteSets

CONSTANTS
    Files,          \* the planned files
    Checked,        \* those with a digest in the Hub's LFS metadata
    Size,           \* chunks of each file
    Slots,          \* DOWNLOAD_FILE_CONCURRENCY
    Retries,        \* HubConfig::retries
    Overlap,        \* may an operation begin before the workers of a dropped one end?
    MaxFaults       \* bound: faults of server, observer, process and caller

ASSUME HubDownloadAssumption ==
    /\ IsFiniteSet(Files) /\ Files # {} /\ Checked \subseteq Files /\ Overlap \in BOOLEAN
    /\ {Size, Slots} \subseteq Nat \ {0} /\ {Retries, MaxFaults} \subseteq Nat

VARIABLES
    part,       \* the `.part` file of each planned file
    dest,       \* its completed file
    op,         \* the running operation, or how the last one ended
    task,       \* download_file of each planned file
    late,       \* files whose publication worker outlived its future
    reported,   \* the bytes that observers were told are persisted
    spoiled,    \* the server sent something wrong since the directory was made
    faults

vars == <<part, dest, op, task, late, reported, spoiled, faults>>

None == [len |-> 0, good |-> TRUE, there |-> FALSE]
Empty == [len |-> 0, good |-> TRUE, there |-> TRUE]
File == [len : 0..Size, good : BOOLEAN, there : BOOLEAN]

(* HubError, as the scheduler and the model store tell errors apart.       *)
Errors == {"none", "cancelled", "transient", "terminal"}
Active == {"reuse", "rehash", "attempt", "send", "append", "fresh", "receive", "report",
           "hash", "publish", "rename"}
Task == [pc : Active \cup {"queued", "ok", "err", "gone"}, n : 0..Size, known : BOOLEAN,
         tries : 0..Retries + 1, error : Errors]
Queued == [pc |-> "queued", n |-> 0, known |-> FALSE, tries |-> 0, error |-> "none"]
Gone == [Queued EXCEPT !.pc = "gone"]

Init ==
    /\ part = [f \in Files |-> None] /\ dest = part
    /\ op = [on |-> FALSE, cancelled |-> FALSE, error |-> "none", returned |-> TRUE]
    /\ task = [f \in Files |-> Gone]
    /\ late = {} /\ reported = [f \in Files |-> 0] /\ spoiled = FALSE /\ faults = 0

Fault == faults < MaxFaults /\ faults' = faults + 1
At(f, pc) == task[f].pc = pc
Running == {f \in Files : task[f].pc \in Active \cup {"ok", "err"}}
Waiting == {f \in Files : At(f, "queued")}
Goto(f, pc) == task' = [task EXCEPT ![f].pc = pc]
Fails(f, error) == task' = [task EXCEPT ![f].pc = "err", ![f].error = error]
SameFiles == UNCHANGED <<part, dest, late, reported>>
Quietly == UNCHANGED <<spoiled, faults>>

-----------------------------------------------------------------------------
(* validate_download_staging: no file in both forms.                       *)
Acceptable == \A f \in Files : ~(part[f].there /\ dest[f].there)

(* Every file is queued and the first ones are admitted.                   *)
Lesser(a, b) == IF a < b THEN a ELSE b
Admitted(first) == [f \in Files |-> IF f \in first THEN [Queued EXCEPT !.pc = "reuse"] ELSE Queued]
Begin ==
    /\ ~op.on /\ op.error # "terminal" /\ (Overlap \/ late = {})
    /\ \/ /\ Acceptable
          /\ \E first \in SUBSET Files :
                Cardinality(first) = Lesser(Cardinality(Files), Slots) /\ task' = Admitted(first)
          /\ op' = [on |-> TRUE, cancelled |-> FALSE, error |-> "none", returned |-> FALSE]
       \/ /\ ~Acceptable /\ UNCHANGED task
          /\ op' = [op EXCEPT !.error = "terminal", !.returned = TRUE]
    /\ SameFiles /\ Quietly

(* check_cancelled before every await that ends; only a worker past its    *)
(* last check goes on.                                                     *)
Step(f, pc) == At(f, pc) /\ op.on /\ ~op.cancelled /\ UNCHANGED op
Cancelled(f) ==
    /\ op.on /\ op.cancelled /\ task[f].pc \in Active \ {"rename"}
    /\ Fails(f, "cancelled") /\ UNCHANGED op /\ SameFiles /\ Quietly

(* reuse_completed_file.                                                   *)
Reuse(f) ==
    /\ Step(f, "reuse")
    /\ \/ ~dest[f].there /\ Goto(f, "attempt")
       \/ dest[f].there /\ dest[f].len # Size
          /\ Fails(f, IF dest[f].len < Size THEN "transient" ELSE "terminal")
       \/ dest[f].there /\ dest[f].len = Size /\ Goto(f, "rehash")
    /\ SameFiles /\ Quietly

(* validate_staged_file_integrity.                                         *)
Sound(f, file) == file.len = Size /\ (f \in Checked => file.good)
Unsound(file) == IF file.len < Size THEN "transient" ELSE "terminal"

Rehash(f) ==
    /\ Step(f, "rehash")
    /\ IF Sound(f, dest[f]) THEN Goto(f, "ok") ELSE Fails(f, Unsound(dest[f]))
    /\ SameFiles /\ Quietly

(* download_attempt up to its request: FileStarted reports what is there.  *)
Attempt(f) ==
    /\ Step(f, "attempt")
    /\ LET existing == part[f].len
           now == [task[f] EXCEPT !.n = existing, !.known = part[f].there, !.tries = @ + 1]
       IN  /\ task' = [task EXCEPT ![f] =
                [now EXCEPT !.pc = IF existing = Size /\ part[f].there THEN "hash" ELSE "send"]]
           /\ reported' = [reported EXCEPT ![f] = existing]
    /\ UNCHANGED <<part, dest, late>> /\ Quietly

(* A transient error is retried from the partial file, HubConfig::retries  *)
(* times; the backoff is interrupted by cancellation.                      *)
Transient(f) ==
    task' = IF task[f].tries <= Retries
            THEN [task EXCEPT ![f].pc = "attempt"]
            ELSE [task EXCEPT ![f].pc = "err", ![f].error = "transient"]

(* send_download and validate_content_range: the rest, everything from the *)
(* start, a timeout or an unavailable server, or an answer that is wrong.  *)
Respond(f) ==
    /\ Step(f, "send") /\ SameFiles
    /\ \/ task[f].n > 0 /\ Goto(f, "append") /\ Quietly
       \/ task[f].n = 0 /\ Goto(f, "fresh") /\ Quietly
       \/ task[f].n > 0 /\ Fault /\ task' = [task EXCEPT ![f].pc = "fresh", ![f].n = 0] /\ UNCHANGED spoiled
       \/ Fault /\ Transient(f) /\ UNCHANGED spoiled
       \/ Fault /\ Fails(f, "terminal") /\ spoiled' = TRUE

OpenAnew(f) ==          \* Mutant: create_new although a partial file is there
    /\ \/ Step(f, "append") \/ Step(f, "fresh")
    /\ IF (At(f, "append") /\ part[f].there) \/ ~part[f].there
       THEN /\ Goto(f, "receive")
            /\ IF At(f, "append") THEN UNCHANGED <<part, reported>>
               ELSE /\ part' = [part EXCEPT ![f] = Empty]
                    /\ reported' = [reported EXCEPT ![f] = 0]
       ELSE Fails(f, "terminal") /\ UNCHANGED <<part, reported>>
    /\ UNCHANGED <<dest, late>> /\ Quietly

(* open_partial: create_new, append, or truncate.                          *)
Open(f) ==
    /\ \/ Step(f, "append") \/ Step(f, "fresh")
    /\ IF task[f].known = part[f].there
       THEN /\ Goto(f, "receive")
            /\ IF At(f, "append") THEN UNCHANGED <<part, reported>>
               ELSE /\ part' = [part EXCEPT ![f] = Empty]
                    /\ reported' = [reported EXCEPT ![f] = 0]
       ELSE Fails(f, "terminal") /\ UNCHANGED <<part, reported>>
    /\ UNCHANGED <<dest, late>> /\ Quietly

(* One chunk is written and flushed.  The body may be damaged, stall, end  *)
(* early, or be longer than the plan says.                                 *)
Written(f, good) == part' = [part EXCEPT ![f].len = @ + 1, ![f].good = @ /\ good]
Receive(f) ==
    /\ Step(f, "receive") /\ UNCHANGED <<dest, late, reported>>
    /\ \/ /\ task[f].n < Size /\ task' = [task EXCEPT ![f].pc = "report", ![f].n = @ + 1]
          /\ \/ Written(f, TRUE) /\ Quietly
             \/ Written(f, FALSE) /\ Fault /\ spoiled' = TRUE
       \/ /\ UNCHANGED part
          /\ \/ task[f].n = Size /\ Goto(f, "hash") /\ Quietly
             \/ task[f].n = Size /\ Fault /\ Fails(f, "terminal") /\ spoiled' = TRUE
             \/ Fault /\ Transient(f) /\ UNCHANGED spoiled

(* Progress is reported after the flush; the observer may stop it here.    *)
Report(f) ==
    /\ Step(f, "report") /\ UNCHANGED <<part, dest, late, spoiled>>
    /\ reported' = [reported EXCEPT ![f] = task[f].n]
    /\ \/ Goto(f, "receive") /\ UNCHANGED faults
       \/ Fault /\ Fails(f, "cancelled")

HashSize(f) ==          \* Mutant: only the size is compared
    /\ Step(f, "hash") /\ IF part[f].len = Size THEN Goto(f, "publish") ELSE Fails(f, "terminal")
    /\ SameFiles /\ Quietly

(* hash_file and validate_staged_file_integrity.                           *)
Hash(f) ==
    /\ Step(f, "hash")
    /\ IF ~part[f].there THEN Fails(f, "terminal")
       ELSE IF Sound(f, part[f]) THEN Goto(f, "publish")
       ELSE Fails(f, Unsound(part[f]))
    /\ SameFiles /\ Quietly

(* The blocking worker: cancellation and the unchanged file are checked,   *)
(* then the rename, which nothing stops any more.                          *)
Publish(f) ==
    /\ Step(f, "publish")
    /\ IF part[f].there THEN Goto(f, "rename") ELSE Fails(f, "terminal")
    /\ SameFiles /\ Quietly

(* rename_exclusive.                                                       *)
CanRename(f) == part[f].there /\ ~dest[f].there
Renamed(f) ==
    IF CanRename(f)
    THEN dest' = [dest EXCEPT ![f] = part[f]] /\ part' = [part EXCEPT ![f] = None]
    ELSE UNCHANGED <<dest, part>>

Rename(f) ==
    /\ op.on /\ At(f, "rename") /\ Renamed(f)
    /\ IF CanRename(f) THEN Goto(f, "ok") ELSE Fails(f, "terminal")
    /\ UNCHANGED <<op, late, reported>> /\ Quietly

(* The worker of a dropped future; nobody sees its result.                 *)
LateRename(f) ==
    /\ f \in late /\ Renamed(f) /\ late' = late \ {f}
    /\ UNCHANGED <<op, task, reported>> /\ Quietly

-----------------------------------------------------------------------------
(* The scheduler takes a finished file: a good one admits the next, the    *)
(* first error cancels the siblings and admits nothing more.               *)
Take(f) ==
    /\ op.on /\ task[f].pc \in {"ok", "err"}
    /\ \/ /\ At(f, "ok") /\ op.error = "none" /\ UNCHANGED op
          /\ IF Waiting = {} THEN task' = [task EXCEPT ![f] = Gone]
             ELSE \E g \in Waiting : task' = [task EXCEPT ![f] = Gone, ![g].pc = "reuse"]
       \/ /\ At(f, "ok") /\ op.error # "none" /\ UNCHANGED op /\ task' = [task EXCEPT ![f] = Gone]
       \/ /\ At(f, "err") /\ task' = [task EXCEPT ![f] = Gone]
          /\ op' = IF op.error # "none" THEN op
                   ELSE [op EXCEPT !.error = task[f].error, !.cancelled = TRUE]
    /\ SameFiles /\ Quietly

ReturnEarly ==          \* Mutant: the first error is returned while siblings run
    /\ op.on /\ (Running = {} \/ op.error # "none")
    /\ op' = [op EXCEPT !.on = FALSE, !.returned = TRUE]
    /\ task' = [f \in Files |-> Gone]
    /\ late' = {f \in Files : At(f, "rename")}
    /\ UNCHANGED <<part, dest, reported>> /\ Quietly

(* Every active file has drained: the first error, or TransferCompleted.   *)
Return ==
    /\ op.on /\ Running = {}
    /\ op' = [op EXCEPT !.on = FALSE, !.returned = TRUE]
    /\ task' = [f \in Files |-> Gone]
    /\ SameFiles /\ Quietly

(* The caller cancels its token.                                           *)
CallerCancels ==
    /\ op.on /\ ~op.cancelled /\ Fault
    /\ op' = [op EXCEPT !.cancelled = TRUE]
    /\ UNCHANGED <<task, spoiled>> /\ SameFiles

(* The future is dropped, and with it every file's future, wherever it     *)
(* waits; publication workers past their last check remain, others see     *)
(* the cancelled child.  A process that dies takes its workers with it.    *)
Drop(workers) ==
    /\ op.on /\ Fault
    /\ op' = [on |-> FALSE, cancelled |-> TRUE, error |-> "cancelled", returned |-> FALSE]
    /\ task' = [f \in Files |-> Gone]
    /\ late' = late \cup workers
    /\ UNCHANGED <<part, dest, reported, spoiled>>
DropFuture == Drop({f \in Files : At(f, "rename")})
Die == Drop({}) /\ late = {}

DiscardNothing ==       \* Mutant: the failed payload stays
    /\ ~op.on /\ op.error = "terminal" /\ op' = [op EXCEPT !.error = "none", !.returned = FALSE]
    /\ UNCHANGED <<part, dest, task, late, reported, spoiled, faults>>

(* handle_hub_transfer_failure: the payload of a terminal error goes to    *)
(* quarantine and the next transfer begins with an empty directory.        *)
Discard ==
    /\ ~op.on /\ op.error = "terminal"
    /\ part' = [f \in Files |-> None] /\ dest' = part' /\ reported' = [f \in Files |-> 0]
    /\ op' = [op EXCEPT !.error = "none", !.returned = FALSE] /\ late' = {} /\ spoiled' = FALSE
    /\ UNCHANGED <<task, faults>>

FileStep(f) ==
    \/ Cancelled(f) \/ Reuse(f) \/ Rehash(f) \/ Attempt(f) \/ Respond(f) \/ Open(f) \/ Receive(f)
    \/ Report(f) \/ Hash(f) \/ Publish(f) \/ Rename(f) \/ Take(f) \/ LateRename(f)
Next == (\E f \in Files : FileStep(f)) \/ Begin \/ Return \/ CallerCancels \/ DropFuture \/ Die \/ Discard

Spec == Init /\ [][Next]_vars

(* Timeouts bound every wait for the server, workers and futures are       *)
(* scheduled, and the user runs the download again.                        *)
FairSpec ==
    /\ Spec /\ WF_vars(Begin) /\ WF_vars(Return) /\ WF_vars(Discard)
    /\ \A f \in Files : WF_vars(FileStep(f))

-----------------------------------------------------------------------------
TypeOK ==
    /\ part \in [Files -> File] /\ dest \in [Files -> File]
    /\ op \in [on : BOOLEAN, cancelled : BOOLEAN, error : Errors, returned : BOOLEAN]
    /\ task \in [Files -> Task] /\ late \subseteq Files
    /\ reported \in [Files -> 0..Size] /\ spoiled \in BOOLEAN /\ faults \in 0..MaxFaults
    /\ Cardinality(Running) <= Slots

(* A completed file has the planned size and, where the Hub publishes one, *)
(* the planned digest, whatever was interrupted or resumed before          *)
(* (download_file).                                                        *)
PublishedIsVerified == \A f \in Files : dest[f].there => Sound(f, dest[f])

(* What observers were told is persisted can be resumed from: it is in the *)
(* partial or the completed file at any moment, also after a crash         *)
(* (download_attempt: flush before Progress).                              *)
ReportedIsPersisted == \A f \in Files : reported[f] <= part[f].len \/ dest[f].there

(* Only a wrong answer of the server makes a transfer fail for good: what  *)
(* cancellation, drops, crashes and retries leave behind is accepted by    *)
(* the next operation.                                                     *)
LeftoversAreAccepted == op.error = "terminal" => spoiled

(* When download returned, by itself, nothing of it is still at work on    *)
(* the staging directory (the scheduler drains every active sibling).      *)
ReturnedIsQuiet == [][~op.on /\ op.returned /\ ~op'.on /\ op'.returned => UNCHANGED <<part, dest>>]_vars

(* After the first error no file gets further than a publication that had  *)
(* passed its last check (first_error, DownloadOperationGuard).            *)
ErrorStopsOthers ==
    [][\A f \in Files : op.on /\ op.error # "none" /\ task'[f].pc \in Active => task'[f] = task[f]]_vars

(* With a user who tries again, and faults that end, every planned file is *)
(* completed in the end.                                                   *)
DownloadCompletes == <>(\A f \in Files : dest[f].there)

(* However operations interrupt and resume each other, at most Slots files *)
(* are in work and none is published without its checks.                   *)
FilesAreVerified == TypeOK /\ PublishedIsVerified

(* What an interrupted operation leaves can be resumed from, and holds at  *)
(* least what its observer was told.                                       *)
LeftoversResume == ReportedIsPersisted /\ LeftoversAreAccepted

(* The first error stops the siblings, and the operation returns only when *)
(* they have stopped.                                                      *)
ErrorsDrain == ErrorStopsOthers /\ ReturnedIsQuiet
=============================================================================
