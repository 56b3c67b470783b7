----------------------------- MODULE Workspace -----------------------------
(***************************************************************************)
(* The workspace tools that change the host.  write_file and edit_file     *)
(* replace one file through a sibling temporary file, a swap of the two    *)
(* names, a look at what was swapped out and, when that is not the file    *)
(* that was read, a swap back; they run on a blocking worker whose caller  *)
(* may be dropped.  shell runs a process group under a timeout.            *)
(*                                                                         *)
(* Abstractions: one target, reached through a pinned directory; a text is *)
(* the set of changes it contains; inode numbers are used again once no    *)
(* name and no descriptor holds them.  Other programs save by rename or    *)
(* delete; a program that writes into the file in place keeps its inode    *)
(* and is not noticed, which is left out.  SIGKILL reaches every member of *)
(* a group at once.                                                        *)
(***************************************************************************)
EXTENDS Naturals, FiniteSets, Sequences, SequencesExt

CONSTANTS
    Mutators,       \* invocations of write_file and edit_file
    Target,         \* the name of the file
    MaxRacers,      \* bound: changes of the file, by mutators and others
    MaxKids,        \* bound: background processes of the shell at a time
    MaxToolFaults,  \* bound: failing calls and crashes
    Symbols, MaxText    \* texts that ToolTextIsExact enumerates

VARIABLES
    entry,      \* the inode under each name, 0 for none
    text,       \* the contents of inodes
    mut,        \* the worker of each mutation
    caller,     \* the future that awaits it
    racers,     \* changes tried so far
    deleted,    \* somebody deleted the file
    exposed,    \* history: saves that nothing protects, see Save, Delete and Install
    sh,         \* the shell call and its processes
    failures

files == <<entry, text, mut, caller, racers, deleted, exposed>>
vars == <<files, sh, failures>>

(* A mutator names its temporary file too: process id and a counter.       *)
Names == {Target} \cup Mutators
(* One for every name and descriptor, and one to take.                     *)
Inodes == 1..(2 * Cardinality(Mutators) + 2)

NoText == [whole |-> FALSE, has |-> {}]
(* open: the descriptor of the file that was read, 0 for none; seen: what  *)
(* it held; took: what the swap moved away.                                *)
NoWork == [pc |-> "idle", op |-> "write", open |-> 0, seen |-> {}, took |-> {}, outcome |-> "none"]
NoShell == [pc |-> "idle", leader |-> "none", kids |-> 0, outside |-> FALSE, cancelled |-> FALSE,
            armed |-> FALSE, refused |-> FALSE]

Init ==
    /\ entry = [n \in Names |-> IF n = Target THEN 1 ELSE 0]
    /\ text = [i \in Inodes |-> IF i = 1 THEN [whole |-> TRUE, has |-> {}] ELSE NoText]
    /\ mut = [m \in Mutators |-> NoWork] /\ caller = [m \in Mutators |-> "none"]
    /\ racers = 0 /\ deleted = FALSE /\ exposed = {}
    /\ sh = NoShell /\ failures = 0

Fault == failures < MaxToolFaults /\ failures' = failures + 1
Fine == failures' = failures

-----------------------------------------------------------------------------
(* Mutations.                                                              *)

Open(m) == mut[m].pc \notin {"idle", "done", "dead"}
Held == {entry[n] : n \in Names} \cup {mut[m].open : m \in {x \in Mutators : Open(x)}}
FreeInode == CHOOSE i \in Inodes \ Held : \A j \in Inodes \ Held : i <= j

At(m, pc) == mut[m].pc = pc
Goto(m, pc) == mut' = [mut EXCEPT ![m].pc = pc]
Done(m, outcome) == mut' = [mut EXCEPT ![m].pc = "done", ![m].outcome = outcome, ![m].open = 0]
SameFiles == UNCHANGED <<entry, text, deleted, exposed>>
Work == UNCHANGED <<caller, racers, sh>>

(* The worker starts; a cancelled invocation stops before it did anything. *)
Invoke(m, op) ==
    /\ At(m, "idle") /\ racers < MaxRacers /\ racers' = racers + 1
    /\ mut' = [mut EXCEPT ![m].pc = "open", ![m].op = op]
    /\ caller' = [caller EXCEPT ![m] = "waiting"]
    /\ SameFiles /\ Fine /\ UNCHANGED sh

(* So does one whose arguments or target are not acceptable.               *)
StopsEarly(m) ==
    At(m, "open") /\ Done(m, "refused") /\ SameFiles /\ Fine /\ Work

(* open_mutation_existing, and what edit_file reads through the descriptor.*)
OpenTarget(m) ==
    LET i == entry[Target]
    IN /\ At(m, "open")
       /\ i # 0 \/ mut[m].op = "write"
       /\ mut' = [mut EXCEPT ![m].pc = "create", ![m].open = i,
                             ![m].seen = IF i = 0 THEN {} ELSE text[i].has]
       /\ SameFiles /\ Fine /\ Work

(* create_sibling_temp *)
CreateTemp(m) ==
    /\ At(m, "create")
    /\ \/ /\ entry' = [entry EXCEPT ![m] = FreeInode]
          /\ text' = [text EXCEPT ![FreeInode] = NoText]
          /\ Goto(m, "fill") /\ Fine
       \/ Done(m, "failed") /\ Fault /\ UNCHANGED <<entry, text>>
    /\ UNCHANGED <<deleted, exposed>> /\ Work

(* The new contents are written and synced.                                *)
FillTemp(m) ==
    /\ At(m, "fill")
    /\ \/ /\ text' = [text EXCEPT ![entry[m]].whole = TRUE,
                        ![entry[m]].has = {m} \cup IF mut[m].op = "edit" THEN mut[m].seen ELSE {}]
          /\ Goto(m, "install") /\ Fine
       \/ Goto(m, "drop") /\ Fault /\ UNCHANGED text
    /\ UNCHANGED <<entry, deleted, exposed>> /\ Work

Swapping == {m \in Mutators : At(m, "verify") \/ At(m, "rollback")}
Swapped(m) == [entry EXCEPT ![m] = entry[Target], ![Target] = entry[m]]

(* replace_existing_with_swap up to the swap, install_new_exclusively.     *)
Install(m) ==
    /\ At(m, "install")
    /\ IF mut[m].open # 0
       THEN \/ /\ entry[Target] # 0 /\ entry' = Swapped(m) /\ Fine
               /\ mut' = [mut EXCEPT ![m].pc = "verify", ![m].took = text[entry[Target]].has]
               /\ exposed' = exposed \cup UNION {mut[x].took : x \in Swapping}
            \/ entry[Target] = 0 /\ Goto(m, "drop") /\ Fine /\ UNCHANGED <<entry, exposed>>
            \/ Goto(m, "drop") /\ Fault /\ UNCHANGED <<entry, exposed>>
       ELSE \/ /\ entry[Target] = 0 /\ entry' = [Swapped(m) EXCEPT ![m] = 0] /\ Fine
               /\ Goto(m, "sync") /\ UNCHANGED exposed
            \/ entry[Target] # 0 /\ Goto(m, "drop") /\ Fine /\ UNCHANGED <<entry, exposed>>
            \/ Goto(m, "drop") /\ Fault /\ UNCHANGED <<entry, exposed>>
    /\ UNCHANGED <<text, deleted>> /\ Work

(* metadata_at: is what was swapped out the file that was read?            *)
Verify(m) ==
    /\ At(m, "verify")
    /\ \/ entry[m] = mut[m].open /\ Goto(m, "unlink") /\ Fine
       \/ entry[m] # mut[m].open /\ Goto(m, "rollback") /\ Fine
       \/ Goto(m, "rollback") /\ Fault
    /\ SameFiles /\ Work

Unlink(m) ==
    /\ At(m, "unlink")
    /\ \/ entry' = [entry EXCEPT ![m] = 0] /\ Goto(m, "sync") /\ Fine
       \/ Goto(m, "drop") /\ Fault /\ UNCHANGED entry
    /\ UNCHANGED <<text, deleted, exposed>> /\ Work

(* Mutant: the scratch name is cleaned up after a failed roll back too.    *)
RollbackArmed(m) ==
    /\ At(m, "rollback")
    /\ \/ entry[Target] # 0 /\ entry' = Swapped(m) /\ Fine
       \/ entry[Target] = 0 /\ Fine /\ UNCHANGED entry
       \/ Fault /\ UNCHANGED entry
    /\ Goto(m, "drop") /\ UNCHANGED <<text, deleted, exposed>> /\ Work

(* rollback_or_preserve: the swap back and its sync.  When one of them     *)
(* fails the temporary name is left alone.                                 *)
Rollback(m) ==
    /\ At(m, "rollback")
    /\ \/ entry[Target] # 0 /\ entry' = Swapped(m) /\ Goto(m, "drop") /\ Fine
       \/ entry[Target] # 0 /\ entry' = Swapped(m) /\ Done(m, "failed") /\ Fault
       \/ entry[Target] = 0 /\ Done(m, "failed") /\ Fine /\ UNCHANGED entry
       \/ Done(m, "failed") /\ Fault /\ UNCHANGED entry
    /\ UNCHANGED <<text, deleted, exposed>> /\ Work

(* PendingTemp::drop *)
DropTemp(m) ==
    /\ At(m, "drop")
    /\ \/ entry' = [entry EXCEPT ![m] = 0] /\ Fine
       \/ UNCHANGED entry /\ Fault
    /\ Done(m, "failed") /\ UNCHANGED <<text, deleted, exposed>> /\ Work

(* The parent directory is synced; a failure is reported although the new  *)
(* file is in place.                                                       *)
SyncParent(m) ==
    /\ At(m, "sync")
    /\ \/ Done(m, "ok") /\ Fine
       \/ Done(m, "failed") /\ Fault
    /\ SameFiles /\ Work

(* Its process dies; descriptors are closed, names stay.                   *)
Crash(m) ==
    /\ Open(m) /\ Fault
    /\ mut' = [mut EXCEPT ![m].pc = "dead", ![m].open = 0]
    /\ caller' = [caller EXCEPT ![m] = "over"]
    /\ SameFiles /\ UNCHANGED <<racers, sh>>

(* Another program saves by rename, or deletes the file.                   *)
Save ==
    /\ racers < MaxRacers /\ racers' = racers + 1
    /\ entry' = [entry EXCEPT ![Target] = FreeInode]
    /\ text' = [text EXCEPT ![FreeInode] =
                  [whole |-> TRUE,
                   has |-> {racers'} \cup IF entry[Target] = 0 THEN {} ELSE text[entry[Target]].has]]
    /\ exposed' = IF Swapping # {} THEN exposed \cup {racers'} ELSE exposed
    /\ UNCHANGED <<mut, caller, deleted, sh, failures>>

Delete ==
    /\ racers < MaxRacers /\ racers' = racers + 1 /\ entry[Target] # 0
    /\ entry' = [entry EXCEPT ![Target] = 0] /\ deleted' = TRUE
    /\ exposed' = exposed \cup text[entry[Target]].has
    /\ UNCHANGED <<text, mut, caller, sh, failures>>

(* blocking_mutation returns the result of its worker.  The future may be  *)
(* dropped before, and the drop of MutationCompletion waits just as long.  *)
Returns(m) ==
    /\ caller[m] = "waiting" /\ At(m, "done")
    /\ caller' = [caller EXCEPT ![m] = "over"]
    /\ UNCHANGED <<entry, text, mut, racers, deleted, exposed, sh, failures>>

MutatorStep(m) ==
    \/ StopsEarly(m) \/ OpenTarget(m) \/ CreateTemp(m) \/ FillTemp(m) \/ Install(m)
    \/ Verify(m) \/ Unlink(m) \/ Rollback(m) \/ DropTemp(m) \/ SyncParent(m) \/ Returns(m)

FileNext ==
    \/ \E m \in Mutators :
        \/ \E op \in {"write", "edit"} : Invoke(m, op)
        \/ MutatorStep(m) \/ Crash(m)
    \/ Save \/ Delete

-----------------------------------------------------------------------------
(* shell.  "dying" is a leader that was sent SIGKILL and is not gone yet;  *)
(* kids are the background processes of the group that were not killed;    *)
(* outside: a descendant that left the group still holds the pipes.        *)

Shell(next) == sh' = next /\ UNCHANGED files
Leads == sh.leader = "alive"

RunShell ==
    /\ sh.pc = "idle" /\ Fine
    /\ Shell([NoShell EXCEPT !.pc = "select", !.leader = "alive", !.armed = TRUE])

(* What the script does, whether or not anyone waits for it.               *)
Fork == (Leads \/ sh.kids > 0) /\ sh.kids < MaxKids /\ Fine /\ Shell([sh EXCEPT !.kids = @ + 1])
KidEnds == sh.kids > 0 /\ Fine /\ Shell([sh EXCEPT !.kids = @ - 1])
LeavesGroup ==
    sh.kids > 0 /\ ~sh.outside /\ Fine /\ Shell([sh EXCEPT !.kids = @ - 1, !.outside = TRUE])
OutsideEnds == sh.outside /\ Fine /\ Shell([sh EXCEPT !.outside = FALSE])
LeaderEnds == sh.leader \in {"alive", "dying"} /\ Fine /\ Shell([sh EXCEPT !.leader = "zombie"])
CancelShell ==
    sh.pc = "select" /\ ~sh.cancelled /\ Fine /\ Shell([sh EXCEPT !.cancelled = TRUE])

Struck(s) == [s EXCEPT !.leader = IF @ = "alive" THEN "dying" ELSE @]
(* ProcessGroupGuard::kill; the group may refuse it (EPERM).               *)
GroupKilled(s) == IF s.armed /\ ~s.refused THEN [Struck(s) EXCEPT !.kids = 0] ELSE s

(* Mutant: the guard is gone before the call ends.                         *)
EndedUnguarded(s) == [Struck(s) EXCEPT !.pc = "over", !.armed = FALSE]

(* The call ends: the drop of the guard kills the group unless it was      *)
(* disarmed, and the drop of the child kills the leader.                   *)
Ended(s) == [Struck(GroupKilled(s)) EXCEPT !.pc = "over", !.armed = FALSE]

(* The biased select: cancellation, then the timer, then the exit, which   *)
(* is reaped.  Waiting for the shell may fail.                             *)
Select ==
    /\ sh.pc = "select"
    /\ \/ Fine /\ Shell(GroupKilled([sh EXCEPT !.pc = "stop"]))
       \/ Fault /\ Shell(Struck([sh EXCEPT !.pc = "stop", !.refused = TRUE]))
       \/ ~sh.cancelled /\ sh.leader = "zombie" /\ Fine
              /\ Shell([sh EXCEPT !.pc = "exited", !.leader = "reaped"])
       \/ ~sh.cancelled /\ sh.leader = "zombie" /\ Fault /\ Shell(Ended(sh))

Drains(s) == [s EXCEPT !.pc = "drain", !.armed = FALSE]

(* finish_shell after a normal exit: what the script left running is       *)
(* killed.                                                                 *)
KillLeftovers ==
    /\ sh.pc = "exited"
    /\ \/ Fine /\ Shell(Drains(GroupKilled(sh)))
       \/ Fault /\ Shell(Ended([sh EXCEPT !.refused = TRUE]))

(* finish_shell after a timeout or a cancellation: the leader is killed    *)
(* and reaped, or not in time.                                             *)
ReapKilled ==
    /\ sh.pc = "stop" /\ Fine
    /\ IF sh.leader = "zombie" /\ ~sh.refused
       THEN Shell(Drains([sh EXCEPT !.leader = "reaped"]))
       ELSE Shell(Ended(sh))

(* Mutant: the output is read to its end.                                  *)
JoinDrainsToEnd == sh.pc = "drain" /\ ~sh.outside /\ Fine /\ Shell(Ended(sh))

(* join_drain: the end of the output, or IO_DRAIN_TIMEOUT.                 *)
JoinDrains == sh.pc = "drain" /\ Fine /\ Shell(Ended(sh))

(* The future of the call is dropped where it waits.                       *)
DropShell ==
    sh.pc \in {"select", "stop", "drain"} /\ Fine /\ Shell(Ended(sh))

ShellStep == Select \/ KillLeftovers \/ ReapKilled \/ JoinDrains

ShellNext ==
    \/ RunShell \/ ShellStep \/ CancelShell \/ DropShell
    \/ Fork \/ KidEnds \/ LeavesGroup \/ OutsideEnds \/ LeaderEnds

Next == FileNext \/ ShellNext

(* The blocking worker runs, and so does the executor with its timers.     *)
(* Nothing is assumed of the processes of a script.                        *)
Fairness == WF_vars(ShellStep) /\ \A m \in Mutators : WF_vars(MutatorStep(m))

-----------------------------------------------------------------------------
(* Texts.  CappedOutput keeps the beginning and the end of an output that  *)
(* arrives in pieces.                                                      *)

Capped(limit) == [head |-> <<>>, tail |-> <<>>, total |-> 0, limit |-> limit]

Least(a, b) == IF a <= b THEN a ELSE b
Drop(s, n) == SubSeq(s, n + 1, Len(s))
Suffix(s, n) == Drop(s, Len(s) - Least(n, Len(s)))

(* Mutant: half of the limit for the tail too.                             *)
PushHalves(out, bytes) ==
    LET half == out.limit \div 2
        n == Least(half - Len(out.head), Len(bytes))
    IN IF out.limit = 0 THEN [out EXCEPT !.total = @ + Len(bytes)]
       ELSE [out EXCEPT !.total = @ + Len(bytes), !.head = @ \o SubSeq(bytes, 1, n),
                        !.tail = Suffix(@ \o Drop(bytes, n), half)]

(* push *)
Push(out, bytes) ==
    LET half == out.limit \div 2
        n == Least(half - Len(out.head), Len(bytes))
    IN IF out.limit = 0 THEN [out EXCEPT !.total = @ + Len(bytes)]
       ELSE [out EXCEPT !.total = @ + Len(bytes), !.head = @ \o SubSeq(bytes, 1, n),
                        !.tail = Suffix(@ \o Drop(bytes, n), out.limit - half)]

Texts == UNION {[1..n -> Symbols] : n \in 0..MaxText}

(* wildcard_matches, one row of the table per symbol of the pattern.       *)
WildcardMatches(pattern, value) ==
    LET start == [i \in 0..Len(value) |-> i = 0]
        next(row, token) ==
            LET new[i \in 0..Len(value)] ==
                    CASE token = "*" -> row[i] \/ (i > 0 /\ new[i - 1])
                      [] token = "?" -> i > 0 /\ row[i - 1]
                      [] OTHER -> i > 0 /\ row[i - 1] /\ value[i] = token
            IN new
    IN FoldLeft(next, start, pattern)[Len(value)]

-----------------------------------------------------------------------------
(* Properties. *)

TypeOK ==
    /\ entry \in [Names -> {0} \cup Inodes]
    /\ \A i \in Inodes : text[i].whole \in BOOLEAN
    /\ \A m \in Mutators : mut[m].open \in {0} \cup Inodes
    /\ caller \in [Mutators -> {"none", "waiting", "over"}]
    /\ sh.leader \in {"none", "alive", "dying", "zombie", "reaped"} /\ sh.kids \in 0..MaxKids
    /\ failures \in 0..MaxToolFaults

(* Whatever fails, crashes or is dropped, and wherever: the name of the    *)
(* file leads to a complete text, and it never vanishes unless somebody    *)
(* deleted it.                                                             *)
TargetIsWhole ==
    IF entry[Target] = 0 THEN deleted ELSE text[entry[Target]].whole

(* A mutation that reports success has replaced exactly the text that it   *)
(* had read, although anybody may have saved between its look and its swap,*)
(* and inode numbers are used again.                                       *)
SuccessIsInformed ==
    \A m \in Mutators : mut[m].outcome = "ok" => mut[m].took = mut[m].seen

Saved == {v \in 1..racers : \E i \in Inodes : v \in text[i].has}

(* What another program saved is lost to a mutation only if the mutation   *)
(* had read it: a raced mutation, and one whose roll back fails too, leave *)
(* it under a name.  The roll back cannot know of a save made after the    *)
(* swap, which goes with the scratch file.                                 *)
SavesAreKept ==
    \A v \in Saved \ exposed :
        \/ \E n \in Names : entry[n] # 0 /\ v \in text[entry[n]].has
        \/ \E m \in Mutators : v \in mut[m].seen

(* Once a call is over for its caller, dropped or not, nothing of it goes  *)
(* on: the worker of a mutation has ended.                                 *)
NothingGoesOn == \A m \in Mutators : caller[m] = "over" => ~Open(m)

MutationsAreSafe ==
    TypeOK /\ TargetIsWhole /\ SuccessIsInformed /\ SavesAreKept /\ NothingGoesOn

(* However a shell call ends - exit, timeout, cancellation, a failing      *)
(* wait, a dropped future - nothing of its process group is left running,  *)
(* unless the system refuses the kill.                                     *)
ShellIsContained ==
    sh.pc = "over" /\ ~sh.refused => sh.leader # "alive" /\ sh.kids = 0

(* There is always a time when nobody waits: every caller is let go, and   *)
(* no shell call outlives its timers, whatever its processes do and        *)
(* whoever keeps its pipes.                                                *)
ToolsEnd ==
    []<>(sh.pc \in {"idle", "over"} /\ \A m \in Mutators : caller[m] # "waiting")

(* A capped output is the whole output, or its first and last bytes.       *)
OutputIsCapped ==
    \A whole \in Texts, limit \in 0..MaxText, i \in 0..MaxText, k \in 0..MaxText :
        i <= k /\ k <= Len(whole) =>
            LET out == FoldLeft(Push, Capped(limit),
                                <<SubSeq(whole, 1, i), SubSeq(whole, i + 1, k), Drop(whole, k)>>)
            IN IF Len(whole) <= limit THEN out.head \o out.tail = whole
               ELSE /\ IsPrefix(out.head, whole) /\ out.tail = Suffix(whole, Len(out.tail))
                    /\ Len(out.head) + Len(out.tail) = limit

(* A pattern matches when its symbols can be laid over the value in order, *)
(* a star over any part and a question mark over one symbol.               *)
Laid(pattern, value, ends) ==
    /\ ends[0] = 0 /\ ends[Len(pattern)] = Len(value)
    /\ \A i \in DOMAIN pattern :
        /\ ends[i - 1] <= ends[i]
        /\ pattern[i] = "*" \/ (ends[i] = ends[i - 1] + 1 /\ pattern[i] \in {"?", value[ends[i]]})
Matches(pattern, value) ==
    \E ends \in [0..Len(pattern) -> 0..Len(value)] : Laid(pattern, value, ends)

WildcardIsExact ==
    \A pattern \in Texts, value \in Texts :
        WildcardMatches(pattern, value) <=> Matches(pattern, value)

(* Both are about no state and asked once.                                 *)
ToolTextIsExact ==
    racers = 0 /\ sh = NoShell => OutputIsCapped /\ WildcardIsExact
=============================================================================
