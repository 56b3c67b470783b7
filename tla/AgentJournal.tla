----------------------------- MODULE AgentJournal -----------------------------
(***************************************************************************)
(* The crash-safe journal of durable agent turns: DurableAgentSession, its *)
(* checkpoint writer, the agent's tool loop as far as it drives the        *)
(* checkpoints, and the resume/recover path that reconciles what a dead    *)
(* process left behind.                                                    *)
(*                                                                         *)
(* A process runs one turn of one session.  Each checkpoint is handed to a *)
(* blocking worker and awaited; the process may crash at any moment, and   *)
(* the caller may drop the turn's future, which leaves a checkpoint in     *)
(* flight that commits later.  Meanwhile the session lease may run out and *)
(* another process may resume the session.                                 *)
(*                                                                         *)
(* Abstractions.                                                           *)
(*  - The execution lease is the token's owner and whether the deadline    *)
(*    lies ahead; SessionStore has the details.                            *)
(*  - Turns and tool calls are numbers in the order they are created (both *)
(*    carry fresh UUIDs).  A result is what it tells the reader: the       *)
(*    tool's output, that an effect may have happened, that the tool did   *)
(*    not run, or that the call was denied.                                *)
(*  - The audit trail is kept per call: approval asked, decided, started.  *)
(*  - Model rounds, tools and the user are arbitrary within these steps.   *)
(***************************************************************************)
EXTENDS Integers, FiniteSets

CONSTANTS
    Procs,          \* processes that run or recover the session
    NoOne,          \* no execution token
    Orphan,         \* the token of a process that is gone
    MaxTurns,       \* bound: turns ever begun
    MaxCalls,       \* bound: tool calls ever issued
    MaxBatch,       \* bound: calls of one batch
    MaxFaults,      \* bound: crashes, dropped futures, storage errors, lapses
    AskCalls,       \* the calls whose tool requires approval
    Denials         \* what the result of a denied call may say

ASSUME ProcsAssumption ==
    NoOne \notin Procs /\ Orphan \notin Procs /\ NoOne # Orphan

ASSUME LimitsAssumption ==
    /\ MaxTurns \in Nat /\ MaxCalls \in Nat /\ MaxBatch \in Nat /\ MaxFaults \in Nat
    /\ AskCalls \subseteq 1..MaxCalls
    /\ Denials \subseteq {"denied", "maybe"}

VARIABLES
    owner,      \* whose token the session row carries
    live,       \* the deadline of that token lies ahead
    active,     \* active_agent_turns: the open turn, 0 for none
    checked,    \* its checkpoint_count is positive
    pendTurn,   \* pending_tool_batches: the batch's turn, 0 for none
    inv,        \* pending_tool_invocations and their audit trail
    committed,  \* tool results in the transcript
    closed,     \* how each turn ended in the transcript
    ran,        \* history: the calls whose tool was invoked
    proc,       \* the processes
    turns,      \* turns begun so far
    issued,     \* calls issued so far
    faults      \* faults so far

journal == <<active, checked, pendTurn, inv, committed, closed>>
vars == <<owner, live, journal, ran, proc, turns, issued, faults>>

Turns == 1..MaxTurns
Calls == 1..MaxCalls

Said == {"exact", "maybe", "notrun", "denied"}

Invocation == [state : {"none", "planned", "started", "completed"},
               origin : {"none", "tool", "uncertain", "not_executed"},
               said : Said \cup {"none"}, asked : BOOLEAN,
               decision : {"none", "allow", "deny"}, begun : BOOLEAN]

NoInvocation == [state |-> "none", origin |-> "none", said |-> "none", asked |-> FALSE,
                 decision |-> "none", begun |-> FALSE]

(* The checkpoints, by the worker task that commits them, and the cleanup  *)
(* tasks after a failed turn.                                              *)
Checkpoints == {"preflight", "plan", "ask", "resolve", "start", "record", "messages", "answer"}
Cleanups == {"discard", "diagnose", "ckdiscard", "abandon"}
Tasks == Checkpoints \cup Cleanups

(* Where the turn's future is between its tasks.                           *)
Awaits == {"model", "call", "approve", "decided", "invoke", "ran", "kept", "answered"}

Running == Tasks \cup Awaits

(* resume opens the session, recover only reconciles it; accept also takes  *)
(* responsibility for calls whose effect is unknown.                       *)
Modes == {"resume", "recover", "accept"}

(* op is the task that a dropped future left in flight; memory is the      *)
(* agent's in-memory history.                                              *)
Process == [pc : Running \cup {"none", "idle", "claimed", "recovering"},
            op : Tasks \cup {"none"},
            poisoned : BOOLEAN, fresh : BOOLEAN, lost : BOOLEAN, turn : Turns \cup {0},
            mine : BOOLEAN, pend : BOOLEAN, persisted : BOOLEAN,
            calls : SUBSET Calls, at : Calls \cup {0}, verdict : {"none", "allow", "deny"},
            say : Said, doom : BOOLEAN, mode : Modes, unsure : SUBSET Calls,
            memory : SUBSET ({"call", "answer"} \X Nat)]

NoProcess == [pc |-> "none", op |-> "none", poisoned |-> FALSE, fresh |-> FALSE,
              lost |-> FALSE, turn |-> 0, mine |-> FALSE, pend |-> FALSE,
              persisted |-> FALSE, calls |-> {}, at |-> 0, verdict |-> "none",
              say |-> "notrun", doom |-> FALSE, mode |-> "resume", unsure |-> {}, memory |-> {}]

TypeOK ==
    /\ owner \in Procs \cup {NoOne, Orphan}
    /\ live \in BOOLEAN
    /\ active \in Turns \cup {0} /\ checked \in BOOLEAN
    /\ pendTurn \in Turns \cup {0}
    /\ inv \in [Calls -> Invocation]
    /\ committed \in [Calls -> Said \cup {"none"}]
    /\ closed \in [Turns -> {"open", "done", "failed"}]
    /\ ran \in SUBSET Calls
    /\ proc \in [Procs -> Process]
    /\ turns \in 0..MaxTurns /\ issued \in 0..MaxCalls /\ faults \in 0..MaxFaults

-----------------------------------------------------------------------------
(* Derived state.                                                          *)

Batch == {c \in Calls : inv[c].state # "none"}

First(S) == CHOOSE c \in S : \A d \in S : c <= d

(* The model history that messages_for_replay rebuilds from the transcript.*)
DurableHistory ==
    {<<"call", c>> : c \in {d \in Calls : committed[d] # "none"}}
        \cup {<<"answer", t>> : t \in {u \in Turns : closed[u] = "done"}}

(* Mutant: the transaction does not compare the token.                     *)
OwnsLiveUnfenced(p) == live

(* validate_session_lease inside every journal transaction.                *)
OwnsLive(p) == owner = p /\ live

(* append_turn_internal also compares the replay cursor.                   *)
MayAppend(p) == OwnsLive(p) /\ proc[p].fresh

(* validate_pending_audit for one call.                                    *)
CallLoads(c) ==
    LET i == inv[c] IN
    /\ i.begun => i.state \in {"started", "completed"} /\ (i.asked => i.decision = "allow")
    /\ i.state = "started" => i.begun
    /\ i.state = "completed" =>
          /\ i.asked => i.decision # "none"
          /\ i.origin = "uncertain" => i.begun
          /\ i.origin = "not_executed" => ~i.begun
          /\ i.said = "exact" => i.begun
          /\ i.decision = "allow" /\ i.origin # "not_executed" => i.begun
          /\ i.decision = "deny" => ~i.begun /\ (i.origin = "tool" => i.said = "denied")

(* The pending batch passes the checks of every load.                      *)
Loadable ==
    /\ active = pendTurn
    /\ \A c \in Batch : CallLoads(c)
    /\ \A c, d \in Batch : c < d /\ inv[c].state # "completed" =>
                              inv[d].state = "planned" /\ ~inv[d].asked

-----------------------------------------------------------------------------
(* The adapter between its tasks.                                          *)

(* The usable adapter, and the one that must be dropped.                   *)
Ready(p) == [NoProcess EXCEPT !.pc = "idle", !.fresh = proc[p].fresh, !.memory = proc[p].memory]
Spent(p) == [NoProcess EXCEPT !.pc = "idle", !.poisoned = TRUE]

(* What is left of a turn whose future is gone.                            *)
Dropped(p) == IF proc[p].poisoned THEN Spent(p) ELSE Ready(p)

(* Task x of p is in flight, awaited or left behind by a dropped future.   *)
InFlight(p, x) ==
    \/ proc[p].pc = x
    \/ proc[p].pc = "idle" /\ proc[p].op = x

(* Nobody waits for a task that a dropped future left behind; the worker   *)
(* that discards the batch after a failed checkpoint goes on to abandon.   *)
Settle(p, row) ==
    proc' = [proc EXCEPT ![p] =
                IF proc[p].pc # "idle" THEN row
                ELSE IF proc[p].op = "ckdiscard" /\ row.pc = "abandon" THEN [@ EXCEPT !.op = "abandon"]
                ELSE Dropped(p)]

Go(p, row) == proc' = [proc EXCEPT ![p] = row]

(* How run_message_with_sink ends a turn that the agent failed, and one    *)
(* whose checkpoint failed.  A lost lease skips every cleanup.             *)
TurnFailed(p, row) ==
    IF row.lost THEN Spent(p)
    ELSE [row EXCEPT !.pc = IF row.pend THEN "discard" ELSE "diagnose"]

CheckpointFailed(p, row) ==
    IF row.lost THEN Spent(p)
    ELSE IF row.pend THEN [row EXCEPT !.pc = "ckdiscard"]
    ELSE IF row.persisted THEN Spent(p)
    ELSE IF row.mine THEN [row EXCEPT !.pc = "abandon"]
    ELSE Ready(p)

TurnDone(p, row) == IF row.lost THEN Spent(p) ELSE [Ready(p) EXCEPT !.memory = row.memory]

(* A round's bookkeeping is dropped once its results are durable.          *)
NextRound(row) ==
    [row EXCEPT !.pc = "model", !.calls = {}, !.doom = FALSE]

(* What follows in the tool loop when the result of row.at is durable: the *)
(* next call, its synthetic result once the batch is doomed, or the        *)
(* message checkpoint.                                                     *)
RestPastEnd(row) == {c \in 1..(MaxCalls + 1) : c > row.at /\ c - 1 \in row.calls}
Rest(row) == {c \in row.calls : c > row.at}

AfterResult(row) ==
    LET next == [row EXCEPT !.verdict = "none", !.say = "notrun"] IN
    IF Rest(row) = {} THEN [next EXCEPT !.pc = "messages", !.at = 0]
    ELSE [next EXCEPT !.pc = IF row.doom THEN "record" ELSE "call", !.at = First(Rest(row))]

-----------------------------------------------------------------------------
(* The checks inside each journal transaction.                             *)

MayBegin(p) == OwnsLive(p) /\ active = 0

MayPlan(p) ==
    /\ OwnsLive(p)
    /\ active = proc[p].turn /\ checked = proc[p].persisted
    /\ pendTurn = 0

MayAudit(p) == OwnsLive(p) /\ pendTurn = proc[p].turn

MayStart(p) == MayAudit(p) /\ inv[proc[p].at].state = "planned"

MayRecord(p) == MayAudit(p) /\ inv[proc[p].at].state \in {"planned", "started"}

AllCompleted == \A c \in Batch : inv[c].state = "completed"

MayPublish(p) ==
    /\ pendTurn = proc[p].turn /\ Loadable /\ AllCompleted
    /\ MayAppend(p)

MayAnswer(p) == MayAppend(p) /\ active = proc[p].turn

(* Mutant: any batch of the failed turn may be discarded.                  *)
AllPlannedUnchecked == TRUE
AllPlanned == \A c \in Batch : inv[c].state = "planned"

MayDiscard(p) == MayAudit(p) /\ AllPlanned

MayDiagnose(p) == MayAppend(p) /\ (proc[p].mine => active = proc[p].turn)

MayAbandon(p) == OwnsLive(p) /\ active = proc[p].turn /\ pendTurn = 0

Admits(p, x) ==
    \/ x = "preflight" /\ MayBegin(p)
    \/ x = "plan" /\ MayPlan(p)
    \/ x \in {"ask", "resolve"} /\ MayAudit(p)
    \/ x = "start" /\ MayStart(p)
    \/ x = "record" /\ MayRecord(p)
    \/ x = "messages" /\ MayPublish(p)
    \/ x = "answer" /\ MayAnswer(p)
    \/ x \in {"discard", "ckdiscard"} /\ MayDiscard(p)
    \/ x = "diagnose" /\ MayDiagnose(p)
    \/ x = "abandon" /\ MayAbandon(p)

-----------------------------------------------------------------------------
(* A turn, up to its tool batches.                                         *)

RunMessageUnarmed(p) ==
    /\ proc[p].pc = "idle" /\ proc[p].op = "none" /\ ~proc[p].poisoned
    /\ turns < MaxTurns
    /\ turns' = turns + 1
    /\ Go(p, [Ready(p) EXCEPT !.pc = "preflight", !.turn = turns + 1])
    /\ UNCHANGED <<owner, live, journal, ran, issued, faults>>

(* The adapter is poisoned before the first await.                         *)
RunMessage(p) ==
    /\ proc[p].pc = "idle" /\ proc[p].op = "none" /\ ~proc[p].poisoned
    /\ turns < MaxTurns
    /\ turns' = turns + 1
    /\ Go(p, [Ready(p) EXCEPT !.pc = "preflight", !.turn = turns + 1, !.poisoned = TRUE])
    /\ UNCHANGED <<owner, live, journal, ran, issued, faults>>

(* The generation policy refuses the input before the turn has a row.      *)
RefuseInput(p) ==
    /\ proc[p].pc = "idle" /\ proc[p].op = "none" /\ ~proc[p].poisoned
    /\ Go(p, [Ready(p) EXCEPT !.pc = "diagnose", !.poisoned = TRUE])
    /\ UNCHANGED <<owner, live, journal, ran, turns, issued, faults>>

BeginActiveAgentTurn(p) ==
    /\ InFlight(p, "preflight") /\ MayBegin(p)
    /\ active' = proc[p].turn
    /\ Settle(p, [proc[p] EXCEPT !.pc = "model", !.mine = TRUE])
    /\ UNCHANGED <<owner, live, checked, pendTurn, inv, committed, closed, ran, turns, issued, faults>>

(* Cancellation, an event sink that fails, a protocol error, the limits.   *)
ModelFails(p) ==
    /\ proc[p].pc = "model"
    /\ Go(p, TurnFailed(p, proc[p]))
    /\ UNCHANGED <<owner, live, journal, ran, turns, issued, faults>>

ModelAnswers(p) ==
    /\ proc[p].pc = "model" /\ ~proc[p].lost
    /\ Go(p, [proc[p] EXCEPT !.pc = "answer"])
    /\ UNCHANGED <<owner, live, journal, ran, turns, issued, faults>>

ModelCallsTools(p, n) ==
    /\ proc[p].pc = "model" /\ ~proc[p].lost
    /\ issued + n <= MaxCalls
    /\ issued' = issued + n
    /\ Go(p, [proc[p] EXCEPT !.pc = "plan", !.calls = (issued + 1)..(issued + n),
                             !.at = issued + 1])
    /\ UNCHANGED <<owner, live, journal, ran, turns, faults>>

BeginPendingToolBatch(p) ==
    /\ InFlight(p, "plan") /\ MayPlan(p)
    /\ pendTurn' = proc[p].turn
    /\ inv' = [c \in Calls |-> IF c \in proc[p].calls
                               THEN [NoInvocation EXCEPT !.state = "planned"] ELSE inv[c]]
    /\ Settle(p, [proc[p] EXCEPT !.pc = "call", !.pend = TRUE])
    /\ UNCHANGED <<owner, live, active, checked, committed, closed, ran, turns, issued, faults>>

-----------------------------------------------------------------------------
(* One tool call.                                                          *)

(* Cancellation, a failing sink or an invalid approval text before the     *)
(* invocation.  The first call's failure ends the turn; a later one leaves *)
(* a synthetic result and dooms the batch.                                 *)
HarnessFails(p) ==
    /\ proc[p].pc \in {"call", "approve", "decided"}
    /\ Go(p, IF proc[p].at = First(proc[p].calls) THEN TurnFailed(p, proc[p])
             ELSE [proc[p] EXCEPT !.pc = "record", !.say = "notrun", !.doom = TRUE])
    /\ UNCHANGED <<owner, live, journal, ran, turns, issued, faults>>

(* An unknown or disabled tool, or arguments outside its schema.           *)
RejectCall(p) ==
    /\ proc[p].pc = "call" /\ ~proc[p].lost
    /\ Go(p, [proc[p] EXCEPT !.pc = "record", !.say = "notrun"])
    /\ UNCHANGED <<owner, live, journal, ran, turns, issued, faults>>

ApproveTool(p) ==
    /\ proc[p].pc = "call" /\ ~proc[p].lost
    /\ Go(p, [proc[p] EXCEPT !.pc = IF proc[p].at \in AskCalls THEN "ask" ELSE "start"])
    /\ UNCHANGED <<owner, live, journal, ran, turns, issued, faults>>

FlushApprovalRequest(p) ==
    /\ InFlight(p, "ask") /\ MayAudit(p)
    /\ inv' = [inv EXCEPT ![proc[p].at].asked = TRUE]
    /\ Settle(p, [proc[p] EXCEPT !.pc = "approve"])
    /\ UNCHANGED <<owner, live, active, checked, pendTurn, committed, closed, ran, turns, issued, faults>>

Decide(p, verdict) ==
    /\ proc[p].pc = "approve" /\ ~proc[p].lost
    /\ Go(p, [proc[p] EXCEPT !.pc = "resolve", !.verdict = verdict])
    /\ UNCHANGED <<owner, live, journal, ran, turns, issued, faults>>

FlushApprovalDecision(p) ==
    /\ InFlight(p, "resolve") /\ MayAudit(p)
    /\ inv' = [inv EXCEPT ![proc[p].at].decision = proc[p].verdict]
    /\ Settle(p, [proc[p] EXCEPT !.pc = "decided"])
    /\ UNCHANGED <<owner, live, active, checked, pendTurn, committed, closed, ran, turns, issued, faults>>

(* A denial is the call's result; past the output limits it is replaced by *)
(* a text that says an effect may have occurred, and ends the turn.        *)
ApplyDecision(p) ==
    /\ proc[p].pc = "decided" /\ ~proc[p].lost
    /\ \/ /\ proc[p].verdict = "allow"
          /\ Go(p, [proc[p] EXCEPT !.pc = "start"])
       \/ /\ proc[p].verdict = "deny"
          /\ \E said \in Denials :
                Go(p, [proc[p] EXCEPT !.pc = "record", !.say = said, !.doom = said # "denied"])
    /\ UNCHANGED <<owner, live, journal, ran, turns, issued, faults>>

MarkPendingToolStarted(p) ==
    /\ InFlight(p, "start") /\ MayStart(p)
    /\ inv' = [inv EXCEPT ![proc[p].at].state = "started", ![proc[p].at].begun = TRUE]
    /\ Settle(p, [proc[p] EXCEPT !.pc = "invoke"])
    /\ UNCHANGED <<owner, live, active, checked, pendTurn, committed, closed, ran, turns, issued, faults>>

(* A tool that finishes once started runs even when the turn is cancelled. *)
InvokeTool(p) ==
    /\ proc[p].pc = "invoke"
    /\ ran' = ran \cup {proc[p].at}
    /\ Go(p, [proc[p] EXCEPT !.pc = "ran"])
    /\ UNCHANGED <<owner, live, journal, turns, issued, faults>>

(* Cancellation wins the race against an interruptible tool's first poll.  *)
InvokeCancelled(p) ==
    /\ proc[p].pc = "invoke"
    /\ Go(p, [proc[p] EXCEPT !.pc = "record", !.say = "maybe", !.doom = TRUE])
    /\ UNCHANGED <<owner, live, journal, ran, turns, issued, faults>>

(* The tool's answer, the answer of a turn cancelled meanwhile, or a fatal,*)
(* interrupted or oversized one.                                           *)
ToolReturns(p) ==
    /\ proc[p].pc = "ran"
    /\ \E said \in {"exact", "maybe"}, doom \in BOOLEAN :
          /\ said = "maybe" \/ proc[p].lost => doom
          /\ Go(p, [proc[p] EXCEPT !.pc = "record", !.say = said, !.doom = doom])
    /\ UNCHANGED <<owner, live, journal, ran, turns, issued, faults>>

(* The sink may fail on the event of a result that is already durable.     *)
CompletePendingToolInvocation(p) ==
    /\ InFlight(p, "record") /\ MayRecord(p)
    /\ inv' = [inv EXCEPT ![proc[p].at] =
                  [@ EXCEPT !.state = "completed", !.origin = "tool", !.said = proc[p].say]]
    /\ \E doom \in {proc[p].doom, TRUE} :
          Settle(p, AfterResult([proc[p] EXCEPT !.doom = doom]))
    /\ UNCHANGED <<owner, live, active, checked, pendTurn, committed, closed, ran, turns, issued, faults>>

-----------------------------------------------------------------------------
(* The transcript.                                                         *)

(* The batch becomes transcript in the transaction that deletes it.        *)
PublishBatch ==
    /\ committed' = [c \in Calls |-> IF c \in Batch THEN inv[c].said ELSE committed[c]]
    /\ inv' = [c \in Calls |-> NoInvocation]
    /\ pendTurn' = 0

CloseTurn(t, outcome) ==
    /\ active' = 0
    /\ checked' = FALSE
    /\ closed' = [closed EXCEPT ![t] = outcome]

PersistMessages(p) ==
    /\ InFlight(p, "messages") /\ MayPublish(p)
    /\ PublishBatch
    /\ checked' = TRUE
    /\ Settle(p, [proc[p] EXCEPT !.pc = "kept", !.pend = FALSE, !.persisted = TRUE])
    /\ UNCHANGED <<owner, live, active, closed, ran, turns, issued, faults>>

KeepMessages(p) ==
    LET kept == [proc[p] EXCEPT !.memory = @ \cup {<<"call", c>> : c \in proc[p].calls}]
    IN
    /\ proc[p].pc = "kept"
    /\ Go(p, IF proc[p].doom THEN TurnFailed(p, kept) ELSE NextRound(kept))
    /\ UNCHANGED <<owner, live, journal, ran, turns, issued, faults>>

PersistAnswer(p) ==
    /\ InFlight(p, "answer") /\ MayAnswer(p)
    /\ CloseTurn(proc[p].turn, "done")
    /\ Settle(p, [proc[p] EXCEPT !.pc = "answered", !.mine = FALSE, !.persisted = TRUE])
    /\ UNCHANGED <<owner, live, pendTurn, inv, committed, ran, turns, issued, faults>>

(* Also when the sink failed on the event of the committed turn.           *)
FinishTurn(p) ==
    /\ proc[p].pc = "answered"
    /\ Go(p, TurnDone(p, [proc[p] EXCEPT !.memory = @ \cup {<<"answer", proc[p].turn>>}]))
    /\ UNCHANGED <<owner, live, journal, ran, turns, issued, faults>>

-----------------------------------------------------------------------------
(* After a failed turn.                                                    *)

(* The follow-up of a discard: the diagnostic append, or, after a failed   *)
(* checkpoint, the end unless the transcript holds nothing of the turn.    *)
DiscardUnstartedToolBatch(p) ==
    /\ InFlight(p, "discard") \/ InFlight(p, "ckdiscard")
    /\ MayDiscard(p)
    /\ pendTurn' = 0
    /\ inv' = [c \in Calls |-> NoInvocation]
    /\ Settle(p, IF InFlight(p, "discard") THEN [proc[p] EXCEPT !.pc = "diagnose", !.pend = FALSE]
                 ELSE IF proc[p].persisted THEN Spent(p)
                 ELSE [proc[p] EXCEPT !.pc = "abandon", !.pend = FALSE])
    /\ UNCHANGED <<owner, live, active, checked, committed, closed, ran, turns, issued, faults>>

AppendDiagnostic(p) ==
    /\ InFlight(p, "diagnose") /\ MayDiagnose(p)
    /\ IF proc[p].mine THEN CloseTurn(proc[p].turn, "failed") ELSE UNCHANGED <<active, checked, closed>>
    /\ Settle(p, Ready(p))
    /\ UNCHANGED <<owner, live, pendTurn, inv, committed, ran, turns, issued, faults>>

AbandonActiveAgentTurn(p) ==
    /\ InFlight(p, "abandon") /\ MayAbandon(p)
    /\ active' = 0
    /\ checked' = FALSE
    /\ Settle(p, Ready(p))
    /\ UNCHANGED <<owner, live, pendTurn, inv, committed, closed, ran, turns, issued, faults>>

(* A failed checkpoint stops the turn, a failed cleanup spends the adapter.*)
AfterFailure(p, x) ==
    IF x \in Checkpoints THEN CheckpointFailed(p, proc[p]) ELSE Spent(p)

Refused(p) ==
    /\ \E x \in Tasks \cap {proc[p].pc, proc[p].op} :
            InFlight(p, x) /\ ~Admits(p, x) /\ Settle(p, AfterFailure(p, x))
    /\ UNCHANGED <<owner, live, journal, ran, turns, issued, faults>>

-----------------------------------------------------------------------------
(* Claiming, reconciling and releasing the session.                        *)

(* The lease's destructor releases the row it still owns, if it can.       *)
GiveUp(p) ==
    /\ Go(p, NoProcess)
    /\ \/ owner = p /\ owner' = NoOne /\ live' = FALSE
       \/ owner = p /\ owner' = Orphan /\ UNCHANGED live
       \/ owner # p /\ UNCHANGED <<owner, live>>

ClaimSession(p, mode) ==
    /\ proc[p].pc = "none" /\ ~live
    /\ owner' = p
    /\ live' = TRUE
    /\ Go(p, [NoProcess EXCEPT !.pc = "claimed", !.mode = mode])
    /\ UNCHANGED <<journal, ran, turns, issued, faults>>

Started == {c \in Batch : inv[c].state = "started"}

MayReconcile(p) ==
    /\ OwnsLive(p)
    /\ pendTurn # 0 => Loadable /\ (proc[p].mode = "accept" \/ Started = {})
    /\ proc[p].mode # "resume" => active # 0

(* Replay the transcript and read what the journal holds.                  *)
LoadJournal(p) ==
    /\ proc[p].pc = "claimed" /\ MayReconcile(p)
    /\ Go(p, [proc[p] EXCEPT !.pc = "recovering", !.fresh = TRUE, !.turn = active,
                             !.pend = pendTurn # 0, !.persisted = checked,
                             !.calls = {c \in Batch : inv[c].state # "completed"},
                             !.unsure = Started])
    /\ UNCHANGED <<owner, live, journal, ran, turns, issued, faults>>

(* A refused claim, an uncertain call nobody answers for, a journal that   *)
(* cannot be read, or nothing to recover: the claim is given up.           *)
LoadRefused(p) ==
    /\ proc[p].pc = "claimed" /\ ~MayReconcile(p)
    /\ GiveUp(p)
    /\ UNCHANGED <<journal, ran, turns, issued, faults>>

(* What reconciliation writes for a call without a result: a started call  *)
(* may have had its effect, a planned one has not run and an approval that *)
(* was still open is denied.                                               *)
ReconciledUnresolved(p, c) ==
    [inv[c] EXCEPT !.state = "completed",
                   !.origin = IF c \in proc[p].unsure THEN "uncertain" ELSE "not_executed",
                   !.said = IF c \in proc[p].unsure THEN "maybe" ELSE "notrun"]

Reconciled(p, c) ==
    [inv[c] EXCEPT !.state = "completed",
                   !.origin = IF c \in proc[p].unsure THEN "uncertain" ELSE "not_executed",
                   !.said = IF c \in proc[p].unsure THEN "maybe" ELSE "notrun",
                   !.decision = IF inv[c].asked /\ inv[c].decision = "none" THEN "deny" ELSE @]

MayReconcileCall(p) ==
    MayAudit(p) /\ inv[First(proc[p].calls)].state \in {"planned", "started"}

ReconcileCall(p) ==
    LET c == First(proc[p].calls) IN
    /\ proc[p].pc = "recovering" /\ proc[p].calls # {}
    /\ MayReconcileCall(p)
    /\ inv' = [inv EXCEPT ![c] = Reconciled(p, c)]
    /\ Go(p, [proc[p] EXCEPT !.calls = @ \ {c}])
    /\ UNCHANGED <<owner, live, active, checked, pendTurn, committed, closed, ran, turns, issued, faults>>

Reopened(p) == [proc[p] EXCEPT !.turn = 0, !.pend = FALSE, !.persisted = FALSE, !.unsure = {}]

ReconcilePendingToolBatch(p) ==
    /\ proc[p].pc = "recovering" /\ proc[p].pend /\ proc[p].calls = {}
    /\ MayPublish(p)
    /\ PublishBatch
    /\ CloseTurn(proc[p].turn, "failed")
    /\ Go(p, Reopened(p))
    /\ UNCHANGED <<owner, live, ran, turns, issued, faults>>

MayClose(p) == MayAnswer(p) /\ checked = proc[p].persisted /\ pendTurn = 0

ReconcileInterruptedActiveTurn(p) ==
    /\ proc[p].pc = "recovering" /\ ~proc[p].pend /\ proc[p].turn # 0
    /\ MayClose(p)
    /\ CloseTurn(proc[p].turn, "failed")
    /\ Go(p, Reopened(p))
    /\ UNCHANGED <<owner, live, pendTurn, inv, committed, ran, turns, issued, faults>>

(* The resumed agent starts from the replayed transcript.                  *)
Resume(p) ==
    /\ proc[p].pc = "recovering" /\ proc[p].turn = 0 /\ proc[p].mode = "resume"
    /\ OwnsLive(p)
    /\ Go(p, [Ready(p) EXCEPT !.memory = DurableHistory])
    /\ UNCHANGED <<owner, live, journal, ran, turns, issued, faults>>

ReconcileRefused(p) ==
    /\ proc[p].pc = "recovering"
    /\ \/ proc[p].calls # {} /\ ~MayReconcileCall(p)
       \/ proc[p].calls = {} /\ proc[p].pend /\ ~MayPublish(p)
       \/ ~proc[p].pend /\ proc[p].turn # 0 /\ ~MayClose(p)
       \/ proc[p].turn = 0 /\ (proc[p].mode # "resume" \/ ~OwnsLive(p))
    /\ GiveUp(p)
    /\ UNCHANGED <<journal, ran, turns, issued, faults>>

(* close, or the drop of an adapter, usable or spent, whose tasks ended.   *)
Release(p) ==
    /\ proc[p].pc = "idle" /\ proc[p].op = "none"
    /\ GiveUp(p)
    /\ UNCHANGED <<journal, ran, turns, issued, faults>>

-----------------------------------------------------------------------------
(* Failures and time.                                                      *)

Fault == faults < MaxFaults /\ faults' = faults + 1

(* A task's transaction fails, or the refresh after the last checkpoint.   *)
StorageFault(p) ==
    /\ Fault
    /\ \/ \E x \in Tasks : InFlight(p, x) /\ Settle(p, AfterFailure(p, x))
       \/ proc[p].pc = "answered" /\ Go(p, Spent(p))
    /\ UNCHANGED <<owner, live, journal, ran, turns, issued>>

ReconcileFails(p) ==
    /\ Fault
    /\ proc[p].pc \in {"claimed", "recovering"}
    /\ GiveUp(p)
    /\ UNCHANGED <<journal, ran, turns, issued>>

(* The future is dropped at an await: no code of it runs again.            *)
DropFuture(p) ==
    /\ Fault
    /\ proc[p].pc \in Running
    /\ Go(p, IF proc[p].pc \in Tasks THEN [proc[p] EXCEPT !.pc = "idle", !.op = proc[p].pc]
             ELSE Dropped(p))
    /\ UNCHANGED <<owner, live, journal, ran, turns, issued>>

Crash(p) ==
    /\ Fault
    /\ proc[p].pc # "none"
    /\ Go(p, NoProcess)
    /\ owner' = IF owner = p THEN Orphan ELSE owner
    /\ UNCHANGED <<live, journal, ran, turns, issued>>

(* The renewal loop beside the turn.  An expired lease that nobody took is *)
(* revived; a failed renewal cancels the turn.                             *)
RenewSession(p) ==
    /\ proc[p].pc \in Running \ Cleanups /\ ~proc[p].lost
    /\ owner = p /\ ~live
    /\ live' = TRUE
    /\ UNCHANGED <<owner, journal, ran, proc, turns, issued, faults>>

RenewalFails(p) ==
    /\ proc[p].pc \in Running \ Cleanups /\ ~proc[p].lost
    /\ \/ owner # p /\ UNCHANGED faults
       \/ Fault
    /\ Go(p, [proc[p] EXCEPT !.lost = TRUE])
    /\ UNCHANGED <<owner, live, journal, ran, turns, issued>>

Renewed(p) == proc[p].pc \in Running \cup {"claimed", "recovering"}

(* A lease that nobody renews runs out; a busy owner loses it by a stall.  *)
Expire ==
    /\ live /\ ~(owner \in Procs /\ Renewed(owner))
    /\ live' = FALSE
    /\ UNCHANGED <<owner, journal, ran, proc, turns, issued, faults>>

Stall ==
    /\ live /\ owner \in Procs /\ Renewed(owner)
    /\ Fault
    /\ live' = FALSE
    /\ UNCHANGED <<owner, journal, ran, proc, turns, issued>>

(* append_event, which clears the token, or a compaction's summary.        *)
TranscriptMoves ==
    /\ ~live
    /\ owner' \in {owner, NoOne}
    /\ proc' = [p \in Procs |-> [proc[p] EXCEPT !.fresh = FALSE]]
    /\ UNCHANGED <<live, journal, ran, turns, issued, faults>>

-----------------------------------------------------------------------------
(* The specification.                                                      *)

Init ==
    /\ owner = NoOne /\ live = FALSE
    /\ active = 0 /\ checked = FALSE /\ pendTurn = 0
    /\ inv = [c \in Calls |-> NoInvocation]
    /\ committed = [c \in Calls |-> "none"]
    /\ closed = [t \in Turns |-> "open"]
    /\ ran = {}
    /\ proc = [p \in Procs |-> NoProcess]
    /\ turns = 0 /\ issued = 0 /\ faults = 0

TurnStep(p) ==
    \/ BeginActiveAgentTurn(p)
    \/ ModelFails(p)
    \/ ModelAnswers(p)
    \/ \E n \in 1..MaxBatch : ModelCallsTools(p, n)
    \/ BeginPendingToolBatch(p)
    \/ PersistMessages(p)
    \/ KeepMessages(p)
    \/ PersistAnswer(p)
    \/ FinishTurn(p)

ToolStep(p) ==
    \/ HarnessFails(p)
    \/ RejectCall(p)
    \/ ApproveTool(p)
    \/ FlushApprovalRequest(p)
    \/ \E verdict \in {"allow", "deny"} : Decide(p, verdict)
    \/ FlushApprovalDecision(p)
    \/ ApplyDecision(p)
    \/ MarkPendingToolStarted(p)
    \/ InvokeTool(p)
    \/ InvokeCancelled(p)
    \/ ToolReturns(p)
    \/ CompletePendingToolInvocation(p)

CleanupStep(p) ==
    \/ DiscardUnstartedToolBatch(p)
    \/ AppendDiagnostic(p)
    \/ AbandonActiveAgentTurn(p)
    \/ Refused(p)

RecoverStep(p) ==
    \/ LoadJournal(p)
    \/ LoadRefused(p)
    \/ ReconcileCall(p)
    \/ ReconcilePendingToolBatch(p)
    \/ ReconcileInterruptedActiveTurn(p)
    \/ Resume(p)
    \/ ReconcileRefused(p)

(* What a running process does on its own once it was asked to.            *)
Progress(p) == TurnStep(p) \/ ToolStep(p) \/ CleanupStep(p) \/ RecoverStep(p)

RequestStep(p) ==
    \/ \E mode \in Modes : ClaimSession(p, mode)
    \/ RunMessage(p)
    \/ RefuseInput(p)
    \/ Release(p)

FaultStep(p) ==
    \/ StorageFault(p)
    \/ ReconcileFails(p)
    \/ DropFuture(p)
    \/ Crash(p)
    \/ RenewalFails(p)

Next ==
    \/ \E p \in Procs : Progress(p) \/ RequestStep(p) \/ FaultStep(p) \/ RenewSession(p)
    \/ Expire
    \/ Stall
    \/ TranscriptMoves

Spec == Init /\ [][Next]_vars

(* Model rounds, tools and approvals end, storage answers, the clock moves,*)
(* adapters are dropped, and the operator keeps running the recovery that  *)
(* accepts unknown effects.                                                *)
FairSpec ==
    /\ Spec
    /\ \A p \in Procs : WF_vars(Progress(p)) /\ WF_vars(Release(p))
    /\ WF_vars(Expire)
    /\ SF_vars(\E p \in Procs : ClaimSession(p, "accept"))

-----------------------------------------------------------------------------
(* Properties.                                                             *)

(* What the journal or the transcript tells of a call.                     *)
Told(c) == IF committed[c] # "none" THEN committed[c] ELSE inv[c].said

(* No reader is told that a tool ran when it did not, or that it did not   *)
(* run when it did, and a tool that ran is never forgotten: the exact, the *)
(* not-executed and the unknown-effect results, across crashes, dropped    *)
(* futures and lease takeovers.                                            *)
HistoryIsTrue ==
    \A c \in Calls :
        /\ Told(c) = "exact" => c \in ran
        /\ Told(c) \in {"notrun", "denied"} => c \notin ran
        /\ c \in ran => Told(c) \in {"exact", "maybe"} \/ inv[c].begun

(* An adapter that accepts a message and still owns the session has no     *)
(* turn left over, and the agent's history is the transcript's.            *)
UsableIsSynced ==
    \A p \in Procs :
        proc[p].pc = "idle" /\ ~proc[p].poisoned /\ OwnsLive(p) /\ proc[p].fresh =>
            active = 0 /\ pendTurn = 0 /\ proc[p].memory = DurableHistory

(* A pending batch can always be loaded, hence reconciled.                 *)
JournalLoads == pendTurn # 0 => Loadable

(* A durable result is never lost, replaced or withdrawn: it stays in the  *)
(* journal until the same result is in the transcript, and stays there.    *)
ResultIsFinal ==
    [][\A c \in Calls : Told(c) # "none" => Told(c)' = Told(c)]_vars

(* Every begun turn is closed, by its process or by recovery.              *)
TurnCloses == (active # 0) ~> (active = 0)

(* The journal is well formed at every moment: a recovery that starts now  *)
(* can read it, whatever task of a former owner is still to land.          *)
JournalIsSound == TypeOK /\ JournalLoads
=============================================================================
