-------------------------- MODULE AgentJournalProofs --------------------------
(* Theorems about AgentJournal for any number of processes, turns, calls   *)
(* and faults.                                                             *)
EXTENDS AgentJournal, WellFoundedInduction, TLAPS

(* What a process does, or what its dropped future still has in flight.    *)
Stage(p) == IF proc[p].pc = "idle" THEN proc[p].op ELSE proc[p].pc

-----------------------------------------------------------------------------
(* The journal by itself.                                                  *)

(* A call in the journal, and what it and the transcript say of it.        *)
CallInv(c) ==
    /\ inv[c].state = "none" => inv[c] = NoInvocation
    /\ inv[c].state # "none" => committed[c] = "none"
    /\ inv[c].state = "planned" => ~inv[c].begun /\ inv[c].said = "none" /\ inv[c].origin = "none"
    /\ inv[c].state = "started" => inv[c].begun /\ inv[c].said = "none" /\ inv[c].origin = "none"
    /\ inv[c].state = "completed" => inv[c].said # "none"
    /\ inv[c].said = "exact" \/ committed[c] = "exact" => c \in ran
    /\ inv[c].said \in {"notrun", "denied"} => ~inv[c].begun
    /\ committed[c] \in {"notrun", "denied"} => c \notin ran
    /\ c \in ran => inv[c].begun \/ committed[c] \in {"exact", "maybe"}
    /\ c > issued => inv[c] = NoInvocation /\ committed[c] = "none" /\ c \notin ran

(* The calls of a batch are worked off in their order.                     *)
InOrder ==
    \A c, d \in Calls :
        c < d /\ inv[c].state \in {"planned", "started"} /\ inv[d].state # "none" =>
            inv[d] = [NoInvocation EXCEPT !.state = "planned"]

TurnsInv ==
    /\ pendTurn # 0 => pendTurn = active
    /\ pendTurn = 0 => \A c \in Calls : inv[c] = NoInvocation
    /\ active # 0 => closed[active] = "open"
    /\ active = 0 => ~checked
    /\ active <= turns
    /\ \A t \in Turns : t > turns => closed[t] = "open"

JournalInv == (\A c \in Calls : CallInv(c)) /\ InOrder /\ TurnsInv

-----------------------------------------------------------------------------
(* The processes.                                                          *)

(* A process that works for a turn is poisoned, and whoever holds the      *)
(* token of the row exists.                                                *)
ShapeInv(p) ==
    /\ proc[p].op # "none" => proc[p].pc = "idle" /\ proc[p].poisoned
    /\ proc[p].pc \in Running => proc[p].poisoned
    /\ proc[p].pc \in {"none", "idle"} /\ proc[p].op = "none" => proc[p].calls = {}
    /\ owner = p => proc[p].pc # "none"

(* A tool that is about to run, or ran, is on record as started, also when *)
(* its process has lost the session and recovery has answered for it.      *)
InvokeInv(p) ==
    proc[p].pc \in {"invoke", "ran"} =>
        /\ proc[p].at \in Calls
        /\ inv[proc[p].at].begun \/ committed[proc[p].at] \in {"exact", "maybe"}
        /\ proc[p].pc = "ran" => proc[p].at \in ran

(* The stages of a batch, by what the journal holds of the call at hand.   *)
CallStages == {"call", "ask", "approve", "resolve", "decided", "start", "invoke", "ran", "record"}
BatchStages == CallStages \cup {"messages", "discard", "ckdiscard"}
OpenStages == BatchStages \cup {"model", "plan", "kept", "answer"}

Planned == [NoInvocation EXCEPT !.state = "planned"]

Current(p, i) ==
    LET s == Stage(p) IN
    /\ s \in {"call", "ask"} => i = Planned
    /\ s \in {"ask", "approve", "resolve", "decided"} => proc[p].at \in AskCalls
    /\ s \in {"approve", "resolve"} => i = [Planned EXCEPT !.asked = TRUE]
    /\ s = "resolve" => proc[p].verdict # "none"
    /\ s = "decided" => i = [Planned EXCEPT !.asked = TRUE, !.decision = proc[p].verdict]
                        /\ proc[p].verdict # "none"
    /\ s = "start" => i = Planned \/ i = [Planned EXCEPT !.asked = TRUE, !.decision = "allow"]
    /\ s \in {"invoke", "ran"} => i.state = "started" /\ (i.asked => i.decision = "allow")
                                  /\ i.decision # "deny"
    /\ s = "record" =>
          /\ i.state \in {"planned", "started"}
          /\ i.state = "started" => (i.asked => i.decision = "allow") /\ i.decision # "deny"
          /\ proc[p].say = "exact" => proc[p].at \in ran /\ i.begun
          /\ proc[p].say \in {"notrun", "denied"} => ~i.begun

(* The owner's picture of the journal is the journal.                      *)
OwnerInv(p) ==
    LET me == proc[p] IN
    /\ Stage(p) \in OpenStages =>
          me.mine /\ me.turn \in Turns /\ active = me.turn /\ checked = me.persisted
    /\ Stage(p) \in BatchStages => me.pend /\ pendTurn = me.turn /\ me.calls = Batch
    /\ Stage(p) \in Running \ BatchStages => pendTurn = 0
    /\ me.pc \in Running \ BatchStages => ~me.pend
    /\ Stage(p) \in CallStages =>
          /\ me.at \in me.calls
          /\ \A c \in me.calls : c < me.at => inv[c].state = "completed"
          /\ \A c \in me.calls : c > me.at => inv[c] = Planned
          /\ Current(p, inv[me.at])
    /\ Stage(p) = "messages" => \A c \in me.calls : inv[c].state = "completed"
    /\ Stage(p) = "plan" =>
          /\ me.at \in me.calls /\ \A c \in me.calls : me.at <= c
          /\ \A c \in me.calls : c <= issued /\ committed[c] = "none" /\ c \notin ran
    /\ Stage(p) = "kept" => \A c \in me.calls : committed[c] # "none"
    /\ Stage(p) = "preflight" =>
          /\ ~me.mine /\ ~me.persisted /\ active = 0 /\ me.turn \in Turns
          /\ me.turn <= turns /\ closed[me.turn] = "open"
    /\ Stage(p) = "answered" => ~me.mine /\ active = 0 /\ me.turn \in Turns /\ closed[me.turn] = "done"
    /\ Stage(p) = "abandon" => me.mine /\ me.turn \in Turns /\ active = me.turn
    /\ Stage(p) = "diagnose" =>
          IF me.mine THEN me.turn \in Turns /\ active = me.turn ELSE active = 0
    /\ me.pc = "idle" /\ ~me.poisoned => active = 0 /\ pendTurn = 0
    /\ me.pc = "recovering" =>
          /\ me.turn = active /\ me.persisted = checked /\ me.pend = (pendTurn # 0)
          /\ me.calls = {c \in Batch : inv[c].state # "completed"}
          /\ me.calls \cap me.unsure = Started

(* The owner's history is the transcript's, but for what it has just       *)
(* written.                                                                *)
MemoryInv(p) ==
    LET me == proc[p] IN
    /\ me.pc \in Running \ {"kept", "answered"} \/ (me.pc = "idle" /\ ~me.poisoned) =>
          me.memory = DurableHistory
    /\ me.pc = "kept" => me.memory \cup {<<"call", c>> : c \in me.calls} = DurableHistory
    /\ me.pc = "answered" => me.memory \cup {<<"answer", me.turn>>} = DurableHistory

ProcInv(p) ==
    /\ ShapeInv(p) /\ InvokeInv(p)
    /\ owner = p => OwnerInv(p)
    /\ owner = p /\ proc[p].fresh => MemoryInv(p)

IInv == TypeOK /\ JournalInv /\ \A p \in Procs : ProcInv(p)

-----------------------------------------------------------------------------
(* Types.                                                                  *)

(* What the model bounds are.                                              *)
LEMMA Limits ==
    /\ MaxTurns \in Nat /\ MaxCalls \in Nat /\ MaxBatch \in Nat /\ MaxFaults \in Nat
    /\ Calls \subseteq Nat /\ Turns \subseteq Nat /\ 0 \notin Calls /\ 0 \notin Turns
    /\ AskCalls \subseteq Calls
    /\ \A p \in Procs : p # NoOne /\ p # Orphan
  BY LimitsAssumption, ProcsAssumption DEF Calls, Turns

(* Turn numbers are natural numbers. *)
LEMMA TurnNumbers == Turns \cup {0} \subseteq Nat
  BY LimitsAssumption DEF Turns

(* A batch has a first call.                                               *)
LEMMA FirstIs ==
    ASSUME NEW S \in SUBSET Calls, S # {}
    PROVE  First(S) \in S /\ \A d \in S : First(S) <= d
  <1>1. S \subseteq Nat
    BY Limits
  <1>2. PICK x \in S : \A y \in S : ~(<<y, x>> \in OpToRel(<, Nat))
    BY <1>1, WFMin, NatLessThanWellFounded
  <1>3. \A y \in S : ~(y < x)
    BY <1>1, <1>2 DEF OpToRel
  <1>4. \A y \in S : x <= y
    BY <1>1, <1>3
  <1> QED BY <1>4 DEF First

(* The places of a process.                                                *)
Pcs == Running \cup {"none", "idle", "claimed", "recovering"}

(* Every place the actions name is one of Pcs. *)
LEMMA PcsAre ==
    /\ Checkpoints \cup Cleanups \cup Awaits \subseteq Pcs /\ Tasks \subseteq Pcs
    /\ {"preflight", "plan", "ask", "resolve", "start", "record", "messages", "answer", "discard",
        "diagnose", "ckdiscard", "abandon", "model", "call", "approve", "decided", "invoke", "ran",
        "kept", "answered", "none", "idle", "claimed", "recovering"} \subseteq Pcs
    /\ "abandon" \in Tasks
  BY DEF Pcs, Running, Tasks, Checkpoints, Cleanups, Awaits

(* The records a process rests in between turns are well formed. *)
LEMMA RestTypes ==
    ASSUME TypeOK, NEW p \in Procs
    PROVE  /\ proc[p] \in Process
           /\ NoProcess \in Process /\ Spent(p) \in Process /\ Ready(p) \in Process
           /\ Dropped(p) \in Process
  <1>1. NoProcess \in Process
    BY Limits DEF NoProcess, Process, Said, Modes
  <1>2. proc[p] \in Process
    BY DEF TypeOK
  <1>3. Spent(p) \in Process
    BY <1>1, PcsAre DEF Spent, Process, Pcs
  <1>4. Ready(p) \in Process
    BY <1>1, <1>2, PcsAre DEF Ready, Process, Pcs
  <1> QED BY <1>1, <1>2, <1>3, <1>4 DEF Dropped

(* Each way a process moves leaves a process.                              *)
LEMMA MoveTypes ==
    ASSUME TypeOK, NEW p \in Procs, NEW row \in Process
    PROVE  /\ \A pc \in Pcs : [row EXCEPT !.pc = pc] \in Process
           /\ TurnFailed(p, row) \in Process /\ CheckpointFailed(p, row) \in Process
           /\ TurnDone(p, row) \in Process /\ NextRound(row) \in Process
           /\ AfterResult(row) \in Process
  <1>1. \A pc \in Pcs : [row EXCEPT !.pc = pc] \in Process
    BY DEF Process, Pcs
  <1>2. Spent(p) \in Process /\ Ready(p) \in Process
    BY RestTypes
  <1>3. TurnFailed(p, row) \in Process /\ CheckpointFailed(p, row) \in Process
    BY <1>1, <1>2, PcsAre DEF TurnFailed, CheckpointFailed
  <1>4. TurnDone(p, row) \in Process
    BY <1>2 DEF TurnDone, Process
  <1>5. NextRound(row) \in Process
    BY PcsAre DEF NextRound, Process, Pcs
  <1>6. AfterResult(row) \in Process
    <2> DEFINE next == [row EXCEPT !.verdict = "none", !.say = "notrun"]
    <2>1. next \in Process
      BY DEF Process, Said
    <2>2. Rest(row) \in SUBSET Calls
      BY DEF Rest, Process
    <2>3. Rest(row) # {} => First(Rest(row)) \in Calls
      BY <2>2, FirstIs
    <2>4. [next EXCEPT !.pc = "messages", !.at = 0] \in Process
      BY <2>1, PcsAre DEF Process, Pcs
    <2>5. ASSUME NEW pc \in Pcs, NEW at \in Calls PROVE [next EXCEPT !.pc = pc, !.at = at] \in Process
      <3> HIDE DEF next
      <3> QED BY <2>1 DEF Process, Pcs
    <2> QED BY <2>3, <2>4, <2>5, PcsAre DEF AfterResult
  <1> QED BY <1>1, <1>3, <1>4, <1>5, <1>6

(* Go and Settle leave processes where their row is one.                   *)
LEMMA GoTypes ==
    ASSUME TypeOK, NEW p \in Procs, NEW row \in Process, Go(p, row) \/ Settle(p, row)
    PROVE  proc' \in [Procs -> Process]
  <1>1. Dropped(p) \in Process /\ proc[p] \in Process /\ proc \in [Procs -> Process]
    BY RestTypes DEF TypeOK
  <1>2. [proc[p] EXCEPT !.op = "abandon"] \in Process
    BY <1>1, PcsAre DEF Process
  <1> QED BY <1>1, <1>2 DEF Go, Settle

(* The rebuilt history is a set of calls and answers.                      *)
Entries == SUBSET ({"call", "answer"} \X Nat)
(* What the journal replays to is a well formed transcript. *)
LEMMA HistoryType == DurableHistory \in Entries
  BY Limits DEF DurableHistory, Entries

(* The steps of a turn keep the process records well formed. *)
LEMMA TurnTypes ==
    ASSUME TypeOK, NEW p \in Procs, TurnStep(p)
    PROVE  proc' \in [Procs -> Process]
  <1>1. proc[p] \in Process
    BY RestTypes
  <1>2. CASE BeginActiveAgentTurn(p)
    <2>1. [proc[p] EXCEPT !.pc = "model", !.mine = TRUE] \in Process
      BY PcsAre, <1>1 DEF Process, Pcs
    <2> QED BY GoTypes, MoveTypes, PcsAre, <1>2, <2>1 DEF BeginActiveAgentTurn
  <1>3. CASE ModelFails(p)
    BY GoTypes, MoveTypes, PcsAre, <1>1, <1>3 DEF ModelFails
  <1>4. CASE ModelAnswers(p)
    BY GoTypes, MoveTypes, PcsAre, <1>1, <1>4 DEF ModelAnswers
  <1>5. ASSUME NEW n \in 1..MaxBatch, ModelCallsTools(p, n) PROVE proc' \in [Procs -> Process]
    <2>1. (issued + 1)..(issued + n) \subseteq Calls /\ issued + 1 \in Calls
      BY <1>5, Limits DEF ModelCallsTools, TypeOK, Calls
    <2>2. [proc[p] EXCEPT !.pc = "plan", !.calls = (issued + 1)..(issued + n), !.at = issued + 1] \in Process
      BY PcsAre, <1>1, <2>1 DEF Process, Pcs
    <2> QED BY GoTypes, MoveTypes, PcsAre, <1>5, <2>2 DEF ModelCallsTools
  <1>6. CASE BeginPendingToolBatch(p)
    <2>1. [proc[p] EXCEPT !.pc = "call", !.pend = TRUE] \in Process
      BY PcsAre, <1>1 DEF Process, Pcs
    <2> QED BY GoTypes, MoveTypes, PcsAre, <1>6, <2>1 DEF BeginPendingToolBatch
  <1>7. CASE PersistMessages(p)
    <2>1. [proc[p] EXCEPT !.pc = "kept", !.pend = FALSE, !.persisted = TRUE] \in Process
      BY PcsAre, <1>1 DEF Process, Pcs
    <2> QED BY GoTypes, MoveTypes, PcsAre, <1>7, <2>1 DEF PersistMessages
  <1>8. CASE KeepMessages(p)
    <2> DEFINE new == proc[p].memory \cup {<<"call", c>> : c \in proc[p].calls}
    <2>1. proc[p].memory \in Entries /\ proc[p].calls \subseteq Nat
      BY PcsAre, <1>1, Limits DEF Process, Entries
    <2>2. new \in Entries
      BY <2>1 DEF Entries
    <2>3. [proc[p] EXCEPT !.memory = new] \in Process
      <3> HIDE DEF new
      <3> QED BY <1>1, <2>2 DEF Process, Entries
    <2> QED BY GoTypes, MoveTypes, PcsAre, <1>8, <2>3 DEF KeepMessages
  <1>9. CASE PersistAnswer(p)
    <2>1. [proc[p] EXCEPT !.pc = "answered", !.mine = FALSE, !.persisted = TRUE] \in Process
      BY PcsAre, <1>1 DEF Process, Pcs
    <2> QED BY GoTypes, MoveTypes, PcsAre, <1>9, <2>1 DEF PersistAnswer
  <1>10. CASE FinishTurn(p)
    <2> DEFINE new == proc[p].memory \cup {<<"answer", proc[p].turn>>}
    <2>a. proc[p].memory \in Entries /\ proc[p].turn \in Turns \cup {0}
      BY <1>1 DEF Process, Entries
    <2>1. proc[p].memory \in Entries /\ proc[p].turn \in Nat
      BY <2>a, Limits
    <2>2. new \in Entries
      BY <2>1 DEF Entries
    <2>3. [proc[p] EXCEPT !.memory = new] \in Process
      <3> HIDE DEF new
      <3> QED BY <1>1, <2>2 DEF Process, Entries
    <2> QED BY GoTypes, MoveTypes, PcsAre, <1>10, <2>3 DEF FinishTurn
  <1> QED BY <1>2, <1>3, <1>4, <1>5, <1>6, <1>7, <1>8, <1>9, <1>10 DEF TurnStep

(* The steps of a tool batch keep the process records well formed. *)
LEMMA ToolTypes ==
    ASSUME TypeOK, NEW p \in Procs, ToolStep(p)
    PROVE  proc' \in [Procs -> Process]
  <1>1. proc[p] \in Process
    BY RestTypes
  <1>2. \A pc \in Pcs, say \in Said, doom \in BOOLEAN :
            [proc[p] EXCEPT !.pc = pc, !.say = say, !.doom = doom] \in Process
    <2> SUFFICES ASSUME NEW pc \in Pcs, NEW say \in Said, NEW doom \in BOOLEAN
                 PROVE  [proc[p] EXCEPT !.pc = pc, !.say = say, !.doom = doom] \in Process
      OBVIOUS
    <2> QED BY <1>1 DEF Process, Pcs
  <1>3. {"notrun", "maybe", "exact", "denied"} \subseteq Said /\ Denials \subseteq Said
    BY LimitsAssumption DEF Said
  <1>4. CASE HarnessFails(p)
    BY GoTypes, MoveTypes, PcsAre, <1>1, <1>2, <1>3, <1>4 DEF HarnessFails
  <1>5. CASE RejectCall(p)
    <2>1. [proc[p] EXCEPT !.pc = "record", !.say = "notrun"] \in Process
      BY PcsAre, <1>1, <1>3 DEF Process, Pcs
    <2> QED BY GoTypes, MoveTypes, PcsAre, <1>5, <2>1 DEF RejectCall
  <1>6. CASE ApproveTool(p) \/ FlushApprovalRequest(p) \/ FlushApprovalDecision(p)
             \/ MarkPendingToolStarted(p) \/ InvokeTool(p)
    BY GoTypes, MoveTypes, PcsAre, <1>1, <1>6 DEF ApproveTool, FlushApprovalRequest, FlushApprovalDecision,
          MarkPendingToolStarted, InvokeTool
  <1>7. ASSUME NEW verdict \in {"allow", "deny"}, Decide(p, verdict) PROVE proc' \in [Procs -> Process]
    <2>1. [proc[p] EXCEPT !.pc = "resolve", !.verdict = verdict] \in Process
      BY PcsAre, <1>1, <1>7 DEF Process, Pcs
    <2> QED BY GoTypes, MoveTypes, PcsAre, <1>7, <2>1 DEF Decide
  <1>8. CASE ApplyDecision(p)
    BY GoTypes, MoveTypes, PcsAre, <1>1, <1>2, <1>3, <1>8 DEF ApplyDecision
  <1>9. CASE InvokeCancelled(p)
    BY GoTypes, MoveTypes, PcsAre, <1>1, <1>2, <1>3, <1>9 DEF InvokeCancelled
  <1>10. CASE ToolReturns(p)
    BY GoTypes, MoveTypes, PcsAre, <1>1, <1>2, <1>3, <1>10 DEF ToolReturns
  <1>11. CASE CompletePendingToolInvocation(p)
    <2>1. PICK doom \in {proc[p].doom, TRUE} : Settle(p, AfterResult([proc[p] EXCEPT !.doom = doom]))
      BY <1>11 DEF CompletePendingToolInvocation
    <2>2. [proc[p] EXCEPT !.doom = doom] \in Process
      BY PcsAre, <1>1, <2>1 DEF Process
    <2> QED BY GoTypes, MoveTypes, PcsAre, <2>1, <2>2
  <1> QED BY <1>4, <1>5, <1>6, <1>7, <1>8, <1>9, <1>10, <1>11 DEF ToolStep

(* Cleanup, recovery, requests and faults keep the process records well formed. *)
LEMMA OtherTypes ==
    ASSUME TypeOK, NEW p \in Procs, CleanupStep(p) \/ RecoverStep(p) \/ RequestStep(p) \/ FaultStep(p)
    PROVE  proc' \in [Procs -> Process]
  <1>1. proc[p] \in Process /\ NoProcess \in Process /\ Spent(p) \in Process /\ Ready(p) \in Process
        /\ Dropped(p) \in Process
    BY RestTypes
  <1>a. proc[p] \in Process
    BY <1>1
  <1>b. NoProcess \in Process /\ Ready(p) \in Process
    BY <1>1
  <1>2. \A x : AfterFailure(p, x) \in Process
    BY GoTypes, MoveTypes, PcsAre, <1>1 DEF AfterFailure
  <1>3. ASSUME GiveUp(p) PROVE proc' \in [Procs -> Process]
    BY GoTypes, MoveTypes, PcsAre, <1>1, <1>3 DEF GiveUp
  <1>4. CASE DiscardUnstartedToolBatch(p)
    <2>1. /\ [proc[p] EXCEPT !.pc = "diagnose", !.pend = FALSE] \in Process
          /\ [proc[p] EXCEPT !.pc = "abandon", !.pend = FALSE] \in Process
      BY PcsAre, <1>a DEF Process, Pcs
    <2> QED BY GoTypes, MoveTypes, PcsAre, <1>1, <1>4, <2>1 DEF DiscardUnstartedToolBatch
  <1>5. CASE AppendDiagnostic(p) \/ AbandonActiveAgentTurn(p) \/ Refused(p)
    BY GoTypes, MoveTypes, PcsAre, <1>1, <1>2, <1>5 DEF AppendDiagnostic, AbandonActiveAgentTurn, Refused
  <1>6. CASE LoadJournal(p)
    <2> DEFINE open == {c \in Batch : inv[c].state # "completed"}
               some == pendTurn # 0
    <2>1. open \in SUBSET Calls /\ Started \in SUBSET Calls
      BY DEF Batch, Started
    <2>2. checked \in BOOLEAN /\ active \in Turns \cup {0} /\ some \in BOOLEAN
      BY DEF TypeOK
    <2>3. [proc[p] EXCEPT !.pc = "recovering", !.fresh = TRUE, !.turn = active, !.pend = some,
                          !.persisted = checked, !.calls = open, !.unsure = Started] \in Process
      <3> DEFINE half == [proc[p] EXCEPT !.pc = "recovering", !.fresh = TRUE, !.turn = active, !.pend = some]
      <3> HIDE DEF open, some
      <3>1. half \in Process
        BY <1>a, <2>2 DEF Process
      <3>2. [half EXCEPT !.persisted = checked, !.calls = open, !.unsure = Started] \in Process
        <4> HIDE DEF half
        <4> QED BY <3>1, <2>1, <2>2 DEF Process
      <3>3. [half EXCEPT !.persisted = checked, !.calls = open, !.unsure = Started] =
              [proc[p] EXCEPT !.pc = "recovering", !.fresh = TRUE, !.turn = active, !.pend = some,
                          !.persisted = checked, !.calls = open, !.unsure = Started]
        BY <1>a DEF Process
      <3> QED BY <3>2, <3>3
    <2> QED BY GoTypes, <1>6, <2>3 DEF LoadJournal
  <1>7. CASE LoadRefused(p) \/ ReconcileRefused(p) \/ Release(p) \/ ReconcileFails(p)
    BY GoTypes, MoveTypes, PcsAre, <1>3, <1>7 DEF LoadRefused, ReconcileRefused, Release, ReconcileFails
  <1>8. CASE ReconcileCall(p)
    <2>1. \A c : [proc[p] EXCEPT !.calls = @ \ {c}] \in Process
      BY PcsAre, <1>1 DEF Process
    <2> QED BY GoTypes, MoveTypes, PcsAre, <1>8, <2>1 DEF ReconcileCall
  <1>9. CASE ReconcilePendingToolBatch(p) \/ ReconcileInterruptedActiveTurn(p)
    <2>1. Reopened(p) \in Process
      BY <1>a DEF Reopened, Process
    <2> QED BY GoTypes, MoveTypes, PcsAre, <1>9, <2>1 DEF ReconcilePendingToolBatch, ReconcileInterruptedActiveTurn
  <1>10. CASE Resume(p)
    <2>1. [Ready(p) EXCEPT !.memory = DurableHistory] \in Process
      BY PcsAre, <1>1, HistoryType DEF Process, Entries
    <2> QED BY GoTypes, MoveTypes, PcsAre, <1>10, <2>1 DEF Resume
  <1>11. ASSUME NEW mode \in Modes, ClaimSession(p, mode) PROVE proc' \in [Procs -> Process]
    <2>1. [NoProcess EXCEPT !.pc = "claimed", !.mode = mode] \in Process
      BY PcsAre, <1>b DEF Process, Pcs
    <2> QED BY GoTypes, MoveTypes, PcsAre, <1>11, <2>1 DEF ClaimSession
  <1>12. CASE RunMessage(p)
    <2>1. turns + 1 \in Turns
      BY <1>12, Limits DEF RunMessage, TypeOK, Turns
    <2>2. [Ready(p) EXCEPT !.pc = "preflight", !.turn = turns + 1, !.poisoned = TRUE] \in Process
      BY PcsAre, <1>b, <2>1 DEF Process, Pcs
    <2> QED BY GoTypes, MoveTypes, PcsAre, <1>12, <2>2 DEF RunMessage
  <1>13. CASE RefuseInput(p)
    <2>1. [Ready(p) EXCEPT !.pc = "diagnose", !.poisoned = TRUE] \in Process
      BY PcsAre, <1>b DEF Process, Pcs
    <2> QED BY GoTypes, MoveTypes, PcsAre, <1>13, <2>1 DEF RefuseInput
  <1>14. CASE StorageFault(p)
    BY GoTypes, MoveTypes, PcsAre, <1>1, <1>2, <1>14 DEF StorageFault
  <1>15. CASE DropFuture(p)
    <2>1. proc[p].pc \in Tasks => [proc[p] EXCEPT !.pc = "idle", !.op = proc[p].pc] \in Process
      BY PcsAre, <1>a DEF Process, Pcs
    <2> QED BY GoTypes, MoveTypes, PcsAre, <1>1, <1>15, <2>1 DEF DropFuture
  <1>16. CASE Crash(p)
    BY GoTypes, MoveTypes, PcsAre, <1>1, <1>16 DEF Crash
  <1>17. CASE RenewalFails(p)
    <2>1. [proc[p] EXCEPT !.lost = TRUE] \in Process
      BY PcsAre, <1>1 DEF Process
    <2> QED BY GoTypes, MoveTypes, PcsAre, <1>17, <2>1 DEF RenewalFails
  <1> QED BY <1>4, <1>5, <1>6, <1>7, <1>8, <1>9, <1>10, <1>11, <1>12, <1>13, <1>14, <1>15, <1>16,
             <1>17 DEF CleanupStep, RecoverStep, RequestStep, FaultStep

-----------------------------------------------------------------------------
(* What a step of one process can change at all.                           *)

StepBy(p) == Progress(p) \/ RequestStep(p) \/ FaultStep(p) \/ RenewSession(p)

(* It writes the row and itself, no other process.                         *)
LEMMA OwnRow ==
    ASSUME TypeOK, NEW p \in Procs, StepBy(p)
    PROVE  \A q \in Procs \ {p} : proc'[q] = proc[q]
  <1> SUFFICES ASSUME NEW q \in Procs \ {p} PROVE proc'[q] = proc[q]
    OBVIOUS
  <1>a. proc \in [Procs -> Process]
    BY DEF TypeOK
  <1>b. \A row : Go(p, row) \/ Settle(p, row) => proc'[q] = proc[q]
    BY <1>a DEF Go, Settle
  <1>1. CASE TurnStep(p)
    BY <1>b, <1>1 DEF GiveUp, TurnStep, BeginActiveAgentTurn, ModelFails, ModelAnswers, ModelCallsTools, BeginPendingToolBatch,
          PersistMessages, KeepMessages, PersistAnswer, FinishTurn
  <1>2. CASE ToolStep(p)
    BY <1>b, <1>2 DEF GiveUp, ToolStep, HarnessFails, RejectCall, ApproveTool, FlushApprovalRequest, Decide,
          FlushApprovalDecision, ApplyDecision, MarkPendingToolStarted, InvokeTool, InvokeCancelled,
          ToolReturns, CompletePendingToolInvocation
  <1>3. CASE CleanupStep(p)
    BY <1>b, <1>3 DEF GiveUp, CleanupStep, DiscardUnstartedToolBatch, AppendDiagnostic, AbandonActiveAgentTurn, Refused
  <1>4. CASE RecoverStep(p)
    BY <1>b, <1>4 DEF GiveUp, RecoverStep, LoadJournal, LoadRefused, ReconcileCall, ReconcilePendingToolBatch,
          ReconcileInterruptedActiveTurn, Resume, ReconcileRefused
  <1>5. CASE RequestStep(p)
    BY <1>b, <1>5 DEF GiveUp, RequestStep, ClaimSession, RunMessage, RefuseInput, Release
  <1>6. CASE FaultStep(p)
    BY <1>b, <1>6 DEF GiveUp, FaultStep, StorageFault, ReconcileFails, DropFuture, Crash, RenewalFails
  <1>7. CASE RenewSession(p)
    BY <1>b, <1>7 DEF GiveUp, RenewSession
  <1> QED BY <1>1, <1>2, <1>3, <1>4, <1>5, <1>6, <1>7 DEF StepBy, Progress

(* It takes the session only by a claim, and gives it up otherwise.        *)
LEMMA OwnerMoves ==
    ASSUME TypeOK, NEW p \in Procs, StepBy(p)
    PROVE  /\ owner' \in {owner, p, NoOne, Orphan} /\ live' \in BOOLEAN
           /\ owner' = p => owner = p \/ proc'[p].pc = "claimed"
  <1>a. proc \in [Procs -> Process] /\ live \in BOOLEAN
    BY DEF TypeOK
  <1>b. ASSUME NEW mode \in Modes, ClaimSession(p, mode) PROVE proc'[p].pc = "claimed" /\ owner' = p /\ live' = TRUE
    BY <1>a, <1>b DEF ClaimSession, Go, NoProcess
  <1>1. CASE TurnStep(p)
    BY <1>a, <1>b, <1>1 DEF GiveUp, journal, Fault, TurnStep, BeginActiveAgentTurn, ModelFails, ModelAnswers, ModelCallsTools, BeginPendingToolBatch,
          PersistMessages, KeepMessages, PersistAnswer, FinishTurn
  <1>2. CASE ToolStep(p)
    BY <1>a, <1>b, <1>2 DEF GiveUp, journal, Fault, ToolStep, HarnessFails, RejectCall, ApproveTool, FlushApprovalRequest, Decide,
          FlushApprovalDecision, ApplyDecision, MarkPendingToolStarted, InvokeTool, InvokeCancelled,
          ToolReturns, CompletePendingToolInvocation
  <1>3. CASE CleanupStep(p)
    BY <1>a, <1>b, <1>3 DEF GiveUp, journal, Fault, CleanupStep, DiscardUnstartedToolBatch, AppendDiagnostic, AbandonActiveAgentTurn, Refused
  <1>4. CASE RecoverStep(p)
    BY <1>a, <1>b, <1>4 DEF GiveUp, journal, Fault, RecoverStep, LoadJournal, LoadRefused, ReconcileCall, ReconcilePendingToolBatch,
          ReconcileInterruptedActiveTurn, Resume, ReconcileRefused
  <1>5. CASE RequestStep(p)
    BY <1>a, <1>b, <1>5 DEF GiveUp, journal, Fault, RequestStep, RunMessage, RefuseInput, Release
  <1>6. CASE FaultStep(p)
    BY <1>a, <1>b, <1>6 DEF GiveUp, journal, Fault, FaultStep, StorageFault, ReconcileFails, DropFuture, Crash, RenewalFails
  <1>7. CASE RenewSession(p)
    BY <1>a, <1>b, <1>7 DEF GiveUp, journal, Fault, RenewSession
  <1> QED BY <1>1, <1>2, <1>3, <1>4, <1>5, <1>6, <1>7 DEF StepBy, Progress

(* Only the owner writes the journal.                                      *)
LEMMA OwnerWrites ==
    ASSUME NEW p \in Procs, StepBy(p), owner # p
    PROVE  UNCHANGED journal
  <1>1. CASE TurnStep(p)
    BY <1>1 DEF journal, MayBegin, MayPlan, MayAudit, MayStart, MayRecord, MayPublish, MayAppend, MayAnswer, MayDiscard,
          MayDiagnose, MayAbandon, MayClose, MayReconcileCall, OwnsLive, TurnStep, BeginActiveAgentTurn, ModelFails, ModelAnswers, ModelCallsTools, BeginPendingToolBatch,
          PersistMessages, KeepMessages, PersistAnswer, FinishTurn
  <1>2. CASE ToolStep(p)
    BY <1>2 DEF journal, MayBegin, MayPlan, MayAudit, MayStart, MayRecord, MayPublish, MayAppend, MayAnswer, MayDiscard,
          MayDiagnose, MayAbandon, MayClose, MayReconcileCall, OwnsLive, ToolStep, HarnessFails, RejectCall, ApproveTool, FlushApprovalRequest, Decide,
          FlushApprovalDecision, ApplyDecision, MarkPendingToolStarted, InvokeTool, InvokeCancelled,
          ToolReturns, CompletePendingToolInvocation
  <1>3. CASE CleanupStep(p)
    BY <1>3 DEF journal, MayBegin, MayPlan, MayAudit, MayStart, MayRecord, MayPublish, MayAppend, MayAnswer, MayDiscard,
          MayDiagnose, MayAbandon, MayClose, MayReconcileCall, OwnsLive, CleanupStep, DiscardUnstartedToolBatch, AppendDiagnostic, AbandonActiveAgentTurn, Refused
  <1>4. CASE RecoverStep(p)
    BY <1>4 DEF journal, MayBegin, MayPlan, MayAudit, MayStart, MayRecord, MayPublish, MayAppend, MayAnswer, MayDiscard,
          MayDiagnose, MayAbandon, MayClose, MayReconcileCall, OwnsLive, RecoverStep, LoadJournal, LoadRefused, ReconcileCall, ReconcilePendingToolBatch,
          ReconcileInterruptedActiveTurn, Resume, ReconcileRefused
  <1>5. CASE RequestStep(p)
    BY <1>5 DEF journal, MayBegin, MayPlan, MayAudit, MayStart, MayRecord, MayPublish, MayAppend, MayAnswer, MayDiscard,
          MayDiagnose, MayAbandon, MayClose, MayReconcileCall, OwnsLive, RequestStep, ClaimSession, RunMessage, RefuseInput, Release
  <1>6. CASE FaultStep(p)
    BY <1>6 DEF journal, MayBegin, MayPlan, MayAudit, MayStart, MayRecord, MayPublish, MayAppend, MayAnswer, MayDiscard,
          MayDiagnose, MayAbandon, MayClose, MayReconcileCall, OwnsLive, FaultStep, StorageFault, ReconcileFails, DropFuture, Crash, RenewalFails
  <1>7. CASE RenewSession(p)
    BY <1>7 DEF journal, MayBegin, MayPlan, MayAudit, MayStart, MayRecord, MayPublish, MayAppend, MayAnswer, MayDiscard,
          MayDiagnose, MayAbandon, MayClose, MayReconcileCall, OwnsLive, RenewSession
  <1> QED BY <1>1, <1>2, <1>3, <1>4, <1>5, <1>6, <1>7 DEF StepBy, Progress

(* Counters only grow, and a tool runs once it is on record as started.    *)
LEMMA Counters ==
    ASSUME TypeOK, NEW p \in Procs, StepBy(p)
    PROVE  /\ turns' \in turns..MaxTurns /\ issued' \in issued..MaxCalls /\ faults' \in 0..MaxFaults
           /\ \/ ran' = ran
              \/ proc[p].pc = "invoke" /\ ran' = ran \cup {proc[p].at} /\ UNCHANGED <<journal, issued, turns, owner>>
                 /\ InvokeTool(p)
  <1>a. /\ turns \in 0..MaxTurns /\ issued \in 0..MaxCalls /\ faults \in 0..MaxFaults
        /\ MaxTurns \in Nat /\ MaxCalls \in Nat /\ MaxBatch \in Nat /\ MaxFaults \in Nat
    BY Limits DEF TypeOK
  <1>b. turns' = turns \/ (turns < MaxTurns /\ turns' = turns + 1)
    <2>1. CASE TurnStep(p)
      BY <2>1 DEF Fault, TurnStep, BeginActiveAgentTurn, ModelFails, ModelAnswers, ModelCallsTools, BeginPendingToolBatch,
          PersistMessages, KeepMessages, PersistAnswer, FinishTurn
    <2>2. CASE ToolStep(p)
      BY <2>2 DEF Fault, ToolStep, HarnessFails, RejectCall, ApproveTool, FlushApprovalRequest, Decide,
          FlushApprovalDecision, ApplyDecision, MarkPendingToolStarted, InvokeTool, InvokeCancelled,
          ToolReturns, CompletePendingToolInvocation
    <2>3. CASE CleanupStep(p)
      BY <2>3 DEF Fault, CleanupStep, DiscardUnstartedToolBatch, AppendDiagnostic, AbandonActiveAgentTurn, Refused
    <2>4. CASE RecoverStep(p)
      BY <2>4 DEF Fault, RecoverStep, LoadJournal, LoadRefused, ReconcileCall, ReconcilePendingToolBatch,
          ReconcileInterruptedActiveTurn, Resume, ReconcileRefused
    <2>5. CASE RequestStep(p)
      BY <2>5 DEF Fault, RequestStep, ClaimSession, RunMessage, RefuseInput, Release
    <2>6. CASE FaultStep(p)
      BY <2>6 DEF Fault, FaultStep, StorageFault, ReconcileFails, DropFuture, Crash, RenewalFails
    <2>7. CASE RenewSession(p)
      BY <2>7 DEF Fault, RenewSession
    <2> QED BY <2>1, <2>2, <2>3, <2>4, <2>5, <2>6, <2>7 DEF StepBy, Progress
  <1>c. issued' = issued \/ \E n \in 1..MaxBatch : issued' = issued + n /\ issued + n <= MaxCalls
    <2>1. CASE TurnStep(p)
      BY <2>1 DEF Fault, TurnStep, BeginActiveAgentTurn, ModelFails, ModelAnswers, ModelCallsTools, BeginPendingToolBatch,
          PersistMessages, KeepMessages, PersistAnswer, FinishTurn
    <2>2. CASE ToolStep(p)
      BY <2>2 DEF Fault, ToolStep, HarnessFails, RejectCall, ApproveTool, FlushApprovalRequest, Decide,
          FlushApprovalDecision, ApplyDecision, MarkPendingToolStarted, InvokeTool, InvokeCancelled,
          ToolReturns, CompletePendingToolInvocation
    <2>3. CASE CleanupStep(p)
      BY <2>3 DEF Fault, CleanupStep, DiscardUnstartedToolBatch, AppendDiagnostic, AbandonActiveAgentTurn, Refused
    <2>4. CASE RecoverStep(p)
      BY <2>4 DEF Fault, RecoverStep, LoadJournal, LoadRefused, ReconcileCall, ReconcilePendingToolBatch,
          ReconcileInterruptedActiveTurn, Resume, ReconcileRefused
    <2>5. CASE RequestStep(p)
      BY <2>5 DEF Fault, RequestStep, ClaimSession, RunMessage, RefuseInput, Release
    <2>6. CASE FaultStep(p)
      BY <2>6 DEF Fault, FaultStep, StorageFault, ReconcileFails, DropFuture, Crash, RenewalFails
    <2>7. CASE RenewSession(p)
      BY <2>7 DEF Fault, RenewSession
    <2> QED BY <2>1, <2>2, <2>3, <2>4, <2>5, <2>6, <2>7 DEF StepBy, Progress
  <1>d. faults' = faults \/ (faults < MaxFaults /\ faults' = faults + 1)
    <2>1. CASE TurnStep(p)
      BY <2>1 DEF Fault, TurnStep, BeginActiveAgentTurn, ModelFails, ModelAnswers, ModelCallsTools, BeginPendingToolBatch,
          PersistMessages, KeepMessages, PersistAnswer, FinishTurn
    <2>2. CASE ToolStep(p)
      BY <2>2 DEF Fault, ToolStep, HarnessFails, RejectCall, ApproveTool, FlushApprovalRequest, Decide,
          FlushApprovalDecision, ApplyDecision, MarkPendingToolStarted, InvokeTool, InvokeCancelled,
          ToolReturns, CompletePendingToolInvocation
    <2>3. CASE CleanupStep(p)
      BY <2>3 DEF Fault, CleanupStep, DiscardUnstartedToolBatch, AppendDiagnostic, AbandonActiveAgentTurn, Refused
    <2>4. CASE RecoverStep(p)
      BY <2>4 DEF Fault, RecoverStep, LoadJournal, LoadRefused, ReconcileCall, ReconcilePendingToolBatch,
          ReconcileInterruptedActiveTurn, Resume, ReconcileRefused
    <2>5. CASE RequestStep(p)
      BY <2>5 DEF Fault, RequestStep, ClaimSession, RunMessage, RefuseInput, Release
    <2>6. CASE FaultStep(p)
      BY <2>6 DEF Fault, FaultStep, StorageFault, ReconcileFails, DropFuture, Crash, RenewalFails
    <2>7. CASE RenewSession(p)
      BY <2>7 DEF Fault, RenewSession
    <2> QED BY <2>1, <2>2, <2>3, <2>4, <2>5, <2>6, <2>7 DEF StepBy, Progress
  <1>e. ran' = ran \/ InvokeTool(p)
    <2>1. CASE TurnStep(p)
      BY <2>1 DEF Fault, TurnStep, BeginActiveAgentTurn, ModelFails, ModelAnswers, ModelCallsTools, BeginPendingToolBatch,
          PersistMessages, KeepMessages, PersistAnswer, FinishTurn
    <2>2. CASE ToolStep(p)
      BY <2>2 DEF Fault, ToolStep, HarnessFails, RejectCall, ApproveTool, FlushApprovalRequest, Decide,
          FlushApprovalDecision, ApplyDecision, MarkPendingToolStarted, InvokeCancelled,
          ToolReturns, CompletePendingToolInvocation
    <2>3. CASE CleanupStep(p)
      BY <2>3 DEF Fault, CleanupStep, DiscardUnstartedToolBatch, AppendDiagnostic, AbandonActiveAgentTurn, Refused
    <2>4. CASE RecoverStep(p)
      BY <2>4 DEF Fault, RecoverStep, LoadJournal, LoadRefused, ReconcileCall, ReconcilePendingToolBatch,
          ReconcileInterruptedActiveTurn, Resume, ReconcileRefused
    <2>5. CASE RequestStep(p)
      BY <2>5 DEF Fault, RequestStep, ClaimSession, RunMessage, RefuseInput, Release
    <2>6. CASE FaultStep(p)
      BY <2>6 DEF Fault, FaultStep, StorageFault, ReconcileFails, DropFuture, Crash, RenewalFails
    <2>7. CASE RenewSession(p)
      BY <2>7 DEF Fault, RenewSession
    <2> QED BY <2>1, <2>2, <2>3, <2>4, <2>5, <2>6, <2>7 DEF StepBy, Progress
  <1> QED BY <1>a, <1>b, <1>c, <1>d, <1>e DEF InvokeTool

(* The invocations that the journal is written with.                       *)
LEMMA InvTypes ==
    /\ NoInvocation \in Invocation /\ Planned \in Invocation
    /\ \A i \in Invocation :
          /\ [i EXCEPT !.asked = TRUE] \in Invocation
          /\ [i EXCEPT !.state = "started", !.begun = TRUE] \in Invocation
          /\ \A d \in {"none", "allow", "deny"} : [i EXCEPT !.decision = d] \in Invocation
          /\ \A s \in Said : [i EXCEPT !.state = "completed", !.origin = "tool", !.said = s] \in Invocation
  <1>1. NoInvocation \in Invocation /\ Planned \in Invocation
    BY DEF NoInvocation, Planned, Invocation
  <1>2. ASSUME NEW i \in Invocation
        PROVE  /\ [i EXCEPT !.asked = TRUE] \in Invocation
               /\ [i EXCEPT !.state = "started", !.begun = TRUE] \in Invocation
    BY <1>2 DEF Invocation
  <1>3. ASSUME NEW i \in Invocation, NEW d \in {"none", "allow", "deny"}
        PROVE  [i EXCEPT !.decision = d] \in Invocation
    BY <1>3 DEF Invocation
  <1>4. ASSUME NEW i \in Invocation, NEW s \in Said
        PROVE  [i EXCEPT !.state = "completed", !.origin = "tool", !.said = s] \in Invocation
    BY <1>4 DEF Invocation
  <1> QED BY <1>1, <1>2, <1>3, <1>4

(* What recovery writes for an interrupted call is a well formed row. *)
LEMMA ReconciledType ==
    ASSUME TypeOK, NEW p \in Procs, NEW c \in Calls
    PROVE  Reconciled(p, c) \in Invocation
  <1> DEFINE origin == IF c \in proc[p].unsure THEN "uncertain" ELSE "not_executed"
             said == IF c \in proc[p].unsure THEN "maybe" ELSE "notrun"
             decision == IF inv[c].asked /\ inv[c].decision = "none" THEN "deny" ELSE inv[c].decision
  <1>1. inv[c] \in Invocation
    BY DEF TypeOK
  <1>2. origin \in {"uncertain", "not_executed"} /\ said \in Said /\ decision \in {"none", "allow", "deny"}
    BY <1>1 DEF Said, Invocation
  <1>3. [inv[c] EXCEPT !.state = "completed", !.origin = origin, !.said = said, !.decision = decision] \in Invocation
    <2> HIDE DEF origin, said, decision
    <2> QED BY <1>1, <1>2 DEF Invocation
  <1> QED BY <1>3 DEF Reconciled

(* Every step keeps the invocation rows well formed. *)
LEMMA InvStep ==
    ASSUME TypeOK, NEW p \in Procs, StepBy(p)
    PROVE  inv' \in [Calls -> Invocation]
  <1>a. inv \in [Calls -> Invocation] /\ proc[p] \in Process
    BY DEF TypeOK
  <1>b. proc[p].say \in Said /\ proc[p].verdict \in {"none", "allow", "deny"} /\ proc[p].calls \in SUBSET Calls
    BY <1>a DEF Process
  <1>c. ASSUME inv' = [c \in Calls |-> NoInvocation] PROVE inv' \in [Calls -> Invocation]
    BY <1>c, InvTypes
  <1>1. CASE TurnStep(p)
    <2>1. CASE BeginPendingToolBatch(p)
      BY <1>a, <2>1, InvTypes DEF BeginPendingToolBatch, Planned
    <2>2. CASE PersistMessages(p)
      BY <1>c, <2>2 DEF PersistMessages, PublishBatch
    <2> QED BY <1>a, <1>1, <2>1, <2>2 DEF TurnStep, BeginActiveAgentTurn, ModelFails, ModelAnswers,
          ModelCallsTools, KeepMessages, PersistAnswer, FinishTurn, journal
  <1>2. CASE ToolStep(p)
    <2>1. CASE FlushApprovalRequest(p)
      <3>1. \A c \in Calls : inv'[c] = inv[c] \/ inv'[c] = [inv[c] EXCEPT !.asked = TRUE]
        BY <1>a, <2>1 DEF FlushApprovalRequest
      <3>2. inv' = [c \in Calls |-> inv'[c]]
        BY <1>a, <2>1 DEF FlushApprovalRequest
      <3> QED BY <1>a, <3>1, <3>2, InvTypes
    <2>2. CASE FlushApprovalDecision(p)
      <3>1. \A c \in Calls : inv'[c] = inv[c] \/ inv'[c] = [inv[c] EXCEPT !.decision = proc[p].verdict]
        BY <1>a, <2>2 DEF FlushApprovalDecision
      <3>2. inv' = [c \in Calls |-> inv'[c]]
        BY <1>a, <2>2 DEF FlushApprovalDecision
      <3>3. ASSUME NEW c \in Calls PROVE inv'[c] \in Invocation
        <4>1. inv[c] \in Invocation
          BY <1>a
        <4>2. [inv[c] EXCEPT !.decision = proc[p].verdict] \in Invocation
          BY <1>b, <4>1, InvTypes
        <4> QED BY <3>1, <4>1, <4>2
      <3> QED BY <3>2, <3>3
    <2>3. CASE MarkPendingToolStarted(p)
      <3>1. \A c \in Calls : inv'[c] = inv[c] \/ inv'[c] = [inv[c] EXCEPT !.state = "started", !.begun = TRUE]
        BY <1>a, <2>3 DEF MarkPendingToolStarted
      <3>2. inv' = [c \in Calls |-> inv'[c]]
        BY <1>a, <2>3 DEF MarkPendingToolStarted
      <3> QED BY <1>a, <3>1, <3>2, InvTypes
    <2>4. CASE CompletePendingToolInvocation(p)
      <3>1. \A c \in Calls : \/ inv'[c] = inv[c]
                             \/ inv'[c] = [inv[c] EXCEPT !.state = "completed", !.origin = "tool", !.said = proc[p].say]
        BY <1>a, <2>4 DEF CompletePendingToolInvocation
      <3>2. inv' = [c \in Calls |-> inv'[c]]
        BY <1>a, <2>4 DEF CompletePendingToolInvocation
      <3>3. ASSUME NEW c \in Calls PROVE inv'[c] \in Invocation
        <4>1. inv[c] \in Invocation
          BY <1>a
        <4>2. [inv[c] EXCEPT !.state = "completed", !.origin = "tool", !.said = proc[p].say] \in Invocation
          BY <1>b, <4>1, InvTypes
        <4> QED BY <3>1, <4>1, <4>2
      <3> QED BY <3>2, <3>3
    <2> QED BY <1>a, <1>2, <2>1, <2>2, <2>3, <2>4 DEF ToolStep, HarnessFails, RejectCall, ApproveTool, Decide,
          ApplyDecision, InvokeTool, InvokeCancelled, ToolReturns, journal
  <1>3. CASE CleanupStep(p)
    BY <1>a, <1>c, <1>3 DEF CleanupStep, DiscardUnstartedToolBatch, AppendDiagnostic,
          AbandonActiveAgentTurn, Refused, journal
  <1>4. CASE RecoverStep(p)
    <2>1. CASE ReconcileCall(p)
      BY <1>a, <2>1, ReconciledType DEF ReconcileCall
    <2> QED BY <1>a, <1>c, <1>4, <2>1 DEF RecoverStep, LoadJournal, LoadRefused, ReconcilePendingToolBatch,
          PublishBatch, ReconcileInterruptedActiveTurn, Resume, ReconcileRefused, journal
  <1>5. CASE RequestStep(p)
    BY <1>a, <1>5 DEF journal, RequestStep, ClaimSession, RunMessage, RefuseInput, Release
  <1>6. CASE FaultStep(p) \/ RenewSession(p)
    BY <1>a, <1>6 DEF journal, RenewSession, FaultStep, StorageFault, ReconcileFails, DropFuture, Crash, RenewalFails
  <1> QED BY <1>1, <1>2, <1>3, <1>4, <1>5, <1>6 DEF StepBy, Progress

(* Every step keeps the turn fields of the journal well formed. *)
LEMMA TurnFieldTypes ==
    ASSUME TypeOK, NEW p \in Procs, StepBy(p)
    PROVE  /\ active' \in Turns \cup {0} /\ checked' \in BOOLEAN /\ pendTurn' \in Turns \cup {0}
           /\ committed' \in [Calls -> Said \cup {"none"}]
           /\ closed' \in [Turns -> {"open", "done", "failed"}]
  <1>a. /\ active \in Turns \cup {0} /\ checked \in BOOLEAN /\ pendTurn \in Turns \cup {0}
        /\ committed \in [Calls -> Said \cup {"none"}] /\ closed \in [Turns -> {"open", "done", "failed"}]
    BY DEF TypeOK
  <1>b. proc[p].turn \in Turns \cup {0}
    BY DEF TypeOK, Process
  <1>c. ASSUME NEW t, NEW o \in {"done", "failed"}, CloseTurn(t, o)
        PROVE  active' = 0 /\ checked' = FALSE /\ closed' \in [Turns -> {"open", "done", "failed"}]
    BY <1>a, <1>c DEF CloseTurn
  <1>d. ASSUME PublishBatch
        PROVE  pendTurn' = 0 /\ committed' \in [Calls -> Said \cup {"none"}]
    <2>1. \A c \in Calls : inv[c].said \in Said \cup {"none"}
      BY DEF TypeOK, Invocation
    <2> QED BY <1>a, <1>d, <2>1 DEF PublishBatch
  <1>1. CASE TurnStep(p)
    BY <1>a, <1>b, <1>c, <1>d, <1>1 DEF journal, TurnStep, BeginActiveAgentTurn, ModelFails, ModelAnswers, ModelCallsTools, BeginPendingToolBatch,
          PersistMessages, KeepMessages, PersistAnswer, FinishTurn
  <1>2. CASE ToolStep(p)
    BY <1>a, <1>b, <1>c, <1>d, <1>2 DEF journal, ToolStep, HarnessFails, RejectCall, ApproveTool, FlushApprovalRequest, Decide,
          FlushApprovalDecision, ApplyDecision, MarkPendingToolStarted, InvokeTool, InvokeCancelled,
          ToolReturns, CompletePendingToolInvocation
  <1>3. CASE CleanupStep(p)
    BY <1>a, <1>b, <1>c, <1>d, <1>3 DEF journal, CleanupStep, DiscardUnstartedToolBatch, AppendDiagnostic, AbandonActiveAgentTurn, Refused
  <1>4. CASE RecoverStep(p)
    BY <1>a, <1>b, <1>c, <1>d, <1>4 DEF journal, RecoverStep, LoadJournal, LoadRefused, ReconcileCall, ReconcilePendingToolBatch,
          ReconcileInterruptedActiveTurn, Resume, ReconcileRefused
  <1>5. CASE RequestStep(p)
    BY <1>a, <1>b, <1>c, <1>d, <1>5 DEF journal, RequestStep, ClaimSession, RunMessage, RefuseInput, Release
  <1>6. CASE FaultStep(p)
    BY <1>a, <1>b, <1>c, <1>d, <1>6 DEF journal, FaultStep, StorageFault, ReconcileFails, DropFuture, Crash, RenewalFails
  <1>7. CASE RenewSession(p)
    BY <1>a, <1>b, <1>c, <1>d, <1>7 DEF journal, RenewSession
  <1> QED BY <1>1, <1>2, <1>3, <1>4, <1>5, <1>6, <1>7 DEF StepBy, Progress


(* Every step keeps the process records well formed. *)
LEMMA ProcTypes ==
    ASSUME TypeOK, NEW p \in Procs, StepBy(p)
    PROVE  proc' \in [Procs -> Process]
  BY TurnTypes, ToolTypes, OtherTypes DEF StepBy, Progress, RenewSession, TypeOK

(* Every step of a process keeps the types.                                *)
LEMMA TypeStepBy ==
    ASSUME TypeOK, NEW p \in Procs, StepBy(p), InvokeInv(p)
    PROVE  TypeOK'
  <1>1. owner' \in Procs \cup {NoOne, Orphan} /\ live' \in BOOLEAN
    BY OwnerMoves DEF TypeOK
  <1>2. ran' \in SUBSET Calls
    <2>1. ran' = ran \/ (proc[p].pc = "invoke" /\ ran' = ran \cup {proc[p].at})
      BY Counters
    <2> QED BY <2>1 DEF InvokeInv, TypeOK
  <1>3. turns' \in 0..MaxTurns /\ issued' \in 0..MaxCalls /\ faults' \in 0..MaxFaults
    <2>1. turns \in Nat /\ issued \in Nat
      BY DEF TypeOK
    <2> QED BY <2>1, Counters, Limits
  <1> QED BY <1>1, <1>2, <1>3, InvStep, TurnFieldTypes, ProcTypes DEF TypeOK

-----------------------------------------------------------------------------
(* The journal.                                                            *)

(* The tool of a call may have run: this is never forgotten.               *)
Recorded(c) == inv[c].begun \/ committed[c] \in {"exact", "maybe"}

JournalKept == JournalInv' /\ \A c \in Calls : Recorded(c) => Recorded(c)'

(* Steps that leave the journal alone.                                     *)
LEMMA QuietJournal ==
    ASSUME IInv, NEW p \in Procs, StepBy(p), UNCHANGED journal
    PROVE  JournalKept
  <1>1. /\ inv \in [Calls -> Invocation] /\ turns \in Nat /\ issued \in Nat /\ turns' \in Nat /\ issued' \in Nat
        /\ turns <= turns' /\ issued <= issued'
    BY Counters, Limits DEF IInv, TypeOK
  <1>2. /\ UNCHANGED inv /\ UNCHANGED committed /\ UNCHANGED active /\ UNCHANGED pendTurn /\ UNCHANGED closed
        /\ UNCHANGED checked
    BY DEF journal
  <1>3. InOrder'
    BY <1>2 DEF IInv, JournalInv, InOrder
  <1>4. TurnsInv'
    <2>1. active \in Nat
      BY Limits DEF IInv, TypeOK
    <2>2. \A t \in Turns : t \in Nat
      BY Limits
    <2> QED BY <1>1, <1>2, <2>1, <2>2 DEF IInv, JournalInv, TurnsInv
  <1>5. ASSUME NEW c \in Calls PROVE CallInv(c)'
    <2>1. CallInv(c) /\ c \in Nat
      BY Limits DEF IInv, JournalInv
    <2>2. CASE ran' = ran
      BY <1>1, <1>2, <2>1, <2>2 DEF CallInv
    <2>3. CASE proc[p].pc = "invoke" /\ ran' = ran \cup {proc[p].at} /\ issued' = issued
      <3>1. CASE c # proc[p].at
        BY <1>1, <1>2, <2>1, <2>3, <3>1 DEF CallInv
      <3>2. CASE c = proc[p].at
        <4>1. Recorded(c)
          BY <2>3, <3>2 DEF IInv, ProcInv, InvokeInv, Recorded
        <4>2. inv[c].begun => inv[c].state # "none" /\ committed[c] = "none"
          BY <2>1 DEF CallInv, NoInvocation
        <4>3. ~(c > issued)
          BY <2>1, <4>1 DEF CallInv, Recorded, NoInvocation
        <4> QED BY <1>1, <1>2, <2>1, <2>3, <4>1, <4>2, <4>3 DEF CallInv, Recorded
      <3> QED BY <3>1, <3>2
    <2> QED BY <2>2, <2>3, Counters DEF IInv
  <1> QED BY <1>2, <1>3, <1>4, <1>5 DEF JournalInv, JournalKept, Recorded

(* A step that writes the row of one call, in its turn.                    *)
LEMMA CallWritten ==
    ASSUME IInv, NEW c \in Calls, NEW i \in Invocation,
           inv' = [inv EXCEPT ![c] = i], inv[c].state # "none", i.state # "none",
           UNCHANGED <<active, checked, pendTurn, committed, closed, ran, turns, issued>>,
           CallInv(c)', inv[c].begun => i.begun,
           \A d \in Calls : d < c /\ inv[d].state # "none" => inv[d].state = "completed",
           i.state \in {"planned", "started"} => inv[c].state \in {"planned", "started"}
    PROVE  JournalKept
  <1>1. inv \in [Calls -> Invocation] /\ inv'[c] = i /\ \A d \in Calls \ {c} : inv'[d] = inv[d]
    BY DEF IInv, TypeOK
  <1>2. ASSUME NEW d \in Calls PROVE CallInv(d)'
    BY <1>1 DEF IInv, JournalInv, CallInv
  <1>3. InOrder'
    <2> SUFFICES ASSUME NEW a \in Calls, NEW b \in Calls, a < b, inv'[a].state \in {"planned", "started"},
                        inv'[b].state # "none"
                 PROVE  inv'[b] = [NoInvocation EXCEPT !.state = "planned"]
      BY DEF InOrder
    <2>0. a \in Nat /\ b \in Nat
      BY Limits
    <2>1. CASE b = c
      BY <1>1, <2>0, <2>1
    <2>2. CASE b # c
      <3>1. inv[a].state \in {"planned", "started"} /\ inv[b].state # "none" /\ inv'[b] = inv[b]
        BY <1>1, <2>2
      <3> QED BY <3>1 DEF IInv, JournalInv, InOrder
    <2> QED BY <2>1, <2>2
  <1>4. TurnsInv'
    <2>1. pendTurn # 0
      BY DEF IInv, JournalInv, TurnsInv, NoInvocation
    <2> QED BY <2>1 DEF IInv, JournalInv, TurnsInv
  <1>5. \A d \in Calls : Recorded(d) => Recorded(d)'
    BY <1>1 DEF Recorded
  <1> QED BY <1>2, <1>3, <1>4, <1>5 DEF JournalInv, JournalKept


(* The task in flight is the stage.                                        *)
LEMMA FlightStage ==
    ASSUME NEW p \in Procs, NEW x \in Tasks, InFlight(p, x)
    PROVE  Stage(p) = x
  BY DEF InFlight, Stage, Tasks, Checkpoints, Cleanups

(* What the owner in the midst of a call knows of the calls.               *)
LEMMA AtCall ==
    ASSUME IInv, NEW p \in Procs, owner = p, Stage(p) \in CallStages
    PROVE  /\ proc[p].at \in Calls /\ inv[proc[p].at] \in Invocation /\ inv[proc[p].at].state # "none"
           /\ \A d \in Calls : d < proc[p].at /\ inv[d].state # "none" => inv[d].state = "completed"
           /\ \A d \in Calls : d > proc[p].at /\ inv[d].state # "none" => inv[d] = Planned
           /\ Current(p, inv[proc[p].at]) /\ CallInv(proc[p].at) /\ proc[p].say \in Said
           /\ proc[p].verdict \in {"none", "allow", "deny"}
  <1>1. ProcInv(p) /\ OwnerInv(p) /\ Stage(p) \in BatchStages
    BY DEF IInv, ProcInv, BatchStages
  <1>2. proc[p].calls = Batch /\ proc[p].at \in Batch
    BY <1>1 DEF OwnerInv
  <1>3. proc[p] \in Process /\ inv \in [Calls -> Invocation]
    BY DEF IInv, TypeOK
  <1>4. proc[p].say \in Said /\ proc[p].verdict \in {"none", "allow", "deny"}
    BY <1>3 DEF Process
  <1> QED BY <1>1, <1>2, <1>3, <1>4 DEF OwnerInv, Batch, IInv, JournalInv

(* The four journal writes of one call (request, decision, start, completion) move only
   that call's row, and forward. *)
LEMMA CallJournal ==
    ASSUME IInv, NEW p \in Procs,
           FlushApprovalRequest(p) \/ FlushApprovalDecision(p) \/ MarkPendingToolStarted(p)
             \/ CompletePendingToolInvocation(p)
    PROVE  JournalKept
  <1>1. owner = p /\ Stage(p) \in {"ask", "resolve", "start", "record"}
    BY FlightStage DEF FlushApprovalRequest, FlushApprovalDecision, MarkPendingToolStarted,
          CompletePendingToolInvocation, MayAudit, MayStart, MayRecord, OwnsLive, Tasks, Checkpoints
  <1>2. Stage(p) \in CallStages
    BY <1>1 DEF CallStages
  <1>c. PICK c \in Calls : c = proc[p].at
    BY <1>1, <1>2, AtCall
  <1>3. /\ c \in Calls /\ inv[c] \in Invocation /\ inv[c].state # "none"
        /\ \A d \in Calls : d < c /\ inv[d].state # "none" => inv[d].state = "completed"
        /\ Current(p, inv[c]) /\ CallInv(c) /\ proc[p].say \in Said
        /\ proc[p].verdict \in {"none", "allow", "deny"}
    BY <1>1, <1>2, <1>c, AtCall
  <1>4. inv \in [Calls -> Invocation]
    BY DEF IInv, TypeOK
  <1>5. UNCHANGED <<active, checked, pendTurn, committed, closed, ran, turns, issued>>
    BY DEF FlushApprovalRequest, FlushApprovalDecision, MarkPendingToolStarted,
          CompletePendingToolInvocation
  <1>6. ASSUME NEW i \in Invocation, inv' = [inv EXCEPT ![c] = i], i.state # "none", CallInv(c)',
               inv[c].begun => i.begun,
               i.state \in {"planned", "started"} => inv[c].state \in {"planned", "started"}
        PROVE  JournalKept
    BY <1>3, <1>5, <1>6, CallWritten
  <1>7. CASE FlushApprovalRequest(p)
    <2> DEFINE i == [inv[c] EXCEPT !.asked = TRUE]
    <2>1. Stage(p) = "ask"
      BY <1>7, FlightStage DEF FlushApprovalRequest, Tasks, Checkpoints
    <2>2. i \in Invocation
      BY <1>3, InvTypes
    <2>3. inv' = [inv EXCEPT ![c] = i]
      BY <1>c, <1>3, <1>4, <1>7 DEF FlushApprovalRequest
    <2>4. /\ i.state = inv[c].state /\ i.begun = inv[c].begun /\ i.said = inv[c].said /\ i.origin = inv[c].origin
      BY <1>3 DEF Invocation
    <2>5. CallInv(c)'
      <3> HIDE DEF i
      <3>1. inv'[c] = i
        BY <1>3, <1>4, <2>3
      <3> QED BY <1>3, <1>5, <2>4, <3>1 DEF CallInv, NoInvocation
    <2> HIDE DEF i
    <2> QED BY <1>3, <1>6, <2>2, <2>3, <2>4, <2>5
  <1>8. CASE FlushApprovalDecision(p)
    <2> DEFINE i == [inv[c] EXCEPT !.decision = proc[p].verdict]
    <2>2. i \in Invocation
      BY <1>3, InvTypes
    <2>3. inv' = [inv EXCEPT ![c] = i]
      BY <1>c, <1>3, <1>4, <1>8 DEF FlushApprovalDecision
    <2>4. /\ i.state = inv[c].state /\ i.begun = inv[c].begun /\ i.said = inv[c].said /\ i.origin = inv[c].origin
      BY <1>3 DEF Invocation
    <2>5. CallInv(c)'
      <3> HIDE DEF i
      <3>1. inv'[c] = i
        BY <1>3, <1>4, <2>3
      <3> QED BY <1>3, <1>5, <2>4, <3>1 DEF CallInv, NoInvocation
    <2> HIDE DEF i
    <2> QED BY <1>3, <1>6, <2>2, <2>3, <2>4, <2>5
  <1>9. CASE MarkPendingToolStarted(p)
    <2> DEFINE i == [inv[c] EXCEPT !.state = "started", !.begun = TRUE]
    <2>2. i \in Invocation
      BY <1>3, InvTypes
    <2>3. inv' = [inv EXCEPT ![c] = i]
      BY <1>c, <1>3, <1>4, <1>9 DEF MarkPendingToolStarted
    <2>4. /\ i.state = "started" /\ i.begun = TRUE /\ i.said = inv[c].said /\ i.origin = inv[c].origin
          /\ inv[c].state = "planned"
      BY <1>c, <1>3, <1>9 DEF Invocation, MarkPendingToolStarted, MayStart
    <2>5. CallInv(c)'
      <3> HIDE DEF i
      <3>1. inv'[c] = i
        BY <1>3, <1>4, <2>3
      <3> QED BY <1>3, <1>5, <2>4, <3>1 DEF CallInv, NoInvocation
    <2> HIDE DEF i
    <2> QED BY <1>3, <1>6, <2>2, <2>3, <2>4, <2>5
  <1>10. CASE CompletePendingToolInvocation(p)
    <2> DEFINE i == [inv[c] EXCEPT !.state = "completed", !.origin = "tool", !.said = proc[p].say]
    <2>1. Stage(p) = "record"
      BY <1>10, FlightStage DEF CompletePendingToolInvocation, Tasks, Checkpoints
    <2>2. i \in Invocation
      BY <1>3, InvTypes
    <2>3. inv' = [inv EXCEPT ![c] = i]
      BY <1>c, <1>3, <1>4, <1>10 DEF CompletePendingToolInvocation
    <2>4. /\ i.state = "completed" /\ i.begun = inv[c].begun /\ i.said = proc[p].say
      BY <1>3 DEF Invocation
    <2>5. CallInv(c)'
      <3> HIDE DEF i
      <3>1. inv'[c] = i
        BY <1>3, <1>4, <2>3
      <3>2. proc[p].say = "exact" => c \in ran /\ inv[c].begun
        BY <1>c, <1>3, <2>1 DEF Current
      <3>3. proc[p].say \in {"notrun", "denied"} => ~inv[c].begun
        BY <1>c, <1>3, <2>1 DEF Current
      <3>4. proc[p].say # "none"
        BY <1>3 DEF Said
      <3>5. committed[c] = "none" /\ (c > issued => inv[c].state = "none")
        BY <1>3 DEF CallInv, NoInvocation
      <3> QED BY <1>3, <1>5, <2>4, <3>1, <3>2, <3>3, <3>4, <3>5 DEF CallInv
    <2> HIDE DEF i
    <2> QED BY <1>3, <1>6, <2>2, <2>3, <2>4, <2>5
  <1> QED BY <1>7, <1>8, <1>9, <1>10

(* What recovery writes for a call without a result.                       *)
LEMMA ReconcileJournal ==
    ASSUME IInv, NEW p \in Procs, ReconcileCall(p)
    PROVE  JournalKept
  <1>1. owner = p /\ proc[p].pc = "recovering" /\ proc[p].calls # {} /\ proc[p].calls \in SUBSET Calls
    BY DEF ReconcileCall, MayReconcileCall, MayAudit, OwnsLive, IInv, TypeOK, Process
  <1>2. OwnerInv(p) /\ inv \in [Calls -> Invocation]
    BY <1>1 DEF IInv, ProcInv, TypeOK
  <1>3. PICK c \in Calls : c = First(proc[p].calls) /\ c \in proc[p].calls /\ \A d \in proc[p].calls : c <= d
    BY <1>1, FirstIs
  <1>4. /\ inv[c].state \in {"planned", "started"}
        /\ c \in proc[p].unsure <=> inv[c].state = "started"
        /\ \A d \in Calls : d < c /\ inv[d].state # "none" => inv[d].state = "completed"
    <2>1. inv[c].state \in {"planned", "started"}
      BY <1>3 DEF ReconcileCall, MayReconcileCall
    <2>2. c \in proc[p].unsure <=> inv[c].state = "started"
      BY <1>1, <1>2, <1>3 DEF OwnerInv, Started, Batch
    <2>3. ASSUME NEW d \in Calls, d < c, inv[d].state # "none" PROVE inv[d].state = "completed"
      <3>1. d \notin proc[p].calls
        BY <1>3, <2>3, Limits
      <3> QED BY <1>1, <1>2, <2>3, <3>1 DEF OwnerInv, Batch
    <2> QED BY <2>1, <2>2, <2>3
  <1>5. inv' = [inv EXCEPT ![c] = Reconciled(p, c)] /\ Reconciled(p, c) \in Invocation
    BY <1>3, ReconciledType DEF ReconcileCall, IInv
  <1>6. PICK i \in Invocation : i = Reconciled(p, c)
    BY <1>5
  <1>7. /\ i.state = "completed" /\ i.begun = inv[c].begun
        /\ i.said = IF c \in proc[p].unsure THEN "maybe" ELSE "notrun"
    BY <1>2, <1>6 DEF Reconciled, Invocation
  <1>8. UNCHANGED <<active, checked, pendTurn, committed, closed, ran, turns, issued>>
    BY DEF ReconcileCall
  <1>9. CallInv(c)'
    <2>1. inv'[c] = i
      BY <1>2, <1>5, <1>6
    <2>2. CallInv(c)
      BY DEF IInv, JournalInv
    <2>3. c > issued => inv[c].state = "none"
      BY <2>2 DEF CallInv, NoInvocation
    <2> QED BY <1>4, <1>7, <1>8, <2>1, <2>2, <2>3 DEF CallInv
  <1> QED BY <1>4, <1>5, <1>6, <1>7, <1>8, <1>9, CallWritten

(* The batch is emptied: into the transcript, or away when nothing began.  *)
LEMMA EmptyOrder ==
    ASSUME inv' = [c \in Calls |-> NoInvocation]
    PROVE  InOrder' /\ \A c \in Calls : inv'[c] = NoInvocation
  BY DEF InOrder, NoInvocation

(* Publishing a completed batch commits exactly the results its rows hold. *)
LEMMA PublishCalls ==
    ASSUME IInv, PublishBatch, AllCompleted, UNCHANGED <<ran, issued>>
    PROVE  InOrder' /\ \A c \in Calls : CallInv(c)' /\ (Recorded(c) => Recorded(c)')
  <1>1. inv' = [c \in Calls |-> NoInvocation]
    BY DEF PublishBatch
  <1>2. ASSUME NEW c \in Calls PROVE CallInv(c)' /\ (Recorded(c) => Recorded(c)')
    <2>1. CallInv(c) /\ inv[c] \in Invocation /\ inv'[c] = NoInvocation
      BY <1>1 DEF IInv, JournalInv, TypeOK
    <2>2. committed'[c] = IF inv[c].state # "none" THEN inv[c].said ELSE committed[c]
      BY DEF PublishBatch, Batch
    <2>3. inv[c].state # "none" => inv[c].state = "completed"
      BY DEF AllCompleted, Batch
    <2>4. inv[c].said \in {"exact", "maybe", "notrun", "denied", "none"}
      BY <2>1 DEF Invocation, Said
    <2> QED BY <2>1, <2>2, <2>3, <2>4 DEF CallInv, Recorded, NoInvocation
  <1> QED BY <1>1, <1>2, EmptyOrder

(* A turn is closed or given up when nothing of it is pending any more.    *)
LEMMA ClosedTurns ==
    ASSUME IInv, pendTurn' = 0, active' = 0, checked' = FALSE, UNCHANGED turns, NEW t \in Turns, active = t,
           inv' = [c \in Calls |-> NoInvocation],
           closed' = closed \/ \E o \in {"done", "failed"} : closed' = [closed EXCEPT ![t] = o]
    PROVE  TurnsInv'
  <1>1. closed \in [Turns -> {"open", "done", "failed"}] /\ turns \in Nat /\ t \in Nat /\ t <= turns
    BY Limits DEF IInv, TypeOK, JournalInv, TurnsInv
  <1>2. ASSUME NEW u \in Turns, u > turns PROVE closed'[u] = "open"
    <2>1. u # t /\ closed[u] = "open"
      BY <1>1, <1>2, Limits DEF IInv, JournalInv, TurnsInv
    <2> QED BY <1>1, <2>1
  <1> QED BY <1>1, <1>2, EmptyOrder DEF TurnsInv

(* A journal without calls stays one.                                      *)
LEMMA NoCalls ==
    ASSUME IInv, pendTurn = 0
    PROVE  inv = [c \in Calls |-> NoInvocation]
  <1>1. inv \in [Calls -> Invocation] /\ \A c \in Calls : inv[c] = NoInvocation
    BY DEF IInv, TypeOK, JournalInv, TurnsInv
  <1> QED BY <1>1

(* A step that touches no row, result or effect keeps what is known of the calls. *)
LEMMA SameCalls ==
    ASSUME IInv, UNCHANGED <<inv, committed, ran, issued>>
    PROVE  InOrder' /\ \A c \in Calls : CallInv(c)' /\ (Recorded(c) => Recorded(c)')
  <1>1. InOrder'
    BY DEF IInv, JournalInv, InOrder
  <1>2. ASSUME NEW c \in Calls PROVE CallInv(c)' /\ (Recorded(c) => Recorded(c)')
    BY DEF IInv, JournalInv, CallInv, Recorded
  <1> QED BY <1>1, <1>2

(* The owner's picture, by the task it has in flight.                      *)
LEMMA OwnerFlies ==
    ASSUME IInv, NEW p \in Procs, owner = p, NEW x \in Tasks, InFlight(p, x)
    PROVE  OwnerInv(p) /\ Stage(p) = x /\ proc[p] \in Process /\ ShapeInv(p)
  BY FlightStage DEF IInv, ProcInv, TypeOK

(* The steps of a turn that write its rows.                                *)
LEMMA TurnJournal ==
    ASSUME IInv, NEW p \in Procs,
           BeginActiveAgentTurn(p) \/ BeginPendingToolBatch(p) \/ PersistMessages(p) \/ PersistAnswer(p)
    PROVE  JournalKept
  <1> USE DEF Tasks, Checkpoints
  <1>1. CASE BeginActiveAgentTurn(p)
    <2>1. owner = p /\ InFlight(p, "preflight") /\ active = 0
      BY <1>1 DEF BeginActiveAgentTurn, MayBegin, OwnsLive
    <2>2. OwnerInv(p) /\ Stage(p) = "preflight"
      BY <2>1, OwnerFlies
    <2>3. proc[p].turn \in Turns /\ proc[p].turn <= turns /\ closed[proc[p].turn] = "open" /\ pendTurn = 0
      BY <2>1, <2>2 DEF OwnerInv, IInv, JournalInv, TurnsInv
    <2>a. proc[p].turn # 0
      BY <2>3, Limits
    <2>4. TurnsInv'
      BY <1>1, <2>3, <2>a DEF BeginActiveAgentTurn, IInv, JournalInv, TurnsInv
    <2> QED BY <1>1, <2>4, SameCalls DEF BeginActiveAgentTurn, JournalKept, JournalInv
  <1>2. CASE BeginPendingToolBatch(p)
    <2>1. owner = p /\ InFlight(p, "plan") /\ active = proc[p].turn /\ pendTurn = 0
      BY <1>2 DEF BeginPendingToolBatch, MayPlan, OwnsLive
    <2>2. OwnerInv(p) /\ Stage(p) = "plan" /\ proc[p] \in Process
      BY <2>1, OwnerFlies
    <2>3. \A c \in Calls : inv[c] = NoInvocation
      BY <2>1 DEF IInv, JournalInv, TurnsInv
    <2>4. \A c \in Calls : inv'[c] = IF c \in proc[p].calls THEN Planned ELSE NoInvocation
      BY <1>2, <2>3 DEF BeginPendingToolBatch, Planned
    <2>5. \A c \in proc[p].calls : c <= issued /\ committed[c] = "none" /\ c \notin ran
      BY <2>2 DEF OwnerInv
    <2>6. UNCHANGED <<committed, ran, issued, active, checked, closed, turns>> /\ pendTurn' = proc[p].turn
      BY <1>2 DEF BeginPendingToolBatch
    <2>7. ASSUME NEW c \in Calls PROVE CallInv(c)' /\ (Recorded(c) => Recorded(c)')
      <3>1. CallInv(c) /\ inv[c] = NoInvocation /\ c \in Nat /\ issued \in Nat
        BY <2>3, Limits DEF IInv, JournalInv, TypeOK
      <3>2. CASE c \in proc[p].calls
        BY <2>4, <2>5, <2>6, <3>1, <3>2 DEF CallInv, Recorded, NoInvocation, Planned
      <3>3. CASE c \notin proc[p].calls
        BY <2>4, <2>6, <3>1, <3>3 DEF CallInv, Recorded, NoInvocation, Planned
      <3> QED BY <3>2, <3>3
    <2>8. InOrder'
      BY <2>4 DEF InOrder, NoInvocation, Planned
    <2>9. TurnsInv'
      <3>1. proc[p].turn \in Turns /\ 0 \notin Turns
        BY <2>2, Limits DEF OwnerInv, OpenStages
      <3> QED BY <2>1, <2>6, <3>1 DEF IInv, JournalInv, TurnsInv
    <2> QED BY <2>7, <2>8, <2>9 DEF JournalKept, JournalInv
  <1>3. CASE PersistMessages(p)
    <2>1. PublishBatch /\ AllCompleted /\ UNCHANGED <<ran, issued, active, closed, turns>>
      BY <1>3 DEF PersistMessages, MayPublish
    <2>a. active # 0
      <3>1. owner = p /\ InFlight(p, "messages")
        BY <1>3 DEF PersistMessages, MayPublish, MayAppend, OwnsLive
      <3>2. OwnerInv(p) /\ Stage(p) = "messages"
        BY <3>1, OwnerFlies
      <3> QED BY <3>2, Limits DEF OwnerInv, OpenStages, BatchStages
    <2>2. TurnsInv'
      BY <2>1, <2>a, EmptyOrder DEF PublishBatch, IInv, JournalInv, TurnsInv
    <2> QED BY <2>1, <2>2, PublishCalls DEF JournalKept, JournalInv
  <1>4. CASE PersistAnswer(p)
    <2>1. owner = p /\ InFlight(p, "answer") /\ active = proc[p].turn
      BY <1>4 DEF PersistAnswer, MayAnswer, MayAppend, OwnsLive
    <2>2. OwnerInv(p) /\ Stage(p) = "answer"
      BY <2>1, OwnerFlies
    <2>3. proc[p].turn \in Turns /\ pendTurn = 0
      BY <2>2 DEF OwnerInv, OpenStages, BatchStages, CallStages, Running
    <2>4. inv = [c \in Calls |-> NoInvocation]
      BY <2>3, NoCalls
    <2>5. TurnsInv'
      BY <1>4, <2>1, <2>3, <2>4, ClosedTurns DEF PersistAnswer, CloseTurn
    <2> QED BY <1>4, <2>5, SameCalls DEF PersistAnswer, JournalKept, JournalInv
  <1> QED BY <1>1, <1>2, <1>3, <1>4

(* And those of its end.                                                   *)
LEMMA EndJournal ==
    ASSUME IInv, NEW p \in Procs,
           DiscardUnstartedToolBatch(p) \/ AppendDiagnostic(p) \/ AbandonActiveAgentTurn(p)
             \/ ReconcilePendingToolBatch(p) \/ ReconcileInterruptedActiveTurn(p)
    PROVE  JournalKept
  <1> USE DEF Tasks, Cleanups
  <1>1. CASE DiscardUnstartedToolBatch(p)
    <2>1. /\ AllPlanned /\ inv' = [c \in Calls |-> NoInvocation] /\ pendTurn' = 0
          /\ UNCHANGED <<active, checked, committed, closed, ran, turns, issued>>
      BY <1>1 DEF DiscardUnstartedToolBatch, MayDiscard
    <2>2. ASSUME NEW c \in Calls PROVE CallInv(c)' /\ (Recorded(c) => Recorded(c)')
      <3>1. CallInv(c) /\ inv'[c] = NoInvocation
        BY <2>1 DEF IInv, JournalInv
      <3>2. ~inv[c].begun
        BY <2>1, <3>1 DEF CallInv, AllPlanned, Batch, NoInvocation
      <3> QED BY <2>1, <3>1, <3>2 DEF CallInv, Recorded, NoInvocation
    <2>3. TurnsInv'
      BY <2>1, EmptyOrder DEF IInv, JournalInv, TurnsInv
    <2> QED BY <2>1, <2>2, <2>3, EmptyOrder DEF JournalKept, JournalInv
  <1>2. CASE AppendDiagnostic(p)
    <2>1. owner = p /\ InFlight(p, "diagnose") /\ UNCHANGED <<pendTurn, inv, committed, ran, turns, issued>>
      BY <1>2 DEF AppendDiagnostic, MayDiagnose, MayAppend, OwnsLive
    <2>2. OwnerInv(p) /\ Stage(p) = "diagnose"
      BY <2>1, OwnerFlies
    <2>3. pendTurn = 0
      BY <2>2 DEF OwnerInv, BatchStages, CallStages, Running
    <2>4. inv = [c \in Calls |-> NoInvocation]
      BY <2>3, NoCalls
    <2>5. CASE proc[p].mine
      <3>1. proc[p].turn \in Turns /\ active = proc[p].turn
        BY <2>2, <2>5 DEF OwnerInv
      <3>2. TurnsInv'
        BY <1>2, <2>1, <2>3, <2>4, <2>5, <3>1, ClosedTurns DEF AppendDiagnostic, CloseTurn
      <3> QED BY <2>1, <3>2, SameCalls DEF JournalKept, JournalInv
    <2>6. CASE ~proc[p].mine
      <3>1. TurnsInv'
        BY <1>2, <2>1, <2>6 DEF AppendDiagnostic, IInv, JournalInv, TurnsInv
      <3> QED BY <2>1, <3>1, SameCalls DEF JournalKept, JournalInv
    <2> QED BY <2>5, <2>6
  <1>3. CASE AbandonActiveAgentTurn(p)
    <2>1. /\ owner = p /\ InFlight(p, "abandon") /\ pendTurn = 0 /\ active = proc[p].turn /\ active' = 0 /\ checked' = FALSE
          /\ UNCHANGED <<pendTurn, inv, committed, closed, ran, turns, issued>>
      BY <1>3 DEF AbandonActiveAgentTurn, MayAbandon, OwnsLive
    <2>2. OwnerInv(p) /\ Stage(p) = "abandon"
      BY <2>1, OwnerFlies
    <2>3. TurnsInv'
      BY <2>1, <2>2, NoCalls, ClosedTurns DEF OwnerInv
    <2> QED BY <2>1, <2>3, SameCalls DEF JournalKept, JournalInv
  <1>4. CASE ReconcilePendingToolBatch(p)
    <2>1. /\ owner = p /\ PublishBatch /\ AllCompleted /\ UNCHANGED <<ran, issued, turns>>
          /\ CloseTurn(proc[p].turn, "failed") /\ proc[p].pend /\ proc[p].pc = "recovering"
      BY <1>4 DEF ReconcilePendingToolBatch, MayPublish, MayAppend, OwnsLive
    <2>2. OwnerInv(p)
      BY <2>1 DEF IInv, ProcInv
    <2>3. active = proc[p].turn /\ active \in Turns
      BY <2>1, <2>2 DEF OwnerInv, IInv, JournalInv, TurnsInv, TypeOK
    <2>4. TurnsInv'
      BY <2>1, <2>3, ClosedTurns DEF PublishBatch, CloseTurn
    <2> QED BY <2>1, <2>4, PublishCalls DEF JournalKept, JournalInv
  <1>5. CASE ReconcileInterruptedActiveTurn(p)
    <2>1. /\ owner = p /\ pendTurn = 0 /\ UNCHANGED <<pendTurn, inv, committed, ran, issued, turns>>
          /\ CloseTurn(proc[p].turn, "failed") /\ active = proc[p].turn /\ proc[p].turn # 0
      BY <1>5 DEF ReconcileInterruptedActiveTurn, MayClose, MayAnswer, MayAppend, OwnsLive
    <2>2. active \in Turns
      BY <2>1 DEF IInv, TypeOK
    <2>3. TurnsInv'
      BY <2>1, <2>2, NoCalls, ClosedTurns DEF CloseTurn
    <2> QED BY <2>1, <2>3, SameCalls DEF JournalKept, JournalInv
  <1> QED BY <1>1, <1>2, <1>3, <1>4, <1>5

(* The steps that write the journal.                                       *)
Writes(p) ==
    \/ BeginActiveAgentTurn(p) \/ BeginPendingToolBatch(p) \/ PersistMessages(p) \/ PersistAnswer(p)
    \/ FlushApprovalRequest(p) \/ FlushApprovalDecision(p) \/ MarkPendingToolStarted(p)
    \/ CompletePendingToolInvocation(p) \/ ReconcileCall(p)
    \/ DiscardUnstartedToolBatch(p) \/ AppendDiagnostic(p) \/ AbandonActiveAgentTurn(p)
    \/ ReconcilePendingToolBatch(p) \/ ReconcileInterruptedActiveTurn(p)

(* Only the journal writes that Writes lists change the journal. *)
LEMMA WhoWrites ==
    ASSUME NEW p \in Procs, StepBy(p)
    PROVE  Writes(p) \/ UNCHANGED journal
  <1> USE DEF Writes
  <1> USE DEF journal
  <1>1. CASE TurnStep(p)
    BY <1>1 DEF journal, TurnStep, ModelFails, ModelAnswers, ModelCallsTools,
        KeepMessages, FinishTurn
  <1>2. CASE ToolStep(p)
    BY <1>2 DEF journal, ToolStep, HarnessFails, RejectCall, ApproveTool, Decide,
        ApplyDecision, InvokeTool, InvokeCancelled,
        ToolReturns
  <1>3. CASE CleanupStep(p)
    BY <1>3 DEF journal, CleanupStep, Refused
  <1>4. CASE RecoverStep(p)
    BY <1>4 DEF journal, RecoverStep, LoadJournal, LoadRefused,
        Resume, ReconcileRefused
  <1>5. CASE RequestStep(p)
    BY <1>5 DEF journal, RequestStep, ClaimSession, RunMessage, RefuseInput, Release
  <1>6. CASE FaultStep(p)
    BY <1>6 DEF journal, FaultStep, StorageFault, ReconcileFails, DropFuture, Crash, RenewalFails
  <1>7. CASE RenewSession(p)
    BY <1>7 DEF journal, RenewSession
  <1> QED BY <1>1, <1>2, <1>3, <1>4, <1>5, <1>6, <1>7 DEF StepBy, Progress

(* Whatever a process does, the journal stays sound.                       *)
LEMMA JournalStep ==
    ASSUME IInv, NEW p \in Procs, StepBy(p)
    PROVE  JournalKept
  BY WhoWrites, QuietJournal, CallJournal, TurnJournal, ReconcileJournal, EndJournal DEF Writes

-----------------------------------------------------------------------------
(* The processes.                                                          *)

(* A step of p leaves what the others know of the journal true: only its   *)
(* owner writes it, and a late tool run of p is on record already.         *)
LEMMA OthersStep ==
    ASSUME IInv, NEW p \in Procs, StepBy(p), NEW q \in Procs \ {p}
    PROVE  ProcInv(q)'
  <1>1. TypeOK /\ ProcInv(q) /\ InvokeInv(p) /\ q \in Procs /\ proc[q] \in Process
    BY DEF IInv, ProcInv, TypeOK
  <1>2. proc'[q] = proc[q]
    BY <1>1, OwnRow
  <1>3. owner' = q => owner = q
    BY <1>1, OwnerMoves, Limits
  <1>4. ran \subseteq ran' /\ \A c \in Calls : Recorded(c) => Recorded(c)'
    BY <1>1, Counters, JournalStep DEF JournalKept
  <1>5. ShapeInv(q)'
    BY <1>1, <1>2, <1>3 DEF ProcInv, ShapeInv
  <1>6. InvokeInv(q)'
    BY <1>1, <1>2, <1>4 DEF ProcInv, InvokeInv, Recorded
  <1>7. ASSUME owner' = q PROVE OwnerInv(q)' /\ (proc'[q].fresh => MemoryInv(q)')
    <2>1. owner = q /\ UNCHANGED journal
      BY <1>3, <1>7, OwnerWrites
    <2>2. /\ UNCHANGED active /\ UNCHANGED checked /\ UNCHANGED pendTurn /\ UNCHANGED inv
          /\ UNCHANGED committed /\ UNCHANGED closed
      BY <2>1 DEF journal
    <2>3. OwnerInv(q) /\ (proc[q].fresh => MemoryInv(q))
      BY <1>1, <2>1 DEF ProcInv
    <2>4. Batch' = Batch /\ Started' = Started /\ DurableHistory' = DurableHistory /\ Stage(q)' = Stage(q)
      BY <1>2, <2>2 DEF Batch, Started, DurableHistory, Stage
    <2>5. /\ turns \in Nat /\ issued \in Nat /\ turns' \in Nat /\ issued' \in Nat
          /\ turns <= turns' /\ issued <= issued'
      BY <1>1, Counters, Limits DEF TypeOK
    <2>6. Stage(q) = "plan" => \A c \in proc[q].calls : c \in Calls /\ c <= issued' /\ c \notin ran'
      <3> SUFFICES ASSUME Stage(q) = "plan", NEW c \in proc[q].calls
                   PROVE  c \in Calls /\ c <= issued' /\ c \notin ran'
        OBVIOUS
      <3>1. c \in Calls /\ c \in Nat
        BY <1>1, Limits DEF Process
      <3>2. c <= issued /\ committed[c] = "none" /\ c \notin ran /\ pendTurn = 0
        BY <2>3 DEF OwnerInv, Running, Tasks, Checkpoints, BatchStages, CallStages
      <3>3. ~Recorded(c)
        BY <3>1, <3>2 DEF Recorded, IInv, JournalInv, TurnsInv, NoInvocation
      <3>4. ran' = ran \/ (proc[p].pc = "invoke" /\ ran' = ran \cup {proc[p].at})
        BY <1>1, Counters
      <3>5. proc[p].pc = "invoke" => proc[p].at # c
        BY <1>1, <3>3 DEF InvokeInv, Recorded
      <3> QED BY <2>5, <3>1, <3>2, <3>4, <3>5
    <2>7. Stage(q) = "preflight" => proc[q].turn <= turns'
      <3>1. proc[q].turn \in Turns \cup {0}
        BY <1>1 DEF Process
      <3>2. proc[q].turn \in Nat
        BY <3>1, TurnNumbers
      <3>3. Stage(q) = "preflight" => proc[q].turn <= turns
        BY <2>3 DEF OwnerInv
      <3> QED BY <2>5, <3>2, <3>3
    <2>8. \A i : Current(q, i) => Current(q, i)'
      BY <1>2, <1>4, <2>4 DEF Current
    <2>9. OwnerInv(q)'
      BY <1>2, <2>2, <2>3, <2>4, <2>6, <2>7, <2>8 DEF OwnerInv
    <2>10. proc[q].fresh => MemoryInv(q)'
      BY <1>2, <2>3, <2>4 DEF MemoryInv
    <2> QED BY <1>2, <2>9, <2>10
  <1> QED BY <1>5, <1>6, <1>7 DEF ProcInv

(* What a resting process has to know.                                     *)
LEMMA SpentRests ==
    ASSUME NEW p \in Procs, proc'[p] = Spent(p)
    PROVE  ProcInv(p)'
  <1>1. /\ proc'[p].pc = "idle" /\ proc'[p].op = "none" /\ proc'[p].poisoned /\ proc'[p].calls = {}
        /\ Stage(p)' = "none"
    BY DEF Spent, NoProcess, Stage
  <1> QED BY <1>1 DEF ProcInv, ShapeInv, InvokeInv, OwnerInv, MemoryInv, OpenStages, BatchStages, CallStages,
        Running, Tasks, Checkpoints, Cleanups, Awaits

(* A process that is gone and owns nothing satisfies its invariant. *)
LEMMA GoneRests ==
    ASSUME NEW p \in Procs, proc'[p] = NoProcess, owner' # p
    PROVE  ProcInv(p)'
  BY DEF ProcInv, ShapeInv, InvokeInv, NoProcess, Running, Tasks, Checkpoints, Cleanups, Awaits

(* A process that rests between turns satisfies its invariant when the journal has no open
   turn. *)
LEMMA ReadyRests ==
    ASSUME NEW p \in Procs, NEW m, proc'[p] = [Ready(p) EXCEPT !.memory = m],
           owner' = p => active' = 0 /\ pendTurn' = 0,
           owner' = p /\ proc[p].fresh => m = DurableHistory'
    PROVE  ProcInv(p)'
  <1>1. /\ proc'[p].pc = "idle" /\ proc'[p].op = "none" /\ ~proc'[p].poisoned /\ proc'[p].calls = {}
        /\ proc'[p].memory = m /\ proc'[p].fresh = proc[p].fresh /\ Stage(p)' = "none"
    BY DEF Ready, NoProcess, Stage
  <1> QED BY <1>1 DEF ProcInv, ShapeInv, InvokeInv, OwnerInv, MemoryInv, OpenStages, BatchStages, CallStages,
        Running, Tasks, Checkpoints, Cleanups, Awaits

(* A process whose future was dropped is spent once its task has ended.    *)
LEMMA LeftBehind ==
    ASSUME IInv, NEW p \in Procs, NEW row, Settle(p, row), proc[p].pc = "idle",
           proc[p].op \in Tasks, proc[p].op # "ckdiscard" \/ row.pc # "abandon"
    PROVE  ProcInv(p)'
  <1>1. proc[p].poisoned
    BY DEF IInv, ProcInv, ShapeInv, Tasks, Checkpoints, Cleanups
  <1>2. proc'[p] = Spent(p)
    BY <1>1 DEF Settle, Dropped, IInv, TypeOK
  <1> QED BY <1>2, SpentRests

(* And one that is awaited goes where the code says.                       *)
LEMMA Awaited ==
    ASSUME IInv, NEW p \in Procs, NEW row, Settle(p, row), proc[p].pc # "idle"
    PROVE  proc'[p] = row
  BY DEF Settle, IInv, TypeOK

(* What Go writes in the process it moves. *)
LEMMA Went ==
    ASSUME IInv, NEW p \in Procs, NEW row, Go(p, row)
    PROVE  proc'[p] = row
  BY DEF Go, IInv, TypeOK

(* What is derived from the journal stays with it.                         *)
LEMMA SameJournal ==
    ASSUME UNCHANGED journal
    PROVE  /\ UNCHANGED active /\ UNCHANGED checked /\ UNCHANGED pendTurn /\ UNCHANGED inv
           /\ UNCHANGED committed /\ UNCHANGED closed
           /\ Batch' = Batch /\ Started' = Started /\ DurableHistory' = DurableHistory
  BY DEF journal, Batch, Started, DurableHistory

(* The failure of a turn in the agent keeps its bookkeeping.               *)
LEMMA TurnFails ==
    ASSUME IInv, NEW p \in Procs, proc[p].pc \in {"model", "kept", "call", "approve", "decided"}, NEW m,
           proc'[p] = TurnFailed(p, [proc[p] EXCEPT !.memory = m]),
           UNCHANGED <<owner, journal, ran, turns, issued>>,
           owner = p /\ proc[p].fresh => m = DurableHistory
    PROVE  ProcInv(p)'
  <1>1. ProcInv(p) /\ proc[p] \in Process
    BY DEF IInv, TypeOK
  <1>2. CASE proc[p].lost
    <2>1. proc'[p] = Spent(p)
      BY <1>1, <1>2 DEF TurnFailed, Process
    <2> QED BY <2>1, SpentRests
  <1>3. CASE ~proc[p].lost
    <2>1. /\ proc'[p].pc = IF proc[p].pend THEN "discard" ELSE "diagnose"
          /\ proc'[p].op = proc[p].op /\ proc'[p].poisoned = proc[p].poisoned /\ proc'[p].fresh = proc[p].fresh
          /\ proc'[p].turn = proc[p].turn /\ proc'[p].mine = proc[p].mine /\ proc'[p].pend = proc[p].pend
          /\ proc'[p].persisted = proc[p].persisted /\ proc'[p].calls = proc[p].calls /\ proc'[p].memory = m
      BY <1>1, <1>3 DEF TurnFailed, Process
    <2>2. ShapeInv(p)' /\ InvokeInv(p)'
      BY <1>1, <2>1 DEF ProcInv, ShapeInv, InvokeInv, OwnerInv, MemoryInv, Stage, OpenStages, BatchStages,
          CallStages, Running, Tasks, Checkpoints, Cleanups, Awaits
    <2>3. owner = p => OwnerInv(p)'
      BY <1>1, <2>1, SameJournal DEF ProcInv, ShapeInv, InvokeInv, OwnerInv, MemoryInv, Stage, OpenStages, BatchStages,
          CallStages, Running, Tasks, Checkpoints, Cleanups, Awaits
    <2>4. owner = p /\ proc[p].fresh => MemoryInv(p)'
      BY <1>1, <2>1, SameJournal DEF ProcInv, ShapeInv, InvokeInv, OwnerInv, MemoryInv, Stage, OpenStages, BatchStages,
          CallStages, Running, Tasks, Checkpoints, Cleanups, Awaits
    <2> QED BY <2>1, <2>2, <2>3, <2>4 DEF ProcInv
  <1> QED BY <1>2, <1>3

(* So does the failure of a task that is awaited.                          *)
LEMMA TaskFails ==
    ASSUME IInv, NEW p \in Procs, proc[p].pc \in Tasks, proc'[p] = AfterFailure(p, proc[p].pc),
           UNCHANGED <<owner, journal, ran, turns, issued>>
    PROVE  ProcInv(p)'
  <1>1. ProcInv(p) /\ proc[p] \in Process
    BY DEF IInv, TypeOK
  <1>2. CASE proc'[p] = Spent(p)
    BY <1>2, SpentRests
  <1>3. CASE proc'[p] = Ready(p) /\ ~proc[p].mine /\ ~proc[p].pend /\ proc[p].pc \in Checkpoints
    <2>1. Ready(p) = [Ready(p) EXCEPT !.memory = proc[p].memory]
      BY DEF Ready, NoProcess
    <2>2. owner = p => proc[p].pc = "preflight"
      BY <1>1, <1>3 DEF ProcInv, ShapeInv, InvokeInv, OwnerInv, MemoryInv, Stage, OpenStages, BatchStages,
          CallStages, Running, Tasks, Checkpoints, Cleanups, Awaits
    <2>3. owner = p => active = 0 /\ pendTurn = 0
      BY <1>1, <1>3, <2>2 DEF ProcInv, ShapeInv, InvokeInv, OwnerInv, MemoryInv, Stage, OpenStages, BatchStages,
          CallStages, Running, Tasks, Checkpoints, Cleanups, Awaits
    <2>4. owner = p /\ proc[p].fresh => proc[p].memory = DurableHistory
      BY <1>1, <1>3 DEF ProcInv, ShapeInv, InvokeInv, OwnerInv, MemoryInv, Stage, OpenStages, BatchStages,
          CallStages, Running, Tasks, Checkpoints, Cleanups, Awaits
    <2> QED BY <1>3, <2>1, <2>3, <2>4, SameJournal, ReadyRests
  <1>4. CASE /\ proc[p].pc \in Checkpoints /\ proc'[p] = [proc[p] EXCEPT !.pc = "ckdiscard"] /\ proc[p].pend
    <2>1. /\ proc'[p].pc = "ckdiscard"
          /\ proc'[p].op = proc[p].op /\ proc'[p].poisoned = proc[p].poisoned /\ proc'[p].fresh = proc[p].fresh
          /\ proc'[p].turn = proc[p].turn /\ proc'[p].mine = proc[p].mine /\ proc'[p].pend = proc[p].pend
          /\ proc'[p].persisted = proc[p].persisted /\ proc'[p].calls = proc[p].calls
          /\ proc'[p].memory = proc[p].memory
      BY <1>1, <1>4 DEF Process
    <2>2. ShapeInv(p)' /\ InvokeInv(p)'
      BY <1>1, <1>4, <2>1 DEF ProcInv, ShapeInv, InvokeInv, OwnerInv, MemoryInv, Stage, OpenStages, BatchStages,
          CallStages, Running, Tasks, Checkpoints, Cleanups, Awaits
    <2>3. owner = p => OwnerInv(p)'
      BY <1>1, <1>4, <2>1, SameJournal DEF ProcInv, ShapeInv, InvokeInv, OwnerInv, MemoryInv, Stage, OpenStages, BatchStages,
          CallStages, Running, Tasks, Checkpoints, Cleanups, Awaits
    <2>4. owner = p /\ proc[p].fresh => MemoryInv(p)'
      BY <1>1, <1>4, <2>1, SameJournal DEF ProcInv, ShapeInv, InvokeInv, OwnerInv, MemoryInv, Stage, OpenStages, BatchStages,
          CallStages, Running, Tasks, Checkpoints, Cleanups, Awaits
    <2> QED BY <2>1, <2>2, <2>3, <2>4 DEF ProcInv
  <1>5. CASE /\ proc[p].pc \in Checkpoints /\ proc'[p] = [proc[p] EXCEPT !.pc = "abandon"] /\ ~proc[p].pend
             /\ ~proc[p].persisted /\ proc[p].mine
    <2>1. /\ proc'[p].pc = "abandon"
          /\ proc'[p].op = proc[p].op /\ proc'[p].poisoned = proc[p].poisoned /\ proc'[p].fresh = proc[p].fresh
          /\ proc'[p].turn = proc[p].turn /\ proc'[p].mine = proc[p].mine /\ proc'[p].pend = proc[p].pend
          /\ proc'[p].persisted = proc[p].persisted /\ proc'[p].calls = proc[p].calls
          /\ proc'[p].memory = proc[p].memory
      BY <1>1, <1>5 DEF Process
    <2>2. ShapeInv(p)' /\ InvokeInv(p)'
      BY <1>1, <1>5, <2>1 DEF ProcInv, ShapeInv, InvokeInv, OwnerInv, MemoryInv, Stage, OpenStages, BatchStages,
          CallStages, Running, Tasks, Checkpoints, Cleanups, Awaits
    <2>3. owner = p => OwnerInv(p)'
      BY <1>1, <1>5, <2>1, SameJournal DEF ProcInv, ShapeInv, InvokeInv, OwnerInv, MemoryInv, Stage, OpenStages, BatchStages,
          CallStages, Running, Tasks, Checkpoints, Cleanups, Awaits
    <2>4. owner = p /\ proc[p].fresh => MemoryInv(p)'
      BY <1>1, <1>5, <2>1, SameJournal DEF ProcInv, ShapeInv, InvokeInv, OwnerInv, MemoryInv, Stage, OpenStages, BatchStages,
          CallStages, Running, Tasks, Checkpoints, Cleanups, Awaits
    <2> QED BY <2>1, <2>2, <2>3, <2>4 DEF ProcInv
  <1> QED BY <1>1, <1>2, <1>3, <1>4, <1>5 DEF AfterFailure, CheckpointFailed


(* The quiet steps of a turn.                                              *)
LEMMA OwnTurnQuiet ==
    ASSUME IInv, NEW p \in Procs,
           \/ ModelFails(p) \/ ModelAnswers(p) \/ (\E n \in 1..MaxBatch : ModelCallsTools(p, n))
           \/ KeepMessages(p) \/ FinishTurn(p)
    PROVE  ProcInv(p)'
  <1>1. ProcInv(p) /\ proc[p] \in Process /\ proc \in [Procs -> Process]
    BY DEF IInv, TypeOK
  <1>2. CASE ModelFails(p)
    <2>1. proc'[p] = TurnFailed(p, proc[p]) /\ UNCHANGED <<owner, journal, ran, turns, issued>> /\ proc[p].pc = "model"
      BY <1>2, Went DEF ModelFails
    <2>2. proc[p] = [proc[p] EXCEPT !.memory = proc[p].memory]
      BY <1>1 DEF Process
    <2>3. owner = p /\ proc[p].fresh => proc[p].memory = DurableHistory
      BY <1>1, <2>1 DEF ProcInv, MemoryInv, Running, Awaits
    <2> QED BY <2>1, <2>2, <2>3, TurnFails
  <1>3. CASE ModelAnswers(p)
    <2>1. proc'[p] = [proc[p] EXCEPT !.pc = "answer"]
      BY <1>3, Went DEF ModelAnswers
    <2>2. /\ proc'[p].pc = "answer"
          /\ proc'[p].op = proc[p].op /\ proc'[p].poisoned = proc[p].poisoned
          /\ proc'[p].fresh = proc[p].fresh /\ proc'[p].turn = proc[p].turn
          /\ proc'[p].mine = proc[p].mine /\ proc'[p].pend = proc[p].pend
          /\ proc'[p].persisted = proc[p].persisted /\ proc'[p].calls = proc[p].calls
          /\ proc'[p].at = proc[p].at /\ proc'[p].verdict = proc[p].verdict
          /\ proc'[p].say = proc[p].say /\ proc'[p].memory = proc[p].memory
      BY <1>1, <2>1 DEF Process
    <2>3. UNCHANGED <<owner, journal, ran>> /\ proc[p].pc = "model"
      BY <1>3 DEF ModelAnswers
    <2>4. ShapeInv(p)' /\ InvokeInv(p)'
      BY <1>1, <2>2, <2>3, SameJournal DEF ProcInv, ShapeInv, InvokeInv, OwnerInv, MemoryInv, Stage, OpenStages, BatchStages,
          CallStages, Running, Tasks, Checkpoints, Cleanups, Awaits
    <2>5. owner = p => OwnerInv(p)'
      BY <1>1, <2>2, <2>3, SameJournal DEF Current, ProcInv, ShapeInv, InvokeInv, OwnerInv, MemoryInv, Stage, OpenStages, BatchStages,
          CallStages, Running, Tasks, Checkpoints, Cleanups, Awaits
    <2>6. owner = p /\ proc[p].fresh => MemoryInv(p)'
      BY <1>1, <2>2, <2>3, SameJournal DEF ProcInv, ShapeInv, InvokeInv, OwnerInv, MemoryInv, Stage, OpenStages, BatchStages,
          CallStages, Running, Tasks, Checkpoints, Cleanups, Awaits
    <2> QED BY <2>2, <2>3, <2>4, <2>5, <2>6 DEF ProcInv
  <1>4. ASSUME NEW n \in 1..MaxBatch, ModelCallsTools(p, n) PROVE ProcInv(p)'
    <2> DEFINE new == (issued + 1)..(issued + n)
    <2>1. proc'[p] = [proc[p] EXCEPT !.pc = "plan", !.calls = new, !.at = issued + 1]
      BY <1>4, Went DEF ModelCallsTools
    <2>2. /\ proc'[p].pc = "plan" /\ proc'[p].calls = new /\ proc'[p].at = issued + 1
          /\ proc'[p].op = proc[p].op /\ proc'[p].poisoned = proc[p].poisoned
          /\ proc'[p].fresh = proc[p].fresh /\ proc'[p].turn = proc[p].turn
          /\ proc'[p].mine = proc[p].mine /\ proc'[p].pend = proc[p].pend
          /\ proc'[p].persisted = proc[p].persisted /\ proc'[p].verdict = proc[p].verdict
          /\ proc'[p].say = proc[p].say /\ proc'[p].memory = proc[p].memory
      BY <1>1, <2>1 DEF Process
    <2>3. UNCHANGED <<owner, journal, ran>> /\ proc[p].pc = "model" /\ issued' = issued + n
      BY <1>4 DEF ModelCallsTools
    <2>4. ShapeInv(p)' /\ InvokeInv(p)'
      BY <1>1, <2>2, <2>3, SameJournal DEF ProcInv, ShapeInv, InvokeInv, OwnerInv, MemoryInv, Stage, OpenStages, BatchStages,
          CallStages, Running, Tasks, Checkpoints, Cleanups, Awaits
    <2>a. /\ issued + 1 \in new /\ new \subseteq Calls
          /\ \A c \in new : issued + 1 <= c /\ c <= issued' /\ c > issued
      <3>1. issued \in Nat /\ n \in Nat /\ n >= 1 /\ issued + n <= MaxCalls /\ MaxCalls \in Nat
        <4>1. issued \in 0..MaxCalls
          BY DEF IInv, TypeOK
        <4>2. issued + n <= MaxCalls
          BY <1>4 DEF ModelCallsTools
        <4> QED BY <4>1, <4>2, Limits
      <3> QED BY <2>3, <3>1 DEF Calls
    <2>b. \A c \in new : committed[c] = "none" /\ c \notin ran
      BY <2>a DEF IInv, JournalInv, CallInv
    <2>5. owner = p => OwnerInv(p)'
      <3> HIDE DEF new
      <3> QED BY <1>1, <2>2, <2>3, <2>a, <2>b, SameJournal DEF ProcInv, ShapeInv, InvokeInv, OwnerInv, MemoryInv, Stage, OpenStages, BatchStages,
          CallStages, Running, Tasks, Checkpoints, Cleanups, Awaits
    <2>6. owner = p /\ proc[p].fresh => MemoryInv(p)'
      BY <1>1, <2>2, <2>3, SameJournal DEF ProcInv, ShapeInv, InvokeInv, OwnerInv, MemoryInv, Stage, OpenStages, BatchStages,
          CallStages, Running, Tasks, Checkpoints, Cleanups, Awaits
    <2> QED BY <2>2, <2>3, <2>4, <2>5, <2>6 DEF ProcInv
  <1>5. CASE KeepMessages(p)
    <2> DEFINE m == proc[p].memory \cup {<<"call", c>> : c \in proc[p].calls}
               kept == [proc[p] EXCEPT !.memory = m]
    <2>1. /\ proc'[p] = IF proc[p].doom THEN TurnFailed(p, kept) ELSE NextRound(kept)
          /\ UNCHANGED <<owner, journal, ran, turns, issued>> /\ proc[p].pc = "kept"
      BY <1>5, Went DEF KeepMessages
    <2>2. owner = p /\ proc[p].fresh => m = DurableHistory
      BY <1>1, <2>1 DEF ProcInv, MemoryInv
    <2> HIDE DEF m
    <2>3. CASE proc[p].doom
      BY <2>1, <2>2, <2>3, TurnFails
    <2>4. CASE ~proc[p].doom
      <3>1. /\ proc'[p].pc = "model" /\ proc'[p].memory = m /\ proc'[p].calls = {}
            /\ proc'[p].op = proc[p].op /\ proc'[p].poisoned = proc[p].poisoned
            /\ proc'[p].fresh = proc[p].fresh /\ proc'[p].turn = proc[p].turn
            /\ proc'[p].mine = proc[p].mine /\ proc'[p].pend = proc[p].pend
            /\ proc'[p].persisted = proc[p].persisted /\ proc'[p].at = proc[p].at
            /\ proc'[p].verdict = proc[p].verdict /\ proc'[p].say = proc[p].say
        BY <1>1, <2>1, <2>4 DEF NextRound, Process
      <3>2. ShapeInv(p)' /\ InvokeInv(p)'
        BY <1>1, <2>1, <3>1 DEF ProcInv, ShapeInv, InvokeInv, OwnerInv, MemoryInv, Stage, OpenStages, BatchStages,
          CallStages, Running, Tasks, Checkpoints, Cleanups, Awaits
      <3>3. owner = p => OwnerInv(p)'
        BY <1>1, <2>1, <3>1, SameJournal DEF ProcInv, ShapeInv, InvokeInv, OwnerInv, MemoryInv, Stage, OpenStages, BatchStages,
          CallStages, Running, Tasks, Checkpoints, Cleanups, Awaits
      <3>4. owner = p /\ proc[p].fresh => MemoryInv(p)'
        BY <2>2, <3>1, <2>1, SameJournal DEF ProcInv, ShapeInv, InvokeInv, OwnerInv, MemoryInv, Stage, OpenStages, BatchStages,
          CallStages, Running, Tasks, Checkpoints, Cleanups, Awaits
      <3> QED BY <2>1, <3>1, <3>2, <3>3, <3>4 DEF ProcInv
    <2> QED BY <2>3, <2>4
  <1>6. CASE FinishTurn(p)
    <2> DEFINE m == proc[p].memory \cup {<<"answer", proc[p].turn>>}
    <2>1. /\ proc'[p] = TurnDone(p, [proc[p] EXCEPT !.memory = m])
          /\ UNCHANGED <<owner, journal, ran, turns, issued>> /\ proc[p].pc = "answered"
      BY <1>6, Went DEF FinishTurn
    <2>2. owner = p /\ proc[p].fresh => m = DurableHistory
      BY <1>1, <2>1 DEF ProcInv, MemoryInv
    <2> HIDE DEF m
    <2>3. owner = p => active = 0 /\ pendTurn = 0
      BY <1>1, <2>1 DEF ProcInv, ShapeInv, InvokeInv, OwnerInv, MemoryInv, Stage, OpenStages, BatchStages,
          CallStages, Running, Tasks, Checkpoints, Cleanups, Awaits
    <2>4. proc'[p] = Spent(p) \/ proc'[p] = [Ready(p) EXCEPT !.memory = m]
      BY <1>1, <2>1 DEF TurnDone, Process
    <2> QED BY <2>1, <2>2, <2>3, <2>4, SameJournal, SpentRests, ReadyRests
  <1> QED BY <1>2, <1>3, <1>4, <1>5, <1>6


(* The quiet steps of a tool call.                                         *)
LEMMA OwnToolQuiet ==
    ASSUME IInv, NEW p \in Procs,
           \/ HarnessFails(p) \/ RejectCall(p) \/ ApproveTool(p)
           \/ (\E verdict \in {"allow", "deny"} : Decide(p, verdict)) \/ ApplyDecision(p)
           \/ InvokeTool(p) \/ InvokeCancelled(p) \/ ToolReturns(p)
    PROVE  ProcInv(p)'
  <1>1. ProcInv(p) /\ proc[p] \in Process /\ proc \in [Procs -> Process]
    BY DEF IInv, TypeOK
  <1>a. proc[p].pc \in {"call", "approve", "decided", "invoke", "ran"} => Stage(p) = proc[p].pc /\ Stage(p) \in CallStages
    BY DEF Stage, CallStages
  <1>b. /\ owner = p /\ proc[p].pc \in {"call", "approve", "decided"} => inv[proc[p].at].state = "planned" /\ ~inv[proc[p].at].begun
        /\ owner = p /\ proc[p].pc \in {"invoke", "ran"} => inv[proc[p].at].begun
    <2>1. ASSUME owner = p, proc[p].pc \in {"call", "approve", "decided"}
          PROVE  inv[proc[p].at].state = "planned" /\ ~inv[proc[p].at].begun
      <3>1. Current(p, inv[proc[p].at])
        BY <1>a, <2>1, AtCall
      <3> QED BY <1>a, <2>1, <3>1 DEF Current, Planned, NoInvocation
    <2>2. ASSUME owner = p, proc[p].pc \in {"invoke", "ran"} PROVE inv[proc[p].at].begun
      <3>1. Current(p, inv[proc[p].at]) /\ CallInv(proc[p].at)
        BY <1>a, <2>2, AtCall
      <3> QED BY <1>a, <2>2, <3>1 DEF Current, CallInv
    <2> QED BY <2>1, <2>2
  <1>2. CASE HarnessFails(p)
    <2>1. /\ \/ proc'[p] = TurnFailed(p, proc[p])
             \/ proc'[p] = [proc[p] EXCEPT !.pc = "record", !.say = "notrun", !.doom = TRUE]
          /\ UNCHANGED <<owner, journal, ran, turns, issued>> /\ proc[p].pc \in {"call", "approve", "decided"}
      BY <1>2, Went DEF HarnessFails
    <2>2. CASE proc'[p] = TurnFailed(p, proc[p])
      <3>1. proc[p] = [proc[p] EXCEPT !.memory = proc[p].memory]
        BY <1>1 DEF Process
      <3>2. owner = p /\ proc[p].fresh => proc[p].memory = DurableHistory
        BY <1>1, <2>1 DEF ProcInv, MemoryInv, Running, Awaits
      <3> QED BY <2>1, <2>2, <3>1, <3>2, TurnFails
    <2>3. CASE proc'[p] = [proc[p] EXCEPT !.pc = "record", !.say = "notrun", !.doom = TRUE]
      <3>1. /\ proc'[p].pc = "record" /\ proc'[p].say = "notrun"
            /\ proc'[p].op = proc[p].op /\ proc'[p].poisoned = proc[p].poisoned
            /\ proc'[p].fresh = proc[p].fresh /\ proc'[p].turn = proc[p].turn
            /\ proc'[p].mine = proc[p].mine /\ proc'[p].pend = proc[p].pend
            /\ proc'[p].persisted = proc[p].persisted /\ proc'[p].calls = proc[p].calls
            /\ proc'[p].at = proc[p].at /\ proc'[p].verdict = proc[p].verdict
            /\ proc'[p].memory = proc[p].memory
        BY <1>1, <2>3 DEF Process
      <3>2. ShapeInv(p)' /\ InvokeInv(p)'
        BY <1>1, <2>1, <3>1 DEF ProcInv, ShapeInv, InvokeInv, OwnerInv, MemoryInv, Stage, OpenStages, BatchStages,
          CallStages, Running, Tasks, Checkpoints, Cleanups, Awaits
      <3>3. owner = p => OwnerInv(p)'
        BY <1>1, <1>b, <2>1, <3>1, SameJournal DEF Current, ProcInv, ShapeInv, InvokeInv, OwnerInv, MemoryInv, Stage, OpenStages, BatchStages,
          CallStages, Running, Tasks, Checkpoints, Cleanups, Awaits
      <3>4. owner = p /\ proc[p].fresh => MemoryInv(p)'
        BY <1>1, <3>1, <2>1, SameJournal DEF ProcInv, ShapeInv, InvokeInv, OwnerInv, MemoryInv, Stage, OpenStages, BatchStages,
          CallStages, Running, Tasks, Checkpoints, Cleanups, Awaits
      <3> QED BY <2>1, <3>1, <3>2, <3>3, <3>4 DEF ProcInv
    <2> QED BY <2>1, <2>2, <2>3
  <1>3. CASE RejectCall(p)
    <2>1. proc'[p] = [proc[p] EXCEPT !.pc = "record", !.say = "notrun"]
      BY <1>3, Went DEF RejectCall
    <2>2. /\ proc'[p].pc = "record" /\ proc'[p].say = "notrun"
          /\ proc'[p].op = proc[p].op /\ proc'[p].poisoned = proc[p].poisoned
          /\ proc'[p].fresh = proc[p].fresh /\ proc'[p].turn = proc[p].turn
          /\ proc'[p].mine = proc[p].mine /\ proc'[p].pend = proc[p].pend
          /\ proc'[p].persisted = proc[p].persisted /\ proc'[p].calls = proc[p].calls
          /\ proc'[p].at = proc[p].at /\ proc'[p].verdict = proc[p].verdict
          /\ proc'[p].memory = proc[p].memory
      BY <1>1, <2>1 DEF Process
    <2>3. UNCHANGED <<owner, journal, ran>> /\ proc[p].pc = "call"
      BY <1>3 DEF RejectCall
    <2>4. ShapeInv(p)' /\ InvokeInv(p)'
      BY <1>1, <2>2, <2>3, SameJournal DEF ProcInv, ShapeInv, InvokeInv, OwnerInv, MemoryInv, Stage, OpenStages, BatchStages,
          CallStages, Running, Tasks, Checkpoints, Cleanups, Awaits
    <2>5. owner = p => OwnerInv(p)'
      BY <1>1, <2>2, <2>3, SameJournal, <1>b DEF Current, ProcInv, ShapeInv, InvokeInv, OwnerInv, MemoryInv, Stage, OpenStages, BatchStages,
          CallStages, Running, Tasks, Checkpoints, Cleanups, Awaits
    <2>6. owner = p /\ proc[p].fresh => MemoryInv(p)'
      BY <1>1, <2>2, <2>3, SameJournal DEF ProcInv, ShapeInv, InvokeInv, OwnerInv, MemoryInv, Stage, OpenStages, BatchStages,
          CallStages, Running, Tasks, Checkpoints, Cleanups, Awaits
    <2> QED BY <2>2, <2>3, <2>4, <2>5, <2>6 DEF ProcInv
  <1>4. CASE ApproveTool(p)
    <2>1. proc'[p] = [proc[p] EXCEPT !.pc = IF proc[p].at \in AskCalls THEN "ask" ELSE "start"]
      BY <1>4, Went DEF ApproveTool
    <2>2. /\ proc'[p].pc = IF proc[p].at \in AskCalls THEN "ask" ELSE "start"
          /\ proc'[p].op = proc[p].op /\ proc'[p].poisoned = proc[p].poisoned
          /\ proc'[p].fresh = proc[p].fresh /\ proc'[p].turn = proc[p].turn
          /\ proc'[p].mine = proc[p].mine /\ proc'[p].pend = proc[p].pend
          /\ proc'[p].persisted = proc[p].persisted /\ proc'[p].calls = proc[p].calls
          /\ proc'[p].at = proc[p].at /\ proc'[p].verdict = proc[p].verdict
          /\ proc'[p].say = proc[p].say /\ proc'[p].memory = proc[p].memory
      BY <1>1, <2>1 DEF Process
    <2>3. UNCHANGED <<owner, journal, ran>> /\ proc[p].pc = "call"
      BY <1>4 DEF ApproveTool
    <2>4. ShapeInv(p)' /\ InvokeInv(p)'
      BY <1>1, <2>2, <2>3, SameJournal DEF ProcInv, ShapeInv, InvokeInv, OwnerInv, MemoryInv, Stage, OpenStages, BatchStages,
          CallStages, Running, Tasks, Checkpoints, Cleanups, Awaits
    <2>5. owner = p => OwnerInv(p)'
      BY <1>1, <2>2, <2>3, SameJournal, <1>b DEF Current, ProcInv, ShapeInv, InvokeInv, OwnerInv, MemoryInv, Stage, OpenStages, BatchStages,
          CallStages, Running, Tasks, Checkpoints, Cleanups, Awaits
    <2>6. owner = p /\ proc[p].fresh => MemoryInv(p)'
      BY <1>1, <2>2, <2>3, SameJournal DEF ProcInv, ShapeInv, InvokeInv, OwnerInv, MemoryInv, Stage, OpenStages, BatchStages,
          CallStages, Running, Tasks, Checkpoints, Cleanups, Awaits
    <2> QED BY <2>2, <2>3, <2>4, <2>5, <2>6 DEF ProcInv
  <1>5. ASSUME NEW verdict \in {"allow", "deny"}, Decide(p, verdict) PROVE ProcInv(p)'
    <2>1. proc'[p] = [proc[p] EXCEPT !.pc = "resolve", !.verdict = verdict]
      BY <1>5, Went DEF Decide
    <2>2. /\ proc'[p].pc = "resolve" /\ proc'[p].verdict = verdict
          /\ proc'[p].op = proc[p].op /\ proc'[p].poisoned = proc[p].poisoned
          /\ proc'[p].fresh = proc[p].fresh /\ proc'[p].turn = proc[p].turn
          /\ proc'[p].mine = proc[p].mine /\ proc'[p].pend = proc[p].pend
          /\ proc'[p].persisted = proc[p].persisted /\ proc'[p].calls = proc[p].calls
          /\ proc'[p].at = proc[p].at /\ proc'[p].say = proc[p].say
          /\ proc'[p].memory = proc[p].memory
      BY <1>1, <2>1 DEF Process
    <2>3. UNCHANGED <<owner, journal, ran>> /\ proc[p].pc = "approve"
      BY <1>5 DEF Decide
    <2>4. ShapeInv(p)' /\ InvokeInv(p)'
      BY <1>1, <2>2, <2>3, SameJournal DEF ProcInv, ShapeInv, InvokeInv, OwnerInv, MemoryInv, Stage, OpenStages, BatchStages,
          CallStages, Running, Tasks, Checkpoints, Cleanups, Awaits
    <2>5. owner = p => OwnerInv(p)'
      BY <1>1, <2>2, <2>3, SameJournal, <1>5 DEF Current, ProcInv, ShapeInv, InvokeInv, OwnerInv, MemoryInv, Stage, OpenStages, BatchStages,
          CallStages, Running, Tasks, Checkpoints, Cleanups, Awaits
    <2>6. owner = p /\ proc[p].fresh => MemoryInv(p)'
      BY <1>1, <2>2, <2>3, SameJournal DEF ProcInv, ShapeInv, InvokeInv, OwnerInv, MemoryInv, Stage, OpenStages, BatchStages,
          CallStages, Running, Tasks, Checkpoints, Cleanups, Awaits
    <2> QED BY <2>2, <2>3, <2>4, <2>5, <2>6 DEF ProcInv
  <1>6. CASE ApplyDecision(p)
    <2>1. /\ \/ proc[p].verdict = "allow" /\ proc'[p] = [proc[p] EXCEPT !.pc = "start"]
             \/ \E said \in {"denied", "maybe"} :
                   proc'[p] = [proc[p] EXCEPT !.pc = "record", !.say = said, !.doom = said # "denied"]
          /\ UNCHANGED <<owner, journal, ran, turns, issued>> /\ proc[p].pc = "decided"
      BY <1>6, Went, LimitsAssumption DEF ApplyDecision
    <2>2. CASE proc[p].verdict = "allow" /\ proc'[p] = [proc[p] EXCEPT !.pc = "start"]
      <3>1. /\ proc'[p].pc = "start"
            /\ proc'[p].op = proc[p].op /\ proc'[p].poisoned = proc[p].poisoned
            /\ proc'[p].fresh = proc[p].fresh /\ proc'[p].turn = proc[p].turn
            /\ proc'[p].mine = proc[p].mine /\ proc'[p].pend = proc[p].pend
            /\ proc'[p].persisted = proc[p].persisted /\ proc'[p].calls = proc[p].calls
            /\ proc'[p].at = proc[p].at /\ proc'[p].verdict = proc[p].verdict
            /\ proc'[p].say = proc[p].say /\ proc'[p].memory = proc[p].memory
        BY <1>1, <2>2 DEF Process
      <3>2. ShapeInv(p)' /\ InvokeInv(p)'
        BY <1>1, <2>1, <3>1 DEF ProcInv, ShapeInv, InvokeInv, OwnerInv, MemoryInv, Stage, OpenStages, BatchStages,
          CallStages, Running, Tasks, Checkpoints, Cleanups, Awaits
      <3>3. owner = p => OwnerInv(p)'
        BY <1>1, <1>b, <2>1, <2>2, <3>1, SameJournal DEF Current, ProcInv, ShapeInv, InvokeInv, OwnerInv, MemoryInv, Stage, OpenStages, BatchStages,
          CallStages, Running, Tasks, Checkpoints, Cleanups, Awaits
      <3>4. owner = p /\ proc[p].fresh => MemoryInv(p)'
        BY <1>1, <3>1, <2>1, SameJournal DEF ProcInv, ShapeInv, InvokeInv, OwnerInv, MemoryInv, Stage, OpenStages, BatchStages,
          CallStages, Running, Tasks, Checkpoints, Cleanups, Awaits
      <3> QED BY <2>1, <3>1, <3>2, <3>3, <3>4 DEF ProcInv
    <2>3. ASSUME NEW said \in {"denied", "maybe"},
                 proc'[p] = [proc[p] EXCEPT !.pc = "record", !.say = said, !.doom = said # "denied"]
          PROVE  ProcInv(p)'
      <3>1. /\ proc'[p].pc = "record" /\ proc'[p].say = said
            /\ proc'[p].op = proc[p].op /\ proc'[p].poisoned = proc[p].poisoned
            /\ proc'[p].fresh = proc[p].fresh /\ proc'[p].turn = proc[p].turn
            /\ proc'[p].mine = proc[p].mine /\ proc'[p].pend = proc[p].pend
            /\ proc'[p].persisted = proc[p].persisted /\ proc'[p].calls = proc[p].calls
            /\ proc'[p].at = proc[p].at /\ proc'[p].verdict = proc[p].verdict
            /\ proc'[p].memory = proc[p].memory
        BY <1>1, <2>3 DEF Process
      <3>2. ShapeInv(p)' /\ InvokeInv(p)'
        BY <1>1, <2>1, <3>1 DEF ProcInv, ShapeInv, InvokeInv, OwnerInv, MemoryInv, Stage, OpenStages, BatchStages,
          CallStages, Running, Tasks, Checkpoints, Cleanups, Awaits
      <3>3. owner = p => OwnerInv(p)'
        BY <1>1, <1>b, <2>1, <2>3, <3>1, SameJournal DEF Current, ProcInv, ShapeInv, InvokeInv, OwnerInv, MemoryInv, Stage, OpenStages, BatchStages,
          CallStages, Running, Tasks, Checkpoints, Cleanups, Awaits
      <3>4. owner = p /\ proc[p].fresh => MemoryInv(p)'
        BY <1>1, <3>1, <2>1, SameJournal DEF ProcInv, ShapeInv, InvokeInv, OwnerInv, MemoryInv, Stage, OpenStages, BatchStages,
          CallStages, Running, Tasks, Checkpoints, Cleanups, Awaits
      <3> QED BY <2>1, <3>1, <3>2, <3>3, <3>4 DEF ProcInv
    <2> QED BY <2>1, <2>2, <2>3
  <1>7. CASE InvokeTool(p)
    <2>1. proc'[p] = [proc[p] EXCEPT !.pc = "ran"]
      BY <1>7, Went DEF InvokeTool
    <2>2. /\ proc'[p].pc = "ran"
          /\ proc'[p].op = proc[p].op /\ proc'[p].poisoned = proc[p].poisoned
          /\ proc'[p].fresh = proc[p].fresh /\ proc'[p].turn = proc[p].turn
          /\ proc'[p].mine = proc[p].mine /\ proc'[p].pend = proc[p].pend
          /\ proc'[p].persisted = proc[p].persisted /\ proc'[p].calls = proc[p].calls
          /\ proc'[p].at = proc[p].at /\ proc'[p].verdict = proc[p].verdict
          /\ proc'[p].say = proc[p].say /\ proc'[p].memory = proc[p].memory
      BY <1>1, <2>1 DEF Process
    <2>3. UNCHANGED <<owner, journal>> /\ proc[p].pc = "invoke" /\ ran' = ran \cup {proc[p].at}
      BY <1>7 DEF InvokeTool
    <2>4. ShapeInv(p)' /\ InvokeInv(p)'
      BY <1>1, <2>2, <2>3, SameJournal DEF ProcInv, ShapeInv, InvokeInv, OwnerInv, MemoryInv, Stage, OpenStages, BatchStages,
          CallStages, Running, Tasks, Checkpoints, Cleanups, Awaits
    <2>5. owner = p => OwnerInv(p)'
      BY <1>1, <2>2, <2>3, SameJournal DEF Current, ProcInv, ShapeInv, InvokeInv, OwnerInv, MemoryInv, Stage, OpenStages, BatchStages,
          CallStages, Running, Tasks, Checkpoints, Cleanups, Awaits
    <2>6. owner = p /\ proc[p].fresh => MemoryInv(p)'
      BY <1>1, <2>2, <2>3, SameJournal DEF ProcInv, ShapeInv, InvokeInv, OwnerInv, MemoryInv, Stage, OpenStages, BatchStages,
          CallStages, Running, Tasks, Checkpoints, Cleanups, Awaits
    <2> QED BY <2>2, <2>3, <2>4, <2>5, <2>6 DEF ProcInv
  <1>8. CASE InvokeCancelled(p)
    <2>1. proc'[p] = [proc[p] EXCEPT !.pc = "record", !.say = "maybe", !.doom = TRUE]
      BY <1>8, Went DEF InvokeCancelled
    <2>2. /\ proc'[p].pc = "record" /\ proc'[p].say = "maybe"
          /\ proc'[p].op = proc[p].op /\ proc'[p].poisoned = proc[p].poisoned
          /\ proc'[p].fresh = proc[p].fresh /\ proc'[p].turn = proc[p].turn
          /\ proc'[p].mine = proc[p].mine /\ proc'[p].pend = proc[p].pend
          /\ proc'[p].persisted = proc[p].persisted /\ proc'[p].calls = proc[p].calls
          /\ proc'[p].at = proc[p].at /\ proc'[p].verdict = proc[p].verdict
          /\ proc'[p].memory = proc[p].memory
      BY <1>1, <2>1 DEF Process
    <2>3. UNCHANGED <<owner, journal, ran>> /\ proc[p].pc = "invoke"
      BY <1>8 DEF InvokeCancelled
    <2>4. ShapeInv(p)' /\ InvokeInv(p)'
      BY <1>1, <2>2, <2>3, SameJournal DEF ProcInv, ShapeInv, InvokeInv, OwnerInv, MemoryInv, Stage, OpenStages, BatchStages,
          CallStages, Running, Tasks, Checkpoints, Cleanups, Awaits
    <2>5. owner = p => OwnerInv(p)'
      BY <1>1, <2>2, <2>3, SameJournal, <1>b DEF Current, ProcInv, ShapeInv, InvokeInv, OwnerInv, MemoryInv, Stage, OpenStages, BatchStages,
          CallStages, Running, Tasks, Checkpoints, Cleanups, Awaits
    <2>6. owner = p /\ proc[p].fresh => MemoryInv(p)'
      BY <1>1, <2>2, <2>3, SameJournal DEF ProcInv, ShapeInv, InvokeInv, OwnerInv, MemoryInv, Stage, OpenStages, BatchStages,
          CallStages, Running, Tasks, Checkpoints, Cleanups, Awaits
    <2> QED BY <2>2, <2>3, <2>4, <2>5, <2>6 DEF ProcInv
  <1>9. CASE ToolReturns(p)
    <2>1. PICK said \in {"exact", "maybe"}, doom \in BOOLEAN :
             proc'[p] = [proc[p] EXCEPT !.pc = "record", !.say = said, !.doom = doom]
      BY <1>9, Went DEF ToolReturns
    <2>2. /\ proc'[p].pc = "record" /\ proc'[p].say = said
          /\ proc'[p].op = proc[p].op /\ proc'[p].poisoned = proc[p].poisoned
          /\ proc'[p].fresh = proc[p].fresh /\ proc'[p].turn = proc[p].turn
          /\ proc'[p].mine = proc[p].mine /\ proc'[p].pend = proc[p].pend
          /\ proc'[p].persisted = proc[p].persisted /\ proc'[p].calls = proc[p].calls
          /\ proc'[p].at = proc[p].at /\ proc'[p].verdict = proc[p].verdict
          /\ proc'[p].memory = proc[p].memory
      BY <1>1, <2>1 DEF Process
    <2>3. UNCHANGED <<owner, journal, ran>> /\ proc[p].pc = "ran"
      BY <1>9 DEF ToolReturns
    <2>4. ShapeInv(p)' /\ InvokeInv(p)'
      BY <1>1, <2>2, <2>3, SameJournal DEF ProcInv, ShapeInv, InvokeInv, OwnerInv, MemoryInv, Stage, OpenStages, BatchStages,
          CallStages, Running, Tasks, Checkpoints, Cleanups, Awaits
    <2>5. owner = p => OwnerInv(p)'
      BY <1>1, <1>b, <2>1, <2>2, <2>3, SameJournal DEF Current, ProcInv, ShapeInv, InvokeInv, OwnerInv, MemoryInv, Stage, OpenStages, BatchStages,
          CallStages, Running, Tasks, Checkpoints, Cleanups, Awaits
    <2>6. owner = p /\ proc[p].fresh => MemoryInv(p)'
      BY <1>1, <2>2, <2>3, SameJournal DEF ProcInv, ShapeInv, InvokeInv, OwnerInv, MemoryInv, Stage, OpenStages, BatchStages,
          CallStages, Running, Tasks, Checkpoints, Cleanups, Awaits
    <2> QED BY <2>2, <2>3, <2>4, <2>5, <2>6 DEF ProcInv
  <1> QED BY <1>2, <1>3, <1>4, <1>5, <1>6, <1>7, <1>8, <1>9


(* The tasks that write the rows of a turn.                                *)
LEMMA OwnTurnTasks ==
    ASSUME IInv, NEW p \in Procs,
           BeginActiveAgentTurn(p) \/ BeginPendingToolBatch(p) \/ PersistMessages(p) \/ PersistAnswer(p)
    PROVE  ProcInv(p)'
  <1> USE DEF Tasks, Checkpoints
  <1>1. ProcInv(p) /\ proc[p] \in Process /\ proc \in [Procs -> Process] /\ inv \in [Calls -> Invocation]
    BY DEF IInv, TypeOK
  <1>2. CASE BeginActiveAgentTurn(p)
    <2>1. InFlight(p, "preflight") /\ owner = p /\ owner' = owner
      BY <1>2 DEF BeginActiveAgentTurn, MayBegin, OwnsLive
    <2>2. OwnerInv(p) /\ Stage(p) = "preflight" /\ ShapeInv(p)
      BY <2>1, OwnerFlies
    <2>3. Settle(p, [proc[p] EXCEPT !.pc = "model", !.mine = TRUE])
      BY <1>2 DEF BeginActiveAgentTurn
    <2>4. CASE proc[p].pc = "idle"
      <3>1. proc[p].op = "preflight"
        BY <2>2, <2>4 DEF Stage
      <3> QED BY <2>3, <2>4, <3>1, LeftBehind
    <2>5. CASE proc[p].pc # "idle"
      <3>1. proc[p].pc = "preflight" /\ proc'[p] = [proc[p] EXCEPT !.pc = "model", !.mine = TRUE]
        BY <2>2, <2>3, <2>5, Awaited DEF Stage
      <3>2. /\ proc'[p].pc = "model" /\ proc'[p].mine = TRUE
            /\ proc'[p].op = proc[p].op /\ proc'[p].poisoned = proc[p].poisoned
            /\ proc'[p].fresh = proc[p].fresh /\ proc'[p].turn = proc[p].turn
            /\ proc'[p].pend = proc[p].pend /\ proc'[p].persisted = proc[p].persisted
            /\ proc'[p].calls = proc[p].calls /\ proc'[p].at = proc[p].at
            /\ proc'[p].verdict = proc[p].verdict /\ proc'[p].say = proc[p].say
            /\ proc'[p].memory = proc[p].memory
        BY <1>1, <3>1 DEF Process
      <3>3. /\ active' = proc[p].turn /\ UNCHANGED <<checked, pendTurn>> /\ DurableHistory' = DurableHistory
        BY <1>2 DEF BeginActiveAgentTurn, DurableHistory
      <3>4. checked = FALSE /\ proc[p].persisted = FALSE
        BY <1>1, <2>2, <3>1 DEF OwnerInv, IInv, JournalInv, TurnsInv, TypeOK, Process
      <3>7. ShapeInv(p)' /\ InvokeInv(p)'
        BY <1>1, <2>1, <2>2, <3>1, <3>2 DEF ProcInv, ShapeInv, InvokeInv, OwnerInv, MemoryInv, Stage, OpenStages, BatchStages,
          CallStages, Running, Tasks, Checkpoints, Cleanups, Awaits
      <3>8. OwnerInv(p)'
        BY <1>1, <2>2, <3>1, <3>2, <3>3, <3>4 DEF ProcInv, ShapeInv, InvokeInv, OwnerInv, MemoryInv, Stage, OpenStages, BatchStages,
          CallStages, Running, Tasks, Checkpoints, Cleanups, Awaits
      <3>9. proc[p].fresh => MemoryInv(p)'
        BY <1>1, <2>1, <3>1, <3>2, <3>3 DEF ProcInv, ShapeInv, InvokeInv, OwnerInv, MemoryInv, Stage, OpenStages, BatchStages,
          CallStages, Running, Tasks, Checkpoints, Cleanups, Awaits
      <3> QED BY <2>1, <3>2, <3>7, <3>8, <3>9 DEF ProcInv
    <2> QED BY <2>4, <2>5
  <1>3. CASE BeginPendingToolBatch(p)
    <2>1. InFlight(p, "plan") /\ owner = p /\ owner' = owner
      BY <1>3 DEF BeginPendingToolBatch, MayPlan, OwnsLive
    <2>2. OwnerInv(p) /\ Stage(p) = "plan" /\ ShapeInv(p)
      BY <2>1, OwnerFlies
    <2>3. Settle(p, [proc[p] EXCEPT !.pc = "call", !.pend = TRUE])
      BY <1>3 DEF BeginPendingToolBatch
    <2>4. CASE proc[p].pc = "idle"
      <3>1. proc[p].op = "plan"
        BY <2>2, <2>4 DEF Stage
      <3> QED BY <2>3, <2>4, <3>1, LeftBehind
    <2>5. CASE proc[p].pc # "idle"
      <3>1. proc[p].pc = "plan" /\ proc'[p] = [proc[p] EXCEPT !.pc = "call", !.pend = TRUE]
        BY <2>2, <2>3, <2>5, Awaited DEF Stage
      <3>2. /\ proc'[p].pc = "call" /\ proc'[p].pend = TRUE
            /\ proc'[p].op = proc[p].op /\ proc'[p].poisoned = proc[p].poisoned
            /\ proc'[p].fresh = proc[p].fresh /\ proc'[p].turn = proc[p].turn
            /\ proc'[p].mine = proc[p].mine /\ proc'[p].persisted = proc[p].persisted
            /\ proc'[p].calls = proc[p].calls /\ proc'[p].at = proc[p].at
            /\ proc'[p].verdict = proc[p].verdict /\ proc'[p].say = proc[p].say
            /\ proc'[p].memory = proc[p].memory
        BY <1>1, <3>1 DEF Process
      <3>3. /\ pendTurn' = proc[p].turn /\ UNCHANGED <<active, checked>> /\ DurableHistory' = DurableHistory
        BY <1>3 DEF BeginPendingToolBatch, DurableHistory
      <3>a. proc[p].calls \subseteq Calls /\ pendTurn = 0 /\ \A c \in Calls : inv[c] = NoInvocation
        BY <1>1, <1>3 DEF BeginPendingToolBatch, MayPlan, Process, IInv, JournalInv, TurnsInv
      <3>b. \A c \in Calls : inv'[c] = IF c \in proc[p].calls THEN Planned ELSE NoInvocation
        BY <1>3, <3>a DEF BeginPendingToolBatch, Planned
      <3>4. Batch' = proc[p].calls
        BY <3>a, <3>b DEF Batch, Planned, NoInvocation
      <3>5. /\ proc[p].at \in proc[p].calls
            /\ \A c \in proc[p].calls : c \in Calls /\ c \in Nat /\ proc[p].at <= c /\ inv'[c] = Planned
        BY <2>2, <3>a, <3>b, Limits DEF OwnerInv
      <3>7. ShapeInv(p)' /\ InvokeInv(p)'
        BY <1>1, <2>1, <2>2, <3>1, <3>2 DEF ProcInv, ShapeInv, InvokeInv, OwnerInv, MemoryInv, Stage, OpenStages, BatchStages,
          CallStages, Running, Tasks, Checkpoints, Cleanups, Awaits
      <3>8. OwnerInv(p)'
        BY <1>1, <2>2, <3>1, <3>2, <3>3, <3>4, <3>5 DEF Current, ProcInv, ShapeInv, InvokeInv, OwnerInv, MemoryInv, Stage, OpenStages, BatchStages,
          CallStages, Running, Tasks, Checkpoints, Cleanups, Awaits
      <3>9. proc[p].fresh => MemoryInv(p)'
        BY <1>1, <2>1, <3>1, <3>2, <3>3 DEF ProcInv, ShapeInv, InvokeInv, OwnerInv, MemoryInv, Stage, OpenStages, BatchStages,
          CallStages, Running, Tasks, Checkpoints, Cleanups, Awaits
      <3> QED BY <2>1, <3>2, <3>7, <3>8, <3>9 DEF ProcInv
    <2> QED BY <2>4, <2>5
  <1>4. CASE PersistMessages(p)
    <2>1. InFlight(p, "messages") /\ owner = p /\ owner' = owner
      BY <1>4 DEF PersistMessages, MayPublish, MayAppend, OwnsLive
    <2>2. OwnerInv(p) /\ Stage(p) = "messages" /\ ShapeInv(p)
      BY <2>1, OwnerFlies
    <2>3. Settle(p, [proc[p] EXCEPT !.pc = "kept", !.pend = FALSE, !.persisted = TRUE])
      BY <1>4 DEF PersistMessages
    <2>4. CASE proc[p].pc = "idle"
      <3>1. proc[p].op = "messages"
        BY <2>2, <2>4 DEF Stage
      <3> QED BY <2>3, <2>4, <3>1, LeftBehind
    <2>5. CASE proc[p].pc # "idle"
      <3>1. proc[p].pc = "messages" /\ proc'[p] = [proc[p] EXCEPT !.pc = "kept", !.pend = FALSE, !.persisted = TRUE]
        BY <2>2, <2>3, <2>5, Awaited DEF Stage
      <3>2. /\ proc'[p].pc = "kept" /\ proc'[p].pend = FALSE /\ proc'[p].persisted = TRUE
            /\ proc'[p].op = proc[p].op /\ proc'[p].poisoned = proc[p].poisoned
            /\ proc'[p].fresh = proc[p].fresh /\ proc'[p].turn = proc[p].turn
            /\ proc'[p].mine = proc[p].mine /\ proc'[p].calls = proc[p].calls
            /\ proc'[p].at = proc[p].at /\ proc'[p].verdict = proc[p].verdict
            /\ proc'[p].say = proc[p].say /\ proc'[p].memory = proc[p].memory
        BY <1>1, <3>1 DEF Process
      <3>3. PublishBatch /\ pendTurn' = 0 /\ checked' = TRUE /\ UNCHANGED <<active, closed>>
        BY <1>4 DEF PersistMessages, PublishBatch
      <3>4. proc[p].calls = Batch /\ \A c \in Batch : inv[c].state = "completed"
        BY <2>2 DEF OwnerInv, BatchStages
      <3>5. \A c \in Calls : committed'[c] # "none" <=> c \in Batch \/ committed[c] # "none"
        <4> SUFFICES ASSUME NEW c \in Calls PROVE committed'[c] # "none" <=> c \in Batch \/ committed[c] # "none"
          OBVIOUS
        <4>1. c \in Batch => inv[c].said # "none"
          BY <3>4 DEF IInv, JournalInv, CallInv
        <4> QED BY <3>3, <4>1 DEF PublishBatch
      <3>6. DurableHistory' = DurableHistory \cup {<<"call", c>> : c \in proc[p].calls}
        <4>1. {d \in Calls : committed'[d] # "none"} = {d \in Calls : committed[d] # "none"} \cup Batch
          BY <3>5 DEF Batch
        <4> QED BY <3>3, <3>4, <4>1 DEF DurableHistory
      <3>a. \A c \in proc[p].calls : committed'[c] # "none"
        BY <3>4, <3>5 DEF Batch
      <3>7. ShapeInv(p)' /\ InvokeInv(p)'
        BY <1>1, <2>1, <2>2, <3>1, <3>2 DEF ProcInv, ShapeInv, InvokeInv, OwnerInv, MemoryInv, Stage, OpenStages, BatchStages,
          CallStages, Running, Tasks, Checkpoints, Cleanups, Awaits
      <3>8. OwnerInv(p)'
        BY <1>1, <2>2, <3>1, <3>2, <3>3, <3>a DEF ProcInv, ShapeInv, InvokeInv, OwnerInv, MemoryInv, Stage, OpenStages, BatchStages,
          CallStages, Running, Tasks, Checkpoints, Cleanups, Awaits
      <3>9. proc[p].fresh => MemoryInv(p)'
        BY <1>1, <2>1, <3>1, <3>2, <3>6 DEF ProcInv, ShapeInv, InvokeInv, OwnerInv, MemoryInv, Stage, OpenStages, BatchStages,
          CallStages, Running, Tasks, Checkpoints, Cleanups, Awaits
      <3> QED BY <2>1, <3>2, <3>7, <3>8, <3>9 DEF ProcInv
    <2> QED BY <2>4, <2>5
  <1>5. CASE PersistAnswer(p)
    <2>1. InFlight(p, "answer") /\ owner = p /\ owner' = owner
      BY <1>5 DEF PersistAnswer, MayAnswer, MayAppend, OwnsLive
    <2>2. OwnerInv(p) /\ Stage(p) = "answer" /\ ShapeInv(p)
      BY <2>1, OwnerFlies
    <2>3. Settle(p, [proc[p] EXCEPT !.pc = "answered", !.mine = FALSE, !.persisted = TRUE])
      BY <1>5 DEF PersistAnswer
    <2>4. CASE proc[p].pc = "idle"
      <3>1. proc[p].op = "answer"
        BY <2>2, <2>4 DEF Stage
      <3> QED BY <2>3, <2>4, <3>1, LeftBehind
    <2>5. CASE proc[p].pc # "idle"
      <3>1. proc[p].pc = "answer" /\ proc'[p] = [proc[p] EXCEPT !.pc = "answered", !.mine = FALSE, !.persisted = TRUE]
        BY <2>2, <2>3, <2>5, Awaited DEF Stage
      <3>2. /\ proc'[p].pc = "answered" /\ proc'[p].mine = FALSE /\ proc'[p].persisted = TRUE
            /\ proc'[p].op = proc[p].op /\ proc'[p].poisoned = proc[p].poisoned
            /\ proc'[p].fresh = proc[p].fresh /\ proc'[p].turn = proc[p].turn
            /\ proc'[p].pend = proc[p].pend /\ proc'[p].calls = proc[p].calls
            /\ proc'[p].at = proc[p].at /\ proc'[p].verdict = proc[p].verdict
            /\ proc'[p].say = proc[p].say /\ proc'[p].memory = proc[p].memory
        BY <1>1, <3>1 DEF Process
      <3>3. active' = 0 /\ UNCHANGED <<pendTurn, committed>> /\ closed' = [closed EXCEPT ![proc[p].turn] = "done"]
        BY <1>5 DEF PersistAnswer, CloseTurn
      <3>4. proc[p].turn \in Turns /\ closed \in [Turns -> {"open", "done", "failed"}]
        BY <2>2 DEF OwnerInv, OpenStages, IInv, TypeOK
      <3>5. {u \in Turns : closed'[u] = "done"} = {u \in Turns : closed[u] = "done"} \cup {proc[p].turn}
        BY <3>3, <3>4
      <3>6. DurableHistory' = DurableHistory \cup {<<"answer", proc[p].turn>>}
        BY <3>3, <3>5 DEF DurableHistory
      <3>7. ShapeInv(p)' /\ InvokeInv(p)'
        BY <1>1, <2>1, <2>2, <3>1, <3>2 DEF ProcInv, ShapeInv, InvokeInv, OwnerInv, MemoryInv, Stage, OpenStages, BatchStages,
          CallStages, Running, Tasks, Checkpoints, Cleanups, Awaits
      <3>8. OwnerInv(p)'
        BY <1>1, <2>2, <3>1, <3>2, <3>3, <3>4 DEF ProcInv, ShapeInv, InvokeInv, OwnerInv, MemoryInv, Stage, OpenStages, BatchStages,
          CallStages, Running, Tasks, Checkpoints, Cleanups, Awaits
      <3>9. proc[p].fresh => MemoryInv(p)'
        BY <1>1, <2>1, <3>1, <3>2, <3>6 DEF ProcInv, ShapeInv, InvokeInv, OwnerInv, MemoryInv, Stage, OpenStages, BatchStages,
          CallStages, Running, Tasks, Checkpoints, Cleanups, Awaits
      <3> QED BY <2>1, <3>2, <3>7, <3>8, <3>9 DEF ProcInv
    <2> QED BY <2>4, <2>5
  <1> QED BY <1>2, <1>3, <1>4, <1>5


(* The tasks that write the row of a call.                                 *)
LEMMA OwnCallTasks ==
    ASSUME IInv, NEW p \in Procs,
           FlushApprovalRequest(p) \/ FlushApprovalDecision(p) \/ MarkPendingToolStarted(p)
    PROVE  ProcInv(p)'
  <1> USE DEF Tasks, Checkpoints
  <1>1. ProcInv(p) /\ proc[p] \in Process /\ proc \in [Procs -> Process] /\ inv \in [Calls -> Invocation]
    BY DEF IInv, TypeOK
  <1>2. CASE FlushApprovalRequest(p)
    <2>1. InFlight(p, "ask") /\ owner = p /\ owner' = owner
      BY <1>2 DEF FlushApprovalRequest, MayAudit, OwnsLive
    <2>2. OwnerInv(p) /\ Stage(p) = "ask" /\ ShapeInv(p)
      BY <2>1, OwnerFlies
    <2>3. Settle(p, [proc[p] EXCEPT !.pc = "approve"])
      BY <1>2 DEF FlushApprovalRequest
    <2>4. CASE proc[p].pc = "idle"
      <3>1. proc[p].op = "ask"
        BY <2>2, <2>4 DEF Stage
      <3> QED BY <2>3, <2>4, <3>1, LeftBehind
    <2>5. CASE proc[p].pc # "idle"
      <3>1. proc[p].pc = "ask" /\ proc'[p] = [proc[p] EXCEPT !.pc = "approve"]
        BY <2>2, <2>3, <2>5, Awaited DEF Stage
      <3>2. /\ proc'[p].pc = "approve"
            /\ proc'[p].op = proc[p].op /\ proc'[p].poisoned = proc[p].poisoned
            /\ proc'[p].fresh = proc[p].fresh /\ proc'[p].turn = proc[p].turn
            /\ proc'[p].mine = proc[p].mine /\ proc'[p].pend = proc[p].pend
            /\ proc'[p].persisted = proc[p].persisted /\ proc'[p].calls = proc[p].calls
            /\ proc'[p].at = proc[p].at /\ proc'[p].verdict = proc[p].verdict
            /\ proc'[p].say = proc[p].say /\ proc'[p].memory = proc[p].memory
        BY <1>1, <3>1 DEF Process
      <3>3. /\ UNCHANGED <<active, checked, pendTurn, committed, closed, ran>> /\ DurableHistory' = DurableHistory
        BY <1>2 DEF FlushApprovalRequest, DurableHistory
      <3>4. /\ proc[p].at \in Calls /\ inv[proc[p].at] \in Invocation /\ inv[proc[p].at].state # "none"
            /\ Current(p, inv[proc[p].at]) /\ proc[p].verdict \in {"none", "allow", "deny"}
        BY <2>1, <2>2, AtCall DEF CallStages
      <3>5. \A c \in Calls : c # proc[p].at => inv'[c] = inv[c]
        BY <1>1, <1>2 DEF FlushApprovalRequest
      <3>6. inv'[proc[p].at] = [inv[proc[p].at] EXCEPT !.asked = TRUE] /\ inv'[proc[p].at].state # "none"
        BY <1>1, <1>2, <3>4 DEF FlushApprovalRequest, Invocation
      <3>a. Batch' = Batch
        BY <3>4, <3>5, <3>6 DEF Batch
      <3>b. Current(p, inv[proc[p].at])'
        BY <2>2, <3>2, <3>4, <3>6 DEF Current, Stage, Planned, NoInvocation
      <3>c. /\ pendTurn = proc[p].turn /\ proc[p].calls = Batch /\ proc[p].at \in Batch /\ active = proc[p].turn
            /\ checked = proc[p].persisted /\ proc[p].pend /\ proc[p].mine /\ proc[p].turn \in Turns
            /\ \A c \in Batch : c \in Calls /\ c \in Nat
            /\ \A c \in Batch : c < proc[p].at => inv'[c].state = "completed"
            /\ \A c \in Batch : c > proc[p].at => inv'[c] = Planned
        <4>1. \A c \in Batch : c \in Calls /\ c \in Nat
          BY Limits DEF Batch
        <4>2. Stage(p) \in CallStages /\ Stage(p) \in BatchStages /\ Stage(p) \in OpenStages
          BY <2>2 DEF CallStages, BatchStages, OpenStages
        <4> QED BY <2>2, <3>5, <4>1, <4>2 DEF OwnerInv
      <3>7. ShapeInv(p)' /\ InvokeInv(p)'
        BY <1>1, <2>1, <2>2, <3>1, <3>2, <3>3, <3>4, <3>6, <3>b DEF ProcInv, ShapeInv, InvokeInv, OwnerInv, MemoryInv, Stage, OpenStages, BatchStages,
          CallStages, Running, Tasks, Checkpoints, Cleanups, Awaits
      <3>8. OwnerInv(p)'
        BY <3>2, <3>3, <3>a, <3>b, <3>c DEF ProcInv, ShapeInv, InvokeInv, OwnerInv, MemoryInv, Stage, OpenStages, BatchStages,
          CallStages, Running, Tasks, Checkpoints, Cleanups, Awaits
      <3>9. proc[p].fresh => MemoryInv(p)'
        BY <1>1, <2>1, <3>1, <3>2, <3>3 DEF ProcInv, ShapeInv, InvokeInv, OwnerInv, MemoryInv, Stage, OpenStages, BatchStages,
          CallStages, Running, Tasks, Checkpoints, Cleanups, Awaits
      <3> QED BY <2>1, <3>2, <3>7, <3>8, <3>9 DEF ProcInv
    <2> QED BY <2>4, <2>5
  <1>3. CASE FlushApprovalDecision(p)
    <2>1. InFlight(p, "resolve") /\ owner = p /\ owner' = owner
      BY <1>3 DEF FlushApprovalDecision, MayAudit, OwnsLive
    <2>2. OwnerInv(p) /\ Stage(p) = "resolve" /\ ShapeInv(p)
      BY <2>1, OwnerFlies
    <2>3. Settle(p, [proc[p] EXCEPT !.pc = "decided"])
      BY <1>3 DEF FlushApprovalDecision
    <2>4. CASE proc[p].pc = "idle"
      <3>1. proc[p].op = "resolve"
        BY <2>2, <2>4 DEF Stage
      <3> QED BY <2>3, <2>4, <3>1, LeftBehind
    <2>5. CASE proc[p].pc # "idle"
      <3>1. proc[p].pc = "resolve" /\ proc'[p] = [proc[p] EXCEPT !.pc = "decided"]
        BY <2>2, <2>3, <2>5, Awaited DEF Stage
      <3>2. /\ proc'[p].pc = "decided"
            /\ proc'[p].op = proc[p].op /\ proc'[p].poisoned = proc[p].poisoned
            /\ proc'[p].fresh = proc[p].fresh /\ proc'[p].turn = proc[p].turn
            /\ proc'[p].mine = proc[p].mine /\ proc'[p].pend = proc[p].pend
            /\ proc'[p].persisted = proc[p].persisted /\ proc'[p].calls = proc[p].calls
            /\ proc'[p].at = proc[p].at /\ proc'[p].verdict = proc[p].verdict
            /\ proc'[p].say = proc[p].say /\ proc'[p].memory = proc[p].memory
        BY <1>1, <3>1 DEF Process
      <3>3. /\ UNCHANGED <<active, checked, pendTurn, committed, closed, ran>> /\ DurableHistory' = DurableHistory
        BY <1>3 DEF FlushApprovalDecision, DurableHistory
      <3>4. /\ proc[p].at \in Calls /\ inv[proc[p].at] \in Invocation /\ inv[proc[p].at].state # "none"
            /\ Current(p, inv[proc[p].at]) /\ proc[p].verdict \in {"none", "allow", "deny"}
        BY <2>1, <2>2, AtCall DEF CallStages
      <3>5. \A c \in Calls : c # proc[p].at => inv'[c] = inv[c]
        BY <1>1, <1>3 DEF FlushApprovalDecision
      <3>6. inv'[proc[p].at] = [inv[proc[p].at] EXCEPT !.decision = proc[p].verdict] /\ inv'[proc[p].at].state # "none"
        BY <1>1, <1>3, <3>4 DEF FlushApprovalDecision, Invocation
      <3>a. Batch' = Batch
        BY <3>4, <3>5, <3>6 DEF Batch
      <3>b. Current(p, inv[proc[p].at])'
        BY <2>2, <3>2, <3>4, <3>6 DEF Current, Stage, Planned, NoInvocation
      <3>c. /\ pendTurn = proc[p].turn /\ proc[p].calls = Batch /\ proc[p].at \in Batch /\ active = proc[p].turn
            /\ checked = proc[p].persisted /\ proc[p].pend /\ proc[p].mine /\ proc[p].turn \in Turns
            /\ \A c \in Batch : c \in Calls /\ c \in Nat
            /\ \A c \in Batch : c < proc[p].at => inv'[c].state = "completed"
            /\ \A c \in Batch : c > proc[p].at => inv'[c] = Planned
        <4>1. \A c \in Batch : c \in Calls /\ c \in Nat
          BY Limits DEF Batch
        <4>2. Stage(p) \in CallStages /\ Stage(p) \in BatchStages /\ Stage(p) \in OpenStages
          BY <2>2 DEF CallStages, BatchStages, OpenStages
        <4> QED BY <2>2, <3>5, <4>1, <4>2 DEF OwnerInv
      <3>7. ShapeInv(p)' /\ InvokeInv(p)'
        BY <1>1, <2>1, <2>2, <3>1, <3>2, <3>3, <3>4, <3>6, <3>b DEF ProcInv, ShapeInv, InvokeInv, OwnerInv, MemoryInv, Stage, OpenStages, BatchStages,
          CallStages, Running, Tasks, Checkpoints, Cleanups, Awaits
      <3>8. OwnerInv(p)'
        BY <3>2, <3>3, <3>a, <3>b, <3>c DEF ProcInv, ShapeInv, InvokeInv, OwnerInv, MemoryInv, Stage, OpenStages, BatchStages,
          CallStages, Running, Tasks, Checkpoints, Cleanups, Awaits
      <3>9. proc[p].fresh => MemoryInv(p)'
        BY <1>1, <2>1, <3>1, <3>2, <3>3 DEF ProcInv, ShapeInv, InvokeInv, OwnerInv, MemoryInv, Stage, OpenStages, BatchStages,
          CallStages, Running, Tasks, Checkpoints, Cleanups, Awaits
      <3> QED BY <2>1, <3>2, <3>7, <3>8, <3>9 DEF ProcInv
    <2> QED BY <2>4, <2>5
  <1>4. CASE MarkPendingToolStarted(p)
    <2>1. InFlight(p, "start") /\ owner = p /\ owner' = owner
      BY <1>4 DEF MarkPendingToolStarted, MayStart, MayAudit, OwnsLive
    <2>2. OwnerInv(p) /\ Stage(p) = "start" /\ ShapeInv(p)
      BY <2>1, OwnerFlies
    <2>3. Settle(p, [proc[p] EXCEPT !.pc = "invoke"])
      BY <1>4 DEF MarkPendingToolStarted
    <2>4. CASE proc[p].pc = "idle"
      <3>1. proc[p].op = "start"
        BY <2>2, <2>4 DEF Stage
      <3> QED BY <2>3, <2>4, <3>1, LeftBehind
    <2>5. CASE proc[p].pc # "idle"
      <3>1. proc[p].pc = "start" /\ proc'[p] = [proc[p] EXCEPT !.pc = "invoke"]
        BY <2>2, <2>3, <2>5, Awaited DEF Stage
      <3>2. /\ proc'[p].pc = "invoke"
            /\ proc'[p].op = proc[p].op /\ proc'[p].poisoned = proc[p].poisoned
            /\ proc'[p].fresh = proc[p].fresh /\ proc'[p].turn = proc[p].turn
            /\ proc'[p].mine = proc[p].mine /\ proc'[p].pend = proc[p].pend
            /\ proc'[p].persisted = proc[p].persisted /\ proc'[p].calls = proc[p].calls
            /\ proc'[p].at = proc[p].at /\ proc'[p].verdict = proc[p].verdict
            /\ proc'[p].say = proc[p].say /\ proc'[p].memory = proc[p].memory
        BY <1>1, <3>1 DEF Process
      <3>3. /\ UNCHANGED <<active, checked, pendTurn, committed, closed, ran>> /\ DurableHistory' = DurableHistory
        BY <1>4 DEF MarkPendingToolStarted, DurableHistory
      <3>4. /\ proc[p].at \in Calls /\ inv[proc[p].at] \in Invocation /\ inv[proc[p].at].state # "none"
            /\ Current(p, inv[proc[p].at]) /\ proc[p].verdict \in {"none", "allow", "deny"}
        BY <2>1, <2>2, AtCall DEF CallStages
      <3>5. \A c \in Calls : c # proc[p].at => inv'[c] = inv[c]
        BY <1>1, <1>4 DEF MarkPendingToolStarted
      <3>6. inv'[proc[p].at] = [inv[proc[p].at] EXCEPT !.state = "started", !.begun = TRUE] /\ inv'[proc[p].at].state # "none"
        BY <1>1, <1>4, <3>4 DEF MarkPendingToolStarted, Invocation
      <3>a. Batch' = Batch
        BY <3>4, <3>5, <3>6 DEF Batch
      <3>b. Current(p, inv[proc[p].at])' /\ inv'[proc[p].at].begun
        <4>1. /\ inv[proc[p].at].asked => inv[proc[p].at].decision = "allow"
              /\ inv[proc[p].at].decision # "deny"
          BY <2>2, <3>4 DEF Current, Planned, NoInvocation
        <4>2. /\ inv'[proc[p].at].state = "started" /\ inv'[proc[p].at].begun
              /\ inv'[proc[p].at].asked = inv[proc[p].at].asked
              /\ inv'[proc[p].at].decision = inv[proc[p].at].decision
          BY <3>4, <3>6 DEF Invocation
        <4>3. Stage(p)' = "invoke" /\ proc'[p].at = proc[p].at
          BY <3>2 DEF Stage
        <4> QED BY <4>1, <4>2, <4>3 DEF Current
      <3>c. /\ pendTurn = proc[p].turn /\ proc[p].calls = Batch /\ proc[p].at \in Batch /\ active = proc[p].turn
            /\ checked = proc[p].persisted /\ proc[p].pend /\ proc[p].mine /\ proc[p].turn \in Turns
            /\ \A c \in Batch : c \in Calls /\ c \in Nat
            /\ \A c \in Batch : c < proc[p].at => inv'[c].state = "completed"
            /\ \A c \in Batch : c > proc[p].at => inv'[c] = Planned
        <4>1. \A c \in Batch : c \in Calls /\ c \in Nat
          BY Limits DEF Batch
        <4>2. Stage(p) \in CallStages /\ Stage(p) \in BatchStages /\ Stage(p) \in OpenStages
          BY <2>2 DEF CallStages, BatchStages, OpenStages
        <4> QED BY <2>2, <3>5, <4>1, <4>2 DEF OwnerInv
      <3>7. ShapeInv(p)' /\ InvokeInv(p)'
        BY <1>1, <2>1, <2>2, <3>1, <3>2, <3>3, <3>4, <3>6, <3>b DEF ProcInv, ShapeInv, InvokeInv, OwnerInv, MemoryInv, Stage, OpenStages, BatchStages,
          CallStages, Running, Tasks, Checkpoints, Cleanups, Awaits
      <3>8. OwnerInv(p)'
        BY <3>2, <3>3, <3>a, <3>b, <3>c DEF ProcInv, ShapeInv, InvokeInv, OwnerInv, MemoryInv, Stage, OpenStages, BatchStages,
          CallStages, Running, Tasks, Checkpoints, Cleanups, Awaits
      <3>9. proc[p].fresh => MemoryInv(p)'
        BY <1>1, <2>1, <3>1, <3>2, <3>3 DEF ProcInv, ShapeInv, InvokeInv, OwnerInv, MemoryInv, Stage, OpenStages, BatchStages,
          CallStages, Running, Tasks, Checkpoints, Cleanups, Awaits
      <3> QED BY <2>1, <3>2, <3>7, <3>8, <3>9 DEF ProcInv
    <2> QED BY <2>4, <2>5
  <1> QED BY <1>2, <1>3, <1>4


(* The result of a call, and the next one.                                 *)
LEMMA OwnComplete ==
    ASSUME IInv, NEW p \in Procs, CompletePendingToolInvocation(p)
    PROVE  ProcInv(p)'
  <1> USE DEF Tasks, Checkpoints
  <1>1. ProcInv(p) /\ proc[p] \in Process /\ proc \in [Procs -> Process] /\ inv \in [Calls -> Invocation]
    BY DEF IInv, TypeOK
  <1>2. InFlight(p, "record") /\ owner = p /\ owner' = owner
    BY DEF CompletePendingToolInvocation, MayRecord, MayAudit, OwnsLive
  <1>3. OwnerInv(p) /\ Stage(p) = "record" /\ ShapeInv(p)
    BY <1>2, OwnerFlies
  <1>4. PICK doom \in {proc[p].doom, TRUE} : Settle(p, AfterResult([proc[p] EXCEPT !.doom = doom]))
    BY DEF CompletePendingToolInvocation
  <1>5. CASE proc[p].pc = "idle"
    <2>1. proc[p].op = "record"
      BY <1>3, <1>5 DEF Stage
    <2> QED BY <1>4, <1>5, <2>1, LeftBehind
  <1>6. CASE proc[p].pc # "idle"
    <2> DEFINE at == proc[p].at
               rest == {c \in proc[p].calls : c > at}
    <2>1. proc[p].pc = "record" /\ proc'[p] = AfterResult([proc[p] EXCEPT !.doom = doom])
      BY <1>3, <1>4, <1>6, Awaited DEF Stage
    <2>2. Rest([proc[p] EXCEPT !.doom = doom]) = rest /\ proc[p].calls \in SUBSET Calls /\ rest \in SUBSET Calls
      BY <1>1 DEF Rest, Process
    <2>3. \/ rest = {} /\ proc'[p].pc = "messages" /\ proc'[p].at = 0
          \/ rest # {} /\ proc'[p].pc \in {"call", "record"} /\ proc'[p].at = First(rest)
      <3> HIDE DEF rest
      <3> QED BY <1>1, <2>1, <2>2 DEF AfterResult, Process
    <2>4. /\ proc'[p].verdict = "none" /\ proc'[p].say = "notrun"
          /\ proc'[p].op = proc[p].op /\ proc'[p].poisoned = proc[p].poisoned
          /\ proc'[p].fresh = proc[p].fresh /\ proc'[p].turn = proc[p].turn
          /\ proc'[p].mine = proc[p].mine /\ proc'[p].pend = proc[p].pend
          /\ proc'[p].persisted = proc[p].persisted /\ proc'[p].calls = proc[p].calls
          /\ proc'[p].memory = proc[p].memory
      <3> HIDE DEF rest
      <3> QED BY <1>1, <2>1, <2>2 DEF AfterResult, Process
    <2>5. /\ UNCHANGED <<active, checked, pendTurn, committed, closed, ran>> /\ DurableHistory' = DurableHistory
      BY DEF CompletePendingToolInvocation, DurableHistory
    <2>6. at \in Calls /\ inv[at] \in Invocation /\ inv[at].state # "none"
      BY <1>2, <1>3, AtCall DEF CallStages
    <2>7. /\ \A c \in Calls : c # at => inv'[c] = inv[c]
          /\ inv'[at].state = "completed"
      BY <1>1, <2>6 DEF CompletePendingToolInvocation, Invocation
    <2>8. Batch' = Batch
      BY <2>6, <2>7 DEF Batch
    <2>9. /\ pendTurn = proc[p].turn /\ proc[p].calls = Batch /\ at \in Batch /\ active = proc[p].turn
          /\ checked = proc[p].persisted /\ proc[p].pend /\ proc[p].mine /\ proc[p].turn \in Turns
          /\ \A c \in Batch : c \in Calls /\ c \in Nat
          /\ \A c \in Batch : c < at => inv'[c].state = "completed"
          /\ \A c \in Batch : c > at => inv'[c] = Planned
      <3>1. \A c \in Batch : c \in Calls /\ c \in Nat
        BY Limits DEF Batch
      <3>2. Stage(p) \in CallStages /\ Stage(p) \in BatchStages /\ Stage(p) \in OpenStages
        BY <1>3 DEF CallStages, BatchStages, OpenStages
      <3> QED BY <1>3, <2>7, <3>1, <3>2 DEF OwnerInv
    <2>10. ShapeInv(p)' /\ InvokeInv(p)'
      BY <1>1, <1>2, <2>1, <2>3, <2>4 DEF ProcInv, ShapeInv, InvokeInv, OwnerInv, MemoryInv, Stage, OpenStages, BatchStages,
          CallStages, Running, Tasks, Checkpoints, Cleanups, Awaits
    <2>11. proc[p].fresh => MemoryInv(p)'
      BY <1>1, <1>2, <2>1, <2>3, <2>4, <2>5 DEF ProcInv, ShapeInv, InvokeInv, OwnerInv, MemoryInv, Stage, OpenStages, BatchStages,
          CallStages, Running, Tasks, Checkpoints, Cleanups, Awaits
    <2>12. OwnerInv(p)'
      <3>1. CASE rest = {}
        <4>1. proc'[p].pc = "messages"
          BY <2>3, <3>1
        <4>2. \A c \in Batch : inv'[c].state = "completed"
          <5> SUFFICES ASSUME NEW c \in Batch PROVE inv'[c].state = "completed"
            OBVIOUS
          <5>1. ~(c > at) /\ c \in Nat /\ at \in Nat
            BY <2>9, <3>1
          <5> QED BY <2>7, <2>9, <5>1
        <4> QED BY <2>4, <2>5, <2>8, <2>9, <4>1, <4>2 DEF ProcInv, ShapeInv, InvokeInv, OwnerInv, MemoryInv, Stage, OpenStages, BatchStages,
          CallStages, Running, Tasks, Checkpoints, Cleanups, Awaits
      <3>2. CASE rest # {}
        <4>1. PICK b \in rest : b = First(rest) /\ \A c \in rest : b <= c
          <5> HIDE DEF rest
          <5> QED BY <2>2, <3>2, FirstIs
        <4>2. proc'[p].pc \in {"call", "record"} /\ proc'[p].at = b
          BY <2>3, <3>2, <4>1
        <4>3. b \in Batch /\ b > at /\ inv'[b] = Planned
          BY <2>9, <4>1
        <4>4. ASSUME NEW c \in Batch
              PROVE  /\ c < b => inv'[c].state = "completed"
                     /\ c > b => inv'[c] = Planned
          <5>1. c \in Nat /\ b \in Nat /\ at \in Nat
            BY <2>9, <4>3
          <5>2. c > at => b <= c
            BY <2>9, <4>1
          <5> QED BY <2>7, <2>9, <4>3, <5>1, <5>2
        <4>5. Current(p, Planned)'
          <5>1. Stage(p)' \in {"call", "record"}
            BY <4>2 DEF Stage
          <5> QED BY <2>4, <5>1 DEF Current, Planned, NoInvocation
        <4>a. (Current(p, inv[proc[p].at]))'
          BY <4>2, <4>3, <4>5 DEF Planned, Current, Stage
        <4> HIDE DEF rest, at
        <4> QED BY <2>4, <2>5, <2>8, <2>9, <4>2, <4>3, <4>4, <4>a DEF ProcInv, ShapeInv, InvokeInv, OwnerInv, MemoryInv, Stage, OpenStages, BatchStages,
          CallStages, Running, Tasks, Checkpoints, Cleanups, Awaits
      <3> QED BY <3>1, <3>2
    <2> QED BY <1>2, <2>4, <2>10, <2>11, <2>12 DEF ProcInv
  <1> QED BY <1>5, <1>6

(* The clean-up of a failed turn.                                          *)
LEMMA OwnDiscard ==
    ASSUME IInv, NEW p \in Procs, DiscardUnstartedToolBatch(p)
    PROVE  ProcInv(p)'
  <1>1. ProcInv(p) /\ proc[p] \in Process /\ proc \in [Procs -> Process] /\ inv \in [Calls -> Invocation]
    BY DEF IInv, TypeOK
  <1>2. PICK x \in {"discard", "ckdiscard"} : InFlight(p, x)
    BY DEF DiscardUnstartedToolBatch
  <1>3. owner = p /\ owner' = owner
    BY DEF DiscardUnstartedToolBatch, MayDiscard, MayAudit, OwnsLive
  <1>4. OwnerInv(p) /\ Stage(p) = x /\ ShapeInv(p)
    BY <1>2, <1>3, OwnerFlies DEF Tasks, Cleanups
  <1>5. InFlight(p, "discard") <=> x = "discard"
    BY <1>2, <1>4 DEF InFlight, Stage
  <1>6. Settle(p, IF x = "discard" THEN [proc[p] EXCEPT !.pc = "diagnose", !.pend = FALSE]
                  ELSE IF proc[p].persisted THEN Spent(p)
                  ELSE [proc[p] EXCEPT !.pc = "abandon", !.pend = FALSE])
    BY <1>5 DEF DiscardUnstartedToolBatch
  <1>7. pendTurn' = 0 /\ UNCHANGED <<active, checked>> /\ DurableHistory' = DurableHistory
    BY DEF DiscardUnstartedToolBatch, DurableHistory
  <1>8. proc[p].mine /\ proc[p].turn \in Turns /\ active = proc[p].turn
    BY <1>4 DEF OwnerInv, OpenStages, BatchStages
  <1>9. CASE proc[p].pc # "idle" /\ x = "discard"
    <2>1. owner' = p /\ proc[p].pc = "discard" /\ proc'[p] = [proc[p] EXCEPT !.pc = "diagnose", !.pend = FALSE]
      BY <1>3, <1>4, <1>6, <1>9, Awaited DEF Stage
    <2>2. ProcInv(p)'
      <3>1. /\ proc'[p].pc = "diagnose" /\ proc'[p].pend = FALSE
            /\ proc'[p].op = proc[p].op /\ proc'[p].poisoned = proc[p].poisoned
            /\ proc'[p].fresh = proc[p].fresh /\ proc'[p].turn = proc[p].turn
            /\ proc'[p].mine = proc[p].mine /\ proc'[p].persisted = proc[p].persisted
            /\ proc'[p].calls = proc[p].calls /\ proc'[p].at = proc[p].at
            /\ proc'[p].verdict = proc[p].verdict /\ proc'[p].say = proc[p].say
            /\ proc'[p].memory = proc[p].memory
        BY <1>1, <2>1 DEF Process
      <3>2. ShapeInv(p)' /\ InvokeInv(p)'
        BY <1>1, <1>4, <1>3, <2>1, <3>1 DEF ProcInv, ShapeInv, InvokeInv, OwnerInv, MemoryInv, Stage, OpenStages, BatchStages,
          CallStages, Running, Tasks, Checkpoints, Cleanups, Awaits
      <3>3. OwnerInv(p)'
        BY <1>1, <1>4, <1>3, <2>1, <3>1, <1>7, <1>8 DEF ProcInv, ShapeInv, InvokeInv, OwnerInv, MemoryInv, Stage, OpenStages, BatchStages,
          CallStages, Running, Tasks, Checkpoints, Cleanups, Awaits
      <3>4. proc[p].fresh => MemoryInv(p)'
        BY <1>1, <1>4, <1>3, <2>1, <3>1, <1>7, <1>8 DEF ProcInv, ShapeInv, InvokeInv, OwnerInv, MemoryInv, Stage, OpenStages, BatchStages,
          CallStages, Running, Tasks, Checkpoints, Cleanups, Awaits
      <3> QED BY <2>1, <3>1, <3>2, <3>3, <3>4 DEF ProcInv
    <2> QED BY <2>2
  <1>10. CASE proc[p].pc # "idle" /\ x = "ckdiscard" /\ proc[p].persisted
    <2>1. proc'[p] = Spent(p)
      BY <1>6, <1>10, Awaited
    <2> QED BY <2>1, SpentRests
  <1>11. CASE proc[p].pc # "idle" /\ x = "ckdiscard" /\ ~proc[p].persisted
    <2>1. owner' = p /\ proc[p].pc = "ckdiscard" /\ proc'[p] = [proc[p] EXCEPT !.pc = "abandon", !.pend = FALSE]
      BY <1>3, <1>4, <1>6, <1>11, Awaited DEF Stage
    <2>2. ProcInv(p)'
      <3>1. /\ proc'[p].pc = "abandon" /\ proc'[p].pend = FALSE
            /\ proc'[p].op = proc[p].op /\ proc'[p].poisoned = proc[p].poisoned
            /\ proc'[p].fresh = proc[p].fresh /\ proc'[p].turn = proc[p].turn
            /\ proc'[p].mine = proc[p].mine /\ proc'[p].persisted = proc[p].persisted
            /\ proc'[p].calls = proc[p].calls /\ proc'[p].at = proc[p].at
            /\ proc'[p].verdict = proc[p].verdict /\ proc'[p].say = proc[p].say
            /\ proc'[p].memory = proc[p].memory
        BY <1>1, <2>1 DEF Process
      <3>2. ShapeInv(p)' /\ InvokeInv(p)'
        BY <1>1, <1>4, <1>3, <2>1, <3>1 DEF ProcInv, ShapeInv, InvokeInv, OwnerInv, MemoryInv, Stage, OpenStages, BatchStages,
          CallStages, Running, Tasks, Checkpoints, Cleanups, Awaits
      <3>3. OwnerInv(p)'
        BY <1>1, <1>4, <1>3, <2>1, <3>1, <1>7, <1>8 DEF ProcInv, ShapeInv, InvokeInv, OwnerInv, MemoryInv, Stage, OpenStages, BatchStages,
          CallStages, Running, Tasks, Checkpoints, Cleanups, Awaits
      <3>4. proc[p].fresh => MemoryInv(p)'
        BY <1>1, <1>4, <1>3, <2>1, <3>1, <1>7, <1>8 DEF ProcInv, ShapeInv, InvokeInv, OwnerInv, MemoryInv, Stage, OpenStages, BatchStages,
          CallStages, Running, Tasks, Checkpoints, Cleanups, Awaits
      <3> QED BY <2>1, <3>1, <3>2, <3>3, <3>4 DEF ProcInv
    <2> QED BY <2>2
  <1>12. CASE proc[p].pc = "idle" /\ x = "discard"
    <2>1. proc[p].op = "discard" /\ proc[p].op \in Tasks
      BY <1>4, <1>12 DEF Stage, Tasks, Cleanups
    <2> QED BY <1>6, <1>12, <2>1, LeftBehind
  <1>13. CASE proc[p].pc = "idle" /\ x = "ckdiscard" /\ proc[p].persisted
    <2>1. proc[p].op = "ckdiscard" /\ proc[p].op \in Tasks /\ Spent(p).pc # "abandon"
      BY <1>4, <1>13 DEF Stage, Tasks, Cleanups, Spent, NoProcess
    <2>2. Settle(p, Spent(p))
      BY <1>6, <1>13
    <2> QED BY <1>13, <2>1, <2>2, LeftBehind
  <1>14. CASE proc[p].pc = "idle" /\ x = "ckdiscard" /\ ~proc[p].persisted
    <2>1. owner' = p /\ proc[p].op = "ckdiscard"
      BY <1>3, <1>4, <1>14 DEF Stage
    <2>2. Settle(p, [proc[p] EXCEPT !.pc = "abandon", !.pend = FALSE])
      BY <1>6, <1>14
    <2>3. [proc[p] EXCEPT !.pc = "abandon", !.pend = FALSE].pc = "abandon"
      BY <1>1 DEF Process
    <2>4. proc'[p] = [proc[p] EXCEPT !.op = "abandon"]
      BY <1>1, <1>14, <2>1, <2>2, <2>3 DEF Settle
    <2>5. ProcInv(p)'
      <3>1. /\ proc'[p].pc = "idle" /\ proc'[p].op = "abandon"
            /\ proc'[p].poisoned = proc[p].poisoned /\ proc'[p].fresh = proc[p].fresh
            /\ proc'[p].turn = proc[p].turn /\ proc'[p].mine = proc[p].mine
            /\ proc'[p].pend = proc[p].pend /\ proc'[p].persisted = proc[p].persisted
            /\ proc'[p].calls = proc[p].calls /\ proc'[p].at = proc[p].at
            /\ proc'[p].verdict = proc[p].verdict /\ proc'[p].say = proc[p].say
            /\ proc'[p].memory = proc[p].memory
        BY <1>1, <1>14, <2>4 DEF Process
      <3>2. ShapeInv(p)' /\ InvokeInv(p)'
        BY <1>1, <1>4, <1>3, <1>14, <2>1, <3>1 DEF ProcInv, ShapeInv, InvokeInv, OwnerInv, MemoryInv, Stage, OpenStages, BatchStages,
          CallStages, Running, Tasks, Checkpoints, Cleanups, Awaits
      <3>3. OwnerInv(p)'
        BY <1>1, <1>4, <1>3, <1>14, <2>1, <3>1, <1>7, <1>8 DEF ProcInv, ShapeInv, InvokeInv, OwnerInv, MemoryInv, Stage, OpenStages, BatchStages,
          CallStages, Running, Tasks, Checkpoints, Cleanups, Awaits
      <3>4. proc[p].fresh => MemoryInv(p)'
        BY <1>1, <1>4, <1>3, <1>14, <2>1, <3>1, <1>7, <1>8 DEF ProcInv, ShapeInv, InvokeInv, OwnerInv, MemoryInv, Stage, OpenStages, BatchStages,
          CallStages, Running, Tasks, Checkpoints, Cleanups, Awaits
      <3> QED BY <2>1, <3>1, <3>2, <3>3, <3>4 DEF ProcInv
    <2> QED BY <2>5
  <1> QED BY <1>9, <1>10, <1>11, <1>12, <1>13, <1>14

(* Both ends of a failed turn leave an adapter without a turn.             *)
LEMMA OwnEnds ==
    ASSUME IInv, NEW p \in Procs, AppendDiagnostic(p) \/ AbandonActiveAgentTurn(p)
    PROVE  ProcInv(p)'
  <1>1. ProcInv(p) /\ proc[p] \in Process /\ proc \in [Procs -> Process] /\ inv \in [Calls -> Invocation]
    BY DEF IInv, TypeOK
  <1>2. PICK x \in {"diagnose", "abandon"} : InFlight(p, x) /\ (x = "diagnose" <=> AppendDiagnostic(p))
    <2>1. AppendDiagnostic(p) => InFlight(p, "diagnose")
      BY DEF AppendDiagnostic
    <2>2. AbandonActiveAgentTurn(p) => InFlight(p, "abandon")
      BY DEF AbandonActiveAgentTurn
    <2> QED BY <2>1, <2>2
  <1>3. owner = p /\ owner' = owner /\ Settle(p, Ready(p)) /\ UNCHANGED <<pendTurn, committed>>
    BY DEF AppendDiagnostic, MayDiagnose, MayAppend, AbandonActiveAgentTurn, MayAbandon, OwnsLive
  <1>4. OwnerInv(p) /\ Stage(p) = x /\ ShapeInv(p)
    BY <1>2, <1>3, OwnerFlies DEF Tasks, Cleanups
  <1>5. CASE proc[p].pc = "idle"
    <2>1. proc[p].op = x /\ proc[p].op \in Tasks /\ Ready(p).pc # "abandon"
      BY <1>4, <1>5 DEF Stage, Tasks, Cleanups, Ready, NoProcess
    <2> QED BY <1>3, <1>5, <2>1, LeftBehind
  <1>6. CASE proc[p].pc # "idle"
    <2>1. proc[p].pc = x /\ proc'[p] = Ready(p)
      BY <1>3, <1>4, <1>6, Awaited DEF Stage
    <2>2. Ready(p) = [Ready(p) EXCEPT !.memory = proc[p].memory]
      BY DEF Ready, NoProcess
    <2>3. pendTurn' = 0
      BY <1>3, <1>4 DEF OwnerInv, Running, Tasks, Cleanups, BatchStages, CallStages
    <2>4. active' = 0
      BY <1>2, <1>4 DEF AppendDiagnostic, AbandonActiveAgentTurn, CloseTurn, OwnerInv
    <2>5. proc[p].fresh => proc[p].memory = DurableHistory
      BY <1>1, <1>3, <2>1 DEF ProcInv, MemoryInv, Running, Tasks, Cleanups
    <2>6. {t \in Turns : closed'[t] = "done"} = {t \in Turns : closed[t] = "done"}
      <3>1. CASE x = "diagnose" /\ proc[p].mine
        <4>1. closed' = [closed EXCEPT ![proc[p].turn] = "failed"]
          BY <1>2, <3>1 DEF AppendDiagnostic, CloseTurn
        <4>2. proc[p].turn \in Turns /\ closed[proc[p].turn] = "open"
          <5>1. proc[p].turn \in Turns /\ active = proc[p].turn
            BY <1>4, <3>1 DEF OwnerInv
          <5>2. active # 0
            BY <5>1, Limits
          <5> QED BY <5>1, <5>2 DEF IInv, JournalInv, TurnsInv
        <4> QED BY <4>1, <4>2 DEF IInv, TypeOK
      <3>2. CASE ~(x = "diagnose" /\ proc[p].mine)
        <4>1. closed' = closed
          BY <1>2, <3>2 DEF AppendDiagnostic, AbandonActiveAgentTurn
        <4> QED BY <4>1
      <3> QED BY <3>1, <3>2
    <2>7. DurableHistory' = DurableHistory
      BY <1>3, <2>6 DEF DurableHistory
    <2> QED BY <2>1, <2>2, <2>3, <2>4, <2>5, <2>7, ReadyRests
  <1> QED BY <1>5, <1>6

(* The failure of a task, awaited or left behind.                          *)
LEMMA OwnFailure ==
    ASSUME IInv, NEW p \in Procs, NEW x \in Tasks, InFlight(p, x), Settle(p, AfterFailure(p, x)),
           UNCHANGED <<owner, journal, ran, turns, issued>>
    PROVE  ProcInv(p)'
  <1>1. ProcInv(p) /\ proc[p] \in Process /\ proc \in [Procs -> Process] /\ inv \in [Calls -> Invocation]
    BY DEF IInv, TypeOK
  <1>2. CASE proc[p].pc # "idle"
    <2>1. proc[p].pc = x
      BY <1>2 DEF InFlight
    <2> QED BY <1>2, <2>1, Awaited, TaskFails
  <1>3. CASE proc[p].pc = "idle"
    <2>1. proc[p].op = x
      BY <1>3 DEF InFlight, Tasks, Checkpoints, Cleanups
    <2>2. x = "ckdiscard" => AfterFailure(p, x) = Spent(p) /\ Spent(p).pc # "abandon"
      BY DEF AfterFailure, Checkpoints, Spent, NoProcess
    <2> QED BY <1>3, <2>1, <2>2, LeftBehind
  <1> QED BY <1>2, <1>3

(* The cleanup of a failed or cancelled turn keeps the invariant of the process that runs
   it. *)
LEMMA OwnCleanup ==
    ASSUME IInv, NEW p \in Procs, CleanupStep(p)
    PROVE  ProcInv(p)'
  <1>1. CASE Refused(p)
    <2>1. PICK x \in Tasks : InFlight(p, x) /\ Settle(p, AfterFailure(p, x))
      BY <1>1 DEF Refused
    <2>2. UNCHANGED <<owner, journal, ran, turns, issued>>
      BY <1>1 DEF Refused
    <2> QED BY <2>1, <2>2, OwnFailure
  <1> QED BY <1>1, OwnDiscard, OwnEnds DEF CleanupStep

(* A process that gives up holds nothing.                                  *)
LEMMA OwnGivesUp ==
    ASSUME IInv, NEW p \in Procs, GiveUp(p)
    PROVE  ProcInv(p)'
  <1>1. proc'[p] = NoProcess
    BY Went DEF GiveUp
  <1>2. owner' # p
    BY Limits DEF GiveUp
  <1> QED BY <1>1, <1>2, GoneRests

(* What recovery works from is the journal: read by it, and written by     *)
(* nobody else while the session is its own.                               *)
LEMMA RecoveryRests ==
    ASSUME IInv, NEW p \in Procs, owner' = p, proc'[p].pc = "recovering", proc'[p].op = "none",
           proc'[p].turn = active', proc'[p].persisted = checked', proc'[p].pend = (pendTurn' # 0),
           proc'[p].calls = {c \in Batch' : inv'[c].state # "completed"},
           proc'[p].calls \cap proc'[p].unsure = Started'
    PROVE  ProcInv(p)'
  <1>1. Stage(p)' = "recovering"
    BY DEF Stage
  <1>2. ShapeInv(p)' /\ InvokeInv(p)'
    BY DEF ShapeInv, InvokeInv, Running, Tasks, Checkpoints, Cleanups, Awaits
  <1>3. OwnerInv(p)'
    BY <1>1 DEF OwnerInv, OpenStages, BatchStages, CallStages, Running, Tasks, Checkpoints, Cleanups, Awaits
  <1>4. MemoryInv(p)'
    BY DEF MemoryInv, Running, Tasks, Checkpoints, Cleanups, Awaits
  <1> QED BY <1>2, <1>3, <1>4 DEF ProcInv

(* Loading the journal keeps the invariant of the process that loads it. *)
LEMMA OwnLoad ==
    ASSUME IInv, NEW p \in Procs, LoadJournal(p)
    PROVE  ProcInv(p)'
  <1>1. ProcInv(p) /\ proc[p] \in Process /\ proc \in [Procs -> Process] /\ inv \in [Calls -> Invocation]
    BY DEF IInv, TypeOK
  <1>2. owner' = p /\ UNCHANGED journal /\ proc[p].pc = "claimed"
    BY DEF LoadJournal, MayReconcile, OwnsLive
  <1>3. proc[p].op = "none"
    BY <1>1, <1>2 DEF ProcInv, ShapeInv
  <1>4. proc'[p] = [proc[p] EXCEPT !.pc = "recovering", !.fresh = TRUE, !.turn = active,
                             !.pend = pendTurn # 0, !.persisted = checked,
                             !.calls = {c \in Batch : inv[c].state # "completed"},
                             !.unsure = Started]
    BY Went DEF LoadJournal
  <1>5. /\ proc'[p].pc = "recovering" /\ proc'[p].op = "none" /\ proc'[p].turn = active
        /\ proc'[p].persisted = checked /\ proc'[p].pend = (pendTurn # 0)
        /\ proc'[p].calls = {c \in Batch : inv[c].state # "completed"} /\ proc'[p].unsure = Started
    BY <1>1, <1>3, <1>4 DEF Process
  <1>6. {c \in Batch : inv[c].state # "completed"} \cap Started = Started
    BY DEF Started
  <1> QED BY <1>2, <1>5, <1>6, SameJournal, RecoveryRests

(* Reconciling an interrupted turn keeps the invariant of the process that does it. *)
LEMMA OwnReconcile ==
    ASSUME IInv, NEW p \in Procs,
           ReconcileCall(p) \/ ReconcilePendingToolBatch(p) \/ ReconcileInterruptedActiveTurn(p)
    PROVE  ProcInv(p)'
  <1>1. ProcInv(p) /\ proc[p] \in Process /\ proc \in [Procs -> Process] /\ inv \in [Calls -> Invocation]
    BY DEF IInv, TypeOK
  <1>2. proc[p].pc = "recovering" /\ owner = p /\ owner' = p
    BY DEF ReconcileCall, MayReconcileCall, MayAudit, ReconcilePendingToolBatch, MayPublish, MayAppend,
        ReconcileInterruptedActiveTurn, MayClose, MayAnswer, OwnsLive
  <1>3. proc[p].op = "none" /\ OwnerInv(p)
    BY <1>1, <1>2 DEF ProcInv, ShapeInv
  <1>4. /\ proc[p].turn = active /\ proc[p].persisted = checked /\ proc[p].pend = (pendTurn # 0)
        /\ proc[p].calls = {c \in Batch : inv[c].state # "completed"}
        /\ proc[p].calls \cap proc[p].unsure = Started
    BY <1>2, <1>3 DEF OwnerInv
  <1>5. CASE ReconcileCall(p)
    <2>1. PICK c \in Calls : c = First(proc[p].calls) /\ c \in proc[p].calls
      <3>1. proc[p].calls \in SUBSET Calls /\ proc[p].calls # {}
        BY <1>1, <1>5 DEF Process, ReconcileCall
      <3> QED BY <3>1, FirstIs
    <2>2. /\ inv' = [inv EXCEPT ![c] = Reconciled(p, c)] /\ UNCHANGED <<active, checked, pendTurn>>
          /\ Go(p, [proc[p] EXCEPT !.calls = @ \ {c}])
      BY <1>5, <2>1 DEF ReconcileCall
    <2>3. proc'[p] = [proc[p] EXCEPT !.calls = @ \ {c}]
      BY <2>2, Went
    <2>4. /\ proc'[p].pc = "recovering" /\ proc'[p].op = "none" /\ proc'[p].turn = active
          /\ proc'[p].persisted = checked /\ proc'[p].pend = (pendTurn # 0)
          /\ proc'[p].calls = proc[p].calls \ {c} /\ proc'[p].unsure = proc[p].unsure
      BY <1>1, <1>2, <1>3, <1>4, <2>3 DEF Process
    <2>5. inv'[c].state = "completed" /\ inv[c].state # "none" /\ \A d \in Calls : d # c => inv'[d] = inv[d]
      BY <1>1, <1>4, <2>1, <2>2 DEF Reconciled, Invocation, Batch
    <2>6. Batch' = Batch
      BY <2>5 DEF Batch
    <2>7. proc[p].calls \ {c} = {d \in Batch' : inv'[d].state # "completed"}
      BY <1>4, <2>5, <2>6 DEF Batch
    <2>8. Started' = Started \ {c}
      BY <2>5, <2>6 DEF Started, Batch
    <2>9. (proc[p].calls \ {c}) \cap proc[p].unsure = Started'
      BY <1>4, <2>8
    <2> QED BY <1>2, <2>2, <2>4, <2>7, <2>9, RecoveryRests
  <1>6. CASE ReconcilePendingToolBatch(p) \/ ReconcileInterruptedActiveTurn(p)
    <2>1. Go(p, Reopened(p)) /\ active' = 0 /\ checked' = FALSE
      BY <1>6 DEF ReconcilePendingToolBatch, ReconcileInterruptedActiveTurn, CloseTurn
    <2>2. proc'[p] = Reopened(p)
      BY <2>1, Went
    <2>3. pendTurn' = 0 /\ \A c \in Calls : inv'[c] = NoInvocation
      <3>1. CASE ReconcilePendingToolBatch(p)
        BY <3>1 DEF ReconcilePendingToolBatch, PublishBatch
      <3>2. CASE ReconcileInterruptedActiveTurn(p)
        BY <3>2 DEF ReconcileInterruptedActiveTurn, MayClose, IInv, JournalInv, TurnsInv
      <3> QED BY <1>6, <3>1, <3>2
    <2>4. Batch' = {} /\ Started' = {}
      BY <2>3 DEF Batch, Started, NoInvocation
    <2>5. proc[p].calls = {}
      <3>1. CASE ReconcilePendingToolBatch(p)
        BY <3>1 DEF ReconcilePendingToolBatch
      <3>2. CASE ReconcileInterruptedActiveTurn(p)
        <4>1. \A c \in Calls : inv[c] = NoInvocation
          BY <3>2 DEF ReconcileInterruptedActiveTurn, MayClose, IInv, JournalInv, TurnsInv
        <4> QED BY <1>4, <4>1 DEF Batch, NoInvocation
      <3> QED BY <1>6, <3>1, <3>2
    <2>6. /\ proc'[p].pc = "recovering" /\ proc'[p].op = "none" /\ proc'[p].turn = 0
          /\ proc'[p].persisted = FALSE /\ proc'[p].pend = FALSE /\ proc'[p].calls = {}
          /\ proc'[p].unsure = {}
      BY <1>1, <1>2, <1>3, <2>2, <2>5 DEF Reopened, Process
    <2> QED BY <1>2, <2>1, <2>3, <2>4, <2>6, RecoveryRests
  <1> QED BY <1>5, <1>6

(* Every step of a recovery keeps the invariant of the process that recovers. *)
LEMMA OwnRecovery ==
    ASSUME IInv, NEW p \in Procs, RecoverStep(p)
    PROVE  ProcInv(p)'
  <1>1. ProcInv(p) /\ proc[p] \in Process /\ proc \in [Procs -> Process] /\ inv \in [Calls -> Invocation]
    BY DEF IInv, TypeOK
  <1>2. CASE LoadRefused(p) \/ ReconcileRefused(p)
    BY <1>2, OwnGivesUp DEF LoadRefused, ReconcileRefused
  <1>3. CASE Resume(p)
    <2>1. owner = p /\ owner' = owner /\ UNCHANGED journal /\ proc[p].pc = "recovering" /\ proc[p].turn = 0
      BY <1>3 DEF Resume, OwnsLive
    <2>2. proc'[p] = [Ready(p) EXCEPT !.memory = DurableHistory]
      BY <1>3, Went DEF Resume
    <2>3. active = 0
      BY <1>1, <2>1 DEF ProcInv, OwnerInv
    <2>4. pendTurn = 0
      BY <2>3 DEF IInv, JournalInv, TurnsInv
    <2> QED BY <2>1, <2>2, <2>3, <2>4, SameJournal, ReadyRests
  <1> QED BY <1>2, <1>3, OwnLoad, OwnReconcile DEF RecoverStep

(* What a caller asks of an adapter.                                       *)
LEMMA OwnRequest ==
    ASSUME IInv, NEW p \in Procs, RequestStep(p)
    PROVE  ProcInv(p)'
  <1>1. ProcInv(p) /\ proc[p] \in Process /\ proc \in [Procs -> Process] /\ inv \in [Calls -> Invocation]
    BY DEF IInv, TypeOK
  <1>2. CASE Release(p)
    BY <1>2, OwnGivesUp DEF Release
  <1>3. ASSUME NEW mode \in Modes, ClaimSession(p, mode) PROVE ProcInv(p)'
    <2>1. proc'[p] = [NoProcess EXCEPT !.pc = "claimed", !.mode = mode]
      BY <1>3, Went DEF ClaimSession
    <2>2. proc'[p].pc = "claimed" /\ proc'[p].op = "none" /\ Stage(p)' = "claimed"
      BY <2>1 DEF NoProcess, Stage
    <2> QED BY <2>2 DEF Recorded, ProcInv, ShapeInv, InvokeInv, OwnerInv, MemoryInv, Stage, OpenStages, BatchStages,
          CallStages, Running, Tasks, Checkpoints, Cleanups, Awaits
  <1>4. CASE RunMessage(p)
    <2>1. proc'[p] = [Ready(p) EXCEPT !.pc = "preflight", !.turn = turns + 1, !.poisoned = TRUE]
      BY <1>4, Went DEF RunMessage
    <2>2. /\ proc'[p].pc = "preflight" /\ proc'[p].op = "none" /\ proc'[p].poisoned
          /\ proc'[p].turn = turns + 1 /\ proc'[p].mine = FALSE /\ proc'[p].pend = FALSE
          /\ proc'[p].persisted = FALSE /\ proc'[p].memory = proc[p].memory /\ proc'[p].fresh = proc[p].fresh
          /\ Stage(p)' = "preflight"
      BY <2>1 DEF Ready, NoProcess, Stage
    <2>3. /\ UNCHANGED <<owner, journal>> /\ proc[p].pc = "idle" /\ ~proc[p].poisoned
          /\ turns' = turns + 1 /\ turns < MaxTurns
      BY <1>4 DEF RunMessage
    <2>4. turns \in Nat /\ turns + 1 \in Turns /\ turns + 1 <= turns' /\ turns + 1 > turns
      BY <2>3, Limits DEF IInv, TypeOK, Turns
    <2>a. closed[turns + 1] = "open"
      BY <2>4 DEF IInv, JournalInv, TurnsInv
    <2>b. owner = p => active' = 0 /\ pendTurn' = 0 /\ closed'[turns + 1] = "open"
      BY <1>1, <2>3, <2>a, SameJournal DEF ProcInv, OwnerInv
    <2>c. owner = p /\ proc[p].fresh => proc[p].memory = DurableHistory'
      BY <1>1, <2>3, SameJournal DEF ProcInv, MemoryInv
    <2>5. ShapeInv(p)' /\ InvokeInv(p)'
      BY <1>1, <2>2, <2>3 DEF ProcInv, ShapeInv, InvokeInv, OwnerInv, MemoryInv, Stage, OpenStages, BatchStages,
          CallStages, Running, Tasks, Checkpoints, Cleanups, Awaits
    <2>6. owner = p => OwnerInv(p)'
      BY <2>2, <2>4, <2>b DEF ProcInv, ShapeInv, InvokeInv, OwnerInv, MemoryInv, Stage, OpenStages, BatchStages,
          CallStages, Running, Tasks, Checkpoints, Cleanups, Awaits
    <2>7. owner = p /\ proc[p].fresh => MemoryInv(p)'
      BY <2>2, <2>c DEF ProcInv, ShapeInv, InvokeInv, OwnerInv, MemoryInv, Stage, OpenStages, BatchStages,
          CallStages, Running, Tasks, Checkpoints, Cleanups, Awaits
    <2> QED BY <2>2, <2>3, <2>5, <2>6, <2>7 DEF ProcInv
  <1>5. CASE RefuseInput(p)
    <2>1. proc'[p] = [Ready(p) EXCEPT !.pc = "diagnose", !.poisoned = TRUE]
      BY <1>5, Went DEF RefuseInput
    <2>2. /\ proc'[p].pc = "diagnose" /\ proc'[p].op = "none" /\ proc'[p].poisoned
          /\ proc'[p].mine = FALSE /\ proc'[p].pend = FALSE
          /\ proc'[p].memory = proc[p].memory /\ proc'[p].fresh = proc[p].fresh
          /\ Stage(p)' = "diagnose"
      BY <2>1 DEF Ready, NoProcess, Stage
    <2>3. UNCHANGED <<owner, journal>> /\ proc[p].pc = "idle" /\ ~proc[p].poisoned
      BY <1>5 DEF RefuseInput
    <2>4. owner = p => active' = 0 /\ pendTurn' = 0
      BY <1>1, <2>3, SameJournal DEF ProcInv, OwnerInv
    <2>c. owner = p /\ proc[p].fresh => proc[p].memory = DurableHistory'
      BY <1>1, <2>3, SameJournal DEF ProcInv, MemoryInv
    <2>5. ShapeInv(p)' /\ InvokeInv(p)'
      BY <1>1, <2>2, <2>3 DEF ProcInv, ShapeInv, InvokeInv, OwnerInv, MemoryInv, Stage, OpenStages, BatchStages,
          CallStages, Running, Tasks, Checkpoints, Cleanups, Awaits
    <2>6. owner = p => OwnerInv(p)'
      BY <2>2, <2>4 DEF ProcInv, ShapeInv, InvokeInv, OwnerInv, MemoryInv, Stage, OpenStages, BatchStages,
          CallStages, Running, Tasks, Checkpoints, Cleanups, Awaits
    <2>7. owner = p /\ proc[p].fresh => MemoryInv(p)'
      BY <2>2, <2>c DEF ProcInv, ShapeInv, InvokeInv, OwnerInv, MemoryInv, Stage, OpenStages, BatchStages,
          CallStages, Running, Tasks, Checkpoints, Cleanups, Awaits
    <2> QED BY <2>2, <2>3, <2>5, <2>6, <2>7 DEF ProcInv
  <1> QED BY <1>2, <1>3, <1>4, <1>5 DEF RequestStep

(* A process that is only told of its lease, or that lost its future in    *)
(* the midst of a task, keeps its picture.                                 *)
LEMMA SamePicture ==
    ASSUME IInv, NEW p \in Procs, UNCHANGED <<owner, journal, ran, turns, issued>>,
           proc'[p].poisoned = proc[p].poisoned, proc'[p].fresh = proc[p].fresh,
           proc'[p].turn = proc[p].turn, proc'[p].mine = proc[p].mine,
           proc'[p].pend = proc[p].pend, proc'[p].persisted = proc[p].persisted,
           proc'[p].calls = proc[p].calls, proc'[p].at = proc[p].at,
           proc'[p].verdict = proc[p].verdict, proc'[p].say = proc[p].say,
           proc'[p].memory = proc[p].memory,
           \/ proc'[p].pc = proc[p].pc /\ proc'[p].op = proc[p].op
           \/ proc'[p].pc = "idle" /\ proc'[p].op = proc[p].pc /\ proc[p].pc \in Tasks,
           proc'[p].unsure = proc[p].unsure
    PROVE  ProcInv(p)'
  <1>1. ProcInv(p) /\ proc[p] \in Process /\ proc \in [Procs -> Process] /\ inv \in [Calls -> Invocation]
    BY DEF IInv, TypeOK
  <1>2. Stage(p)' = Stage(p)
    BY DEF Stage, Tasks, Checkpoints, Cleanups
  <1>3. proc[p].pc \in Tasks => proc[p].poisoned
    BY <1>1 DEF ProcInv, ShapeInv, Running
  <1>4. ShapeInv(p)' /\ InvokeInv(p)'
    BY <1>1, <1>3, SameJournal DEF ProcInv, ShapeInv, InvokeInv, Running, Tasks, Checkpoints, Cleanups, Awaits
  <1>5. \A i : Current(p, i) => Current(p, i)'
    BY <1>2 DEF Current
  <1>6. ASSUME owner = p PROVE OwnerInv(p)'
    <2>1. OwnerInv(p)
      BY <1>1, <1>6 DEF ProcInv
    <2>2. CASE proc'[p].pc = proc[p].pc /\ proc'[p].op = proc[p].op
      BY <1>2, <1>5, <2>1, <2>2, SameJournal DEF OwnerInv
    <2>3. CASE proc'[p].pc = "idle" /\ proc[p].pc \in Tasks
      <3>1. "idle" \notin Running /\ proc'[p].poisoned
        BY <1>3, <2>3 DEF Running, Tasks, Checkpoints, Cleanups, Awaits
      <3> QED BY <1>2, <1>5, <2>1, <2>3, <3>1, SameJournal DEF OwnerInv
    <2> QED BY <2>2, <2>3
  <1>7. owner = p /\ proc[p].fresh => MemoryInv(p)'
    BY <1>1, <1>3, SameJournal DEF ProcInv, MemoryInv, Running, Tasks, Checkpoints, Cleanups
  <1> QED BY <1>4, <1>6, <1>7 DEF ProcInv

(* Faults.                                                                 *)
LEMMA OwnFault ==
    ASSUME IInv, NEW p \in Procs, FaultStep(p) \/ RenewSession(p)
    PROVE  ProcInv(p)'
  <1>1. ProcInv(p) /\ proc[p] \in Process /\ proc \in [Procs -> Process] /\ inv \in [Calls -> Invocation]
    BY DEF IInv, TypeOK
  <1>2. CASE StorageFault(p)
    <2>1. UNCHANGED <<owner, journal, ran, turns, issued>>
      BY <1>2 DEF StorageFault
    <2>2. ASSUME NEW x \in Tasks, InFlight(p, x), Settle(p, AfterFailure(p, x)) PROVE ProcInv(p)'
      BY <2>1, <2>2, OwnFailure
    <2>3. CASE Go(p, Spent(p))
      BY <2>3, Went, SpentRests
    <2> QED BY <1>2, <2>2, <2>3 DEF StorageFault
  <1>3. CASE ReconcileFails(p)
    BY <1>3, OwnGivesUp DEF ReconcileFails
  <1>4. CASE DropFuture(p)
    <2>1. UNCHANGED <<owner, journal, ran, turns, issued>> /\ proc[p].pc \in Running
      BY <1>4 DEF DropFuture
    <2>2. proc[p].poisoned
      BY <1>1, <2>1 DEF ProcInv, ShapeInv
    <2>3. CASE proc[p].pc \notin Tasks
      <3>1. proc'[p] = Spent(p)
        BY <1>4, <2>2, <2>3, Went DEF DropFuture, Dropped
      <3> QED BY <3>1, SpentRests
    <2>4. CASE proc[p].pc \in Tasks
      <3>1. proc'[p] = [proc[p] EXCEPT !.pc = "idle", !.op = proc[p].pc]
        BY <1>4, <2>4, Went DEF DropFuture
      <3>2. /\ proc'[p].pc = "idle" /\ proc'[p].op = proc[p].pc /\ proc'[p].unsure = proc[p].unsure
            /\ proc'[p].poisoned = proc[p].poisoned /\ proc'[p].fresh = proc[p].fresh
            /\ proc'[p].turn = proc[p].turn /\ proc'[p].mine = proc[p].mine
            /\ proc'[p].pend = proc[p].pend /\ proc'[p].persisted = proc[p].persisted
            /\ proc'[p].calls = proc[p].calls /\ proc'[p].at = proc[p].at
            /\ proc'[p].verdict = proc[p].verdict /\ proc'[p].say = proc[p].say
            /\ proc'[p].memory = proc[p].memory
        BY <1>1, <3>1 DEF Process
      <3> QED BY <2>1, <2>4, <3>2, SamePicture
    <2> QED BY <2>3, <2>4
  <1>5. CASE Crash(p)
    <2>1. proc'[p] = NoProcess /\ owner' # p
      BY <1>5, Went, Limits DEF Crash
    <2> QED BY <2>1, GoneRests
  <1>6. CASE RenewalFails(p)
    <2>1. UNCHANGED <<owner, journal, ran, turns, issued>>
      BY <1>6 DEF RenewalFails
    <2>2. proc'[p] = [proc[p] EXCEPT !.lost = TRUE]
      BY <1>6, Went DEF RenewalFails
    <2>3. /\ proc'[p].pc = proc[p].pc /\ proc'[p].op = proc[p].op /\ proc'[p].unsure = proc[p].unsure
          /\ proc'[p].poisoned = proc[p].poisoned /\ proc'[p].fresh = proc[p].fresh
          /\ proc'[p].turn = proc[p].turn /\ proc'[p].mine = proc[p].mine
          /\ proc'[p].pend = proc[p].pend /\ proc'[p].persisted = proc[p].persisted
          /\ proc'[p].calls = proc[p].calls /\ proc'[p].at = proc[p].at
          /\ proc'[p].verdict = proc[p].verdict /\ proc'[p].say = proc[p].say
          /\ proc'[p].memory = proc[p].memory
      BY <1>1, <2>2 DEF Process
    <2> QED BY <2>1, <2>3, SamePicture
  <1>7. CASE RenewSession(p)
    <2>1. UNCHANGED <<owner, journal, ran, turns, issued>> /\ proc' = proc
      BY <1>7 DEF RenewSession
    <2> QED BY <2>1, SamePicture
  <1> QED BY <1>2, <1>3, <1>4, <1>5, <1>6, <1>7 DEF FaultStep

(* The acting process keeps its picture of the journal.                    *)
LEMMA OwnStep ==
    ASSUME IInv, NEW p \in Procs, StepBy(p)
    PROVE  ProcInv(p)'
  <1>1. CASE TurnStep(p)
    BY <1>1, OwnTurnQuiet, OwnTurnTasks DEF TurnStep
  <1>2. CASE ToolStep(p)
    BY <1>2, OwnToolQuiet, OwnCallTasks, OwnComplete DEF ToolStep
  <1> QED BY <1>1, <1>2, OwnCleanup, OwnRecovery, OwnRequest, OwnFault DEF StepBy, Progress

-----------------------------------------------------------------------------
(* The invariant.                                                          *)

(* IInv holds before the first session is opened. *)
LEMMA IInit == Init => IInv
  <1> SUFFICES ASSUME Init PROVE IInv
    OBVIOUS
  <1>1. NoProcess \in Process
    BY Limits DEF NoProcess, Process, Said, Modes
  <1>2. NoInvocation \in Invocation
    BY DEF NoInvocation, Invocation
  <1>3. TypeOK
    <2>1. 0 \in 0..MaxTurns /\ 0 \in 0..MaxCalls /\ 0 \in 0..MaxFaults
      BY Limits
    <2>2. inv \in [Calls -> Invocation] /\ proc \in [Procs -> Process]
      BY <1>1, <1>2 DEF Init
    <2>3. /\ committed \in [Calls -> Said \cup {"none"}] /\ closed \in [Turns -> {"open", "done", "failed"}]
          /\ ran \in SUBSET Calls
      BY DEF Init
    <2> QED BY <2>1, <2>2, <2>3 DEF Init, TypeOK
  <1>4. \A c \in Calls : inv[c] = NoInvocation /\ committed[c] = "none" /\ c \notin ran
    BY DEF Init
  <1>5. JournalInv
    <2>1. ASSUME NEW c \in Calls PROVE CallInv(c)
      BY <1>4 DEF CallInv, NoInvocation
    <2>2. InOrder
      BY <1>4 DEF InOrder, NoInvocation
    <2>3. TurnsInv
      BY <1>4 DEF Init, TurnsInv
    <2> QED BY <2>1, <2>2, <2>3 DEF JournalInv
  <1>6. ASSUME NEW p \in Procs PROVE ProcInv(p)
    BY Limits DEF Init, ProcInv, ShapeInv, InvokeInv, NoProcess, Running, Tasks, Checkpoints, Cleanups, Awaits
  <1> QED BY <1>3, <1>5, <1>6 DEF IInv

(* The lease may run out, and a maintenance append may take its token and  *)
(* move the transcript's head, without any process noticing.               *)
LEMMA QuietStep ==
    ASSUME IInv, Expire \/ Stall \/ TranscriptMoves \/ UNCHANGED vars
    PROVE  IInv' /\ UNCHANGED <<journal, ran>>
  <1>1. UNCHANGED <<journal, ran, turns, issued>> /\ owner' \in {owner, NoOne} /\ live' \in BOOLEAN
        /\ faults' \in 0..MaxFaults
    <2>1. CASE Expire
      BY <2>1 DEF Expire, IInv, TypeOK
    <2>2. CASE Stall
      <3>1. faults \in 0..MaxFaults /\ faults < MaxFaults /\ faults' = faults + 1
        BY <2>2 DEF Stall, Fault, IInv, TypeOK
      <3>2. faults' \in 0..MaxFaults
        BY <3>1, Limits
      <3> QED BY <2>2, <3>2 DEF Stall
    <2>3. CASE TranscriptMoves
      BY <2>3 DEF TranscriptMoves, IInv, TypeOK
    <2>4. CASE UNCHANGED vars
      BY <2>4 DEF vars, IInv, TypeOK
    <2> QED BY <2>1, <2>2, <2>3, <2>4
  <1>2. ASSUME NEW p \in Procs
        PROVE  /\ proc'[p] = proc[p] \/ proc'[p] = [proc[p] EXCEPT !.fresh = FALSE]
               /\ proc[p] \in Process
    BY DEF Expire, Stall, TranscriptMoves, vars, IInv, TypeOK
  <1>3. proc' \in [Procs -> Process]
    <2>1. CASE TranscriptMoves
      <3>1. ASSUME NEW row \in Process PROVE [row EXCEPT !.fresh = FALSE] \in Process
        BY DEF Process
      <3>2. proc \in [Procs -> Process]
        BY DEF IInv, TypeOK
      <3> QED BY <2>1, <3>1, <3>2 DEF TranscriptMoves
    <2>2. CASE Expire \/ Stall \/ UNCHANGED vars
      BY <2>2 DEF Expire, Stall, vars, IInv, TypeOK
    <2> QED BY <2>1, <2>2
  <1>4. TypeOK'
    BY <1>1, <1>3, SameJournal DEF IInv, TypeOK
  <1>5. JournalInv'
    <2>1. ASSUME NEW c \in Calls PROVE CallInv(c)'
      BY <1>1, SameJournal DEF IInv, JournalInv, CallInv
    <2>2. InOrder'
      BY <1>1, SameJournal DEF IInv, JournalInv, InOrder
    <2>3. TurnsInv'
      BY <1>1, SameJournal DEF IInv, JournalInv, TurnsInv
    <2> QED BY <2>1, <2>2, <2>3 DEF JournalInv
  <1>6. ASSUME NEW p \in Procs PROVE ProcInv(p)'
    <2>1. /\ proc'[p].pc = proc[p].pc /\ proc'[p].unsure = proc[p].unsure
          /\ proc'[p].op = proc[p].op /\ proc'[p].poisoned = proc[p].poisoned
          /\ proc'[p].turn = proc[p].turn /\ proc'[p].mine = proc[p].mine
          /\ proc'[p].pend = proc[p].pend /\ proc'[p].persisted = proc[p].persisted
          /\ proc'[p].calls = proc[p].calls /\ proc'[p].at = proc[p].at
          /\ proc'[p].verdict = proc[p].verdict /\ proc'[p].say = proc[p].say
          /\ proc'[p].memory = proc[p].memory
          /\ (proc'[p].fresh => proc[p].fresh)
      <3>1. proc[p] \in Process /\ (proc'[p] = proc[p] \/ proc'[p] = [proc[p] EXCEPT !.fresh = FALSE])
        BY <1>2
      <3> QED BY <3>1 DEF Process
    <2>2. (owner' = p => owner = p) /\ ProcInv(p)
      BY <1>1, Limits DEF IInv
    <2>3. Stage(p)' = Stage(p)
      BY <2>1 DEF Stage
    <2>4. ShapeInv(p)' /\ InvokeInv(p)'
      BY <1>1, <2>1, <2>2, SameJournal DEF ProcInv, ShapeInv, InvokeInv
    <2>5. \A i : Current(p, i) => Current(p, i)'
      BY <1>1, <2>1, <2>3 DEF Current
    <2>6. owner = p => OwnerInv(p)'
      BY <1>1, <2>1, <2>2, <2>3, <2>5, SameJournal DEF ProcInv, OwnerInv
    <2>7. owner = p /\ proc[p].fresh => MemoryInv(p)'
      BY <1>1, <2>1, <2>2, SameJournal DEF ProcInv, MemoryInv
    <2> QED BY <2>1, <2>2, <2>4, <2>6, <2>7 DEF ProcInv
  <1> QED BY <1>1, <1>4, <1>5, <1>6 DEF IInv

(* IInv is inductive: the journal's part, the acting process and the other processes, each
   by its own lemma. *)
LEMMA IStep == IInv /\ [Next]_vars => IInv'
  <1> SUFFICES ASSUME IInv, [Next]_vars PROVE IInv'
    OBVIOUS
  <1>1. ASSUME NEW p \in Procs, StepBy(p) PROVE IInv'
    <2>1. InvokeInv(p) /\ TypeOK
      BY DEF IInv, ProcInv
    <2>2. TypeOK'
      BY <1>1, <2>1, TypeStepBy
    <2>3. JournalInv'
      BY <1>1, JournalStep DEF JournalKept
    <2>4. ASSUME NEW q \in Procs PROVE ProcInv(q)'
      BY <1>1, OwnStep, OthersStep
    <2> QED BY <2>2, <2>3, <2>4 DEF IInv
  <1> QED BY <1>1, QuietStep DEF Next, StepBy

(* Every reachable state satisfies the invariant.                          *)
THEOREM Invariance == Spec => []IInv
  BY IInit, IStep, PTL DEF Spec

-----------------------------------------------------------------------------
(* The results of calls.                                                   *)

(* No reader of the journal or the transcript is told that a tool ran when *)
(* it did not, or that it did not run when it did, and a tool that ran is  *)
(* never forgotten: across crashes, dropped futures, late commits of their *)
(* tasks and lease takeovers, for any number of each.                      *)
THEOREM ResultsAreTrue == Spec => []HistoryIsTrue
  <1>1. IInv => HistoryIsTrue
    <2> SUFFICES ASSUME IInv, NEW c \in Calls
                 PROVE  /\ Told(c) = "exact" => c \in ran
                        /\ Told(c) \in {"notrun", "denied"} => c \notin ran
                        /\ c \in ran => Told(c) \in {"exact", "maybe"} \/ inv[c].begun
      BY DEF HistoryIsTrue
    <2>1. CallInv(c)
      BY DEF IInv, JournalInv
    <2> QED BY <2>1 DEF CallInv, Told
  <1> QED BY <1>1, Invariance, PTL

(* An adapter that accepts a message and still owns the session has no     *)
(* turn left over, and its agent's history is the transcript's: after any  *)
(* turn it ran, failed, abandoned or recovered.                            *)
THEOREM UsableAdapters == Spec => []UsableIsSynced
  <1>1. IInv => UsableIsSynced
    <2> SUFFICES ASSUME IInv, NEW p \in Procs, proc[p].pc = "idle", ~proc[p].poisoned, OwnsLive(p), proc[p].fresh
                 PROVE  active = 0 /\ pendTurn = 0 /\ proc[p].memory = DurableHistory
      BY DEF UsableIsSynced
    <2>1. OwnerInv(p) /\ MemoryInv(p)
      BY DEF IInv, ProcInv, OwnsLive
    <2> QED BY <2>1 DEF OwnerInv, MemoryInv
  <1> QED BY <1>1, Invariance, PTL

(* What a step of a process does to a result that was told.                *)
LEMMA ResultStays ==
    ASSUME IInv, NEW p \in Procs, StepBy(p), NEW c \in Calls, Told(c) # "none"
    PROVE  Told(c)' = Told(c)
  <1>1. CallInv(c) /\ inv \in [Calls -> Invocation] /\ inv[c] \in Invocation
    BY DEF IInv, JournalInv, TypeOK
  <1>2. committed[c] # "none" \/ inv[c].state = "completed"
    BY <1>1 DEF CallInv, Told, NoInvocation, Invocation
  <1>3. CASE UNCHANGED journal
    BY <1>3, SameJournal DEF Told
  <1>4. CASE PersistMessages(p) \/ ReconcilePendingToolBatch(p)
    <2>1. PublishBatch
      BY <1>4 DEF PersistMessages, ReconcilePendingToolBatch
    <2>2. inv'[c].said = "none" /\ committed'[c] = IF inv[c].state # "none" THEN inv[c].said ELSE committed[c]
      BY <2>1 DEF PublishBatch, Batch, NoInvocation
    <2> QED BY <1>1, <1>2, <2>2 DEF CallInv, Told
  <1>5. CASE DiscardUnstartedToolBatch(p)
    <2>1. AllPlanned /\ UNCHANGED committed
      BY <1>5 DEF DiscardUnstartedToolBatch, MayDiscard
    <2>2. committed[c] # "none"
      BY <1>2, <2>1 DEF AllPlanned, Batch
    <2> QED BY <2>1, <2>2 DEF Told
  <1>6. CASE BeginPendingToolBatch(p)
    <2>1. pendTurn = 0 /\ UNCHANGED committed
      BY <1>6 DEF BeginPendingToolBatch, MayPlan
    <2>2. committed[c] # "none"
      BY <1>2, <2>1 DEF IInv, JournalInv, TurnsInv, NoInvocation
    <2> QED BY <2>1, <2>2 DEF Told
  <1>7. CASE FlushApprovalRequest(p) \/ FlushApprovalDecision(p) \/ MarkPendingToolStarted(p)
    <2>1. inv'[c].said = inv[c].said /\ UNCHANGED committed
      BY <1>1, <1>7 DEF FlushApprovalRequest, FlushApprovalDecision, MarkPendingToolStarted, Invocation
    <2> QED BY <2>1 DEF Told
  <1>8. CASE CompletePendingToolInvocation(p)
    <2>1. inv[proc[p].at].state \in {"planned", "started"} /\ UNCHANGED committed
      BY <1>8 DEF CompletePendingToolInvocation, MayRecord
    <2>2. committed[c] = "none" => proc[p].at # c
      BY <1>2, <2>1
    <2>3. committed[c] = "none" => inv'[c] = inv[c]
      BY <1>1, <1>8, <2>2 DEF CompletePendingToolInvocation
    <2> QED BY <2>1, <2>3 DEF Told
  <1>9. CASE ReconcileCall(p)
    <2>1. inv[First(proc[p].calls)].state \in {"planned", "started"} /\ UNCHANGED committed
      BY <1>9 DEF ReconcileCall, MayReconcileCall
    <2>2. committed[c] = "none" => First(proc[p].calls) # c
      BY <1>2, <2>1
    <2>3. committed[c] = "none" => inv'[c] = inv[c]
      BY <1>1, <1>9, <2>2 DEF ReconcileCall
    <2> QED BY <2>1, <2>3 DEF Told
  <1>10. CASE \/ BeginActiveAgentTurn(p) \/ PersistAnswer(p) \/ AppendDiagnostic(p) \/ AbandonActiveAgentTurn(p)
              \/ ReconcileInterruptedActiveTurn(p)
    BY <1>10 DEF BeginActiveAgentTurn, PersistAnswer, AppendDiagnostic, AbandonActiveAgentTurn,
        ReconcileInterruptedActiveTurn, Told
  <1> QED BY <1>3, <1>4, <1>5, <1>6, <1>7, <1>8, <1>9, <1>10, WhoWrites DEF Writes

(* A durable result is never lost, replaced or withdrawn, whoever writes:  *)
(* the call's own process, a task its dropped future left behind, or the   *)
(* recovery that took the session over.                                    *)
THEOREM ResultsAreFinal == Spec => ResultIsFinal
  <1>1. IInv /\ [Next]_vars => [\A c \in Calls : Told(c) # "none" => Told(c)' = Told(c)]_vars
    <2> SUFFICES ASSUME IInv, Next, NEW c \in Calls, Told(c) # "none" PROVE Told(c)' = Told(c)
      OBVIOUS
    <2>1. ASSUME NEW p \in Procs, StepBy(p) PROVE Told(c)' = Told(c)
      BY <2>1, ResultStays
    <2>2. CASE Expire \/ Stall \/ TranscriptMoves
      BY <2>2, QuietStep, SameJournal DEF Told
    <2> QED BY <2>1, <2>2 DEF Next, StepBy
  <1> QED BY <1>1, Invariance, PTL DEF Spec, ResultIsFinal

-----------------------------------------------------------------------------
(* The journal can be read.                                                *)

(* Where the code keeps its journal readable: no denial is replaced by an  *)
(* overflow text, and a call that asks for approval is the first of its    *)
(* batch.                                                                  *)
Plain == Denials \subseteq {"denied"} /\ (MaxBatch = 1 \/ AskCalls \subseteq {1})

SoundCall(c) ==
    /\ inv[c].state # "none" => CallLoads(c)
    /\ inv[c].decision # "none" => inv[c].asked

(* What the owner is about to record agrees with the call's audit trail.   *)
RecordInv(p) ==
    owner = p /\ Stage(p) = "record" =>
        LET i == inv[proc[p].at] IN
        /\ i.asked => i.decision # "none"
        /\ i.decision = "allow" => i.begun
        /\ i.decision = "deny" => ~i.begun /\ proc[p].say = "denied"

(* A call that asks is the first of its batch.                             *)
AskFirst(p) ==
    proc[p].pc # "recovering" =>
        \A c, d \in proc[p].calls : c \in AskCalls => c <= d

SoundInv == (\A c \in Calls : SoundCall(c)) /\ \A p \in Procs : RecordInv(p) /\ AskFirst(p)

(* Whether a row ends at a record, and what becomes of its calls.          *)
Shaped(p, row) ==
    /\ (IF row.pc = "idle" THEN row.op ELSE row.pc) # "record"
    /\ \/ row.calls = {} \/ row.pc = "recovering"
       \/ row.calls = proc[p].calls /\ proc[p].pc # "recovering"

CallsStay(p) ==
    proc'[p].pc # "recovering" =>
        proc'[p].calls = {} \/ (proc'[p].calls = proc[p].calls /\ proc[p].pc # "recovering")

(* The records a process rests in have the shape SoundInv asks for. *)
LEMMA RestsShaped ==
    ASSUME NEW p \in Procs
    PROVE  Shaped(p, Spent(p)) /\ Shaped(p, Ready(p)) /\ Shaped(p, NoProcess) /\ Shaped(p, Dropped(p))
  BY DEF Shaped, Spent, Ready, NoProcess, Dropped

(* The records a failing or finished turn moves to have the shape SoundInv asks for. *)
LEMMA FailuresShaped ==
    ASSUME NEW p \in Procs, proc[p].pc # "recovering", NEW row \in Process, row.calls = proc[p].calls
    PROVE  Shaped(p, TurnFailed(p, row)) /\ Shaped(p, CheckpointFailed(p, row)) /\ Shaped(p, TurnDone(p, row))
  <1>1. /\ [row EXCEPT !.pc = "ckdiscard"].pc = "ckdiscard" /\ [row EXCEPT !.pc = "abandon"].pc = "abandon"
        /\ [row EXCEPT !.pc = "ckdiscard"].calls = row.calls /\ [row EXCEPT !.pc = "abandon"].calls = row.calls
    BY DEF Process
  <1>2. CheckpointFailed(p, row) \in {Spent(p), Ready(p), [row EXCEPT !.pc = "ckdiscard"], [row EXCEPT !.pc = "abandon"]}
    BY DEF CheckpointFailed
  <1>3. Shaped(p, CheckpointFailed(p, row))
    BY <1>1, <1>2, RestsShaped DEF Shaped
  <1>4. /\ [row EXCEPT !.pc = IF row.pend THEN "discard" ELSE "diagnose"].pc \in {"discard", "diagnose"}
        /\ [row EXCEPT !.pc = IF row.pend THEN "discard" ELSE "diagnose"].calls = row.calls
    BY DEF Process
  <1>5. Shaped(p, TurnFailed(p, row))
    BY <1>4, RestsShaped DEF TurnFailed, Shaped
  <1>6. Shaped(p, TurnDone(p, row))
    BY RestsShaped DEF TurnDone, Shaped, Ready, NoProcess
  <1> QED BY <1>3, <1>5, <1>6

(* Where a row leads.                                                      *)
LEMMA Moved ==
    ASSUME IInv, NEW p \in Procs, NEW row, Settle(p, row) \/ Go(p, row), Shaped(p, row)
    PROVE  Stage(p)' # "record" /\ CallsStay(p)
  <1>1. proc[p] \in Process /\ proc \in [Procs -> Process]
    BY DEF IInv, TypeOK
  <1>2. \/ proc'[p] = row \/ proc'[p] = Dropped(p)
        \/ proc'[p] = [proc[p] EXCEPT !.op = "abandon"] /\ proc[p].pc = "idle"
    BY <1>1 DEF Settle, Go
  <1>3. Shaped(p, proc'[p])
    <2>1. CASE proc'[p] = [proc[p] EXCEPT !.op = "abandon"] /\ proc[p].pc = "idle"
      BY <1>1, <2>1 DEF Shaped, Process
    <2> QED BY <1>2, <2>1, RestsShaped
  <1> QED BY <1>3 DEF Shaped, Stage, CallsStay

(* The steps that lead to a record, or stay at one.                        *)
ToRecord(p) ==
    \/ HarnessFails(p) \/ RejectCall(p) \/ ApplyDecision(p) \/ InvokeCancelled(p) \/ ToolReturns(p)
    \/ CompletePendingToolInvocation(p)

Through(p) ==
    /\ Stage(p)' = Stage(p) /\ proc'[p].at = proc[p].at /\ proc'[p].say = proc[p].say
    /\ UNCHANGED <<owner, journal>>

(* A step of a turn that does not start a batch leaves the batch and its rows alone. *)
LEMMA TurnRows ==
    ASSUME IInv, NEW p \in Procs, TurnStep(p), ~(\E n \in 1..MaxBatch : ModelCallsTools(p, n))
    PROVE  Stage(p)' # "record" /\ CallsStay(p)
  <1>1. proc[p] \in Process
    BY DEF IInv, TypeOK
  <1>2. CASE BeginActiveAgentTurn(p)
    <2> DEFINE row == [proc[p] EXCEPT !.pc = "model", !.mine = TRUE]
    <2>1. (Settle(p, row) \/ Go(p, row)) /\ proc[p].pc # "recovering"
      BY <1>2 DEF BeginActiveAgentTurn, InFlight
    <2>2. row.pc = "model" /\ row.calls = proc[p].calls
      BY <1>1 DEF Process
    <2> QED BY <2>1, <2>2, Moved DEF Shaped
  <1>3. CASE ModelAnswers(p)
    <2> DEFINE row == [proc[p] EXCEPT !.pc = "answer"]
    <2>1. (Settle(p, row) \/ Go(p, row)) /\ proc[p].pc # "recovering"
      BY <1>3 DEF ModelAnswers, InFlight
    <2>2. row.pc = "answer" /\ row.calls = proc[p].calls
      BY <1>1 DEF Process
    <2> QED BY <2>1, <2>2, Moved DEF Shaped
  <1>4. CASE BeginPendingToolBatch(p)
    <2> DEFINE row == [proc[p] EXCEPT !.pc = "call", !.pend = TRUE]
    <2>1. (Settle(p, row) \/ Go(p, row)) /\ proc[p].pc # "recovering"
      BY <1>4 DEF BeginPendingToolBatch, InFlight
    <2>2. row.pc = "call" /\ row.calls = proc[p].calls
      BY <1>1 DEF Process
    <2> QED BY <2>1, <2>2, Moved DEF Shaped
  <1>5. CASE PersistMessages(p)
    <2> DEFINE row == [proc[p] EXCEPT !.pc = "kept", !.pend = FALSE, !.persisted = TRUE]
    <2>1. (Settle(p, row) \/ Go(p, row)) /\ proc[p].pc # "recovering"
      BY <1>5 DEF PersistMessages, InFlight
    <2>2. row.pc = "kept" /\ row.calls = proc[p].calls
      BY <1>1 DEF Process
    <2> QED BY <2>1, <2>2, Moved DEF Shaped
  <1>6. CASE PersistAnswer(p)
    <2> DEFINE row == [proc[p] EXCEPT !.pc = "answered", !.mine = FALSE, !.persisted = TRUE]
    <2>1. (Settle(p, row) \/ Go(p, row)) /\ proc[p].pc # "recovering"
      BY <1>6 DEF PersistAnswer, InFlight
    <2>2. row.pc = "answered" /\ row.calls = proc[p].calls
      BY <1>1 DEF Process
    <2> QED BY <2>1, <2>2, Moved DEF Shaped
  <1>7. CASE ModelFails(p)
    BY <1>1, <1>7, FailuresShaped, Moved DEF ModelFails
  <1>8. CASE KeepMessages(p)
    <2> DEFINE kept == [proc[p] EXCEPT !.memory = @ \cup {<<"call", c>> : c \in proc[p].calls}]
    <2>1. Go(p, IF proc[p].doom THEN TurnFailed(p, kept) ELSE NextRound(kept)) /\ proc[p].pc = "kept"
      BY <1>8 DEF KeepMessages
    <2>2. kept \in Process /\ kept.calls = proc[p].calls
      <3>1. proc[p].calls \subseteq Nat
        BY <1>1, Limits DEF Process
      <3>2. proc[p].memory \cup {<<"call", c>> : c \in proc[p].calls} \in SUBSET ({"call", "answer"} \X Nat)
        BY <1>1, <3>1 DEF Process
      <3> QED BY <1>1, <3>2 DEF Process
    <2> HIDE DEF kept
    <2>3. Shaped(p, TurnFailed(p, kept))
      BY <2>1, <2>2, FailuresShaped
    <2>4. Shaped(p, NextRound(kept))
      BY <2>2 DEF NextRound, Shaped, Process
    <2> QED BY <2>1, <2>3, <2>4, Moved
  <1>9. CASE FinishTurn(p)
    <2> DEFINE row == [proc[p] EXCEPT !.memory = @ \cup {<<"answer", proc[p].turn>>}]
    <2>1. Go(p, TurnDone(p, row)) /\ proc[p].pc = "answered"
      BY <1>9 DEF FinishTurn
    <2>2. Shaped(p, TurnDone(p, row))
      BY RestsShaped DEF TurnDone, Shaped, Ready, NoProcess
    <2> QED BY <2>1, <2>2, Moved
  <1> QED BY <1>2, <1>3, <1>4, <1>5, <1>6, <1>7, <1>8, <1>9 DEF TurnStep

(* A step of a tool batch reaches the journal's record stage only through ToRecord. *)
LEMMA ToolRows ==
    ASSUME IInv, NEW p \in Procs, ToolStep(p)
    PROVE  (Stage(p)' # "record" \/ ToRecord(p)) /\ CallsStay(p)
  <1>1. proc[p] \in Process
    BY DEF IInv, TypeOK
  <1>2. CASE FlushApprovalRequest(p)
    <2> DEFINE row == [proc[p] EXCEPT !.pc = "approve"]
    <2>1. (Settle(p, row) \/ Go(p, row)) /\ proc[p].pc # "recovering"
      BY <1>2 DEF FlushApprovalRequest, InFlight
    <2>2. row.pc = "approve" /\ row.calls = proc[p].calls
      BY <1>1 DEF Process
    <2> QED BY <2>1, <2>2, Moved DEF Shaped
  <1>3. CASE FlushApprovalDecision(p)
    <2> DEFINE row == [proc[p] EXCEPT !.pc = "decided"]
    <2>1. (Settle(p, row) \/ Go(p, row)) /\ proc[p].pc # "recovering"
      BY <1>3 DEF FlushApprovalDecision, InFlight
    <2>2. row.pc = "decided" /\ row.calls = proc[p].calls
      BY <1>1 DEF Process
    <2> QED BY <2>1, <2>2, Moved DEF Shaped
  <1>4. CASE MarkPendingToolStarted(p)
    <2> DEFINE row == [proc[p] EXCEPT !.pc = "invoke"]
    <2>1. (Settle(p, row) \/ Go(p, row)) /\ proc[p].pc # "recovering"
      BY <1>4 DEF MarkPendingToolStarted, InFlight
    <2>2. row.pc = "invoke" /\ row.calls = proc[p].calls
      BY <1>1 DEF Process
    <2> QED BY <2>1, <2>2, Moved DEF Shaped
  <1>5. CASE InvokeTool(p)
    <2> DEFINE row == [proc[p] EXCEPT !.pc = "ran"]
    <2>1. (Settle(p, row) \/ Go(p, row)) /\ proc[p].pc # "recovering"
      BY <1>5 DEF InvokeTool, InFlight
    <2>2. row.pc = "ran" /\ row.calls = proc[p].calls
      BY <1>1 DEF Process
    <2> QED BY <2>1, <2>2, Moved DEF Shaped
  <1>6. CASE ApproveTool(p)
    <2>1. PICK x \in {"ask", "start"} : Go(p, [proc[p] EXCEPT !.pc = x]) /\ proc[p].pc # "recovering"
      BY <1>6 DEF ApproveTool
    <2>2. [proc[p] EXCEPT !.pc = x].pc = x /\ [proc[p] EXCEPT !.pc = x].calls = proc[p].calls
      BY <1>1 DEF Process
    <2> QED BY <2>1, <2>2, Moved DEF Shaped
  <1>7. ASSUME NEW verdict \in {"allow", "deny"}, Decide(p, verdict) PROVE Stage(p)' # "record" /\ CallsStay(p)
    <2> DEFINE row == [proc[p] EXCEPT !.pc = "resolve", !.verdict = verdict]
    <2>1. Go(p, row) /\ proc[p].pc # "recovering"
      BY <1>7 DEF Decide
    <2>2. row.pc = "resolve" /\ row.calls = proc[p].calls
      BY <1>1 DEF Process
    <2> QED BY <2>1, <2>2, Moved DEF Shaped
  <1>8. CASE HarnessFails(p)
    <2>1. proc[p].pc \in {"call", "approve", "decided"}
      BY <1>8 DEF HarnessFails
    <2>2. CASE Go(p, TurnFailed(p, proc[p]))
      BY <1>1, <2>1, <2>2, FailuresShaped, Moved
    <2>3. CASE proc'[p] = [proc[p] EXCEPT !.pc = "record", !.say = "notrun", !.doom = TRUE]
      BY <1>1, <1>8, <2>1, <2>3 DEF CallsStay, Process, ToRecord
    <2>4. Go(p, TurnFailed(p, proc[p])) \/ Go(p, [proc[p] EXCEPT !.pc = "record", !.say = "notrun", !.doom = TRUE])
      BY <1>8 DEF HarnessFails
    <2> QED BY <1>8, <2>2, <2>3, <2>4, Went DEF ToRecord
  <1>9. CASE RejectCall(p)
    <2>1. proc'[p].calls = proc[p].calls /\ proc[p].pc # "recovering"
      BY <1>1, <1>9 DEF RejectCall, Go, Process, IInv, TypeOK
    <2> QED BY <1>9, <2>1 DEF CallsStay, ToRecord
  <1>10. CASE InvokeCancelled(p)
    <2>1. proc'[p].calls = proc[p].calls /\ proc[p].pc # "recovering"
      BY <1>1, <1>10 DEF InvokeCancelled, Go, Process, IInv, TypeOK
    <2> QED BY <1>10, <2>1 DEF CallsStay, ToRecord
  <1>11. CASE ToolReturns(p)
    <2>1. proc'[p].calls = proc[p].calls /\ proc[p].pc # "recovering"
      BY <1>1, <1>11 DEF ToolReturns, Go, Process, IInv, TypeOK
    <2> QED BY <1>11, <2>1 DEF CallsStay, ToRecord
  <1>12. CASE ApplyDecision(p)
    <2>1. PICK row : /\ Go(p, row)
                     /\ \/ row = [proc[p] EXCEPT !.pc = "start"]
                        \/ \E said \in Denials : row = [proc[p] EXCEPT !.pc = "record", !.say = said, !.doom = said # "denied"]
      BY <1>12 DEF ApplyDecision
    <2>2. row.calls = proc[p].calls
      BY <1>1, <2>1 DEF Process
    <2>3. proc'[p].calls = proc[p].calls
      BY <2>1, <2>2, Went
    <2>4. proc[p].pc # "recovering"
      BY <1>12 DEF ApplyDecision
    <2> QED BY <1>12, <2>3, <2>4 DEF CallsStay, ToRecord
  <1>13. CASE CompletePendingToolInvocation(p)
    <2>1. PICK doom : Settle(p, AfterResult([proc[p] EXCEPT !.doom = doom]))
      BY <1>13 DEF CompletePendingToolInvocation
    <2>2. proc[p].pc # "recovering"
      BY <1>13 DEF CompletePendingToolInvocation, InFlight
    <2>3. AfterResult([proc[p] EXCEPT !.doom = doom]).calls = proc[p].calls
      BY <1>1 DEF AfterResult, Process
    <2>4. \/ proc'[p].calls = proc[p].calls
          \/ proc'[p] = Dropped(p)
      BY <1>1, <2>1, <2>3 DEF Settle, IInv, TypeOK, Process
    <2> QED BY <1>13, <2>2, <2>4, RestsShaped DEF CallsStay, ToRecord, Shaped
  <1> QED BY <1>2, <1>3, <1>4, <1>5, <1>6, <1>7, <1>8, <1>9, <1>10, <1>11, <1>12, <1>13 DEF ToolStep

(* Outside turns and tools the record stage is only passed through. *)
LEMMA OtherRows ==
    ASSUME IInv, NEW p \in Procs, CleanupStep(p) \/ RecoverStep(p) \/ RequestStep(p) \/ FaultStep(p) \/ RenewSession(p)
    PROVE  (Stage(p)' # "record" \/ Through(p)) /\ CallsStay(p)
  <1>1. proc[p] \in Process
    BY DEF IInv, TypeOK
  <1>2. ASSUME NEW x \in Tasks, InFlight(p, x), Settle(p, AfterFailure(p, x))
        PROVE  Stage(p)' # "record" /\ CallsStay(p)
    <2>1. proc[p].pc # "recovering"
      BY <1>2 DEF InFlight, Tasks, Checkpoints, Cleanups
    <2>2. Shaped(p, AfterFailure(p, x))
      BY <1>1, <2>1, FailuresShaped, RestsShaped DEF AfterFailure
    <2> QED BY <1>2, <2>2, Moved
  <1>3. CASE GiveUp(p)
    BY <1>3, RestsShaped, Moved DEF GiveUp
  <1>4. CASE CleanupStep(p)
    <2>1. CASE DiscardUnstartedToolBatch(p)
      <3>1. /\ [proc[p] EXCEPT !.pc = "diagnose", !.pend = FALSE].pc = "diagnose"
            /\ [proc[p] EXCEPT !.pc = "diagnose", !.pend = FALSE].calls = proc[p].calls
            /\ [proc[p] EXCEPT !.pc = "abandon", !.pend = FALSE].pc = "abandon"
            /\ [proc[p] EXCEPT !.pc = "abandon", !.pend = FALSE].calls = proc[p].calls
        BY <1>1 DEF Process
      <3>2. proc[p].pc # "recovering"
        BY <2>1 DEF DiscardUnstartedToolBatch, InFlight
      <3>3. PICK row \in {[proc[p] EXCEPT !.pc = "diagnose", !.pend = FALSE], Spent(p),
                          [proc[p] EXCEPT !.pc = "abandon", !.pend = FALSE]} : Settle(p, row)
        BY <2>1 DEF DiscardUnstartedToolBatch
      <3>4. Shaped(p, row)
        BY <3>1, <3>2, RestsShaped DEF Shaped
      <3> QED BY <3>3, <3>4, Moved
    <2>2. CASE AppendDiagnostic(p) \/ AbandonActiveAgentTurn(p)
      BY <2>2, RestsShaped, Moved DEF AppendDiagnostic, AbandonActiveAgentTurn
    <2>3. CASE Refused(p)
      BY <1>2, <2>3 DEF Refused
    <2> QED BY <1>4, <2>1, <2>2, <2>3 DEF CleanupStep
  <1>5. CASE RecoverStep(p)
    <2>1. CASE LoadJournal(p)
      <3>1. proc'[p] = [proc[p] EXCEPT !.pc = "recovering", !.fresh = TRUE, !.turn = active,
                             !.pend = pendTurn # 0, !.persisted = checked,
                             !.calls = {c \in Batch : inv[c].state # "completed"},
                             !.unsure = Started]
        BY <2>1, Went DEF LoadJournal
      <3>2. proc'[p].pc = "recovering"
        BY <1>1, <3>1 DEF Process
      <3> QED BY <3>2 DEF Stage, CallsStay
    <2>2. CASE LoadRefused(p) \/ ReconcileRefused(p)
      BY <1>3, <2>2 DEF LoadRefused, ReconcileRefused
    <2>3. CASE ReconcileCall(p)
      <3>1. Go(p, [proc[p] EXCEPT !.calls = @ \ {First(proc[p].calls)}]) /\ proc[p].pc = "recovering"
        BY <2>3 DEF ReconcileCall
      <3>2. proc'[p].pc = "recovering"
        BY <1>1, <3>1, Went DEF Process
      <3> QED BY <3>2 DEF Stage, CallsStay
    <2>4. CASE ReconcilePendingToolBatch(p) \/ ReconcileInterruptedActiveTurn(p)
      <3>1. Go(p, Reopened(p)) /\ proc[p].pc = "recovering"
        BY <2>4 DEF ReconcilePendingToolBatch, ReconcileInterruptedActiveTurn
      <3>2. proc'[p] = Reopened(p)
        BY <3>1, Went
      <3>3. proc'[p].pc = "recovering"
        BY <1>1, <3>1, <3>2 DEF Reopened, Process
      <3> QED BY <3>3 DEF Stage, CallsStay
    <2>5. CASE Resume(p)
      <3>1. proc'[p] = [Ready(p) EXCEPT !.memory = DurableHistory]
        BY <2>5, Went DEF Resume
      <3> QED BY <3>1 DEF Ready, NoProcess, Stage, CallsStay
    <2> QED BY <1>5, <2>1, <2>2, <2>3, <2>4, <2>5 DEF RecoverStep
  <1>6. CASE RequestStep(p)
    <2>1. ASSUME NEW mode \in Modes, ClaimSession(p, mode) PROVE Stage(p)' # "record" /\ CallsStay(p)
      <3>1. proc'[p] = [NoProcess EXCEPT !.pc = "claimed", !.mode = mode]
        BY <2>1, Went DEF ClaimSession
      <3> QED BY <3>1 DEF NoProcess, Stage, CallsStay
    <2>2. CASE RunMessage(p)
      <3>1. proc'[p] = [Ready(p) EXCEPT !.pc = "preflight", !.turn = turns + 1, !.poisoned = TRUE]
        BY <2>2, Went DEF RunMessage
      <3> QED BY <3>1 DEF Ready, NoProcess, Stage, CallsStay
    <2>3. CASE RefuseInput(p)
      <3>1. proc'[p] = [Ready(p) EXCEPT !.pc = "diagnose", !.poisoned = TRUE]
        BY <2>3, Went DEF RefuseInput
      <3> QED BY <3>1 DEF Ready, NoProcess, Stage, CallsStay
    <2>4. CASE Release(p)
      BY <1>3, <2>4 DEF Release
    <2> QED BY <1>6, <2>1, <2>2, <2>3, <2>4 DEF RequestStep
  <1>7. CASE FaultStep(p) \/ RenewSession(p)
    <2>1. CASE StorageFault(p)
      <3>1. CASE Go(p, Spent(p))
        BY <3>1, RestsShaped, Moved
      <3> QED BY <1>2, <2>1, <3>1 DEF StorageFault
    <2>2. CASE ReconcileFails(p)
      BY <1>3, <2>2 DEF ReconcileFails
    <2>3. CASE DropFuture(p)
      <3>1. proc[p].pc \in Running /\ UNCHANGED <<owner, journal>>
        BY <2>3 DEF DropFuture
      <3>2. CASE proc[p].pc \notin Tasks
        BY <2>3, <3>2, RestsShaped, Moved DEF DropFuture
      <3>3. CASE proc[p].pc \in Tasks
        <4>1. proc'[p] = [proc[p] EXCEPT !.pc = "idle", !.op = proc[p].pc]
          BY <2>3, <3>3, Went DEF DropFuture
        <4>2. /\ proc'[p].pc = "idle" /\ proc'[p].op = proc[p].pc /\ proc'[p].calls = proc[p].calls
              /\ proc'[p].at = proc[p].at /\ proc'[p].say = proc[p].say
          BY <1>1, <4>1 DEF Process
        <4>3. proc[p].pc # "idle" /\ proc[p].pc # "recovering"
          BY <3>3 DEF Tasks, Checkpoints, Cleanups
        <4> QED BY <3>1, <4>2, <4>3 DEF Through, Stage, CallsStay
      <3> QED BY <3>2, <3>3
    <2>4. CASE Crash(p)
      BY <2>4, RestsShaped, Moved DEF Crash
    <2>5. CASE RenewalFails(p)
      <3>1. proc'[p] = [proc[p] EXCEPT !.lost = TRUE] /\ UNCHANGED <<owner, journal>>
        BY <2>5, Went DEF RenewalFails
      <3>2. /\ proc'[p].pc = proc[p].pc /\ proc'[p].op = proc[p].op /\ proc'[p].calls = proc[p].calls
            /\ proc'[p].at = proc[p].at /\ proc'[p].say = proc[p].say
        BY <1>1, <3>1 DEF Process
      <3> QED BY <3>1, <3>2 DEF Through, Stage, CallsStay
    <2>6. CASE RenewSession(p)
      BY <2>6 DEF RenewSession, Through, Stage, CallsStay
    <2> QED BY <1>7, <2>1, <2>2, <2>3, <2>4, <2>5, <2>6 DEF FaultStep
  <1> QED BY <1>4, <1>5, <1>6, <1>7

-----------------------------------------------------------------------------
(* Every call of the journal passes its audit after every step.            *)
LEMMA CallsSound ==
    ASSUME IInv, SoundInv, NEW p \in Procs, StepBy(p), NEW c \in Calls
    PROVE  SoundCall(c)'
  <1>1. SoundCall(c) /\ CallInv(c) /\ inv \in [Calls -> Invocation] /\ inv[c] \in Invocation
    BY DEF SoundInv, IInv, JournalInv, TypeOK
  <1>2. CASE inv'[c] = inv[c]
    BY <1>1, <1>2 DEF SoundCall, CallLoads
  <1>3. CASE inv'[c] = NoInvocation
    BY <1>3 DEF SoundCall, NoInvocation
  <1>4. CASE UNCHANGED inv
    BY <1>2, <1>4
  <1>5. CASE PersistMessages(p) \/ ReconcilePendingToolBatch(p) \/ DiscardUnstartedToolBatch(p)
    BY <1>3, <1>5 DEF PersistMessages, ReconcilePendingToolBatch, DiscardUnstartedToolBatch, PublishBatch
  <1>6. CASE BeginPendingToolBatch(p)
    <2>1. inv'[c] = [NoInvocation EXCEPT !.state = "planned"] \/ inv'[c] = inv[c]
      BY <1>6 DEF BeginPendingToolBatch
    <2>2. CASE inv'[c] = [NoInvocation EXCEPT !.state = "planned"]
      BY <2>2 DEF SoundCall, CallLoads, NoInvocation
    <2> QED BY <1>2, <2>1, <2>2
  <1>7. CASE FlushApprovalRequest(p)
    <2>1. InFlight(p, "ask") /\ owner = p /\ inv' = [inv EXCEPT ![proc[p].at].asked = TRUE]
      BY <1>7 DEF FlushApprovalRequest, MayAudit, OwnsLive
    <2>2. Stage(p) = "ask" /\ Stage(p) \in CallStages
      BY <2>1, FlightStage DEF Tasks, Checkpoints, CallStages
    <2>3. inv[proc[p].at] = Planned
      BY <2>1, <2>2, AtCall DEF Current
    <2>4. proc[p].at = c => inv'[c] = [Planned EXCEPT !.asked = TRUE]
      BY <1>1, <2>1, <2>3
    <2>5. proc[p].at # c => inv'[c] = inv[c]
      BY <1>1, <2>1
    <2> QED BY <1>2, <2>4, <2>5 DEF SoundCall, CallLoads, Planned, NoInvocation
  <1>8. CASE FlushApprovalDecision(p)
    <2>1. InFlight(p, "resolve") /\ owner = p /\ inv' = [inv EXCEPT ![proc[p].at].decision = proc[p].verdict]
      BY <1>8 DEF FlushApprovalDecision, MayAudit, OwnsLive
    <2>2. Stage(p) = "resolve" /\ Stage(p) \in CallStages
      BY <2>1, FlightStage DEF Tasks, Checkpoints, CallStages
    <2>3. inv[proc[p].at] = [Planned EXCEPT !.asked = TRUE]
      BY <2>1, <2>2, AtCall DEF Current
    <2>4. proc[p].at = c => inv'[c].asked /\ inv'[c].state = "planned" /\ ~inv'[c].begun
      BY <1>1, <2>1, <2>3 DEF Planned, NoInvocation
    <2>5. proc[p].at # c => inv'[c] = inv[c]
      BY <1>1, <2>1
    <2> QED BY <1>2, <2>4, <2>5 DEF SoundCall, CallLoads
  <1>9. CASE MarkPendingToolStarted(p)
    <2>1. /\ InFlight(p, "start") /\ owner = p
          /\ inv' = [inv EXCEPT ![proc[p].at].state = "started", ![proc[p].at].begun = TRUE]
      BY <1>9 DEF MarkPendingToolStarted, MayStart, MayAudit, OwnsLive
    <2>2. Stage(p) = "start" /\ Stage(p) \in CallStages
      BY <2>1, FlightStage DEF Tasks, Checkpoints, CallStages
    <2>3. inv[proc[p].at] = Planned \/ inv[proc[p].at] = [Planned EXCEPT !.asked = TRUE, !.decision = "allow"]
      BY <2>1, <2>2, AtCall DEF Current
    <2>4. proc[p].at = c => inv'[c].state = "started" /\ inv'[c].begun
                            /\ (inv'[c].asked <=> inv'[c].decision # "none") /\ inv'[c].decision # "deny"
      BY <1>1, <2>1, <2>3 DEF Planned, NoInvocation
    <2>5. proc[p].at # c => inv'[c] = inv[c]
      BY <1>1, <2>1
    <2>6. proc[p].at = c => inv'[c].decision \in {"none", "allow", "deny"}
      BY <1>1, <2>1, <2>3 DEF Planned, NoInvocation
    <2> QED BY <1>2, <2>4, <2>5, <2>6 DEF SoundCall, CallLoads
  <1>10. CASE CompletePendingToolInvocation(p)
    <2>1. /\ InFlight(p, "record") /\ owner = p
          /\ inv' = [inv EXCEPT ![proc[p].at] =
                        [@ EXCEPT !.state = "completed", !.origin = "tool", !.said = proc[p].say]]
      BY <1>10 DEF CompletePendingToolInvocation, MayRecord, MayAudit, OwnsLive
    <2>2. Stage(p) = "record" /\ Stage(p) \in CallStages
      BY <2>1, FlightStage DEF Tasks, Checkpoints, CallStages
    <2>3. CASE proc[p].at = c
      <3>1. /\ proc[p].say = "exact" => inv[c].begun
            /\ inv[c].state = "started" => (inv[c].asked => inv[c].decision = "allow")
            /\ inv[c].state \in {"planned", "started"}
        BY <2>1, <2>2, <2>3, AtCall DEF Current
      <3>2. /\ inv[c].asked => inv[c].decision # "none"
            /\ inv[c].decision = "allow" => inv[c].begun
            /\ inv[c].decision = "deny" => ~inv[c].begun /\ proc[p].say = "denied"
        BY <2>1, <2>2, <2>3 DEF SoundInv, RecordInv
      <3>3. inv'[c] = [inv[c] EXCEPT !.state = "completed", !.origin = "tool", !.said = proc[p].say]
        BY <1>1, <2>1, <2>3
      <3>4. /\ inv'[c].state = "completed" /\ inv'[c].origin = "tool" /\ inv'[c].said = proc[p].say
            /\ inv'[c].asked = inv[c].asked /\ inv'[c].decision = inv[c].decision /\ inv'[c].begun = inv[c].begun
        BY <1>1, <3>3 DEF Invocation
      <3>5. inv[c].begun => inv[c].state = "started"
        BY <1>1, <3>1 DEF CallInv
      <3> QED BY <1>1, <3>1, <3>2, <3>4, <3>5 DEF SoundCall, CallLoads
    <2>4. proc[p].at # c => inv'[c] = inv[c]
      BY <1>1, <2>1
    <2> QED BY <1>2, <2>3, <2>4
  <1>11. CASE ReconcileCall(p)
    <2>1. /\ owner = p /\ proc[p].pc = "recovering" /\ proc[p].calls # {}
          /\ inv' = [inv EXCEPT ![First(proc[p].calls)] = Reconciled(p, First(proc[p].calls))]
      BY <1>11 DEF ReconcileCall, MayReconcileCall, MayAudit, OwnsLive
    <2>2. CASE First(proc[p].calls) = c
      <3>1. c \in proc[p].calls
        <4>1. proc[p].calls \in SUBSET Calls
          BY DEF IInv, TypeOK, Process
        <4> QED BY <2>1, <2>2, <4>1, FirstIs
      <3>2. inv[c].state \in {"planned", "started"} /\ (c \in proc[p].unsure <=> inv[c].state = "started")
        <4>1. OwnerInv(p)
          BY <2>1 DEF IInv, ProcInv
        <4>2. c \in Batch /\ inv[c].state # "completed" /\ (c \in proc[p].unsure <=> c \in Started)
          BY <2>1, <3>1, <4>1 DEF OwnerInv
        <4> QED BY <1>1, <4>2 DEF Batch, Started, Invocation
      <3>3. inv'[c] = Reconciled(p, c)
        BY <1>1, <2>1, <2>2
      <3>4. /\ inv'[c].state = "completed" /\ inv'[c].asked = inv[c].asked /\ inv'[c].begun = inv[c].begun
            /\ inv'[c].origin = IF c \in proc[p].unsure THEN "uncertain" ELSE "not_executed"
            /\ inv'[c].said = IF c \in proc[p].unsure THEN "maybe" ELSE "notrun"
            /\ inv'[c].decision = IF inv[c].asked /\ inv[c].decision = "none" THEN "deny" ELSE inv[c].decision
        BY <1>1, <3>3 DEF Reconciled, Invocation
      <3>5. inv[c].begun <=> inv[c].state = "started"
        BY <1>1, <3>2 DEF CallInv
      <3> QED BY <1>1, <3>2, <3>4, <3>5 DEF SoundCall, CallLoads
    <2>3. First(proc[p].calls) # c => inv'[c] = inv[c]
      BY <1>1, <2>1
    <2> QED BY <1>2, <2>2, <2>3
  <1>12. CASE \/ BeginActiveAgentTurn(p) \/ PersistAnswer(p) \/ AppendDiagnostic(p) \/ AbandonActiveAgentTurn(p)
              \/ ReconcileInterruptedActiveTurn(p)
    BY <1>4, <1>12 DEF BeginActiveAgentTurn, PersistAnswer, AppendDiagnostic, AbandonActiveAgentTurn,
        ReconcileInterruptedActiveTurn
  <1> QED BY <1>4, <1>5, <1>6, <1>7, <1>8, <1>9, <1>10, <1>11, <1>12, WhoWrites, SameJournal DEF Writes

(* A call that asks stays the first of its batch.                          *)
LEMMA AskStep ==
    ASSUME Plain, IInv, SoundInv, NEW p \in Procs, StepBy(p)
    PROVE  AskFirst(p)'
  <1>1. proc'[p] \in Process
    BY ProcTypes DEF IInv
  <1>2. proc'[p].calls \subseteq Calls /\ proc'[p].calls \subseteq Nat
    BY <1>1, Limits DEF Process
  <1>3. CASE AskCalls \subseteq {1}
    BY <1>2, <1>3, Limits DEF AskFirst, Calls
  <1>4. CASE CallsStay(p)
    BY <1>4 DEF CallsStay, SoundInv, AskFirst
  <1>5. ASSUME MaxBatch = 1, NEW n \in 1..MaxBatch, ModelCallsTools(p, n) PROVE AskFirst(p)'
    <2>1. n = 1 /\ issued \in Nat
      BY <1>5 DEF IInv, TypeOK
    <2>2. proc'[p] = [proc[p] EXCEPT !.pc = "plan", !.calls = (issued + 1)..(issued + n), !.at = issued + 1]
      BY <1>5, Went DEF ModelCallsTools
    <2>3. proc'[p].calls = (issued + 1)..(issued + n)
      BY <2>2 DEF IInv, TypeOK, Process
    <2>4. \A c, d \in proc'[p].calls : c <= d
      BY <2>1, <2>3
    <2> QED BY <2>4 DEF AskFirst
  <1>6. CallsStay(p) \/ \E n \in 1..MaxBatch : ModelCallsTools(p, n)
    BY TurnRows, ToolRows, OtherRows DEF StepBy, Progress
  <1> QED BY <1>3, <1>4, <1>5, <1>6 DEF Plain

(* What a process goes to record agrees with the audit trail.              *)
LEMMA RecordSound ==
    ASSUME Plain, IInv, SoundInv, NEW p \in Procs, StepBy(p)
    PROVE  RecordInv(p)'
  <1> SUFFICES ASSUME owner' = p, Stage(p)' = "record"
               PROVE  LET i == inv'[proc'[p].at] IN
                      /\ i.asked => i.decision # "none"
                      /\ i.decision = "allow" => i.begun
                      /\ i.decision = "deny" => ~i.begun /\ proc'[p].say = "denied"
    BY DEF RecordInv
  <1>1. ProcInv(p) /\ proc[p] \in Process /\ RecordInv(p) /\ AskFirst(p) /\ inv \in [Calls -> Invocation]
    BY DEF IInv, TypeOK, SoundInv
  <1>2. ToRecord(p) \/ Through(p)
    <2>1. ASSUME NEW n \in 1..MaxBatch, ModelCallsTools(p, n) PROVE FALSE
      <3>1. proc'[p] = [proc[p] EXCEPT !.pc = "plan", !.calls = (issued + 1)..(issued + n), !.at = issued + 1]
        BY <2>1, Went DEF ModelCallsTools
      <3>2. proc'[p].pc = "plan"
        BY <1>1, <3>1 DEF Process
      <3> QED BY <3>2 DEF Stage
    <2> QED BY <2>1, TurnRows, ToolRows, OtherRows DEF StepBy, Progress
  <1>3. CASE Through(p)
    BY <1>1, <1>3, SameJournal DEF Through, RecordInv
  <1>4. CASE HarnessFails(p)
    <2>1. proc[p].pc \in {"call", "approve", "decided"} /\ owner = p /\ UNCHANGED journal
      BY <1>4 DEF HarnessFails
    <2>2. Stage(p) = proc[p].pc /\ Stage(p) \in CallStages
      BY <2>1 DEF Stage, CallStages
    <2>3. proc[p].at # First(proc[p].calls)
      <3>1. Shaped(p, TurnFailed(p, proc[p]))
        BY <1>1, <2>1, FailuresShaped
      <3> QED BY <1>4, <3>1, Moved DEF HarnessFails
    <2>4. proc'[p] = [proc[p] EXCEPT !.pc = "record", !.say = "notrun", !.doom = TRUE]
      BY <1>4, <2>3, Went DEF HarnessFails
    <2>5. proc'[p].at = proc[p].at
      BY <1>1, <2>4 DEF Process
    <2>6. proc[p].at \notin AskCalls
      <3>1. proc[p].at \in proc[p].calls /\ proc[p].calls \in SUBSET Calls
        BY <1>1, <2>1, <2>2 DEF ProcInv, OwnerInv, Process
      <3>2. PICK f \in proc[p].calls : f = First(proc[p].calls) /\ \A d \in proc[p].calls : f <= d
        BY <3>1, FirstIs
      <3>3. proc[p].at \in AskCalls => proc[p].at <= f
        BY <1>1, <2>1, <3>1 DEF AskFirst
      <3>4. f <= proc[p].at /\ f \in Nat /\ proc[p].at \in Nat
        BY <3>1, <3>2, Limits
      <3>5. f # proc[p].at
        BY <2>3, <3>2
      <3> QED BY <3>3, <3>4, <3>5
    <2>7. inv[proc[p].at] = Planned
      BY <2>1, <2>2, <2>6, AtCall DEF Current
    <2> QED BY <2>1, <2>5, <2>7, SameJournal DEF Planned, NoInvocation
  <1>5. CASE RejectCall(p)
    <2>1. proc[p].pc = "call" /\ owner = p /\ UNCHANGED journal
      BY <1>5 DEF RejectCall
    <2>2. Stage(p) = "call" /\ Stage(p) \in CallStages
      BY <2>1 DEF Stage, CallStages
    <2>3. inv[proc[p].at] = Planned
      BY <2>1, <2>2, AtCall DEF Current
    <2>4. proc'[p] = [proc[p] EXCEPT !.pc = "record", !.say = "notrun"]
      BY <1>5, Went DEF RejectCall
    <2>5. proc'[p].at = proc[p].at
      BY <1>1, <2>4 DEF Process
    <2> QED BY <2>1, <2>3, <2>5, SameJournal DEF Planned, NoInvocation
  <1>6. CASE ApplyDecision(p)
    <2>1. proc[p].pc = "decided" /\ owner = p /\ UNCHANGED journal
      BY <1>6 DEF ApplyDecision
    <2>2. Stage(p) = "decided" /\ Stage(p) \in CallStages
      BY <2>1 DEF Stage, CallStages
    <2>3. inv[proc[p].at] = [Planned EXCEPT !.asked = TRUE, !.decision = proc[p].verdict]
      BY <2>1, <2>2, AtCall DEF Current
    <2>4. ~Go(p, [proc[p] EXCEPT !.pc = "start"])
      <3> SUFFICES ASSUME proc'[p] = [proc[p] EXCEPT !.pc = "start"] PROVE FALSE
        BY Went
      <3>1. proc'[p].pc = "start"
        BY <1>1 DEF Process
      <3> QED BY <3>1 DEF Stage
    <2>5. PICK said \in Denials : /\ proc[p].verdict = "deny"
                                  /\ Go(p, [proc[p] EXCEPT !.pc = "record", !.say = said, !.doom = said # "denied"])
      BY <1>6, <2>4 DEF ApplyDecision
    <2>6. proc'[p] = [proc[p] EXCEPT !.pc = "record", !.say = said, !.doom = said # "denied"]
      BY <2>5, Went
    <2>7. proc'[p].at = proc[p].at /\ proc'[p].say = said /\ said = "denied"
      BY <1>1, <2>6 DEF Process, Plain
    <2> QED BY <2>1, <2>3, <2>5, <2>7, SameJournal DEF Planned, NoInvocation
  <1>7. CASE InvokeCancelled(p) \/ ToolReturns(p)
    <2>1. proc[p].pc \in {"invoke", "ran"} /\ owner = p /\ UNCHANGED journal
      BY <1>7 DEF InvokeCancelled, ToolReturns
    <2>2. Stage(p) \in {"invoke", "ran"} /\ Stage(p) \in CallStages
      BY <2>1 DEF Stage, CallStages
    <2>3. inv[proc[p].at].state = "started" /\ CallInv(proc[p].at) /\ inv[proc[p].at].decision # "deny"
          /\ (inv[proc[p].at].asked => inv[proc[p].at].decision = "allow")
      BY <2>1, <2>2, AtCall DEF Current
    <2>4. proc'[p].at = proc[p].at
      <3>1. PICK said, doom : Go(p, [proc[p] EXCEPT !.pc = "record", !.say = said, !.doom = doom])
        BY <1>7 DEF InvokeCancelled, ToolReturns
      <3>2. proc'[p] = [proc[p] EXCEPT !.pc = "record", !.say = said, !.doom = doom]
        BY <3>1, Went
      <3> QED BY <1>1, <3>2 DEF Process
    <2> QED BY <2>1, <2>3, <2>4, SameJournal DEF CallInv
  <1>8. CASE CompletePendingToolInvocation(p)
    <2>1. /\ InFlight(p, "record") /\ owner = p
          /\ inv' = [inv EXCEPT ![proc[p].at] =
                        [@ EXCEPT !.state = "completed", !.origin = "tool", !.said = proc[p].say]]
      BY <1>8 DEF CompletePendingToolInvocation, MayRecord, MayAudit, OwnsLive
    <2>2. Stage(p) = "record" /\ Stage(p) \in CallStages
      BY <2>1, FlightStage DEF Tasks, Checkpoints, CallStages
    <2>3. PICK doom : Settle(p, AfterResult([proc[p] EXCEPT !.doom = doom]))
      BY <1>8 DEF CompletePendingToolInvocation
    <2>4. proc'[p] = AfterResult([proc[p] EXCEPT !.doom = doom])
      <3>1. \/ proc'[p] = AfterResult([proc[p] EXCEPT !.doom = doom]) \/ proc'[p] = Dropped(p)
            \/ proc'[p] = [proc[p] EXCEPT !.op = "abandon"] /\ proc[p].pc = "idle"
        BY <2>3 DEF Settle, IInv, TypeOK
      <3>2. proc'[p] # Dropped(p)
        BY RestsShaped DEF Shaped, Stage
      <3>3. ~(proc'[p] = [proc[p] EXCEPT !.op = "abandon"] /\ proc[p].pc = "idle")
        BY <1>1 DEF Stage, Process
      <3> QED BY <3>1, <3>2, <3>3
    <2>5. Rest([proc[p] EXCEPT !.doom = doom]) = {d \in proc[p].calls : d > proc[p].at}
      BY <1>1 DEF Rest, Process
    <2>6. PICK rest : rest = {d \in proc[p].calls : d > proc[p].at}
      OBVIOUS
    <2>7. rest # {} /\ proc'[p].at = First(rest)
      <3>1. proc'[p].pc # "messages"
        BY DEF Stage
      <3>2. \/ rest = {} /\ proc'[p].pc = "messages"
            \/ rest # {} /\ proc'[p].at = First(rest)
        BY <1>1, <2>4, <2>5, <2>6 DEF AfterResult, Process
      <3> QED BY <3>1, <3>2
    <2>8. proc'[p].at \in rest
      <3>1. rest \in SUBSET Calls
        BY <1>1, <2>6 DEF Process
      <3> QED BY <2>7, <3>1, FirstIs
    <2>9. PICK d \in Calls : d = proc'[p].at /\ d > proc[p].at /\ d \in proc[p].calls
      BY <1>1, <2>6, <2>8 DEF Process
    <2>10. inv[d] = Planned
      BY <1>1, <2>1, <2>2, <2>9 DEF ProcInv, OwnerInv
    <2>11. d # proc[p].at
      <3>1. proc[p].at \in Calls
        BY <2>1, <2>2, AtCall
      <3> QED BY <2>9, <3>1, Limits
    <2>12. inv'[d] = Planned
      BY <1>1, <2>1, <2>10, <2>11
    <2> QED BY <2>9, <2>12 DEF Planned, NoInvocation
  <1> QED BY <1>2, <1>3, <1>4, <1>5, <1>6, <1>7, <1>8 DEF ToRecord

(* SoundInv is inductive relative to IInv for plain configurations. *)
LEMMA SoundStep == Plain /\ IInv /\ SoundInv /\ [Next]_vars => SoundInv'
  <1> SUFFICES ASSUME Plain, IInv, SoundInv, [Next]_vars PROVE SoundInv'
    OBVIOUS
  <1>1. ASSUME NEW p \in Procs, StepBy(p) PROVE SoundInv'
    <2>1. ASSUME NEW q \in Procs \ {p} PROVE RecordInv(q)' /\ AskFirst(q)'
      <3>1. RecordInv(q) /\ AskFirst(q)
        BY DEF SoundInv
      <3>2. proc'[q] = proc[q]
        BY <1>1, OwnRow DEF IInv
      <3>3. owner' = q => owner = q /\ UNCHANGED journal
        BY <1>1, OwnerMoves, OwnerWrites, Limits DEF IInv
      <3> QED BY <3>1, <3>2, <3>3, SameJournal DEF RecordInv, AskFirst, Stage
    <2> QED BY <1>1, <2>1, CallsSound, RecordSound, AskStep DEF SoundInv
  <1>2. CASE Expire \/ Stall \/ TranscriptMoves \/ UNCHANGED vars
    <2>1. UNCHANGED journal /\ owner' \in {owner, NoOne}
      BY <1>2 DEF Expire, Stall, TranscriptMoves, vars
    <2>2. ASSUME NEW c \in Calls PROVE SoundCall(c)'
      BY <2>1, SameJournal DEF SoundInv, SoundCall, CallLoads
    <2>3. ASSUME NEW p \in Procs PROVE RecordInv(p)' /\ AskFirst(p)'
      <3>1. proc[p] \in Process /\ (proc'[p] = proc[p] \/ proc'[p] = [proc[p] EXCEPT !.fresh = FALSE])
        BY <1>2 DEF Expire, Stall, TranscriptMoves, vars, IInv, TypeOK
      <3>2. /\ proc'[p].pc = proc[p].pc /\ proc'[p].op = proc[p].op /\ proc'[p].at = proc[p].at
            /\ proc'[p].say = proc[p].say /\ proc'[p].calls = proc[p].calls
        BY <3>1 DEF Process
      <3>3. owner' = p => owner = p
        BY <2>1, Limits
      <3> QED BY <2>1, <3>2, <3>3, SameJournal DEF SoundInv, RecordInv, AskFirst, Stage
    <2> QED BY <2>2, <2>3 DEF SoundInv
  <1> QED BY <1>1, <1>2 DEF Next, StepBy

(* Whenever a process dies, drops its future or loses its lease, the batch *)
(* it left can be loaded, hence reconciled by the next owner: where every  *)
(* approval is asked for the first call of its batch and a denial is told  *)
(* as such.                                                                *)
THEOREM JournalStaysReadable ==
    ASSUME Plain
    PROVE  Spec => []JournalIsSound
  <1>1. Init => SoundInv
    <2> SUFFICES ASSUME Init PROVE SoundInv
      OBVIOUS
    <2>1. ASSUME NEW c \in Calls PROVE SoundCall(c)
      BY DEF Init, SoundCall, NoInvocation
    <2>2. ASSUME NEW p \in Procs PROVE RecordInv(p) /\ AskFirst(p)
      BY DEF Init, RecordInv, AskFirst, Stage, NoProcess
    <2> QED BY <2>1, <2>2 DEF SoundInv
  <1>2. IInv /\ SoundInv /\ [Next]_vars => SoundInv'
    BY SoundStep
  <1>3. IInv /\ SoundInv => JournalIsSound
    <2> SUFFICES ASSUME IInv, SoundInv, pendTurn # 0 PROVE Loadable
      BY DEF JournalIsSound, JournalLoads, IInv
    <2>1. active = pendTurn
      BY DEF IInv, JournalInv, TurnsInv
    <2>2. \A c \in Batch : CallLoads(c)
      BY DEF SoundInv, SoundCall, Batch
    <2>3. ASSUME NEW c \in Batch, NEW d \in Batch, c < d, inv[c].state # "completed"
          PROVE  inv[d].state = "planned" /\ ~inv[d].asked
      <3>1. inv[c] \in Invocation /\ c \in Calls /\ d \in Calls /\ inv[c].state # "none" /\ inv[d].state # "none"
        BY DEF Batch, IInv, TypeOK
      <3>2. inv[c].state \in {"planned", "started"}
        BY <2>3, <3>1 DEF Invocation
      <3>3. inv[d] = [NoInvocation EXCEPT !.state = "planned"]
        BY <2>3, <3>1, <3>2 DEF IInv, JournalInv, InOrder
      <3> QED BY <3>3 DEF NoInvocation
    <2> QED BY <2>1, <2>2, <2>3 DEF Loadable
  <1> QED BY <1>1, <1>2, <1>3, Invariance, PTL DEF Spec

=============================================================================
