------------------------------ MODULE AgentTurn ------------------------------
(* One agent turn after another: the model rounds, the reconciliation of each *)
(* stream with its terminal response, the tool batch, and what the checkpoint *)
(* sink of a durable session accepts within the budget of one invocation.     *)
(* The journal under the checkpoints, and what follows a crash, is module     *)
(* AgentJournal.                                                              *)
(*                                                                            *)
(* Sizes are in units: a piece of text, the arguments of a call and an        *)
(* approval reason are one unit each, and so is everything else an event says.*)
(* UUIDs are numbers, and a new one is any that is free.  Tools that are      *)
(* unknown, not enabled, or called with arguments their schema refuses are    *)
(* the Ghosts.  Reasoning is streamed and reconciled as text is; it, progress *)
(* events, usage and options are left out.                                    *)
EXTENDS Integers, Sequences, FiniteSets, SequencesExt

CONSTANTS
    Tools,              \* the enabled tools, called as their schemas ask
    Ghosts,             \* names the harness answers without a tool
    Asks,               \* the tools that require approval
    Interruptible,      \* those whose invocation cancellation may drop
    SourceIds,          \* call identifiers the model uses
    Pieces,             \* pieces of text
    OutputSizes,        \* what a tool may return
    InitialHistories,   \* histories the session may be resumed with
    RoundLimits,        \* what max_model_rounds may be; 0 for none
    MaxMessages, MaxToolCallsPerRound, MaxToolOutput, MaxTotalToolOutput,
    MaxTotalToolArguments, MaxModelOutput, MaxTotalModelOutput,
    MaxInvocationEvents, MaxInvocationBytes,
    MaxTurns,           \* bound: turns
    MaxFaults           \* bound: refusals of the event sink and of storage

ASSUME AgentTurnConstants ==
    /\ Tools \cap Ghosts = {} /\ Asks \subseteq Tools /\ Interruptible \subseteq Tools
    /\ \A n \in {MaxMessages, MaxToolCallsPerRound, MaxToolOutput,
                 MaxTotalToolOutput, MaxTotalToolArguments, MaxModelOutput,
                 MaxTotalModelOutput, MaxInvocationEvents, MaxInvocationBytes,
                 MaxTurns, MaxFaults} : n \in Nat
    /\ OutputSizes \subseteq Nat \ {0} /\ RoundLimits \subseteq Nat

VARIABLES
    hist,       \* AgentSession.history
    issued,     \* AgentSession.issued_tool_ids
    turn,       \* run_message_core and what it calls (see NoTurn)
    durable,    \* DurableCheckpointState (see NoCheckpoints)
    sink,       \* what the event consumer saw of this round, and of the end
    cancelled,  \* the turn's AgentCancellation
    poisoned,   \* DurableAgentSession.poisoned
    limit,      \* authority.max_model_rounds
    invoked,    \* history: the calls whose tool was entered
    turns, faults

vars == <<hist, issued, turn, durable, sink, cancelled, poisoned, limit, invoked,
          turns, faults>>
session == <<hist, issued, poisoned, limit, turns>>

-----------------------------------------------------------------------------
(* Messages. *)

User == [role |-> "user"]
Assistant(text, calls) == [role |-> "assistant", text |-> text, calls |-> calls]
Result(id, said) == [role |-> "tool", id |-> id, said |-> said]

NoResponse == [text |-> <<>>, calls |-> <<>>, finish |-> "none"]

(* pc: where the turn waits.  pend: pending_messages.  text, source and       *)
(* calls: streamed in this round.  fresh: issued_this_turn.                   *)
(* spoken, arguments, output: the byte counters of the turn.  at: the call of *)
(* the batch that is being executed.  bytes: the size of the results so far.  *)
(* outcome: how the last turn ended.                                          *)
NoTurn ==
    [pc |-> "idle", round |-> 0, pend |-> <<>>, text |-> <<>>, source |-> <<>>,
     calls |-> <<>>, fresh |-> {}, response |-> NoResponse,
     spoken |-> 0, arguments |-> 0, output |-> 0, at |-> 0, results |-> <<>>,
     bytes |-> 0, error |-> "none", outcome |-> "none"]

(* live: events emitted since the last checkpoint, with their bytes; batch:   *)
(* those kept with the pending batch, and whether a call of it has left the   *)
(* planned state; events, bytes, messages: persisted.                         *)
NoCheckpoints ==
    [live |-> 0, liveBytes |-> 0, pending |-> FALSE, touched |-> FALSE, batch |-> 0,
     batchBytes |-> 0, events |-> 0, bytes |-> 0, messages |-> 0, failed |-> FALSE]

NoSink == [text |-> <<>>, calls |-> <<>>, ends |-> <<>>]

Ids == 1..((MaxTotalToolArguments + 1) * MaxTurns)

ToolIds(s) == {s[i].id : i \in DOMAIN s}

(* The identifiers of calls before position i of a history, and those among   *)
(* them that no result has answered.                                          *)
Issued(h, i) == UNION {ToolIds(h[j].calls) : j \in {k \in 1..(i - 1) : h[k].role = "assistant"}}

Unanswered(h, i) ==
    Issued(h, i) \ {h[j].id : j \in {k \in 1..(i - 1) : h[k].role = "tool"}}

(* validate_history: results follow their calls before anything else, each    *)
(* once, and identifiers are never used twice.                                *)
ValidMessage(h, i) ==
    CASE h[i].role = "tool" -> h[i].id \in Unanswered(h, i)
      [] h[i].role = "user" -> Unanswered(h, i) = {}
      [] h[i].role = "assistant" ->
            /\ Unanswered(h, i) = {}
            /\ h[i].text # <<>> \/ h[i].calls # <<>>
            /\ Len(h[i].calls) <= MaxToolCallsPerRound
            /\ ToolIds(h[i].calls) \cap Issued(h, i) = {}
            /\ Cardinality(ToolIds(h[i].calls)) = Len(h[i].calls)

ValidHistory(h) ==
    Unanswered(h, Len(h) + 1) = {} /\ \A i \in DOMAIN h : ValidMessage(h, i)

(* The builder accepts valid histories only; new identifiers are not theirs.  *)
ASSUME HistoriesConstants ==
    \A h \in InitialHistories :
        /\ h = [i \in 1..Len(h) |-> h[i]] /\ Len(h) \in Nat
        /\ ValidHistory(h) /\ Issued(h, Len(h) + 1) \cap Ids = {}

Init ==
    /\ hist \in InitialHistories /\ issued = Issued(hist, Len(hist) + 1)
    /\ turn = NoTurn /\ durable = NoCheckpoints
    /\ sink = NoSink /\ cancelled = FALSE /\ poisoned = FALSE /\ invoked = {}
    /\ turns = 0 /\ faults = 0 /\ limit \in RoundLimits

(* coalesce_adjacent_user_messages, as far as the length of the request goes. *)
Coalesced(messages) ==
    Cardinality({i \in DOMAIN messages :
        ~(messages[i].role = "user" /\ i > 1 /\ messages[i - 1].role = "user")})

-----------------------------------------------------------------------------
(* Events and checkpoints. *)

(* The consumer may refuse an event, and storage a checkpoint.                *)
Refuse == faults < MaxFaults /\ faults' = faults + 1
Accept == faults' = faults

(* An event that durable_audit_event keeps joins the audit once the consumer  *)
(* has taken it.                                                              *)
Audited(n, bytes) == [durable EXCEPT !.live = @ + n, !.liveBytes = @ + bytes]

(* A checkpoint of the pending batch takes the audit so far, and more.        *)
Flushed(d, n, bytes) ==
    [d EXCEPT !.batch = @ + d.live + n, !.batchBytes = @ + d.liveBytes + bytes,
              !.live = 0, !.liveBytes = 0]

(* The bytes of messages: each is one unit and what it carries.               *)
AssistantBytes == 1 + Len(turn.response.text) + Len(turn.calls)

(* check_budget for n more events.                                            *)
WithinBudget(n, bytes) ==
    /\ durable.events + n <= MaxInvocationEvents
    /\ durable.bytes + bytes <= MaxInvocationBytes

(* What a turn leaves behind: the adapter is reusable unless a checkpoint     *)
(* failed after something was persisted or a call left the planned state.     *)
Over(outcome, memory) ==
    /\ turn' = [NoTurn EXCEPT !.outcome = outcome]
    /\ poisoned' = (durable'.failed /\ (durable'.messages # 0 \/ durable'.touched))
    /\ hist' = memory

(* An error on the way: fail_turn! still tells the consumer, unless the       *)
(* consumer is what failed.                                                   *)
Fails(error) ==
    /\ turn' = [turn EXCEPT !.pc = "failing", !.error = error]
    /\ UNCHANGED session

(* A sink error is returned as it is.                                         *)
SinkRefuses ==
    /\ Refuse
    /\ Fails("sink")
    /\ UNCHANGED <<durable, sink, cancelled, invoked>>

CheckpointRefused ==
    /\ durable' = [durable EXCEPT !.failed = TRUE]
    /\ Fails("checkpoint")
    /\ UNCHANGED <<sink, cancelled, invoked>>

-----------------------------------------------------------------------------
(* run_message_core *)

(* A turn may be started with a cancellation that already fired.  The         *)
(* PreflightInput checkpoint comes first.                                     *)
RunMessage ==
    /\ turn.pc = "idle" /\ ~poisoned /\ turns < MaxTurns
    /\ turns' = turns + 1 /\ sink' = NoSink
    /\ cancelled' \in BOOLEAN
    /\ \/ Accept /\ durable' = NoCheckpoints
          /\ turn' = [NoTurn EXCEPT !.pc = "begin", !.pend = <<User>>]
       \/ Refuse /\ durable' = [NoCheckpoints EXCEPT !.failed = TRUE]
          /\ turn' = [NoTurn EXCEPT !.outcome = "checkpoint"]
    /\ UNCHANGED <<hist, issued, poisoned, limit, invoked>>

Begin ==
    /\ turn.pc = "begin"
    /\ \/ cancelled /\ Fails("cancelled") /\ Accept
          /\ UNCHANGED <<durable, sink, cancelled, invoked>>
       \/ ~cancelled /\ Accept /\ durable' = Audited(1, 1)
          /\ turn' = [turn EXCEPT !.pc = "round"]
          /\ UNCHANGED <<session, sink, cancelled, invoked>>
       \/ ~cancelled /\ SinkRefuses

(* The top of the loop: ModelStarted, generation_request and the stream,      *)
(* which the client may refuse as well.                                       *)
StartRound ==
    /\ turn.pc = "round"
    /\ \/ /\ Accept /\ durable' = Audited(1, 1)
          /\ sink' = [NoSink EXCEPT !.ends = sink.ends]
          /\ UNCHANGED <<cancelled, invoked>>
          /\ \/ Fails("request")
             \/ /\ Coalesced(hist \o turn.pend) <= MaxMessages
                /\ turn' = [turn EXCEPT !.pc = "stream", !.round = @ + 1, !.text = <<>>,
                                        !.source = <<>>, !.calls = <<>>,
                                        !.response = NoResponse]
                /\ UNCHANGED session
       \/ SinkRefuses

(* After ModelCompleted the terminal response decides.                        *)
Answered ==
    /\ turn.pc = "answered"
    /\ \/ /\ Accept /\ durable' = Audited(1, 1)
          /\ UNCHANGED <<sink, cancelled, invoked>>
          /\ LET calls == turn.calls # <<>>
                 finish == turn.response.finish
             IN  CASE finish = "aborted" \/ calls # (finish = "tool_calls") -> Fails("protocol")
                   [] calls /\ finish = "tool_calls" /\ turn.round = limit ->
                        Fails("rounds")
                   [] OTHER -> /\ turn' = [turn EXCEPT !.pc = IF calls THEN "plan" ELSE "answer"]
                               /\ UNCHANGED session
       \/ SinkRefuses

(* The answer: the checkpoint closes the turn, then memory follows, then the  *)
(* consumer is told.  A refused checkpoint leaves without a terminal event.   *)
AnswerEvents == Len(turn.pend) + durable.live + 2
AnswerBytes == Len(turn.pend) + durable.liveBytes + 1 + AssistantBytes

PersistAnswer ==
    /\ turn.pc = "answer"
    /\ UNCHANGED <<cancelled, limit, invoked, turns>>
    /\ \/ /\ WithinBudget(AnswerEvents, AnswerBytes)
          /\ durable' = [NoCheckpoints EXCEPT !.messages = durable.messages + 1]
          /\ issued' = issued \cup turn.fresh
          /\ \/ Accept /\ Over("completed", hist \o Append(turn.pend, Assistant(turn.response.text, <<>>)))
                /\ sink' = [NoSink EXCEPT !.ends = <<"completed">>]
             \/ Refuse /\ Over("delivery", hist \o Append(turn.pend, Assistant(turn.response.text, <<>>)))
                /\ sink' = NoSink
       \/ /\ (WithinBudget(AnswerEvents, AnswerBytes) /\ Refuse)
                \/ (~WithinBudget(AnswerEvents, AnswerBytes) /\ Accept)
          /\ durable' = [durable EXCEPT !.failed = TRUE]
          /\ Over("checkpoint", hist) /\ sink' = NoSink
          /\ UNCHANGED issued

(* fail_turn!: exactly one terminal event, unless the consumer failed.        *)
EmitTerminalError ==
    /\ turn.pc = "failing"
    /\ UNCHANGED <<issued, cancelled, limit, invoked, turns, durable>>
    /\ LET final == IF turn.error = "cancelled" THEN "cancelled" ELSE "failed"
       IN  \/ turn.error = "sink" /\ Accept /\ Over("sink", hist) /\ sink' = NoSink
           \/ /\ turn.error # "sink" /\ Accept
              /\ Over(turn.error, hist)
              /\ sink' = [NoSink EXCEPT !.ends = Append(sink.ends, final)]
           \/ turn.error # "sink" /\ Refuse /\ Over("sink", hist) /\ sink' = NoSink

-----------------------------------------------------------------------------
(* stream_model_round: cancellation wins every tie with the stream. *)

Streaming == turn.pc = "stream" /\ ~cancelled

(* Every early exit cancels the generation and waits for it.                  *)
Breaks(error) ==
    /\ turn' = [turn EXCEPT !.pc = "closing", !.error = error, !.text = <<>>, !.source = <<>>,
                            !.calls = <<>>, !.response = NoResponse]
    /\ sink' = [NoSink EXCEPT !.ends = sink.ends]
    /\ UNCHANGED <<session, durable, cancelled, invoked>>

(* A stream error, a call whose identifier, name or arguments have no valid   *)
(* form, and anything after the terminal response end the round.              *)
StreamBreaks == Streaming /\ Breaks("protocol") /\ Accept

StreamCancelled == turn.pc = "stream" /\ cancelled /\ Breaks("cancelled") /\ Accept

(* append_model_delta: so many more units fit the round and the turn.         *)
Fits(n) ==
    /\ Len(turn.text) + n <= MaxModelOutput
    /\ turn.spoken + n <= MaxTotalModelOutput

StreamDelta(piece) ==
    /\ Streaming /\ turn.response = NoResponse
    /\ \/ /\ Fits(1) /\ Accept
          /\ turn' = [turn EXCEPT !.text = Append(@, piece), !.spoken = @ + 1]
          /\ sink' = [sink EXCEPT !.text = Append(@, piece)]
          /\ UNCHANGED <<session, durable, cancelled, invoked>>
       \/ Fits(1) /\ Refuse /\ Breaks("sink")
       \/ ~Fits(1) /\ Accept /\ Breaks("protocol")

(* reidentify_call for the calls of c, in order: the limits, and a new        *)
(* identifier for each.                                                       *)
Admissible(c) ==
    /\ turn.arguments + Len(c) <= MaxTotalToolArguments
    /\ Len(turn.source \o c) <= MaxToolCallsPerRound
    /\ \A i, k \in DOMAIN (turn.source \o c) :
        (turn.source \o c)[i].id = (turn.source \o c)[k].id => i = k

Taken == issued \cup turn.fresh

NewIds(n) == CHOOSE s \in [1..n -> Ids \ Taken] : IsInjective(s)

Reidentified(c) == [i \in DOMAIN c |-> [id |-> NewIds(Len(c))[i], tool |-> c[i].tool]]

StreamCall(id, tool) ==
    LET c == <<[id |-> id, tool |-> tool]>>
        call == Reidentified(c)
    IN  /\ Streaming /\ turn.response = NoResponse
        /\ \/ /\ Admissible(c) /\ Accept
              /\ turn' = [turn EXCEPT !.source = @ \o c, !.calls = @ \o call,
                                      !.fresh = @ \cup ToolIds(call), !.arguments = @ + 1]
              /\ durable' = Audited(1, 2)
              /\ sink' = [sink EXCEPT !.calls = @ \o call]
              /\ UNCHANGED <<session, cancelled, invoked>>
           \/ Admissible(c) /\ Refuse /\ Breaks("sink")
           \/ ~Admissible(c) /\ Accept /\ Breaks("protocol")

(* The terminal response, after validate_terminal_response.                   *)
StreamTerminal(response) ==
    /\ Streaming /\ turn.response = NoResponse
    /\ Len(response.text) <= MaxModelOutput
    /\ Len(response.calls) <= Min({MaxToolCallsPerRound, MaxTotalToolArguments})
    /\ turn' = [turn EXCEPT !.response = response]
    /\ Accept
    /\ UNCHANGED <<session, durable, sink, cancelled, invoked>>

(* Mutant: the rest of the text is not announced.                             *)
MissingNothing == <<>>

(* What the stream left out of the terminal response.                         *)
Missing == SubSeq(turn.response.text, Len(turn.text) + 1, Len(turn.response.text))

(* The stream agrees with its terminal response: the text is a prefix, and    *)
(* calls that were streamed are exactly those of the response.                *)
Reconciles ==
    /\ turn.response # NoResponse
    /\ IsPrefix(turn.text, turn.response.text) /\ Fits(Len(Missing))
    /\ \/ turn.calls = <<>> /\ Admissible(turn.response.calls)
       \/ turn.calls # <<>> /\ turn.source = turn.response.calls
    /\ turn.response.calls # <<>> \/ turn.response.text # <<>>

StreamEnds ==
    LET late == IF turn.calls = <<>> THEN Reidentified(turn.response.calls) ELSE <<>>
    IN  /\ Streaming
        /\ \/ /\ Reconciles /\ Accept
              /\ turn' = [turn EXCEPT !.pc = "answered", !.text = <<>>, !.source = <<>>,
                                      !.spoken = @ + Len(Missing), !.response.calls = <<>>,
                                      !.calls = @ \o late, !.fresh = @ \cup ToolIds(late),
                                      !.arguments = @ + Len(late)]
              /\ durable' = Audited(Len(late), 2 * Len(late))
              /\ sink' = [sink EXCEPT !.text = @ \o Missing, !.calls = @ \o late]
              /\ UNCHANGED <<session, cancelled, invoked>>
           \/ Reconciles /\ Refuse /\ Breaks("sink")
           \/ ~Reconciles /\ Accept /\ Breaks("protocol")

(* cancel_and_wait; a failed cleanup wraps the first error.                   *)
CloseStream ==
    /\ turn.pc = "closing"
    /\ \/ Accept /\ turn' = [turn EXCEPT !.pc = "failing"]
       \/ Refuse /\ turn' = [turn EXCEPT !.pc = "failing", !.error = "cleanup"]
    /\ UNCHANGED <<session, durable, sink, cancelled, invoked>>

-----------------------------------------------------------------------------
(* The tool batch. *)

(* start_tool_batch: what the batch may still add at most.  Each call has two *)
(* approval events, its start, its completion and its result; outputs are     *)
(* written twice.                                                             *)
PlannedEvents == Len(turn.pend) + durable.live + 1
PlannedBytes == Len(turn.pend) + durable.liveBytes + AssistantBytes

(* Mutant: the result message of a call is not counted.                       *)
ReservedEventsShort(n) == PlannedEvents + 4 * n

ReservedEvents(n) == PlannedEvents + 5 * n
ReservedBytes(n) == PlannedBytes + 2 * MaxTotalToolOutput + 2 * n + (2 + 3) * n + n

StartToolBatch ==
    /\ turn.pc = "plan"
    /\ LET n == Len(turn.calls)
           fits == WithinBudget(ReservedEvents(n), ReservedBytes(n))
       IN  \/ /\ fits /\ Accept
              /\ durable' = [Flushed(durable, 0, 0) EXCEPT !.pending = TRUE]
              /\ turn' = [turn EXCEPT !.pc = "call", !.at = 1, !.results = <<>>, !.bytes = 0]
              /\ UNCHANGED <<session, sink, cancelled, invoked>>
           \/ fits /\ Refuse /\ CheckpointRefused
           \/ ~fits /\ Accept /\ CheckpointRefused

Call == turn.calls[turn.at]
Rest == SubSeq(turn.calls, turn.at + 1, Len(turn.calls))

(* A checkpoint that records n completions, of so many bytes.                 *)
Recorded(d, n, bytes) ==
    [Flushed(d, n, bytes) EXCEPT !.touched = @ \/ n > 0]

(* A result joins the batch; its text has so many bytes.                      *)
WithResult(said, bytes) ==
    [turn EXCEPT !.results = Append(@, Result(Call.id, said)), !.bytes = @ + 1 + bytes]

(* synthetic_tool_completion for the calls after this one, which are not      *)
(* executed; each is a checkpoint of its own.                                 *)
EndsBatch(t, d, error) ==
    /\ turn' = [t EXCEPT !.pc = "commit", !.error = error, !.bytes = @ + Len(Rest),
                         !.results = @ \o [i \in DOMAIN Rest |-> Result(Rest[i].id, "notrun")]]
    /\ durable' = Recorded(d, Len(Rest), Len(Rest))

(* A failure before the invocation.  Nothing is committed when the batch has  *)
(* no result yet.                                                             *)
CallFails(error, d) ==
    /\ UNCHANGED <<session, sink, cancelled, invoked>>
    /\ IF turn.results = <<>>
       THEN durable' = d /\ turn' = [turn EXCEPT !.pc = "failing", !.error = error]
       ELSE EndsBatch(WithResult("notrun", 0), Recorded(d, 1, 1), error)

(* finalize_tool_output: an output over a limit is replaced and ends the      *)
(* batch.  The completion is recorded with its result, then announced, and a  *)
(* consumer that refuses it ends the batch too.                               *)
Oversized(size) == size > MaxToolOutput \/ turn.output + size > MaxTotalToolOutput

Finalize(said, size, error) ==
    LET kept == IF Oversized(size) THEN 0 ELSE size
        t == [WithResult(IF Oversized(size) THEN "omitted" ELSE said, kept)
                EXCEPT !.output = @ + kept]
        d == Recorded(durable, 1, 1 + kept)
        ends == IF error = "none" /\ Oversized(size) THEN "fatal" ELSE error
    IN  /\ UNCHANGED <<session, sink, cancelled, invoked>>
        /\ \/ Accept /\ ends # "none" /\ EndsBatch(t, d, ends)
           \/ Refuse /\ EndsBatch(t, d, "sink")
           \/ /\ Accept /\ ends = "none" /\ durable' = d
              /\ turn' = [t EXCEPT !.pc = IF Rest = <<>> THEN "commit" ELSE "call",
                                   !.at = IF Rest = <<>> THEN @ ELSE @ + 1]

(* Mutant: an approval that is awaited is not cancelled.                      *)
CallCancelledFirst ==
    /\ turn.pc \in {"call", "allowed", "denied"} /\ cancelled
    /\ CallFails("cancelled", durable) /\ Accept

(* execute_tool_call looks at the cancellation first, and again after the     *)
(* approval.                                                                  *)
CallCancelled ==
    /\ turn.pc \in {"call", "asked", "allowed", "denied"} /\ cancelled
    /\ CallFails("cancelled", durable) /\ Accept

RejectCall ==
    /\ turn.pc = "call" /\ ~cancelled /\ Call.tool \in Ghosts
    /\ Finalize("rejected", 1, "none")

(* approve_tool: the request is announced and flushed before the policy is    *)
(* asked.  The tool may give an invalid reason.                               *)
RequestApproval ==
    /\ turn.pc = "call" /\ ~cancelled /\ Call.tool \in Asks
    /\ \/ /\ Accept /\ durable' = Flushed(durable, 1, 3)
          /\ turn' = [turn EXCEPT !.pc = "asked"]
          /\ UNCHANGED <<session, sink, cancelled, invoked>>
       \/ Refuse /\ CallFails("sink", durable)
       \/ Accept /\ CallFails("fatal", durable)

(* The policy decides, or denies with an invalid reason.                      *)
Decide ==
    /\ turn.pc = "asked" /\ ~cancelled
    /\ \/ \E verdict \in {"allowed", "denied"} :
            /\ Accept /\ turn' = [turn EXCEPT !.pc = verdict]
            /\ durable' = Flushed(durable, 1, IF verdict = "denied" THEN 2 ELSE 1)
            /\ UNCHANGED <<session, sink, cancelled, invoked>>
       \/ Refuse /\ CallFails("sink", durable)
       \/ Accept /\ CallFails("fatal", durable)

DenyCall ==
    /\ turn.pc = "denied" /\ ~cancelled
    /\ Finalize("denied", 1, "none")

(* ToolStarted, and the checkpoint that makes the start durable.              *)
StartTool ==
    /\ \/ turn.pc = "call" /\ Call.tool \in Tools \ Asks
       \/ turn.pc = "allowed"
    /\ ~cancelled
    /\ \/ /\ Accept /\ durable' = [Flushed(durable, 1, 1) EXCEPT !.touched = TRUE]
          /\ turn' = [turn EXCEPT !.pc = "started"]
          /\ UNCHANGED <<session, sink, cancelled, invoked>>
       \/ Refuse /\ CallFails("sink", durable)

(* Cancellation is seen before an interruptible tool is first polled.         *)
Interrupted == cancelled /\ Call.tool \in Interruptible

InvokeTool ==
    /\ turn.pc = "started" /\ ~Interrupted
    /\ turn' = [turn EXCEPT !.pc = "running"]
    /\ invoked' = invoked \cup {Call.id}
    /\ Accept
    /\ UNCHANGED <<session, durable, sink, cancelled>>

(* Mutant: a fatal error is taken for one before the invocation.              *)
ToolReturnsUnnoticed ==
    /\ turn.pc = "running" /\ ~Interrupted
    /\ \/ \E size \in OutputSizes :
            Finalize("output", size, IF cancelled THEN "cancelled" ELSE "none")
       \/ Finalize("interrupted", 1, "cancelled")
       \/ Accept /\ CallFails("fatal", durable)

(* A tool that returns, with output or an error for the model; one that says  *)
(* it was cancelled; and one that fails for good, whose effect is unknown.    *)
ToolReturns ==
    /\ turn.pc = "running" /\ ~Interrupted
    /\ \/ \E size \in OutputSizes :
            Finalize("output", size, IF cancelled THEN "cancelled" ELSE "none")
       \/ Finalize("interrupted", 1, "cancelled")
       \/ /\ Accept /\ EndsBatch(WithResult("maybe", 0), Recorded(durable, 1, 1), "fatal")
          /\ UNCHANGED <<session, sink, cancelled, invoked>>

InterruptTool ==
    /\ turn.pc \in {"started", "running"} /\ Interrupted
    /\ Finalize("interrupted", 1, "cancelled")

(* Any checkpoint of a call may be refused: the batch is then not committed.  *)
BatchCheckpointFails ==
    /\ \/ turn.pc \in {"call", "asked", "allowed", "denied"} /\ (cancelled => turn.results # <<>>)
       \/ turn.pc = "running"
       \/ turn.pc = "started" /\ Interrupted
    /\ Refuse /\ CheckpointRefused

(* The complete batch: the Messages checkpoint, then memory.                  *)
BatchEvents == Len(turn.pend) + 1 + Len(turn.results) + durable.batch + durable.live
BatchBytes == Len(turn.pend) + AssistantBytes + turn.bytes + durable.batchBytes + durable.liveBytes

CommitBatch ==
    /\ turn.pc = "commit"
    /\ \/ /\ WithinBudget(BatchEvents, BatchBytes) /\ Accept
          /\ durable' = [NoCheckpoints EXCEPT
                !.events = durable.events + BatchEvents, !.bytes = durable.bytes + BatchBytes,
                !.messages = durable.messages + Len(turn.pend) + 1 + Len(turn.results)]
          /\ hist' = hist \o Append(turn.pend, Assistant(turn.response.text, turn.calls)) \o turn.results
          /\ issued' = issued \cup turn.fresh
          /\ turn' = [turn EXCEPT !.pend = <<>>, !.results = <<>>, !.at = 0, !.bytes = 0,
                                  !.pc = IF turn.error = "none" THEN "round" ELSE "failing"]
          /\ UNCHANGED <<poisoned, limit, turns, sink, cancelled, invoked>>
       \/ WithinBudget(BatchEvents, BatchBytes) /\ Refuse /\ CheckpointRefused
       \/ ~WithinBudget(BatchEvents, BatchBytes) /\ Accept /\ CheckpointRefused

-----------------------------------------------------------------------------
Cancel ==
    /\ turn.pc # "idle" /\ ~cancelled
    /\ cancelled' = TRUE
    /\ UNCHANGED <<session, turn, durable, sink, invoked, faults>>

(* What the model may end a stream with.  Calls that differ from the streamed *)
(* ones are all refused alike; an empty list stands for them.                 *)
SourceCalls == [id : SourceIds, tool : Tools \cup Ghosts]
Responses ==
    [text : UNION {[1..k -> Pieces] : k \in 0..MaxModelOutput},
     calls : IF turn.source = <<>>
             THEN UNION {[1..k -> SourceCalls] : k \in 0..MaxToolCallsPerRound}
             ELSE {<<>>, turn.source},
     finish : {"stop", "tool_calls", "aborted"}]

(* What the model, the approval policy and the tools do in their own time.    *)
Model ==
    \/ StreamBreaks \/ StreamEnds
    \/ \E piece \in Pieces : StreamDelta(piece)
    \/ \E id \in SourceIds, tool \in Tools \cup Ghosts : StreamCall(id, tool)
    \/ Streaming /\ \E response \in Responses : StreamTerminal(response)

World == Model \/ Decide \/ (ToolReturns /\ Call.tool \in Interruptible)

(* What the harness does by itself, and the tools that cancellation waits for.*)
Harness ==
    \/ Begin \/ StartRound \/ StreamCancelled \/ CloseStream \/ Answered \/ PersistAnswer
    \/ StartToolBatch \/ CallCancelled \/ RejectCall \/ RequestApproval \/ DenyCall
    \/ StartTool \/ InvokeTool \/ InterruptTool \/ BatchCheckpointFails \/ CommitBatch
    \/ EmitTerminalError
    \/ (ToolReturns /\ Call.tool \notin Interruptible)

Next == RunMessage \/ Cancel \/ Harness \/ World

Spec == Init /\ [][Next]_vars /\ WF_vars(Harness)

-----------------------------------------------------------------------------
(* Properties. *)

Places ==
    {"idle", "begin", "round", "stream", "closing", "answered", "answer", "plan", "call",
     "asked", "allowed", "denied", "started", "running", "commit", "failing"}

Errors == {"sink", "checkpoint", "cancelled", "request", "protocol", "rounds", "fatal", "cleanup"}

(* The state has its shape: counters of the turn stay within the limits that  *)
(* append_model_delta, reidentify_call and finalize_tool_output enforce.      *)
TypeOK ==
    /\ turn.pc \in Places /\ turn.error \in Errors \cup {"none"}
    /\ turn.outcome \in Errors \cup {"none", "completed", "delivery"}
    /\ turn.spoken \in 0..MaxTotalModelOutput
    /\ turn.arguments \in 0..MaxTotalToolArguments
    /\ turn.output \in 0..MaxTotalToolOutput
    /\ durable.events \in 0..MaxInvocationEvents /\ durable.bytes \in 0..MaxInvocationBytes
    /\ durable.pending \in BOOLEAN /\ durable.touched \in BOOLEAN /\ durable.failed \in BOOLEAN
    /\ cancelled \in BOOLEAN /\ poisoned \in BOOLEAN
    /\ turns \in 0..MaxTurns /\ faults \in 0..MaxFaults

(* The reservation start_tool_batch makes is enough: whatever the approvals,  *)
(* the tools, cancellation and the consumer do to an admitted batch, the      *)
(* check_budget of its Messages checkpoint does not refuse it, so an effect   *)
(* is never lost to the budget.                                               *)
ReservationHolds == turn.pc = "commit" => WithinBudget(BatchEvents, BatchBytes)

(* However turns end, validate_history accepts what they leave: every call is *)
(* answered once, before anything else, and no identifier is reused: there is *)
(* always a new one.                                                          *)
HistoryIsValid == ValidHistory(hist) /\ invoked \cup turn.fresh \subseteq Ids

(* Whenever the session accepts another turn, every tool that was entered has *)
(* a result in the history, and that result does not say it did not run.      *)
EffectsAreKept ==
    turn.pc = "idle" /\ ~poisoned =>
        \A id \in invoked : \E i \in DOMAIN hist :
            /\ hist[i].role = "tool" /\ hist[i].id = id
            /\ hist[i].said \notin {"notrun", "rejected", "denied"}

(* A turn has one terminal event, its last, and it tells how the turn ended;  *)
(* none is sent to a consumer that failed, or when the checkpoint of the      *)
(* input or of the answer is refused.                                         *)
EndIsTold ==
    /\ Len(sink.ends) <= 1
    /\ turn.pc # "idle" => sink.ends = <<>>
    /\ turn.pc = "idle" =>
        CASE turn.outcome \in {"completed", "cancelled"} -> sink.ends = <<turn.outcome>>
          [] turn.outcome \in {"none", "sink", "delivery"} -> sink.ends = <<>>
          [] turn.outcome = "checkpoint" -> sink.ends \in {<<>>, <<"failed">>}
          [] OTHER -> sink.ends = <<"failed">>

(* What enters the history was announced: the text deltas and the calls the   *)
(* consumer saw in the round are those of the committed response.             *)
CommittedIsAnnounced ==
    [][hist' # hist =>
        LET a == CHOOSE i \in DOMAIN hist' : /\ hist'[i].role = "assistant"
                    /\ \A k \in DOMAIN hist' : hist'[k].role = "assistant" => k <= i
        IN  hist'[a].text = sink.text /\ hist'[a].calls = sink.calls]_vars

(* A cancelled turn ends even if the model, the approval policy and every     *)
(* interruptible tool never answer again.                                     *)
CancelledTurnEnds == (turn.pc # "idle" /\ cancelled) ~> turn.pc = "idle"

(* If they do answer, every turn ends, also without a limit on its rounds.    *)
TurnEnds == WF_vars(World) => (turn.pc # "idle" ~> turn.pc = "idle")

(* An admitted batch is never refused afterwards, and no counter of a turn *)
(* passes the limit it is checked against.                                 *)
BudgetHolds == TypeOK /\ ReservationHolds

(* The history can always be continued, and tells of every effect.         *)
HistoryIsSound == HistoryIsValid /\ EffectsAreKept

(* The consumer's account of a turn is the history's.                      *)
ConsumerIsTold == []EndIsTold /\ CommittedIsAnnounced

(* No turn waits for ever on one who does not answer.                      *)
TurnsEnd == CancelledTurnEnds /\ TurnEnds
=============================================================================
