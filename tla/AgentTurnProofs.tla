--------------------------- MODULE AgentTurnProofs ---------------------------
(***************************************************************************)
(* Proofs about AgentTurn, for every value of its limits:                  *)
(*   BudgetIsKept: the counters of a turn stay within their limits, and    *)
(*     what start_tool_batch reserves of an invocation's budget is enough  *)
(*     for every way the batch can go;                                     *)
(*   ConsumersAreTold: the consumer hears of the end of a turn once, and   *)
(*     of every text and call before it enters the history;                *)
(*   HistoriesAreSound: the history stays valid and tells of every effect. *)
(*                                                                         *)
(* The first is an account: at every place in a batch, what is already     *)
(* spent, what the current call may still cost from here and the whole     *)
(* cost of each call after it stay within the budget.  A call costs at     *)
(* most five events (request, decision, start, completion, result) and     *)
(* eight units besides its output, which is written twice.                 *)
(*                                                                         *)
(* The other two first reduce the ten actions of a batch to four shapes (a *)
(* call moves on, is answered, ends the batch, abandons it).  ToldInv then *)
(* compares the sink with the turn; HistInv says where each call and each  *)
(* effect is on its way into the history, and counts the identifiers that  *)
(* are drawn, so that a new one always exists.                             *)
(***************************************************************************)
EXTENDS AgentTurn, SequenceTheorems, FiniteSetTheorems, TLAPS

IsSeq(s) == \E A : s \in Seq(A)

(* The turn is a record whose lists are lists and whose counters keep to   *)
(* the limits they are checked against.                                    *)
TurnFields == {"pc", "round", "pend", "text", "source", "calls", "fresh", "response", "spoken",
               "arguments", "output", "at", "results", "bytes", "error", "outcome"}

ResponseOK(r) == DOMAIN r = {"text", "calls", "finish"} /\ IsSeq(r.text) /\ IsSeq(r.calls)

TurnOK(t) ==
    /\ DOMAIN t = TurnFields /\ ResponseOK(t.response)
    /\ IsSeq(t.pend) /\ IsSeq(t.text) /\ IsSeq(t.source) /\ IsSeq(t.calls) /\ IsSeq(t.results)
    /\ t.bytes \in Nat /\ t.at \in Nat
    /\ t.pc \in Places /\ t.error \in Errors \cup {"none"}
    /\ t.outcome \in Errors \cup {"none", "completed", "delivery"}
    /\ t.spoken \in 0..MaxTotalModelOutput /\ t.arguments \in 0..MaxTotalToolArguments
    /\ t.output \in 0..MaxTotalToolOutput

(* So is the checkpoint state.                                             *)
DurableFields == {"live", "liveBytes", "pending", "touched", "batch", "batchBytes", "events",
                  "bytes", "messages", "failed"}

DurableOK(d) ==
    /\ DOMAIN d = DurableFields
    /\ d.live \in Nat /\ d.liveBytes \in Nat /\ d.batch \in Nat /\ d.batchBytes \in Nat /\ d.messages \in Nat
    /\ d.events \in 0..MaxInvocationEvents /\ d.bytes \in 0..MaxInvocationBytes
    /\ d.pending \in BOOLEAN /\ d.touched \in BOOLEAN /\ d.failed \in BOOLEAN

RestOK ==
    /\ cancelled \in BOOLEAN /\ poisoned \in BOOLEAN
    /\ turns \in 0..MaxTurns /\ faults \in 0..MaxFaults

(* Where no batch is pending, and where one is.                            *)
Outside == {"begin", "round", "stream", "closing", "answered", "answer", "plan"}
Inside == {"call", "asked", "allowed", "denied", "started", "running"}

(* What the current call may still cost, besides its output.               *)
EventsLeft(pc) == CASE pc = "call" -> 5 [] pc = "asked" -> 4 [] pc = "allowed" -> 3 [] OTHER -> 2
BytesLeft(pc) == CASE pc = "call" -> 8 [] pc = "asked" -> 5 [] pc = "allowed" -> 3 [] OTHER -> 2

(* The account of a batch: what does not depend on how it goes, what the   *)
(* calls so far have added, and what the others may still add.             *)
EventsBase(t, d) == d.events + Len(t.pend) + 1
BytesBase(t, d) == d.bytes + Len(t.pend) + (1 + Len(t.response.text) + Len(t.calls))
EventsSpent(t, d) == Len(t.results) + d.batch + d.live
BytesSpent(t, d) == t.bytes + d.batchBytes + d.liveBytes
CallsLeft(t) == Len(t.calls) - t.at
EventsDue(t) == EventsLeft(t.pc) + 5 * CallsLeft(t)
BytesDue(t) == BytesLeft(t.pc) + 8 * CallsLeft(t) + 2 * (MaxTotalToolOutput - t.output)

Account ==
    /\ turn.pc \in Outside => durable.batch = 0 /\ durable.batchBytes = 0
    /\ turn.pc = "plan" => turn.calls # <<>>
    /\ turn.pc \in Inside =>
         /\ 1 <= turn.at /\ turn.at <= Len(turn.calls)
         /\ EventsBase(turn, durable) + EventsSpent(turn, durable) + EventsDue(turn) <= MaxInvocationEvents
         /\ BytesBase(turn, durable) + BytesSpent(turn, durable) + BytesDue(turn) <= MaxInvocationBytes
    /\ turn.pc = "commit" =>
         /\ EventsBase(turn, durable) + EventsSpent(turn, durable) <= MaxInvocationEvents
         /\ BytesBase(turn, durable) + BytesSpent(turn, durable) <= MaxInvocationBytes

TurnInv == TurnOK(turn) /\ DurableOK(durable) /\ RestOK /\ Account

-----------------------------------------------------------------------------
(* Lists.                                                                  *)

(* The length of a list, and when it is empty. *)
LEMMA ListIs ==
    ASSUME NEW s, IsSeq(s)
    PROVE  Len(s) \in Nat /\ (s = <<>> <=> Len(s) = 0)
  <1>1. PICK A : s \in Seq(A)
    BY DEF IsSeq
  <1> QED BY <1>1, EmptySeq

(* Joining, appending, cutting the first k off. *)
LEMMA Joined ==
    ASSUME NEW s, NEW t, IsSeq(s), IsSeq(t)
    PROVE  IsSeq(s \o t) /\ Len(s \o t) = Len(s) + Len(t)
  <1>1. PICK A : s \in Seq(A)
    BY DEF IsSeq
  <1>2. PICK B : t \in Seq(B)
    BY DEF IsSeq
  <1>3. s \in Seq(A \cup B) /\ t \in Seq(A \cup B)
    BY <1>1, <1>2
  <1>4. s \o t \in Seq(A \cup B) /\ Len(s \o t) = Len(s) + Len(t)
    BY <1>3
  <1> QED BY <1>4 DEF IsSeq

(* Appending one element. *)
LEMMA Appended ==
    ASSUME NEW s, NEW x, IsSeq(s)
    PROVE  IsSeq(Append(s, x)) /\ Len(Append(s, x)) = Len(s) + 1
  <1>1. PICK A : s \in Seq(A)
    BY DEF IsSeq
  <1>2. s \in Seq(A \cup {x}) /\ x \in A \cup {x}
    BY <1>1
  <1>3. Append(s, x) \in Seq(A \cup {x}) /\ Len(Append(s, x)) = Len(s) + 1
    BY <1>2
  <1> QED BY <1>3 DEF IsSeq

(* Cutting the first k elements off. *)
LEMMA CutOff ==
    ASSUME NEW s, IsSeq(s), NEW k \in Nat, k <= Len(s)
    PROVE  IsSeq(SubSeq(s, k + 1, Len(s))) /\ Len(SubSeq(s, k + 1, Len(s))) = Len(s) - k
  <1>1. PICK A : s \in Seq(A)
    BY DEF IsSeq
  <1>2. SubSeq(s, k + 1, Len(s)) \in Seq(A) /\ Len(SubSeq(s, k + 1, Len(s))) = Len(s) - k
    BY <1>1
  <1> QED BY <1>2 DEF IsSeq

(* A list of the same length with other elements. *)
LEMMA Mapped ==
    ASSUME NEW s, IsSeq(s), NEW f, f = [i \in DOMAIN s |-> f[i]]
    PROVE  IsSeq(f) /\ Len(f) = Len(s)
  <1>1. PICK A : s \in Seq(A)
    BY DEF IsSeq
  <1>2. DOMAIN s = 1..Len(s) /\ Len(s) \in Nat
    BY <1>1
  <1>3. f \in [1..Len(s) -> {f[i] : i \in 1..Len(s)}]
    BY <1>2
  <1>4. f \in Seq({f[i] : i \in 1..Len(s)}) /\ Len(f) = Len(s)
    BY <1>2, <1>3, SeqDef
  <1> QED BY <1>4 DEF IsSeq

(* The short lists of the model. *)
LEMMA ShortLists == IsSeq(<<>>) /\ Len(<<>>) = 0 /\ \A x : IsSeq(<<x>>) /\ Len(<<x>>) = 1
  <1>1. <<>> \in Seq({}) /\ Len(<<>>) = 0
    OBVIOUS
  <1>2. ASSUME NEW x PROVE <<x>> \in Seq({x}) /\ Len(<<x>>) = 1
    OBVIOUS
  <1> QED BY <1>1, <1>2 DEF IsSeq

-----------------------------------------------------------------------------
(* The limits are numbers. *)
LEMMA Limits ==
    /\ MaxToolCallsPerRound \in Nat /\ MaxToolOutput \in Nat /\ MaxTotalToolOutput \in Nat
    /\ MaxTotalToolArguments \in Nat /\ MaxModelOutput \in Nat /\ MaxTotalModelOutput \in Nat
    /\ MaxInvocationEvents \in Nat /\ MaxInvocationBytes \in Nat /\ MaxTurns \in Nat /\ MaxFaults \in Nat
    /\ \A n \in OutputSizes : n \in Nat
  BY AgentTurnConstants

(* What an audited event leaves. *)
LEMMA AuditedIs ==
    ASSUME DurableOK(durable), NEW n \in Nat, NEW bytes \in Nat
    PROVE  /\ DurableOK(Audited(n, bytes))
           /\ Audited(n, bytes).batch = durable.batch /\ Audited(n, bytes).batchBytes = durable.batchBytes
  BY DEF Audited, DurableOK, DurableFields

(* What a checkpoint of the batch leaves. *)
LEMMA FlushedIs ==
    ASSUME NEW d, DurableOK(d), NEW n \in Nat, NEW bytes \in Nat
    PROVE  /\ DurableOK(Flushed(d, n, bytes)) /\ Flushed(d, n, bytes).live = 0 /\ Flushed(d, n, bytes).liveBytes = 0
           /\ Flushed(d, n, bytes).batch = d.batch + d.live + n
           /\ Flushed(d, n, bytes).batchBytes = d.batchBytes + d.liveBytes + bytes
           /\ Flushed(d, n, bytes).events = d.events /\ Flushed(d, n, bytes).bytes = d.bytes
  BY DEF Flushed, DurableOK, DurableFields

(* What a checkpoint that records n completions leaves. *)
LEMMA RecordedIs ==
    ASSUME NEW d, DurableOK(d), NEW n \in Nat, NEW bytes \in Nat
    PROVE  /\ DurableOK(Recorded(d, n, bytes)) /\ Recorded(d, n, bytes).live = 0 /\ Recorded(d, n, bytes).liveBytes = 0
           /\ Recorded(d, n, bytes).batch = d.batch + d.live + n
           /\ Recorded(d, n, bytes).batchBytes = d.batchBytes + d.liveBytes + bytes
           /\ Recorded(d, n, bytes).events = d.events /\ Recorded(d, n, bytes).bytes = d.bytes
  <1>1. PICK f : f = Flushed(d, n, bytes)
    OBVIOUS
  <1>2. /\ DurableOK(f) /\ f.live = 0 /\ f.liveBytes = 0 /\ f.batch = d.batch + d.live + n
        /\ f.batchBytes = d.batchBytes + d.liveBytes + bytes /\ f.events = d.events /\ f.bytes = d.bytes
    BY <1>1, FlushedIs
  <1>3. PICK b \in BOOLEAN : b = (f.touched \/ n > 0)
    OBVIOUS
  <1>4. Recorded(d, n, bytes) = [f EXCEPT !.touched = b]
    BY <1>1, <1>3 DEF Recorded
  <1> QED BY <1>2, <1>4 DEF DurableOK, DurableFields

(* The states the checkpoints start from. *)
LEMMA NoCheckpointsIs ==
    /\ DurableOK(NoCheckpoints) /\ DurableOK([NoCheckpoints EXCEPT !.failed = TRUE])
    /\ NoCheckpoints.batch = 0 /\ NoCheckpoints.batchBytes = 0
    /\ \A m \in Nat : DurableOK([NoCheckpoints EXCEPT !.messages = m])
    /\ \A e \in 0..MaxInvocationEvents, b \in 0..MaxInvocationBytes, m \in Nat :
         LET d == [NoCheckpoints EXCEPT !.events = e, !.bytes = b, !.messages = m]
         IN  DurableOK(d) /\ d.batch = 0 /\ d.batchBytes = 0
    /\ \A d : DurableOK(d) => DurableOK([d EXCEPT !.failed = TRUE]) /\ DurableOK([d EXCEPT !.pending = TRUE])
                              /\ DurableOK([d EXCEPT !.touched = TRUE])
  BY Limits DEF NoCheckpoints, DurableOK, DurableFields

(* The turns a turn starts from and ends in. *)
LEMMA NoTurnIs ==
    /\ TurnOK(NoTurn) /\ NoTurn.pc = "idle" /\ ResponseOK(NoResponse)
    /\ TurnOK([NoTurn EXCEPT !.pc = "begin", !.pend = <<User>>])
    /\ [NoTurn EXCEPT !.pc = "begin", !.pend = <<User>>].pc = "begin"
    /\ \A o \in Errors \cup {"none", "completed", "delivery"} :
         TurnOK([NoTurn EXCEPT !.outcome = o]) /\ [NoTurn EXCEPT !.outcome = o].pc = "idle"
  <1>1. ResponseOK(NoResponse)
    BY ShortLists DEF NoResponse, ResponseOK
  <1> QED BY <1>1, ShortLists, Limits DEF NoTurn, TurnOK, TurnFields, Places, Errors

(* A turn that moves on, or fails, keeps the rest. *)
LEMMA MovesIs ==
    ASSUME TurnInv, NEW pc \in Places, turn' = [turn EXCEPT !.pc = pc]
    PROVE  TurnOK(turn') /\ turn'.pc = pc /\ turn'.calls = turn.calls
  BY DEF TurnInv, TurnOK, TurnFields

(* An error leaves a turn that is well formed and failing. *)
LEMMA FailsIs ==
    ASSUME TurnInv, NEW error \in Errors, turn' = [turn EXCEPT !.pc = "failing", !.error = error]
    PROVE  TurnOK(turn') /\ turn'.pc = "failing"
  BY DEF TurnInv, TurnOK, TurnFields, Places

(* Faults stay within their bound. *)
LEMMA FaultsAre ==
    ASSUME RestOK, Accept \/ Refuse
    PROVE  faults' \in 0..MaxFaults
  BY Limits DEF RestOK, Accept, Refuse

(* A step that leaves the batch, or fails, needs no account. *)
LEMMA NoAccount ==
    ASSUME TurnOK(turn'), DurableOK(durable'), RestOK',
           turn'.pc \in {"idle", "failing"} \/
             (turn'.pc \in Outside \ {"plan"} /\ durable'.batch = 0 /\ durable'.batchBytes = 0)
    PROVE  TurnInv'
  BY DEF TurnInv, Account, Outside, Inside

-----------------------------------------------------------------------------
(* The ways a step can fail, each of which leaves the batch.               *)

(* The consumer refuses an event. *)
LEMMA SinkRefusesKeeps ==
    ASSUME TurnInv, SinkRefuses
    PROVE  TurnInv'
  <1>1. TurnOK(turn') /\ turn'.pc = "failing"
    BY FailsIs DEF SinkRefuses, Fails, Errors
  <1>2. DurableOK(durable')
    BY DEF TurnInv, SinkRefuses
  <1>3. RestOK'
    BY FaultsAre DEF TurnInv, SinkRefuses, Fails, session, RestOK
  <1> QED BY <1>1, <1>2, <1>3, NoAccount

(* Storage, or the budget, refuses a checkpoint. *)
LEMMA CheckpointRefusedKeeps ==
    ASSUME TurnInv, CheckpointRefused, Accept \/ Refuse
    PROVE  TurnInv'
  <1>1. TurnOK(turn') /\ turn'.pc = "failing"
    BY FailsIs DEF CheckpointRefused, Fails, Errors
  <1>2. DurableOK(durable')
    BY NoCheckpointsIs DEF TurnInv, CheckpointRefused
  <1>3. RestOK'
    BY FaultsAre DEF TurnInv, CheckpointRefused, Fails, session, RestOK
  <1> QED BY <1>1, <1>2, <1>3, NoAccount

(* stream_model_round leaves early. *)
LEMMA BreaksKeeps ==
    ASSUME TurnInv, turn.pc = "stream", NEW error \in Errors, Breaks(error), Accept \/ Refuse
    PROVE  TurnInv'
  <1>1. TurnOK(turn') /\ turn'.pc = "closing"
    BY ShortLists, NoTurnIs DEF TurnInv, Breaks, TurnOK, TurnFields, Places
  <1>2. DurableOK(durable') /\ durable'.batch = 0 /\ durable'.batchBytes = 0
    BY DEF TurnInv, Breaks, Account, Outside
  <1>3. RestOK'
    BY FaultsAre DEF TurnInv, Breaks, session, RestOK
  <1> QED BY <1>1, <1>2, <1>3, NoAccount DEF Outside

(* The end of a turn. *)
LEMMA OverKeeps ==
    ASSUME TurnInv, DurableOK(durable'), NEW memory,
           NEW outcome \in Errors \cup {"none", "completed", "delivery"}, Over(outcome, memory),
           Accept \/ Refuse, cancelled' = cancelled, turns' = turns
    PROVE  TurnInv'
  <1>1. TurnOK(turn') /\ turn'.pc = "idle"
    BY NoTurnIs DEF Over
  <1>2. poisoned' \in BOOLEAN
    BY DEF Over
  <1>3. RestOK'
    BY <1>2, FaultsAre DEF TurnInv, RestOK
  <1> QED BY <1>1, <1>3, NoAccount

(* An audited step outside a batch. *)
LEMMA AuditedKeeps ==
    ASSUME TurnInv, turn.pc \in Outside, NEW n \in Nat, NEW bytes \in Nat, durable' = Audited(n, bytes)
    PROVE  DurableOK(durable') /\ durable'.batch = 0 /\ durable'.batchBytes = 0
  BY AuditedIs DEF TurnInv, Account

-----------------------------------------------------------------------------
(* run_message_core                                                        *)

(* A turn starts with an empty account. *)
LEMMA RunMessageKeeps ==
    ASSUME TurnInv, RunMessage
    PROVE  TurnInv'
  <1>1. turns \in 0..MaxTurns /\ turns < MaxTurns /\ turns' = turns + 1 /\ MaxTurns \in Nat
    BY Limits DEF TurnInv, RestOK, RunMessage
  <1>2. turns' \in 0..MaxTurns
    BY <1>1
  <1>3. Accept \/ Refuse
    BY DEF RunMessage
  <1>4. RestOK'
    BY <1>2, <1>3, FaultsAre DEF TurnInv, RestOK, RunMessage
  <1>5. DurableOK(durable') /\ durable'.batch = 0 /\ durable'.batchBytes = 0
    BY NoCheckpointsIs DEF RunMessage, NoCheckpoints
  <1>6. TurnOK(turn') /\ turn'.pc \in {"idle", "begin"}
    <2>1. "checkpoint" \in Errors \cup {"none", "completed", "delivery"}
      BY DEF Errors
    <2>2. turn' = [NoTurn EXCEPT !.pc = "begin", !.pend = <<User>>] \/ turn' = [NoTurn EXCEPT !.outcome = "checkpoint"]
      BY DEF RunMessage
    <2> QED BY <2>1, <2>2, NoTurnIs
  <1> QED BY <1>4, <1>5, <1>6, NoAccount DEF Outside

(* The first events of a turn are audited, outside any batch. *)
LEMMA BeginKeeps ==
    ASSUME TurnInv, Begin
    PROVE  TurnInv'
  <1>1. ASSUME cancelled, Fails("cancelled"), Accept, UNCHANGED <<durable, sink, cancelled, invoked>>
        PROVE  TurnInv'
    <2>1. TurnOK(turn') /\ turn'.pc = "failing"
      BY <1>1, FailsIs DEF Fails, Errors
    <2>2. DurableOK(durable') /\ RestOK'
      BY <1>1, FaultsAre DEF TurnInv, Fails, session, RestOK
    <2> QED BY <2>1, <2>2, NoAccount
  <1>2. ASSUME Accept, durable' = Audited(1, 1), turn' = [turn EXCEPT !.pc = "round"],
               UNCHANGED <<session, sink, cancelled, invoked>>
        PROVE  TurnInv'
    <2>1. TurnOK(turn') /\ turn'.pc = "round"
      BY <1>2, MovesIs DEF Places
    <2>2. turn.pc \in Outside
      BY DEF Begin, Outside
    <2>3. RestOK'
      BY <1>2, FaultsAre DEF TurnInv, session, RestOK
    <2> QED BY <1>2, <2>1, <2>2, <2>3, AuditedKeeps, NoAccount DEF Outside
  <1> QED BY <1>1, <1>2, SinkRefusesKeeps DEF Begin

(* So is the start of a round. *)
LEMMA StartRoundKeeps ==
    ASSUME TurnInv, StartRound
    PROVE  TurnInv'
  <1>1. ASSUME Accept, durable' = Audited(1, 1), UNCHANGED <<cancelled, invoked>>, UNCHANGED session,
               TurnOK(turn'), turn'.pc \in {"failing", "stream"}
        PROVE  TurnInv'
    <2>1. turn.pc \in Outside
      BY DEF StartRound, Outside
    <2>2. RestOK'
      BY <1>1, FaultsAre DEF TurnInv, session, RestOK
    <2> QED BY <1>1, <2>1, <2>2, AuditedKeeps, NoAccount DEF Outside
  <1>2. ASSUME Fails("request")
        PROVE  TurnOK(turn') /\ turn'.pc = "failing" /\ UNCHANGED session
    BY <1>2, FailsIs DEF Fails, Errors
  <1>3. ASSUME turn' = [turn EXCEPT !.pc = "stream", !.round = @ + 1, !.text = <<>>, !.source = <<>>,
                                    !.calls = <<>>, !.response = NoResponse]
        PROVE  TurnOK(turn') /\ turn'.pc = "stream"
    BY <1>3, ShortLists, NoTurnIs DEF TurnInv, TurnOK, TurnFields, Places
  <1> QED BY <1>1, <1>2, <1>3, SinkRefusesKeeps DEF StartRound

(* A response goes on to the batch only if it has calls. *)
LEMMA AnsweredKeeps ==
    ASSUME TurnInv, Answered
    PROVE  TurnInv'
  <1>1. turn.pc \in Outside
    BY DEF Answered, Outside
  <1>2. ASSUME Accept, durable' = Audited(1, 1), UNCHANGED <<sink, cancelled, invoked>>
        PROVE  RestOK' \/ ~UNCHANGED session
    BY <1>2, FaultsAre DEF TurnInv, session, RestOK
  <1>3. ASSUME Accept, durable' = Audited(1, 1), UNCHANGED <<sink, cancelled, invoked>>,
               Fails("protocol") \/ Fails("rounds")
        PROVE  TurnInv'
    <2>1. TurnOK(turn') /\ turn'.pc = "failing" /\ UNCHANGED session
      BY <1>3, FailsIs DEF Fails, Errors
    <2> QED BY <1>1, <1>2, <1>3, <2>1, AuditedKeeps, NoAccount
  <1>4. ASSUME Accept, durable' = Audited(1, 1), UNCHANGED <<sink, cancelled, invoked>>, UNCHANGED session,
               turn' = [turn EXCEPT !.pc = IF turn.calls # <<>> THEN "plan" ELSE "answer"]
        PROVE  TurnInv'
    <2>1. TurnOK(turn') /\ turn'.pc \in {"plan", "answer"}
      BY <1>4, MovesIs DEF Places
    <2>2. turn'.pc = "plan" => turn'.calls # <<>>
      BY <1>4 DEF TurnInv, TurnOK, TurnFields
    <2>3. DurableOK(durable') /\ durable'.batch = 0 /\ durable'.batchBytes = 0
      BY <1>1, <1>4, AuditedKeeps
    <2>4. RestOK'
      BY <1>2, <1>4
    <2> QED BY <2>1, <2>2, <2>3, <2>4 DEF TurnInv, Account, Outside, Inside
  <1> QED BY <1>3, <1>4, SinkRefusesKeeps DEF Answered

(* The answer ends the turn, whatever its checkpoint does. *)
LEMMA PersistAnswerKeeps ==
    ASSUME TurnInv, PersistAnswer
    PROVE  TurnInv'
  <1>1. durable.messages + 1 \in Nat
    BY DEF TurnInv, DurableOK
  <1>2. DurableOK([NoCheckpoints EXCEPT !.messages = durable.messages + 1])
        /\ DurableOK([durable EXCEPT !.failed = TRUE])
    BY <1>1, NoCheckpointsIs DEF TurnInv
  <1>3. DurableOK(durable') /\ cancelled' = cancelled /\ turns' = turns /\ (Accept \/ Refuse)
    BY <1>2 DEF PersistAnswer
  <1>4. \E outcome \in Errors \cup {"none", "completed", "delivery"} : \E memory : Over(outcome, memory)
    <2>1. \E memory : Over("completed", memory) \/ Over("delivery", memory) \/ Over("checkpoint", memory)
      BY DEF PersistAnswer
    <2> QED BY <2>1 DEF Errors
  <1> QED BY <1>3, <1>4, OverKeeps

(* fail_turn! ends it as well. *)
LEMMA EmitTerminalErrorKeeps ==
    ASSUME TurnInv, EmitTerminalError
    PROVE  TurnInv'
  <1>1. DurableOK(durable') /\ cancelled' = cancelled /\ turns' = turns /\ (Accept \/ Refuse)
    BY DEF EmitTerminalError, TurnInv
  <1>2. turn.error \in Errors \cup {"none", "completed", "delivery"}
        /\ "sink" \in Errors \cup {"none", "completed", "delivery"}
    BY DEF TurnInv, TurnOK, Errors
  <1>3. Over("sink", hist) \/ Over(turn.error, hist)
    BY DEF EmitTerminalError
  <1> QED BY <1>1, <1>2, <1>3, OverKeeps

-----------------------------------------------------------------------------
(* stream_model_round                                                      *)

(* Adding to a counter that was checked against its limit. *)
LEMMA Counts ==
    ASSUME NEW limits \in Nat, NEW n \in 0..limits, NEW more \in Nat, n + more <= limits
    PROVE  n + more \in 0..limits
  OBVIOUS

(* A new identifier for each call. *)
LEMMA ReidentifiedIs ==
    ASSUME NEW c, IsSeq(c)
    PROVE  IsSeq(Reidentified(c)) /\ Len(Reidentified(c)) = Len(c)
  <1>1. PICK f : f = Reidentified(c)
    OBVIOUS
  <1>2. f = [i \in DOMAIN c |-> f[i]]
    BY <1>1 DEF Reidentified
  <1> QED BY <1>1, <1>2, Mapped

(* A step of the stream that goes on. *)
LEMMA StreamKeeps ==
    ASSUME TurnInv, turn.pc = "stream", TurnOK(turn'), turn'.pc \in {"stream", "answered"}, Accept,
           UNCHANGED <<session, cancelled>>,
           durable' = durable \/ \E n, bytes \in Nat : durable' = Audited(n, bytes)
    PROVE  TurnInv'
  <1>1. DurableOK(durable') /\ durable'.batch = 0 /\ durable'.batchBytes = 0
    <2>1. turn.pc \in Outside
      BY DEF Outside
    <2>2. CASE durable' = durable
      BY <2>1, <2>2 DEF TurnInv, Account
    <2>3. CASE \E n, bytes \in Nat : durable' = Audited(n, bytes)
      BY <2>1, <2>3, AuditedKeeps
    <2> QED BY <2>2, <2>3
  <1>2. RestOK'
    BY FaultsAre DEF TurnInv, session, RestOK
  <1> QED BY <1>1, <1>2, NoAccount DEF Outside

(* append_model_delta counts what it lets through. *)
LEMMA StreamDeltaKeeps ==
    ASSUME TurnInv, NEW piece, StreamDelta(piece)
    PROVE  TurnInv'
  <1>1. turn.pc = "stream"
    BY DEF StreamDelta, Streaming
  <1>2. ASSUME Fits(1), Accept, turn' = [turn EXCEPT !.text = Append(@, piece), !.spoken = @ + 1],
               UNCHANGED <<session, durable, cancelled, invoked>>
        PROVE  TurnInv'
    <2>1. IsSeq(Append(turn.text, piece))
      BY Appended DEF TurnInv, TurnOK
    <2>2. turn.spoken + 1 \in 0..MaxTotalModelOutput
      <3>1. turn.spoken \in 0..MaxTotalModelOutput /\ turn.spoken + 1 <= MaxTotalModelOutput
        BY <1>2 DEF TurnInv, TurnOK, Fits
      <3> QED BY <3>1, Limits, Counts
    <2>3. TurnOK(turn') /\ turn'.pc = "stream"
      BY <1>1, <1>2, <2>1, <2>2 DEF TurnInv, TurnOK, TurnFields
    <2> QED BY <1>1, <1>2, <2>3, StreamKeeps
  <1>3. ASSUME Accept \/ Refuse, Breaks("sink") \/ Breaks("protocol")
        PROVE  TurnInv'
    BY <1>1, <1>3, BreaksKeeps DEF Errors
  <1> QED BY <1>2, <1>3 DEF StreamDelta

(* reidentify_call counts the arguments it lets through. *)
LEMMA StreamCallKeeps ==
    ASSUME TurnInv, NEW id, NEW tool, StreamCall(id, tool)
    PROVE  TurnInv'
  <1>1. turn.pc = "stream"
    BY DEF StreamCall, Streaming
  <1>2. PICK c : c = <<[id |-> id, tool |-> tool]>>
    OBVIOUS
  <1>3. PICK call : call = Reidentified(c)
    OBVIOUS
  <1>4. ASSUME Admissible(c), Accept,
               turn' = [turn EXCEPT !.source = @ \o c, !.calls = @ \o call,
                                    !.fresh = @ \cup ToolIds(call), !.arguments = @ + 1],
               durable' = Audited(1, 2), UNCHANGED <<session, cancelled, invoked>>
        PROVE  TurnInv'
    <2>1. IsSeq(c) /\ Len(c) = 1 /\ IsSeq(call)
      BY <1>2, <1>3, ShortLists, ReidentifiedIs
    <2>2. IsSeq(turn.source \o c) /\ IsSeq(turn.calls \o call)
      BY <2>1, Joined DEF TurnInv, TurnOK
    <2>3. turn.arguments + 1 \in 0..MaxTotalToolArguments
      <3>1. turn.arguments \in 0..MaxTotalToolArguments /\ turn.arguments + 1 <= MaxTotalToolArguments
        BY <1>4, <2>1 DEF TurnInv, TurnOK, Admissible
      <3> QED BY <3>1, Limits, Counts
    <2>4. TurnOK(turn') /\ turn'.pc = "stream"
      BY <1>1, <1>4, <2>2, <2>3 DEF TurnInv, TurnOK, TurnFields
    <2> QED BY <1>1, <1>4, <2>4, StreamKeeps
  <1>5. ASSUME Accept \/ Refuse, Breaks("sink") \/ Breaks("protocol")
        PROVE  TurnInv'
    BY <1>1, <1>5, BreaksKeeps DEF Errors
  <1> QED BY <1>2, <1>3, <1>4, <1>5 DEF StreamCall

(* A terminal response has lists of text and calls. *)
LEMMA StreamTerminalKeeps ==
    ASSUME TurnInv, Streaming, NEW response \in Responses, StreamTerminal(response)
    PROVE  TurnInv'
  <1>1. turn.pc = "stream"
    BY DEF Streaming
  <1>2. DOMAIN response = {"text", "calls", "finish"}
    BY DEF Responses
  <1>3. IsSeq(response.text)
    <2>1. PICK k \in 0..MaxModelOutput : response.text \in [1..k -> Pieces]
      BY DEF Responses
    <2>2. response.text \in Seq(Pieces)
      BY <2>1, Limits, SeqDef
    <2> QED BY <2>2 DEF IsSeq
  <1>4. IsSeq(response.calls)
    <2>1. CASE turn.source = <<>>
      <3>1. PICK k \in 0..MaxToolCallsPerRound : response.calls \in [1..k -> SourceCalls]
        BY <2>1 DEF Responses
      <3>2. response.calls \in Seq(SourceCalls)
        BY <3>1, Limits, SeqDef
      <3> QED BY <3>2 DEF IsSeq
    <2>2. CASE turn.source # <<>>
      <3>1. response.calls \in {<<>>, turn.source}
        BY <2>2 DEF Responses
      <3> QED BY <3>1, ShortLists DEF TurnInv, TurnOK
    <2> QED BY <2>1, <2>2
  <1>5. ResponseOK(response)
    BY <1>2, <1>3, <1>4 DEF ResponseOK
  <1>6. turn' = [turn EXCEPT !.response = response] /\ Accept /\ UNCHANGED <<session, durable, sink, cancelled, invoked>>
    BY DEF StreamTerminal
  <1>7. TurnOK(turn') /\ turn'.pc = "stream"
    BY <1>1, <1>5, <1>6 DEF TurnInv, TurnOK, TurnFields
  <1> QED BY <1>1, <1>6, <1>7, StreamKeeps

(* The rest of the text and the late calls are counted as the streamed are. *)
LEMMA StreamEndsKeeps ==
    ASSUME TurnInv, StreamEnds
    PROVE  TurnInv'
  <1>1. turn.pc = "stream"
    BY DEF StreamEnds, Streaming
  <1>2. PICK late : late = IF turn.calls = <<>> THEN Reidentified(turn.response.calls) ELSE <<>>
    OBVIOUS
  <1>3. ASSUME Reconciles, Accept,
               turn' = [turn EXCEPT !.pc = "answered", !.text = <<>>, !.source = <<>>,
                                    !.spoken = @ + Len(Missing), !.response.calls = <<>>,
                                    !.calls = @ \o late, !.fresh = @ \cup ToolIds(late),
                                    !.arguments = @ + Len(late)],
               durable' = Audited(Len(late), 2 * Len(late)), UNCHANGED <<session, cancelled, invoked>>
        PROVE  TurnInv'
    <2>1. IsSeq(late) /\ Len(late) \in Nat
      BY <1>2, ShortLists, ReidentifiedIs, ListIs DEF TurnInv, TurnOK, ResponseOK
    <2>2. IsSeq(turn.calls \o late)
      BY <2>1, Joined DEF TurnInv, TurnOK
    <2>3. turn.arguments + Len(late) \in 0..MaxTotalToolArguments
      <3>1. turn.arguments \in 0..MaxTotalToolArguments /\ IsSeq(turn.response.calls) /\ MaxTotalToolArguments \in Nat
        BY Limits DEF TurnInv, TurnOK, ResponseOK
      <3>2. CASE turn.calls = <<>>
        <4>1. turn.arguments + Len(turn.response.calls) <= MaxTotalToolArguments
          BY <1>3, <3>2 DEF Reconciles, Admissible
        <4>2. Len(late) = Len(turn.response.calls)
          BY <1>2, <3>1, <3>2, ReidentifiedIs
        <4> QED BY <2>1, <3>1, <4>1, <4>2
      <3>3. CASE turn.calls # <<>>
        BY <1>2, <3>1, <3>3, ShortLists
      <3> QED BY <3>2, <3>3
    <2>4. turn.spoken + Len(Missing) \in 0..MaxTotalModelOutput
      <3>1. IsSeq(turn.text) /\ IsSeq(turn.response.text) /\ turn.spoken \in 0..MaxTotalModelOutput
        BY DEF TurnInv, TurnOK, ResponseOK
      <3>2. Len(turn.text) \in Nat /\ Len(turn.response.text) \in Nat
        BY <3>1, ListIs
      <3>3. Len(turn.text) <= Len(turn.response.text)
        BY <1>3, <3>2 DEF Reconciles, IsPrefix
      <3>4. Len(Missing) = Len(turn.response.text) - Len(turn.text)
        BY <3>1, <3>2, <3>3, CutOff DEF Missing
      <3>5. turn.spoken + Len(Missing) <= MaxTotalModelOutput
        BY <1>3 DEF Reconciles, Fits
      <3>6. Len(Missing) \in Nat
        BY <3>2, <3>3, <3>4
      <3> QED BY <3>1, <3>5, <3>6, Limits, Counts
    <2>5. PICK r : r = [turn.response EXCEPT !.calls = <<>>]
      OBVIOUS
    <2>6. ResponseOK(r)
      BY <2>5, ShortLists DEF TurnInv, TurnOK, ResponseOK
    <2>7. TurnOK(turn') /\ turn'.pc = "answered"
      <3>1. turn' = [turn EXCEPT !.pc = "answered", !.text = <<>>, !.source = <<>>,
                                 !.spoken = @ + Len(Missing), !.response = r,
                                 !.calls = @ \o late, !.fresh = @ \cup ToolIds(late),
                                 !.arguments = @ + Len(late)]
        BY <1>3, <2>5
      <3> HIDE <1>3
      <3> QED BY <2>2, <2>3, <2>4, <2>6, <3>1, ShortLists DEF TurnInv, TurnOK, TurnFields, Places
    <2>8. 2 * Len(late) \in Nat
      BY <2>1
    <2> QED BY <1>1, <1>3, <2>1, <2>7, <2>8, StreamKeeps
  <1>4. ASSUME Accept \/ Refuse, Breaks("sink") \/ Breaks("protocol")
        PROVE  TurnInv'
    BY <1>1, <1>4, BreaksKeeps DEF Errors
  <1> QED BY <1>2, <1>3, <1>4 DEF StreamEnds

(* A broken or cancelled stream. *)
LEMMA StreamStopsKeeps ==
    ASSUME TurnInv, StreamBreaks \/ StreamCancelled
    PROVE  TurnInv'
  <1>1. turn.pc = "stream" /\ (Breaks("protocol") \/ Breaks("cancelled")) /\ Accept
    BY DEF StreamBreaks, StreamCancelled, Streaming
  <1> QED BY <1>1, BreaksKeeps DEF Errors

(* cancel_and_wait. *)
LEMMA CloseStreamKeeps ==
    ASSUME TurnInv, CloseStream
    PROVE  TurnInv'
  <1>1. TurnOK(turn') /\ turn'.pc = "failing"
    BY MovesIs, FailsIs DEF CloseStream, Places, Errors
  <1>2. DurableOK(durable') /\ RestOK'
    BY FaultsAre DEF CloseStream, TurnInv, session, RestOK
  <1> QED BY <1>1, <1>2, NoAccount

-----------------------------------------------------------------------------
(* The tool batch.                                                         *)

(* Everything that is added up is a number. *)
NumbersOf(t, d) ==
    /\ EventsBase(t, d) \in Nat /\ BytesBase(t, d) \in Nat
    /\ EventsSpent(t, d) \in Nat /\ BytesSpent(t, d) \in Nat
    /\ EventsLeft(t.pc) \in Nat /\ EventsLeft(t.pc) >= 2
    /\ BytesLeft(t.pc) \in Nat /\ BytesLeft(t.pc) >= 2
    /\ CallsLeft(t) \in Int

(* The fields that are added up are numbers. *)
LEMMA FieldNumbers ==
    ASSUME NEW t, TurnOK(t), NEW d, DurableOK(d)
    PROVE  /\ Len(t.pend) \in Nat /\ Len(t.results) \in Nat /\ Len(t.calls) \in Nat
           /\ Len(t.response.text) \in Nat /\ t.bytes \in Nat /\ t.at \in Nat
           /\ t.output \in 0..MaxTotalToolOutput
           /\ d.live \in Nat /\ d.liveBytes \in Nat /\ d.batch \in Nat /\ d.batchBytes \in Nat
           /\ d.events \in Nat /\ d.bytes \in Nat
  <1>1. /\ Len(t.pend) \in Nat /\ Len(t.results) \in Nat /\ Len(t.calls) \in Nat
        /\ Len(t.response.text) \in Nat
    BY ListIs DEF TurnOK, ResponseOK
  <1>2. /\ t.bytes \in Nat /\ t.at \in Nat /\ t.output \in 0..MaxTotalToolOutput
    BY DEF TurnOK
  <1>3. /\ d.live \in Nat /\ d.liveBytes \in Nat /\ d.batch \in Nat /\ d.batchBytes \in Nat
        /\ d.events \in Nat /\ d.bytes \in Nat
    BY Limits DEF DurableOK
  <1> QED BY <1>1, <1>2, <1>3

(* So are the sums. *)
LEMMA Numbers ==
    ASSUME NEW t, TurnOK(t), NEW d, DurableOK(d)
    PROVE  NumbersOf(t, d)
  <1>1. PICK p \in Nat : p = Len(t.pend)
    BY FieldNumbers
  <1>2. PICK r \in Nat : r = Len(t.results)
    BY FieldNumbers
  <1>3. PICK c \in Nat : c = Len(t.calls)
    BY FieldNumbers
  <1>4. PICK w \in Nat : w = Len(t.response.text)
    BY FieldNumbers
  <1>5. d.events \in Nat /\ d.bytes \in Nat /\ t.bytes \in Nat /\ t.at \in Nat
    BY FieldNumbers
  <1>6. d.live \in Nat /\ d.liveBytes \in Nat /\ d.batch \in Nat /\ d.batchBytes \in Nat
    BY FieldNumbers
  <1>7. EventsBase(t, d) \in Nat
    BY <1>1, <1>5 DEF EventsBase
  <1>8. BytesBase(t, d) \in Nat
    <2>1. PICK e \in Nat : e = d.bytes
      BY <1>5
    <2>2. BytesBase(t, d) = e + p + (1 + w + c)
      BY <1>1, <1>3, <1>4, <2>1 DEF BytesBase
    <2> QED BY <2>2
  <1>9. EventsSpent(t, d) \in Nat
    BY <1>2, <1>6 DEF EventsSpent
  <1>10. BytesSpent(t, d) \in Nat
    BY <1>5, <1>6 DEF BytesSpent
  <1>11. CallsLeft(t) \in Int
    BY <1>3, <1>5 DEF CallsLeft
  <1>12. EventsLeft(t.pc) \in Nat /\ EventsLeft(t.pc) >= 2
    BY DEF EventsLeft
  <1>13. BytesLeft(t.pc) \in Nat /\ BytesLeft(t.pc) >= 2
    BY DEF BytesLeft
  <1> QED BY <1>7, <1>8, <1>9, <1>10, <1>11, <1>12, <1>13 DEF NumbersOf

(* What a step of the batch leaves alone. *)
SameBatch(t, d) ==
    /\ t.pend = turn.pend /\ t.calls = turn.calls /\ t.response = turn.response
    /\ d.events = durable.events /\ d.bytes = durable.bytes

(* A step that leaves the batch alone leaves its fixed part alone. *)
LEMMA SameBase ==
    ASSUME NEW t, NEW d, SameBatch(t, d)
    PROVE  EventsBase(t, d) = EventsBase(turn, durable) /\ BytesBase(t, d) = BytesBase(turn, durable)
  BY DEF SameBatch, EventsBase, BytesBase

(* A step that spends no more than was left for it.                        *)
LEMMA SpendsEvents ==
    ASSUME NEW max \in Nat, NEW base \in Nat, NEW spent \in Nat, NEW due \in Int,
           NEW spent2 \in Nat, NEW due2 \in Int, base + spent + due <= max, spent2 + due2 <= spent + due
    PROVE  base + spent2 + due2 <= max
  OBVIOUS

(* The same for a step after which nothing is due. *)
LEMMA SpendsAll ==
    ASSUME NEW max \in Nat, NEW base \in Nat, NEW spent \in Nat, NEW due \in Int,
           NEW spent2 \in Nat, base + spent + due <= max, spent2 <= spent + due
    PROVE  base + spent2 <= max
  OBVIOUS

(* A step of the batch that spends from what was left keeps the account. *)
LEMMA SpendsKeeps ==
    ASSUME TurnInv, turn.pc \in Inside, TurnOK(turn'), DurableOK(durable'), RestOK', turn'.pc \in Inside,
           SameBatch(turn', durable'), 1 <= turn'.at, turn'.at <= Len(turn'.calls),
           EventsDue(turn) \in Int, EventsDue(turn') \in Int, BytesDue(turn) \in Int, BytesDue(turn') \in Int,
           EventsSpent(turn', durable') + EventsDue(turn') <= EventsSpent(turn, durable) + EventsDue(turn),
           BytesSpent(turn', durable') + BytesDue(turn') <= BytesSpent(turn, durable) + BytesDue(turn)
    PROVE  TurnInv'
  <1>1. NumbersOf(turn, durable) /\ NumbersOf(turn', durable')
    BY Numbers DEF TurnInv
  <1>2. /\ EventsBase(turn', durable') = EventsBase(turn, durable)
        /\ BytesBase(turn', durable') = BytesBase(turn, durable)
    BY SameBase
  <1>3. EventsBase(turn, durable) + EventsSpent(turn, durable) + EventsDue(turn) <= MaxInvocationEvents
    BY DEF TurnInv, Account
  <1>4. BytesBase(turn, durable) + BytesSpent(turn, durable) + BytesDue(turn) <= MaxInvocationBytes
    BY DEF TurnInv, Account
  <1>5. EventsBase(turn, durable) + EventsSpent(turn', durable') + EventsDue(turn') <= MaxInvocationEvents
    BY <1>1, <1>3, Limits, SpendsEvents DEF NumbersOf
  <1>6. BytesBase(turn, durable) + BytesSpent(turn', durable') + BytesDue(turn') <= MaxInvocationBytes
    BY <1>1, <1>4, Limits, SpendsEvents DEF NumbersOf
  <1>7. turn'.pc \notin Outside /\ turn'.pc # "plan" /\ turn'.pc # "commit"
    BY DEF Inside, Outside
  <1>8. Account'
    BY <1>2, <1>5, <1>6, <1>7 DEF Account
  <1> QED BY <1>8 DEF TurnInv

(* The batch is complete, and nothing more is due. *)
LEMMA CompletesKeeps ==
    ASSUME TurnInv, turn.pc \in Inside, TurnOK(turn'), DurableOK(durable'), RestOK', turn'.pc = "commit",
           SameBatch(turn', durable'), EventsDue(turn) \in Int, BytesDue(turn) \in Int,
           EventsSpent(turn', durable') <= EventsSpent(turn, durable) + EventsDue(turn),
           BytesSpent(turn', durable') <= BytesSpent(turn, durable) + BytesDue(turn)
    PROVE  TurnInv'
  <1>1. NumbersOf(turn, durable) /\ NumbersOf(turn', durable')
    BY Numbers DEF TurnInv
  <1>2. /\ EventsBase(turn', durable') = EventsBase(turn, durable)
        /\ BytesBase(turn', durable') = BytesBase(turn, durable)
    BY SameBase
  <1>3. EventsBase(turn, durable) + EventsSpent(turn, durable) + EventsDue(turn) <= MaxInvocationEvents
    BY DEF TurnInv, Account
  <1>4. BytesBase(turn, durable) + BytesSpent(turn, durable) + BytesDue(turn) <= MaxInvocationBytes
    BY DEF TurnInv, Account
  <1>5. EventsBase(turn, durable) + EventsSpent(turn', durable') <= MaxInvocationEvents
    BY <1>1, <1>3, Limits, SpendsAll DEF NumbersOf
  <1>6. BytesBase(turn, durable) + BytesSpent(turn', durable') <= MaxInvocationBytes
    BY <1>1, <1>4, Limits, SpendsAll DEF NumbersOf
  <1>7. turn'.pc \notin Outside /\ turn'.pc # "plan" /\ turn'.pc \notin Inside
    BY DEF Inside, Outside
  <1>8. Account'
    BY <1>2, <1>5, <1>6, <1>7 DEF Account
  <1> QED BY <1>8 DEF TurnInv

(* Between its places, what a batch may still add is a number. *)
LEMMA DueIs ==
    ASSUME TurnInv, turn.pc \in Inside
    PROVE  /\ turn.at \in Nat /\ 1 <= turn.at /\ turn.at <= Len(turn.calls) /\ Len(turn.calls) \in Nat
           /\ CallsLeft(turn) \in Nat /\ MaxTotalToolOutput - turn.output \in Nat
           /\ EventsDue(turn) \in Nat /\ BytesDue(turn) \in Nat
           /\ NumbersOf(turn, durable)
  <1>1. TurnOK(turn) /\ DurableOK(durable) /\ 1 <= turn.at /\ turn.at <= Len(turn.calls)
    BY DEF TurnInv, Account
  <1>2. turn.at \in Nat /\ turn.output \in 0..MaxTotalToolOutput /\ Len(turn.calls) \in Nat
    BY <1>1, FieldNumbers
  <1>3. CallsLeft(turn) \in Nat
    BY <1>1, <1>2 DEF CallsLeft
  <1>4. MaxTotalToolOutput - turn.output \in Nat
    BY <1>2, Limits
  <1>5. NumbersOf(turn, durable)
    BY <1>1, Numbers
  <1>6. PICK k \in Nat : k = CallsLeft(turn)
    BY <1>3
  <1>7. PICK o \in Nat : o = MaxTotalToolOutput - turn.output
    BY <1>4
  <1>8. EventsLeft(turn.pc) \in Nat /\ BytesLeft(turn.pc) \in Nat
    BY <1>5 DEF NumbersOf
  <1>9. EventsDue(turn) \in Nat
    BY <1>6, <1>8 DEF EventsDue
  <1>10. BytesDue(turn) \in Nat
    BY <1>6, <1>7, <1>8 DEF BytesDue
  <1> QED BY <1>1, <1>2, <1>3, <1>4, <1>5, <1>9, <1>10

(* The reservation of start_tool_batch opens the account. *)
LEMMA StartToolBatchKeeps ==
    ASSUME TurnInv, StartToolBatch
    PROVE  TurnInv'
  <1>1. TurnOK(turn) /\ DurableOK(durable) /\ turn.calls # <<>> /\ durable.batch = 0 /\ durable.batchBytes = 0
    BY DEF TurnInv, Account, StartToolBatch, Outside
  <1>2. PICK n \in Nat : n = Len(turn.calls)
    BY <1>1, FieldNumbers
  <1>3. ASSUME WithinBudget(ReservedEvents(n), ReservedBytes(n)), Accept,
               durable' = [Flushed(durable, 0, 0) EXCEPT !.pending = TRUE],
               turn' = [turn EXCEPT !.pc = "call", !.at = 1, !.results = <<>>, !.bytes = 0],
               UNCHANGED <<session, sink, cancelled, invoked>>
        PROVE  TurnInv'
    <2>1. n >= 1
      BY <1>1, <1>2, ListIs DEF TurnOK
    <2>2. /\ TurnOK(turn') /\ turn'.pc = "call" /\ turn'.at = 1 /\ turn'.results = <<>> /\ turn'.bytes = 0
          /\ turn'.pend = turn.pend /\ turn'.calls = turn.calls /\ turn'.response = turn.response
          /\ turn'.output = turn.output
      BY <1>1, <1>3, ShortLists DEF TurnOK, TurnFields, Places
    <2>3. PICK f : f = Flushed(durable, 0, 0)
      OBVIOUS
    <2>4. PICK live \in Nat : live = durable.live
      BY <1>1, FieldNumbers
    <2>5. PICK liveBytes \in Nat : liveBytes = durable.liveBytes
      BY <1>1, FieldNumbers
    <2>6. /\ DurableOK(f) /\ f.live = 0 /\ f.liveBytes = 0 /\ f.batch = live
          /\ f.batchBytes = liveBytes /\ f.events = durable.events /\ f.bytes = durable.bytes
      <3>1. /\ DurableOK(f) /\ f.live = 0 /\ f.liveBytes = 0
            /\ f.batch = durable.batch + durable.live + 0 /\ f.batchBytes = durable.batchBytes + durable.liveBytes + 0
            /\ f.events = durable.events /\ f.bytes = durable.bytes
        BY <1>1, <2>3, FlushedIs
      <3>2. f.batch = 0 + live + 0 /\ f.batchBytes = 0 + liveBytes + 0
        BY <1>1, <2>4, <2>5, <3>1
      <3> QED BY <3>1, <3>2
    <2>7. /\ DurableOK(durable') /\ durable'.live = 0 /\ durable'.liveBytes = 0 /\ durable'.batch = live
          /\ durable'.batchBytes = liveBytes /\ durable'.events = durable.events /\ durable'.bytes = durable.bytes
      BY <1>3, <2>3, <2>6 DEF DurableOK, DurableFields
    <2>8. RestOK'
      BY <1>3, FaultsAre DEF TurnInv, session, RestOK
    <2>9. PICK p \in Nat : p = Len(turn.pend)
      BY <1>1, FieldNumbers
    <2>10. PICK w \in Nat : w = Len(turn.response.text)
      BY <1>1, FieldNumbers
    <2>11. PICK e \in Nat : e = durable.events
      BY <1>1, FieldNumbers
    <2>12. PICK b \in Nat : b = durable.bytes
      BY <1>1, FieldNumbers
    <2>13. PICK o \in 0..MaxTotalToolOutput : o = turn.output
      BY <1>1, FieldNumbers
    <2>14. e + (p + live + 1 + 5 * n) <= MaxInvocationEvents
      BY <1>2, <1>3, <2>4, <2>9, <2>11 DEF WithinBudget, ReservedEvents, PlannedEvents
    <2>15. b + (p + liveBytes + (1 + w + n) + 2 * MaxTotalToolOutput + 2 * n + (2 + 3) * n + n)
             <= MaxInvocationBytes
      BY <1>2, <1>3, <2>5, <2>9, <2>10, <2>12 DEF WithinBudget, ReservedBytes, PlannedBytes, AssistantBytes
    <2>16. /\ EventsBase(turn', durable') = e + p + 1 /\ EventsSpent(turn', durable') = 0 + live + 0
           /\ CallsLeft(turn') = n - 1 /\ EventsDue(turn') = 5 + 5 * (n - 1)
      BY <1>2, <2>2, <2>7, <2>9, <2>11, ShortLists DEF EventsBase, EventsSpent, CallsLeft, EventsDue, EventsLeft
    <2>17. /\ BytesBase(turn', durable') = b + p + (1 + w + n) /\ BytesSpent(turn', durable') = 0 + liveBytes + 0
           /\ BytesDue(turn') = 8 + 8 * (n - 1) + 2 * (MaxTotalToolOutput - o)
      BY <1>2, <2>2, <2>7, <2>9, <2>10, <2>12, <2>13 DEF BytesBase, BytesSpent, CallsLeft, BytesDue, BytesLeft
    <2>18. (e + p + 1) + (0 + live + 0) + (5 + 5 * (n - 1)) <= MaxInvocationEvents
      BY <2>14, Limits
    <2>19. (b + p + (1 + w + n)) + (0 + liveBytes + 0) + (8 + 8 * (n - 1) + 2 * (MaxTotalToolOutput - o))
             <= MaxInvocationBytes
      BY <2>15, Limits
    <2>20. turn'.pc \notin Outside /\ turn'.pc # "plan" /\ turn'.pc # "commit"
      BY <2>2 DEF Outside
    <2>21. Account'
      <3>1. 1 <= turn'.at /\ turn'.at <= Len(turn'.calls)
        BY <1>2, <2>1, <2>2
      <3>2. EventsBase(turn', durable') + EventsSpent(turn', durable') + EventsDue(turn') <= MaxInvocationEvents
        BY <2>16, <2>18
      <3>3. BytesBase(turn', durable') + BytesSpent(turn', durable') + BytesDue(turn') <= MaxInvocationBytes
        BY <2>17, <2>19
      <3> QED BY <2>20, <3>1, <3>2, <3>3 DEF Account
    <2> QED BY <2>2, <2>7, <2>8, <2>21 DEF TurnInv
  <1> QED BY <1>2, <1>3, CheckpointRefusedKeeps DEF StartToolBatch


(* A call moves from place to place and spends n events and b bytes. *)
LEMMA MovesInBatch ==
    ASSUME TurnInv, turn.pc \in Inside, NEW pc \in Inside, turn' = [turn EXCEPT !.pc = pc],
           DurableOK(durable'), RestOK', durable'.events = durable.events, durable'.bytes = durable.bytes,
           NEW n \in Nat, EventsSpent(turn', durable') = EventsSpent(turn, durable) + n,
           NEW b \in Nat, BytesSpent(turn', durable') = BytesSpent(turn, durable) + b,
           EventsLeft(pc) + n <= EventsLeft(turn.pc), BytesLeft(pc) + b <= BytesLeft(turn.pc)
    PROVE  TurnInv'
  <1>1. pc \in Places
    BY DEF Inside, Places
  <1>2. TurnOK(turn') /\ turn'.pc = pc
    BY <1>1, MovesIs
  <1>3. /\ turn'.pend = turn.pend /\ turn'.calls = turn.calls /\ turn'.response = turn.response
        /\ turn'.at = turn.at /\ turn'.output = turn.output
    BY DEF TurnInv, TurnOK, TurnFields
  <1>4. SameBatch(turn', durable')
    BY <1>3 DEF SameBatch
  <1>5. CallsLeft(turn') = CallsLeft(turn)
    BY <1>3 DEF CallsLeft
  <1>6. PICK k \in Nat : k = CallsLeft(turn)
    BY DueIs
  <1>7. PICK o \in Nat : o = MaxTotalToolOutput - turn.output
    BY DueIs
  <1>8. PICK s \in Nat : s = EventsSpent(turn, durable)
    BY DueIs DEF NumbersOf
  <1>9. PICK v \in Nat : v = BytesSpent(turn, durable)
    BY DueIs DEF NumbersOf
  <1>10. PICK l \in Nat : l = EventsLeft(turn.pc)
    BY DueIs DEF NumbersOf
  <1>11. PICK m \in Nat : m = BytesLeft(turn.pc)
    BY DueIs DEF NumbersOf
  <1>12. PICK l2 \in Nat : l2 = EventsLeft(pc)
    BY DEF EventsLeft
  <1>13. PICK m2 \in Nat : m2 = BytesLeft(pc)
    BY DEF BytesLeft
  <1>14. EventsDue(turn) = l + 5 * k /\ EventsDue(turn') = l2 + 5 * k
    BY <1>2, <1>5, <1>6, <1>10, <1>12 DEF EventsDue
  <1>15. BytesDue(turn) = m + 8 * k + 2 * o /\ BytesDue(turn') = m2 + 8 * k + 2 * o
    BY <1>2, <1>3, <1>5, <1>6, <1>7, <1>11, <1>13 DEF BytesDue
  <1>16. l2 + n <= l /\ m2 + b <= m
    BY <1>10, <1>11, <1>12, <1>13
  <1>17. /\ (s + n) + (l2 + 5 * k) <= s + (l + 5 * k)
         /\ (v + b) + (m2 + 8 * k + 2 * o) <= v + (m + 8 * k + 2 * o)
    BY <1>16
  <1>18. /\ EventsSpent(turn', durable') + EventsDue(turn') <= EventsSpent(turn, durable) + EventsDue(turn)
         /\ BytesSpent(turn', durable') + BytesDue(turn') <= BytesSpent(turn, durable) + BytesDue(turn)
    BY <1>8, <1>9, <1>14, <1>15, <1>17
  <1>19. EventsDue(turn) \in Int /\ EventsDue(turn') \in Int /\ BytesDue(turn) \in Int /\ BytesDue(turn') \in Int
    BY <1>14, <1>15
  <1>20. 1 <= turn'.at /\ turn'.at <= Len(turn'.calls) /\ turn'.pc \in Inside
    BY <1>2, <1>3, DueIs
  <1> QED BY <1>2, <1>4, <1>18, <1>19, <1>20, SpendsKeeps

(* A checkpoint of the batch records n events of b bytes. *)
LEMMA FlushSpends ==
    ASSUME TurnInv, NEW pc, turn' = [turn EXCEPT !.pc = pc], NEW n \in Nat, NEW b \in Nat,
           \/ durable' = Flushed(durable, n, b)
           \/ durable' = [Flushed(durable, n, b) EXCEPT !.touched = TRUE]
    PROVE  /\ DurableOK(durable') /\ durable'.events = durable.events /\ durable'.bytes = durable.bytes
           /\ EventsSpent(turn', durable') = EventsSpent(turn, durable) + n
           /\ BytesSpent(turn', durable') = BytesSpent(turn, durable) + b
  <1>1. TurnOK(turn) /\ DurableOK(durable)
    BY DEF TurnInv
  <1>2. PICK f : f = Flushed(durable, n, b)
    OBVIOUS
  <1>3. /\ DurableOK(f) /\ f.live = 0 /\ f.liveBytes = 0
        /\ f.batch = durable.batch + durable.live + n
        /\ f.batchBytes = durable.batchBytes + durable.liveBytes + b
        /\ f.events = durable.events /\ f.bytes = durable.bytes
    BY <1>1, <1>2, FlushedIs
  <1>4. durable' = f \/ durable' = [f EXCEPT !.touched = TRUE]
    BY <1>2
  <1>5. /\ DurableOK(durable') /\ durable'.live = 0 /\ durable'.liveBytes = 0
        /\ durable'.batch = durable.batch + durable.live + n
        /\ durable'.batchBytes = durable.batchBytes + durable.liveBytes + b
        /\ durable'.events = durable.events /\ durable'.bytes = durable.bytes
    BY <1>3, <1>4 DEF DurableOK, DurableFields
  <1>6. turn'.results = turn.results /\ turn'.bytes = turn.bytes
    BY <1>1 DEF TurnOK, TurnFields
  <1>7. PICK r \in Nat : r = Len(turn.results)
    BY <1>1, FieldNumbers
  <1>8. PICK y \in Nat : y = turn.bytes
    BY <1>1, FieldNumbers
  <1>9. PICK p \in Nat : p = durable.batch
    BY <1>1, FieldNumbers
  <1>10. PICK q \in Nat : q = durable.live
    BY <1>1, FieldNumbers
  <1>11. PICK u \in Nat : u = durable.batchBytes
    BY <1>1, FieldNumbers
  <1>12. PICK z \in Nat : z = durable.liveBytes
    BY <1>1, FieldNumbers
  <1>13. EventsSpent(turn', durable') = r + (p + q + n) + 0 /\ EventsSpent(turn, durable) = r + p + q
    BY <1>5, <1>6, <1>7, <1>9, <1>10 DEF EventsSpent
  <1>14. BytesSpent(turn', durable') = y + (u + z + b) + 0 /\ BytesSpent(turn, durable) = y + u + z
    BY <1>5, <1>6, <1>8, <1>11, <1>12 DEF BytesSpent
  <1>15. EventsSpent(turn', durable') = EventsSpent(turn, durable) + n
    BY <1>13
  <1>16. BytesSpent(turn', durable') = BytesSpent(turn, durable) + b
    BY <1>14
  <1> QED BY <1>5, <1>15, <1>16

(* The calls after the current one. *)
LEMMA RestIs ==
    ASSUME TurnInv, turn.pc \in Inside
    PROVE  IsSeq(Rest) /\ Len(Rest) = CallsLeft(turn) /\ CallsLeft(turn) \in Nat
  <1>1. IsSeq(turn.calls) /\ turn.at \in Nat /\ turn.at <= Len(turn.calls) /\ CallsLeft(turn) \in Nat
    BY DueIs DEF TurnInv, TurnOK
  <1> QED BY <1>1, CutOff DEF Rest, CallsLeft

(* The turn with a result of so many bytes, and what its checkpoint costs. *)
AddsResult(t, x, kept) == t.results = Append(turn.results, x) /\ t.bytes = turn.bytes + 1 + kept

CostsResult(t, d, kept) ==
    /\ DurableOK(d) /\ d.events = durable.events /\ d.bytes = durable.bytes
    /\ EventsSpent(t, d) = EventsSpent(turn, durable) + 2
    /\ BytesSpent(t, d) = BytesSpent(turn, durable) + 2 + 2 * kept

(* A completion with its result: two events, and its output twice. *)
LEMMA ResultIs ==
    ASSUME TurnInv, NEW t, NEW d, NEW kept \in Nat, NEW x, AddsResult(t, x, kept), d = Recorded(durable, 1, 1 + kept)
    PROVE  CostsResult(t, d, kept)
  <1>1. TurnOK(turn) /\ DurableOK(durable) /\ IsSeq(turn.results) /\ 1 + kept \in Nat
        /\ t.results = Append(turn.results, x) /\ t.bytes = turn.bytes + 1 + kept
    BY DEF TurnInv, TurnOK, AddsResult
  <1>2. /\ DurableOK(d) /\ d.live = 0 /\ d.liveBytes = 0
        /\ d.batch = durable.batch + durable.live + 1
        /\ d.batchBytes = durable.batchBytes + durable.liveBytes + (1 + kept)
        /\ d.events = durable.events /\ d.bytes = durable.bytes
    <2>1. PICK g \in Nat : g = 1 + kept
      BY <1>1
    <2>2. d = Recorded(durable, 1, g) /\ 1 \in Nat
      BY <2>1
    <2>3. PICK n \in Nat : n = 1
      OBVIOUS
    <2>4. DurableOK(durable)
      BY <1>1
    <2>5. /\ DurableOK(Recorded(durable, n, g)) /\ Recorded(durable, n, g).live = 0
          /\ Recorded(durable, n, g).liveBytes = 0
          /\ Recorded(durable, n, g).batch = durable.batch + durable.live + n
          /\ Recorded(durable, n, g).batchBytes = durable.batchBytes + durable.liveBytes + g
          /\ Recorded(durable, n, g).events = durable.events /\ Recorded(durable, n, g).bytes = durable.bytes
      BY <2>4, RecordedIs
    <2> QED BY <2>1, <2>2, <2>3, <2>5
  <1>7. PICK r \in Nat : r = Len(turn.results)
    BY <1>1, FieldNumbers
  <1>8. PICK y \in Nat : y = turn.bytes
    BY <1>1, FieldNumbers
  <1>9. PICK p \in Nat : p = durable.batch
    BY <1>1, FieldNumbers
  <1>10. PICK q \in Nat : q = durable.live
    BY <1>1, FieldNumbers
  <1>11. PICK u \in Nat : u = durable.batchBytes
    BY <1>1, FieldNumbers
  <1>12. PICK z \in Nat : z = durable.liveBytes
    BY <1>1, FieldNumbers
  <1>13. EventsSpent(t, d) = (r + 1) + (p + q + 1) + 0 /\ EventsSpent(turn, durable) = r + p + q
    BY <1>1, <1>2, <1>7, <1>9, <1>10, Appended DEF EventsSpent
  <1>14. BytesSpent(t, d) = (y + 1 + kept) + (u + z + (1 + kept)) + 0 /\ BytesSpent(turn, durable) = y + u + z
    BY <1>1, <1>2, <1>8, <1>11, <1>12 DEF BytesSpent
  <1>15. EventsSpent(t, d) = EventsSpent(turn, durable) + 2
    BY <1>13
  <1>16. BytesSpent(t, d) = BytesSpent(turn, durable) + 2 + 2 * kept
    BY <1>14
  <1> QED BY <1>2, <1>15, <1>16 DEF CostsResult

(* The record WithResult builds. *)
LEMMA WithResultIs ==
    ASSUME TurnInv, NEW said, NEW kept \in Nat, turn.output + kept \in 0..MaxTotalToolOutput, NEW t,
           NEW r, r = WithResult(said, kept), t = [r EXCEPT !.output = r.output + kept] \/ (kept = 0 /\ t = r)
    PROVE  /\ TurnOK(t) /\ t.results = Append(turn.results, Result(Call.id, said))
           /\ t.bytes = turn.bytes + 1 + kept /\ t.output = turn.output + kept
           /\ t.pend = turn.pend /\ t.calls = turn.calls /\ t.response = turn.response
           /\ t.at = turn.at /\ t.pc = turn.pc
  <1>1. TurnOK(turn) /\ IsSeq(Append(turn.results, Result(Call.id, said)))
    BY Appended DEF TurnInv, TurnOK
  <1>2. turn.bytes + 1 + kept \in Nat
    BY <1>1, FieldNumbers DEF TurnOK
  <1>3. PICK w : w = [turn EXCEPT !.results = Append(turn.results, Result(Call.id, said)),
                                  !.bytes = turn.bytes + 1 + kept]
    OBVIOUS
  <1>4. /\ TurnOK(w) /\ w.results = Append(turn.results, Result(Call.id, said))
        /\ w.bytes = turn.bytes + 1 + kept /\ w.output = turn.output
        /\ w.pend = turn.pend /\ w.calls = turn.calls /\ w.response = turn.response
        /\ w.at = turn.at /\ w.pc = turn.pc
    BY <1>1, <1>2, <1>3 DEF TurnOK, TurnFields
  <1>5. w = WithResult(said, kept)
    BY <1>3 DEF WithResult
  <1>6. CASE t = [r EXCEPT !.output = r.output + kept]
    <2>1. t = [w EXCEPT !.output = turn.output + kept]
      BY <1>4, <1>5, <1>6
    <2> QED BY <1>4, <2>1 DEF TurnOK, TurnFields
  <1>7. CASE kept = 0 /\ t = r
    <2>1. t = w /\ turn.output \in Nat
      BY <1>1, <1>5, <1>7, Limits DEF TurnOK
    <2>2. turn.output = turn.output + kept
      BY <1>7, <2>1
    <2> QED BY <1>4, <2>1, <2>2
  <1> QED BY <1>6, <1>7


(* A batch that ends early: the calls after the current one are answered   *)
(* without being executed.                                                 *)
LEMMA EndsBatchKeeps ==
    ASSUME TurnInv, turn.pc \in Inside, RestOK', NEW t, TurnOK(t), NEW d, DurableOK(d), SameBatch(t, d),
           NEW kept \in Nat, t.output = turn.output + kept,
           EventsSpent(t, d) = EventsSpent(turn, durable) + 2,
           BytesSpent(t, d) = BytesSpent(turn, durable) + 2 + 2 * kept,
           NEW error \in Errors, EndsBatch(t, d, error)
    PROVE  TurnInv'
  <1>1. PICK k \in Nat : k = CallsLeft(turn) /\ k = Len(Rest)
    BY RestIs
  <1>2. PICK more : more = [i \in DOMAIN Rest |-> Result(Rest[i].id, "notrun")]
    OBVIOUS
  <1>3. more = [i \in DOMAIN Rest |-> more[i]]
    BY <1>2
  <1>4. IsSeq(more) /\ Len(more) = k
    BY <1>1, <1>3, RestIs, Mapped
  <1>5. IsSeq(t.results) /\ t.bytes \in Nat
    BY DEF TurnOK
  <1>6. IsSeq(t.results \o more) /\ Len(t.results \o more) = Len(t.results) + k
    BY <1>4, <1>5, Joined
  <1>7. t.bytes + k \in Nat
    BY <1>5
  <1>8. turn' = [t EXCEPT !.pc = "commit", !.error = error, !.bytes = t.bytes + k, !.results = t.results \o more]
    BY <1>1, <1>2 DEF EndsBatch
  <1>9. /\ TurnOK(turn') /\ turn'.pc = "commit" /\ turn'.results = t.results \o more /\ turn'.bytes = t.bytes + k
        /\ turn'.pend = t.pend /\ turn'.calls = t.calls /\ turn'.response = t.response
    BY <1>6, <1>7, <1>8 DEF TurnOK, TurnFields, Places
  <1>10. durable' = Recorded(d, k, k)
    BY <1>1 DEF EndsBatch
  <1>11. /\ DurableOK(durable') /\ durable'.live = 0 /\ durable'.liveBytes = 0
         /\ durable'.batch = d.batch + d.live + k /\ durable'.batchBytes = d.batchBytes + d.liveBytes + k
         /\ durable'.events = d.events /\ durable'.bytes = d.bytes
    BY <1>10, RecordedIs
  <1>12. SameBatch(turn', durable')
    BY <1>9, <1>11 DEF SameBatch
  <1>13. PICK r \in Nat : r = Len(t.results)
    BY FieldNumbers
  <1>14. PICK y \in Nat : y = t.bytes
    BY FieldNumbers
  <1>15. PICK p \in Nat : p = d.batch
    BY FieldNumbers
  <1>16. PICK q \in Nat : q = d.live
    BY FieldNumbers
  <1>17. PICK u \in Nat : u = d.batchBytes
    BY FieldNumbers
  <1>18. PICK z \in Nat : z = d.liveBytes
    BY FieldNumbers
  <1>19. EventsSpent(turn', durable') = (r + k) + (p + q + k) + 0 /\ EventsSpent(t, d) = r + p + q
    BY <1>6, <1>9, <1>11, <1>13, <1>15, <1>16 DEF EventsSpent
  <1>20. BytesSpent(turn', durable') = (y + k) + (u + z + k) + 0 /\ BytesSpent(t, d) = y + u + z
    BY <1>9, <1>11, <1>14, <1>17, <1>18 DEF BytesSpent
  <1>21. PICK s \in Nat : s = EventsSpent(turn, durable)
    BY DueIs DEF NumbersOf
  <1>22. PICK v \in Nat : v = BytesSpent(turn, durable)
    BY DueIs DEF NumbersOf
  <1>23. PICK l \in Nat : l = EventsLeft(turn.pc) /\ l >= 2
    BY DueIs DEF NumbersOf
  <1>24. PICK m \in Nat : m = BytesLeft(turn.pc) /\ m >= 2
    BY DueIs DEF NumbersOf
  <1>25. PICK o \in Nat : o = MaxTotalToolOutput - turn.output /\ kept <= o
    <2>1. PICK a \in 0..MaxTotalToolOutput : a = turn.output
      BY DEF TurnInv, TurnOK
    <2>2. a + kept \in 0..MaxTotalToolOutput
      BY <2>1 DEF TurnOK
    <2>3. MaxTotalToolOutput - a \in Nat /\ kept <= MaxTotalToolOutput - a
      BY <2>2, Limits
    <2> QED BY <2>1, <2>3
  <1>26. EventsDue(turn) = l + 5 * k
    BY <1>1, <1>23 DEF EventsDue
  <1>27. BytesDue(turn) = m + 8 * k + 2 * o
    BY <1>1, <1>24, <1>25 DEF BytesDue
  <1>28. EventsSpent(turn', durable') = s + 2 + 2 * k
    <2>1. r + p + q = s + 2
      BY <1>19, <1>21
    <2>2. (r + k) + (p + q + k) + 0 = s + 2 + 2 * k
      BY <2>1
    <2> QED BY <1>19, <2>2
  <1>29. BytesSpent(turn', durable') = v + 2 + 2 * kept + 2 * k
    <2>1. y + u + z = v + 2 + 2 * kept
      BY <1>20, <1>22
    <2>2. (y + k) + (u + z + k) + 0 = v + 2 + 2 * kept + 2 * k
      BY <2>1
    <2> QED BY <1>20, <2>2
  <1>30. s + 2 + 2 * k <= s + (l + 5 * k)
    BY <1>23
  <1>31. v + 2 + 2 * kept + 2 * k <= v + (m + 8 * k + 2 * o)
    BY <1>24, <1>25
  <1>32. /\ EventsSpent(turn', durable') <= EventsSpent(turn, durable) + EventsDue(turn)
         /\ BytesSpent(turn', durable') <= BytesSpent(turn, durable) + BytesDue(turn)
    BY <1>21, <1>22, <1>26, <1>27, <1>28, <1>29, <1>30, <1>31
  <1>33. EventsDue(turn) \in Int /\ BytesDue(turn) \in Int
    BY <1>26, <1>27
  <1> QED BY <1>9, <1>11, <1>12, <1>32, <1>33, CompletesKeeps

(* The current call is answered without output, and the batch ends. *)
LEMMA AnswersAndEnds ==
    ASSUME TurnInv, turn.pc \in Inside, RestOK', NEW said, NEW error \in Errors,
           EndsBatch(WithResult(said, 0), Recorded(durable, 1, 1), error)
    PROVE  TurnInv'
  <1>1. PICK kept \in Nat : kept = 0
    OBVIOUS
  <1>2. PICK t : t = WithResult(said, 0)
    OBVIOUS
  <1>3. PICK d : d = Recorded(durable, 1, 1)
    OBVIOUS
  <1>4. turn.output + kept \in 0..MaxTotalToolOutput
    BY <1>1, Limits DEF TurnInv, TurnOK
  <1>5. kept = 0 /\ t = WithResult(said, kept)
    BY <1>1, <1>2
  <1>6. /\ TurnOK(t) /\ t.results = Append(turn.results, Result(Call.id, said))
        /\ t.bytes = turn.bytes + 1 + kept /\ t.output = turn.output + kept
        /\ t.pend = turn.pend /\ t.calls = turn.calls /\ t.response = turn.response
    BY <1>4, <1>5, WithResultIs
  <1>7. 1 + kept = 1
    BY <1>1
  <1>8. d = Recorded(durable, 1, 1 + kept)
    BY <1>3, <1>7
  <1>9. /\ DurableOK(d) /\ d.events = durable.events /\ d.bytes = durable.bytes
        /\ EventsSpent(t, d) = EventsSpent(turn, durable) + 2
        /\ BytesSpent(t, d) = BytesSpent(turn, durable) + 2 + 2 * kept
    <2>1. PICK x : x = Result(Call.id, said)
      OBVIOUS
    <2>2. AddsResult(t, x, kept)
      BY <1>6, <2>1 DEF AddsResult
    <2>3. CostsResult(t, d, kept)
      BY <1>8, <2>2, ResultIs
    <2> QED BY <2>3 DEF CostsResult
  <1>10. SameBatch(t, d)
    BY <1>6, <1>9 DEF SameBatch
  <1>11. EndsBatch(t, d, error)
    BY <1>2, <1>3
  <1> QED BY <1>6, <1>9, <1>10, <1>11, EndsBatchKeeps

(* A failure before the invocation. *)
LEMMA CallFailsKeeps ==
    ASSUME TurnInv, turn.pc \in Inside, NEW error \in Errors, CallFails(error, durable), Accept \/ Refuse
    PROVE  TurnInv'
  <1>1. RestOK'
    BY FaultsAre DEF TurnInv, CallFails, session, RestOK
  <1>2. CASE turn.results = <<>>
    <2>1. durable' = durable /\ turn' = [turn EXCEPT !.pc = "failing", !.error = error]
      BY <1>2 DEF CallFails
    <2>2. DurableOK(durable')
      BY <2>1 DEF TurnInv
    <2> QED BY <1>1, <2>1, <2>2, FailsIs, NoAccount
  <1>3. CASE turn.results # <<>>
    <2>1. EndsBatch(WithResult("notrun", 0), Recorded(durable, 1, 1), error)
      BY <1>3 DEF CallFails
    <2> QED BY <1>1, <2>1, AnswersAndEnds
  <1> QED BY <1>2, <1>3

(* A completion with its result, after which the batch goes on or ends.    *)
LEMMA FinalizeKeeps ==
    ASSUME TurnInv, turn.pc \in Inside, NEW said, NEW size \in Nat,
           NEW error \in Errors \cup {"none"}, Finalize(said, size, error)
    PROVE  TurnInv'
  <1>1. PICK kept \in Nat : kept = IF Oversized(size) THEN 0 ELSE size
    OBVIOUS
  <1>2. PICK told : told = IF Oversized(size) THEN "omitted" ELSE said
    OBVIOUS
  <1>2a. PICK r : r = WithResult(told, kept)
    OBVIOUS
  <1>3. PICK t : t = [r EXCEPT !.output = r.output + kept]
    OBVIOUS
  <1>4. PICK d : d = Recorded(durable, 1, 1 + kept)
    OBVIOUS
  <1>5. PICK ends : ends = IF error = "none" /\ Oversized(size) THEN "fatal" ELSE error
    OBVIOUS
  <1>6. /\ UNCHANGED <<session, sink, cancelled, invoked>>
        /\ \/ Accept /\ ends # "none" /\ EndsBatch(t, d, ends)
           \/ Refuse /\ EndsBatch(t, d, "sink")
           \/ /\ Accept /\ ends = "none" /\ durable' = d
              /\ turn' = [t EXCEPT !.pc = IF Rest = <<>> THEN "commit" ELSE "call",
                                   !.at = IF Rest = <<>> THEN @ ELSE @ + 1]
    BY <1>1, <1>2, <1>3, <1>4, <1>5, <1>2a DEF Finalize
  <1>7. RestOK'
    BY <1>6, FaultsAre DEF TurnInv, session, RestOK
  <1>8. turn.output + kept \in 0..MaxTotalToolOutput
    <2>1. turn.output \in 0..MaxTotalToolOutput
      BY DEF TurnInv, TurnOK
    <2>2. CASE Oversized(size)
      BY <1>1, <2>1, <2>2, Limits
    <2>3. CASE ~Oversized(size)
      <3>1. kept = size
        BY <1>1, <2>3
      <3>2. ~(turn.output + size > MaxTotalToolOutput)
        BY <2>3 DEF Oversized
      <3>3. PICK a \in 0..MaxTotalToolOutput : a = turn.output
        BY <2>1
      <3>4. a + size <= MaxTotalToolOutput
        BY <3>2, <3>3, Limits
      <3>5. a + size \in 0..MaxTotalToolOutput
        BY <3>4, Limits, Counts
      <3> QED BY <3>1, <3>3, <3>5
    <2> QED BY <2>2, <2>3
  <1>9. /\ TurnOK(t) /\ t.results = Append(turn.results, Result(Call.id, told))
        /\ t.bytes = turn.bytes + 1 + kept /\ t.output = turn.output + kept
        /\ t.pend = turn.pend /\ t.calls = turn.calls /\ t.response = turn.response /\ t.at = turn.at
    <2>1. t = [r EXCEPT !.output = r.output + kept] \/ (kept = 0 /\ t = r)
      BY <1>3
    <2> QED BY <1>8, <1>2a, <2>1, WithResultIs
  <1>10. /\ DurableOK(d) /\ d.events = durable.events /\ d.bytes = durable.bytes
         /\ EventsSpent(t, d) = EventsSpent(turn, durable) + 2
         /\ BytesSpent(t, d) = BytesSpent(turn, durable) + 2 + 2 * kept
    <2>1. PICK x : x = Result(Call.id, told)
      OBVIOUS
    <2>2. AddsResult(t, x, kept)
      BY <1>9, <2>1 DEF AddsResult
    <2>3. CostsResult(t, d, kept)
      BY <1>4, <2>2, ResultIs
    <2> QED BY <2>3 DEF CostsResult
  <1>11. SameBatch(t, d)
    BY <1>9, <1>10 DEF SameBatch
  <1>12. ASSUME NEW e \in Errors, EndsBatch(t, d, e)
         PROVE  TurnInv'
    BY <1>7, <1>8, <1>9, <1>10, <1>11, <1>12, EndsBatchKeeps
  <1>13. ends # "none" => ends \in Errors
    BY <1>5 DEF Errors
  <1>14. ASSUME durable' = d, turn' = [t EXCEPT !.pc = IF Rest = <<>> THEN "commit" ELSE "call",
                                                !.at = IF Rest = <<>> THEN @ ELSE @ + 1]
         PROVE  TurnInv'
    <2>1. PICK k \in Nat : k = CallsLeft(turn) /\ k = Len(Rest)
      BY RestIs
    <2>2. PICK s \in Nat : s = EventsSpent(turn, durable)
      BY DueIs DEF NumbersOf
    <2>3. PICK v \in Nat : v = BytesSpent(turn, durable)
      BY DueIs DEF NumbersOf
    <2>4. PICK l \in Nat : l = EventsLeft(turn.pc) /\ l >= 2
      BY DueIs DEF NumbersOf
    <2>5. PICK m \in Nat : m = BytesLeft(turn.pc) /\ m >= 2
      BY DueIs DEF NumbersOf
    <2>6. PICK a \in 0..MaxTotalToolOutput : a = turn.output
      BY DEF TurnInv, TurnOK
    <2>7. a + kept \in 0..MaxTotalToolOutput 
      BY <1>8, <2>6
    <2>8. EventsDue(turn) = l + 5 * k
      BY <2>1, <2>4 DEF EventsDue
    <2>9. BytesDue(turn) = m + 8 * k + 2 * (MaxTotalToolOutput - a)
      BY <2>1, <2>5, <2>6 DEF BytesDue
    <2>10. EventsDue(turn) \in Int /\ BytesDue(turn) \in Int
      BY <2>8, <2>9, Limits
    <2>11. CASE Rest = <<>>
      <3>1. turn' = [t EXCEPT !.pc = "commit", !.at = t.at]
        BY <1>14, <2>11
      <3>2. /\ TurnOK(turn') /\ turn'.pc = "commit" /\ turn'.results = t.results /\ turn'.bytes = t.bytes
            /\ turn'.pend = t.pend /\ turn'.calls = t.calls /\ turn'.response = t.response
        BY <1>9, <3>1 DEF TurnOK, TurnFields, Places
      <3>3. SameBatch(turn', durable')
        BY <1>11, <1>14, <3>2 DEF SameBatch
      <3>4. EventsSpent(turn', durable') = s + 2 /\ BytesSpent(turn', durable') = v + 2 + 2 * kept
        BY <1>10, <1>14, <2>2, <2>3, <3>2 DEF EventsSpent, BytesSpent
      <3>5. s + 2 <= s + (l + 5 * k)
        BY <2>4
      <3>6. v + 2 + 2 * kept <= v + (m + 8 * k + 2 * (MaxTotalToolOutput - a))
        BY <2>5, <2>7, Limits
      <3>7. /\ EventsSpent(turn', durable') <= EventsSpent(turn, durable) + EventsDue(turn)
            /\ BytesSpent(turn', durable') <= BytesSpent(turn, durable) + BytesDue(turn)
        BY <2>2, <2>3, <2>8, <2>9, <3>4, <3>5, <3>6
      <3> QED BY <1>7, <1>10, <1>14, <2>10, <3>2, <3>3, <3>7, CompletesKeeps
    <2>12. CASE Rest # <<>>
      <3>1. turn' = [t EXCEPT !.pc = "call", !.at = t.at + 1]
        BY <1>14, <2>12
      <3>2. PICK at \in Nat : at = t.at /\ at = turn.at
        BY <1>9, DueIs
      <3>3. PICK c \in Nat : c = Len(turn.calls) /\ k = c - at /\ 1 <= at
        BY <2>1, <3>2, DueIs DEF CallsLeft
      <3>4. k >= 1
        BY <2>1, <2>12, RestIs, ListIs
      <3>5. /\ TurnOK(turn') /\ turn'.pc = "call" /\ turn'.results = t.results /\ turn'.bytes = t.bytes
            /\ turn'.pend = t.pend /\ turn'.calls = t.calls /\ turn'.response = t.response
            /\ turn'.output = t.output /\ turn'.at = at + 1
        <4>1. turn' = [t EXCEPT !.pc = "call", !.at = at + 1] /\ at + 1 \in Nat
          BY <3>1, <3>2
        <4> QED BY <1>9, <4>1 DEF TurnOK, TurnFields, Places
      <3>6. SameBatch(turn', durable')
        BY <1>11, <1>14, <3>5 DEF SameBatch
      <3>7. EventsSpent(turn', durable') = s + 2 /\ BytesSpent(turn', durable') = v + 2 + 2 * kept
        BY <1>10, <1>14, <2>2, <2>3, <3>5 DEF EventsSpent, BytesSpent
      <3>8. CallsLeft(turn') = c - (at + 1)
        BY <1>9, <3>3, <3>5 DEF CallsLeft
      <3>9. CallsLeft(turn') = k - 1
        BY <3>3, <3>8
      <3>10. EventsDue(turn') = 5 + 5 * (k - 1)
        BY <3>5, <3>9 DEF EventsDue, EventsLeft
      <3>11. BytesDue(turn') = 8 + 8 * (k - 1) + 2 * (MaxTotalToolOutput - (a + kept))
        BY <1>9, <2>6, <3>5, <3>9 DEF BytesDue, BytesLeft
      <3>12. (s + 2) + (5 + 5 * (k - 1)) <= s + (l + 5 * k)
        BY <2>4
      <3>13. (v + 2 + 2 * kept) + (8 + 8 * (k - 1) + 2 * (MaxTotalToolOutput - (a + kept)))
               <= v + (m + 8 * k + 2 * (MaxTotalToolOutput - a))
        BY <2>5, <2>7, Limits
      <3>14. /\ EventsSpent(turn', durable') + EventsDue(turn') <= EventsSpent(turn, durable) + EventsDue(turn)
             /\ BytesSpent(turn', durable') + BytesDue(turn') <= BytesSpent(turn, durable) + BytesDue(turn)
        BY <2>2, <2>3, <2>8, <2>9, <3>7, <3>10, <3>11, <3>12, <3>13
      <3>15. 1 <= turn'.at /\ turn'.at <= Len(turn'.calls)
        <4>1. 1 <= at + 1 /\ at + 1 <= c
          BY <3>3, <3>4
        <4> QED BY <1>9, <3>3, <3>5, <4>1
      <3>16. EventsDue(turn') \in Int /\ BytesDue(turn') \in Int
        BY <2>7, <3>10, <3>11, Limits
      <3>17. turn'.pc \in Inside
        BY <3>5 DEF Inside
      <3> QED BY <1>7, <1>10, <1>14, <2>10, <3>5, <3>6, <3>14, <3>15, <3>16, <3>17, SpendsKeeps
    <2> QED BY <2>11, <2>12
  <1> QED BY <1>6, <1>12, <1>13, <1>14 DEF Errors


(* The steps of a call. *)
LEMMA CallCancelledKeeps ==
    ASSUME TurnInv, CallCancelled
    PROVE  TurnInv'
  <1>1. turn.pc \in Inside /\ CallFails("cancelled", durable) /\ Accept
    BY DEF CallCancelled, Inside
  <1> QED BY <1>1, CallFailsKeeps DEF Errors

(* A call that is answered without its tool. *)
LEMMA RejectCallKeeps ==
    ASSUME TurnInv, RejectCall \/ DenyCall
    PROVE  TurnInv'
  <1>1. turn.pc \in Inside /\ \E said : Finalize(said, 1, "none")
    BY DEF RejectCall, DenyCall, Inside
  <1>2. PICK size \in Nat : size = 1
    OBVIOUS
  <1>3. PICK said : Finalize(said, size, "none")
    BY <1>1, <1>2
  <1> QED BY <1>1, <1>3, FinalizeKeeps

(* A step of a call that flushes n events of b bytes and moves on. *)
LEMMA FlushesKeeps ==
    ASSUME TurnInv, turn.pc \in Inside, NEW pc \in Inside, turn' = [turn EXCEPT !.pc = pc],
           Accept, UNCHANGED <<session, sink, cancelled, invoked>>, NEW n \in Nat, NEW b \in Nat,
           \/ durable' = Flushed(durable, n, b)
           \/ durable' = [Flushed(durable, n, b) EXCEPT !.touched = TRUE],
           EventsLeft(pc) + n <= EventsLeft(turn.pc), BytesLeft(pc) + b <= BytesLeft(turn.pc)
    PROVE  TurnInv'
  <1>1. RestOK'
    BY FaultsAre DEF TurnInv, session, RestOK
  <1>2. /\ DurableOK(durable') /\ durable'.events = durable.events /\ durable'.bytes = durable.bytes
        /\ EventsSpent(turn', durable') = EventsSpent(turn, durable) + n
        /\ BytesSpent(turn', durable') = BytesSpent(turn, durable) + b
    BY FlushSpends
  <1> QED BY <1>1, <1>2, MovesInBatch

(* The approval request: one event, three units. *)
LEMMA RequestApprovalKeeps ==
    ASSUME TurnInv, RequestApproval
    PROVE  TurnInv'
  <1>1. turn.pc = "call" /\ turn.pc \in Inside
    BY DEF RequestApproval, Inside
  <1>2. ASSUME Accept, durable' = Flushed(durable, 1, 3), turn' = [turn EXCEPT !.pc = "asked"],
               UNCHANGED <<session, sink, cancelled, invoked>>
        PROVE  TurnInv'
    <2>1. EventsLeft("asked") + 1 <= EventsLeft(turn.pc) /\ BytesLeft("asked") + 3 <= BytesLeft(turn.pc)
      BY <1>1 DEF EventsLeft, BytesLeft
    <2>2. "asked" \in Inside
      BY DEF Inside
    <2> QED BY <1>1, <1>2, <2>1, <2>2, FlushesKeeps
  <1>3. ASSUME Accept \/ Refuse, CallFails("sink", durable) \/ CallFails("fatal", durable)
        PROVE  TurnInv'
    BY <1>1, <1>3, CallFailsKeeps DEF Errors
  <1> QED BY <1>2, <1>3 DEF RequestApproval

(* The decision: one event, and a reason when it denies. *)
LEMMA DecideKeeps ==
    ASSUME TurnInv, Decide
    PROVE  TurnInv'
  <1>1. turn.pc = "asked" /\ turn.pc \in Inside
    BY DEF Decide, Inside
  <1>2. ASSUME NEW verdict \in {"allowed", "denied"}, Accept, turn' = [turn EXCEPT !.pc = verdict],
               durable' = Flushed(durable, 1, IF verdict = "denied" THEN 2 ELSE 1),
               UNCHANGED <<session, sink, cancelled, invoked>>
        PROVE  TurnInv'
    <2>1. PICK b \in Nat : b = IF verdict = "denied" THEN 2 ELSE 1
      OBVIOUS
    <2>2. EventsLeft(verdict) + 1 <= EventsLeft(turn.pc) /\ BytesLeft(verdict) + b <= BytesLeft(turn.pc)
      BY <1>1, <1>2, <2>1 DEF EventsLeft, BytesLeft
    <2>3. verdict \in Inside
      BY <1>2 DEF Inside
    <2>4. durable' = Flushed(durable, 1, b)
      BY <1>2, <2>1
    <2> QED BY <1>1, <1>2, <2>2, <2>3, <2>4, FlushesKeeps
  <1>3. ASSUME Accept \/ Refuse, CallFails("sink", durable) \/ CallFails("fatal", durable)
        PROVE  TurnInv'
    BY <1>1, <1>3, CallFailsKeeps DEF Errors
  <1> QED BY <1>2, <1>3 DEF Decide

(* The start: one event, one unit. *)
LEMMA StartToolKeeps ==
    ASSUME TurnInv, StartTool
    PROVE  TurnInv'
  <1>1. turn.pc \in {"call", "allowed"} /\ turn.pc \in Inside
    BY DEF StartTool, Inside
  <1>2. ASSUME Accept, durable' = [Flushed(durable, 1, 1) EXCEPT !.touched = TRUE],
               turn' = [turn EXCEPT !.pc = "started"], UNCHANGED <<session, sink, cancelled, invoked>>
        PROVE  TurnInv'
    <2>1. EventsLeft("started") + 1 <= EventsLeft(turn.pc) /\ BytesLeft("started") + 1 <= BytesLeft(turn.pc)
      BY <1>1 DEF EventsLeft, BytesLeft
    <2>2. "started" \in Inside
      BY DEF Inside
    <2> QED BY <1>1, <1>2, <2>1, <2>2, FlushesKeeps
  <1>3. ASSUME Refuse, CallFails("sink", durable)
        PROVE  TurnInv'
    BY <1>1, <1>3, CallFailsKeeps DEF Errors
  <1> QED BY <1>2, <1>3 DEF StartTool

(* Entering the tool spends nothing. *)
LEMMA InvokeToolKeeps ==
    ASSUME TurnInv, InvokeTool
    PROVE  TurnInv'
  <1>1. /\ turn.pc = "started" /\ turn.pc \in Inside /\ "running" \in Inside
        /\ turn' = [turn EXCEPT !.pc = "running"] /\ durable' = durable
    BY DEF InvokeTool, Inside
  <1>2. RestOK'
    BY FaultsAre DEF InvokeTool, TurnInv, session, RestOK
  <1>3. TurnOK(turn) /\ DurableOK(durable')
    BY <1>1 DEF TurnInv
  <1>4. turn'.results = turn.results /\ turn'.bytes = turn.bytes
    BY <1>1, <1>3 DEF TurnOK, TurnFields
  <1>5. EventsSpent(turn', durable') = EventsSpent(turn, durable) /\ BytesSpent(turn', durable') = BytesSpent(turn, durable)
    BY <1>1, <1>4 DEF EventsSpent, BytesSpent
  <1>6. PICK z \in Nat : z = 0
    OBVIOUS
  <1>7. EventsSpent(turn, durable) = EventsSpent(turn, durable) + z /\ BytesSpent(turn, durable) = BytesSpent(turn, durable) + z
    BY <1>1, <1>6, DueIs DEF NumbersOf
  <1>8. EventsLeft("running") + z <= EventsLeft(turn.pc) /\ BytesLeft("running") + z <= BytesLeft(turn.pc)
    BY <1>1, <1>6 DEF EventsLeft, BytesLeft
  <1>9. durable'.events = durable.events /\ durable'.bytes = durable.bytes
    BY <1>1
  <1> QED BY <1>1, <1>2, <1>3, <1>5, <1>7, <1>8, <1>9, MovesInBatch

(* The tool returns, says it was cancelled, or fails for good. *)
LEMMA ToolReturnsKeeps ==
    ASSUME TurnInv, ToolReturns
    PROVE  TurnInv'
  <1>1. turn.pc \in Inside
    BY DEF ToolReturns, Inside
  <1>2. ASSUME NEW size \in OutputSizes, NEW error \in Errors \cup {"none"}, Finalize("output", size, error)
        PROVE  TurnInv'
    BY <1>1, <1>2, Limits, FinalizeKeeps
  <1>3. (IF cancelled THEN "cancelled" ELSE "none") \in Errors \cup {"none"}
    BY DEF Errors
  <1>4. ASSUME Finalize("interrupted", 1, "cancelled")
        PROVE  TurnInv'
    <2>1. PICK size \in Nat : size = 1
      OBVIOUS
    <2>2. Finalize("interrupted", size, "cancelled") /\ "cancelled" \in Errors \cup {"none"}
      BY <1>4, <2>1 DEF Errors
    <2> QED BY <1>1, <2>2, FinalizeKeeps
  <1>5. ASSUME Accept, EndsBatch(WithResult("maybe", 0), Recorded(durable, 1, 1), "fatal"),
               UNCHANGED <<session, sink, cancelled, invoked>>
        PROVE  TurnInv'
    <2>1. RestOK'
      BY <1>5, FaultsAre DEF TurnInv, session, RestOK
    <2>2. "fatal" \in Errors
      BY DEF Errors
    <2> QED BY <1>1, <1>5, <2>1, <2>2, AnswersAndEnds
  <1> QED BY <1>2, <1>3, <1>4, <1>5 DEF ToolReturns

(* The tool is dropped. *)
LEMMA InterruptToolKeeps ==
    ASSUME TurnInv, InterruptTool
    PROVE  TurnInv'
  <1>1. turn.pc \in Inside /\ Finalize("interrupted", 1, "cancelled")
    BY DEF InterruptTool, Inside
  <1>2. PICK size \in Nat : size = 1
    OBVIOUS
  <1>3. Finalize("interrupted", size, "cancelled") /\ "cancelled" \in Errors \cup {"none"}
    BY <1>1, <1>2 DEF Errors
  <1> QED BY <1>1, <1>3, FinalizeKeeps

(* The Messages checkpoint moves the account into what is persisted. *)
LEMMA CommitBatchKeeps ==
    ASSUME TurnInv, CommitBatch
    PROVE  TurnInv'
  <1>1. ASSUME WithinBudget(BatchEvents, BatchBytes), Accept,
               durable' = [NoCheckpoints EXCEPT
                  !.events = durable.events + BatchEvents, !.bytes = durable.bytes + BatchBytes,
                  !.messages = durable.messages + Len(turn.pend) + 1 + Len(turn.results)],
               turn' = [turn EXCEPT !.pend = <<>>, !.results = <<>>, !.at = 0, !.bytes = 0,
                                    !.pc = IF turn.error = "none" THEN "round" ELSE "failing"],
               UNCHANGED <<poisoned, limit, turns, sink, cancelled, invoked>>
        PROVE  TurnInv'
    <2>1. TurnOK(turn) /\ DurableOK(durable)
      BY DEF TurnInv
    <2>2. TurnOK(turn') /\ turn'.pc \in {"round", "failing"}
      BY <1>1, <2>1, ShortLists DEF TurnOK, TurnFields, Places
    <2>3. PICK p \in Nat : p = Len(turn.pend)
      BY <2>1, FieldNumbers
    <2>4. PICK r \in Nat : r = Len(turn.results)
      BY <2>1, FieldNumbers
    <2>5. PICK n \in Nat : n = durable.batch
      BY <2>1, FieldNumbers
    <2>6. PICK l \in Nat : l = durable.live
      BY <2>1, FieldNumbers
    <2>7. PICK e \in Nat : e = durable.events
      BY <2>1, FieldNumbers
    <2>8. PICK b \in Nat : b = durable.bytes
      BY <2>1, FieldNumbers
    <2>9. PICK g \in Nat : g = durable.messages
      BY <2>1 DEF DurableOK
    <2>10. PICK x \in Nat : x = BatchEvents
      <3>1. BatchEvents = p + 1 + r + n + l
        BY <2>3, <2>4, <2>5, <2>6 DEF BatchEvents
      <3> QED BY <3>1
    <2>11. PICK y \in Nat : y = BatchBytes
      <3>1. PICK w \in Nat : w = Len(turn.response.text)
        BY <2>1, FieldNumbers
      <3>2. PICK c \in Nat : c = Len(turn.calls)
        BY <2>1, FieldNumbers
      <3>3. PICK t \in Nat : t = turn.bytes
        BY <2>1, FieldNumbers
      <3>4. PICK u \in Nat : u = durable.batchBytes
        BY <2>1, FieldNumbers
      <3>5. PICK v \in Nat : v = durable.liveBytes
        BY <2>1, FieldNumbers
      <3>6. BatchBytes = p + (1 + w + c) + t + u + v
        BY <2>3, <3>1, <3>2, <3>3, <3>4, <3>5 DEF BatchBytes, AssistantBytes
      <3> QED BY <3>6
    <2>12. e + x <= MaxInvocationEvents /\ b + y <= MaxInvocationBytes
      BY <1>1, <2>7, <2>8, <2>10, <2>11 DEF WithinBudget
    <2>13. e + x \in 0..MaxInvocationEvents /\ b + y \in 0..MaxInvocationBytes /\ g + p + 1 + r \in Nat
      BY <2>12, Limits
    <2>14. durable' = [NoCheckpoints EXCEPT !.events = e + x, !.bytes = b + y, !.messages = g + p + 1 + r]
      BY <1>1, <2>3, <2>4, <2>7, <2>8, <2>9, <2>10, <2>11
    <2>15. DurableOK(durable') /\ durable'.batch = 0 /\ durable'.batchBytes = 0
      BY <2>13, <2>14 DEF DurableOK, DurableFields, NoCheckpoints
    <2>16. RestOK'
      BY <1>1, FaultsAre DEF TurnInv, RestOK
    <2> QED BY <2>2, <2>15, <2>16, NoAccount DEF Outside
  <1> QED BY <1>1, CheckpointRefusedKeeps DEF CommitBatch

(* Cancellation and stuttering spend nothing. *)
LEMMA CancelKeeps ==
    ASSUME TurnInv, Cancel \/ UNCHANGED vars
    PROVE  TurnInv'
  <1>1. turn' = turn /\ durable' = durable /\ poisoned' = poisoned /\ turns' = turns /\ faults' = faults
        /\ cancelled' \in {TRUE, cancelled}
    BY DEF Cancel, vars, session
  <1>2. RestOK'
    BY <1>1 DEF TurnInv, RestOK
  <1>3. Account'
    BY <1>1 DEF TurnInv, Account
  <1> QED BY <1>1, <1>2, <1>3 DEF TurnInv

-----------------------------------------------------------------------------
(* It holds at the start. *)
LEMMA TurnInvInit == Init => TurnInv
  <1> SUFFICES ASSUME Init PROVE TurnInv
    OBVIOUS
  <1>1. turn = NoTurn /\ durable = NoCheckpoints /\ turn.pc = "idle"
    BY NoTurnIs DEF Init
  <1>2. TurnOK(turn) /\ DurableOK(durable)
    BY <1>1, NoTurnIs, NoCheckpointsIs
  <1>3. RestOK
    <2>1. cancelled = FALSE /\ poisoned = FALSE /\ turns = 0 /\ faults = 0
      BY DEF Init
    <2>2. 0 \in 0..MaxTurns /\ 0 \in 0..MaxFaults
      BY Limits
    <2> QED BY <2>1, <2>2 DEF RestOK
  <1>4. Account
    BY <1>1 DEF Account, Outside, Inside
  <1> QED BY <1>2, <1>3, <1>4 DEF TurnInv

(* Every step keeps the invariant. *)
LEMMA TurnInvNext == TurnInv /\ [Next]_vars => TurnInv'
  <1> SUFFICES ASSUME TurnInv, [Next]_vars PROVE TurnInv'
    OBVIOUS
  <1>1. CASE Harness
    <2>1. CASE BatchCheckpointFails
      BY <2>1, CheckpointRefusedKeeps DEF BatchCheckpointFails
    <2> QED BY <1>1, <2>1, BeginKeeps, StartRoundKeeps, StreamStopsKeeps, CloseStreamKeeps, AnsweredKeeps,
               PersistAnswerKeeps, StartToolBatchKeeps, CallCancelledKeeps, RejectCallKeeps,
               RequestApprovalKeeps, StartToolKeeps, InvokeToolKeeps, InterruptToolKeeps,
               CommitBatchKeeps, EmitTerminalErrorKeeps, ToolReturnsKeeps DEF Harness
  <1>2. CASE World
    <2>1. CASE Model
      BY <2>1, StreamStopsKeeps, StreamEndsKeeps, StreamDeltaKeeps, StreamCallKeeps, StreamTerminalKeeps DEF Model
    <2> QED BY <1>2, <2>1, DecideKeeps, ToolReturnsKeeps DEF World
  <1>3. CASE RunMessage
    BY <1>3, RunMessageKeeps
  <1>4. CASE Cancel \/ UNCHANGED vars
    BY <1>4, CancelKeeps
  <1> QED BY <1>1, <1>2, <1>3, <1>4 DEF Next

(* What the account says of the budget. *)
LEMMA TurnInvImplies == TurnInv => BudgetHolds
  <1> SUFFICES ASSUME TurnInv PROVE BudgetHolds
    OBVIOUS
  <1>1. TurnOK(turn) /\ DurableOK(durable) /\ RestOK /\ Account
    BY DEF TurnInv
  <1>2. TypeOK
    BY <1>1 DEF TypeOK, TurnOK, DurableOK, RestOK
  <1>3. ASSUME turn.pc = "commit"
        PROVE  WithinBudget(BatchEvents, BatchBytes)
    <2>1. PICK p \in Nat : p = Len(turn.pend)
      BY <1>1, FieldNumbers
    <2>2. PICK r \in Nat : r = Len(turn.results)
      BY <1>1, FieldNumbers
    <2>3. PICK n \in Nat : n = durable.batch
      BY <1>1, FieldNumbers
    <2>4. PICK l \in Nat : l = durable.live
      BY <1>1, FieldNumbers
    <2>5. PICK e \in Nat : e = durable.events
      BY <1>1, FieldNumbers
    <2>6. PICK b \in Nat : b = durable.bytes
      BY <1>1, FieldNumbers
    <2>7. PICK w \in Nat : w = Len(turn.response.text)
      BY <1>1, FieldNumbers
    <2>8. PICK c \in Nat : c = Len(turn.calls)
      BY <1>1, FieldNumbers
    <2>9. PICK t \in Nat : t = turn.bytes
      BY <1>1, FieldNumbers
    <2>10. PICK u \in Nat : u = durable.batchBytes
      BY <1>1, FieldNumbers
    <2>11. PICK v \in Nat : v = durable.liveBytes
      BY <1>1, FieldNumbers
    <2>12. (e + p + 1) + (r + n + l) <= MaxInvocationEvents
      BY <1>1, <1>3, <2>1, <2>2, <2>3, <2>4, <2>5 DEF Account, EventsBase, EventsSpent
    <2>13. (b + p + (1 + w + c)) + (t + u + v) <= MaxInvocationBytes
      BY <1>1, <1>3, <2>1, <2>6, <2>7, <2>8, <2>9, <2>10, <2>11 DEF Account, BytesBase, BytesSpent
    <2>14. e + (p + 1 + r + n + l) <= MaxInvocationEvents
      BY <2>12, Limits
    <2>15. b + (p + (1 + w + c) + t + u + v) <= MaxInvocationBytes
      BY <2>13, Limits
    <2>16. BatchEvents = p + 1 + r + n + l
      BY <2>1, <2>2, <2>3, <2>4 DEF BatchEvents
    <2>17. BatchBytes = p + (1 + w + c) + t + u + v
      BY <2>1, <2>7, <2>8, <2>9, <2>10, <2>11 DEF BatchBytes, AssistantBytes
    <2> QED BY <2>5, <2>6, <2>14, <2>15, <2>16, <2>17 DEF WithinBudget
  <1> QED BY <1>2, <1>3 DEF BudgetHolds, ReservationHolds

(* Whatever the limits, the model, the tools, the approvals, the consumer  *)
(* and cancellation do: the counters that append_model_delta,              *)
(* reidentify_call, finalize_tool_output and check_budget guard never pass *)
(* their limits, and a batch that start_tool_batch admitted is never       *)
(* refused by the check_budget of its Messages checkpoint.                 *)
THEOREM BudgetIsKept == Spec => []BudgetHolds
  BY TurnInvInit, TurnInvNext, TurnInvImplies, PTL DEF Spec

-----------------------------------------------------------------------------
(* The steps of a batch, as the history and the consumer see them.         *)

(* What no step of a batch changes.                                        *)
SameTurn ==
    /\ UNCHANGED <<session, sink, cancelled>>
    /\ turn'.pend = turn.pend /\ turn'.calls = turn.calls /\ turn'.response = turn.response
    /\ turn'.fresh = turn.fresh /\ turn'.arguments = turn.arguments

Unrun == {"notrun", "rejected", "denied"}
NotRun == [i \in DOMAIN Rest |-> Result(Rest[i].id, "notrun")]

(* The call moves on, is answered, is answered together with the calls     *)
(* after it, or leaves the batch without a commit.                         *)
Moves ==
    /\ turn'.pc \in Inside /\ turn'.results = turn.results /\ turn'.at = turn.at
    /\ turn.pc # "running" /\ (durable.touched => durable'.touched)
    /\ turn'.pc = "started" => durable'.touched
    /\ turn'.pc = "running" => turn.pc = "started" /\ invoked' = invoked \cup {Call.id}
    /\ turn'.pc # "running" => invoked' = invoked

Answers(said) ==
    /\ turn'.pc = "call" /\ turn'.at = turn.at + 1 /\ Rest # <<>>
    /\ turn'.results = Append(turn.results, Result(Call.id, said))
    /\ durable'.touched /\ invoked' = invoked

Completes(said) ==
    /\ turn'.pc = "commit"
    /\ turn'.results = Append(turn.results, Result(Call.id, said)) \o NotRun
    /\ durable'.touched /\ invoked' = invoked

Abandons ==
    /\ turn'.pc = "failing" /\ turn'.error \in Errors /\ turn'.results = turn.results
    /\ durable'.touched = durable.touched /\ invoked' = invoked
    /\ durable'.failed \/ (turn.results = <<>> /\ turn.pc # "running")

BatchStep ==
    SameTurn /\ (\/ Moves \/ Abandons
                 \/ \E said : (turn.pc = "running" => said \notin Unrun) /\ (Answers(said) \/ Completes(said)))

(* A checkpoint that records a completion marks the batch. *)
LEMMA Touches ==
    ASSUME NEW d, DurableOK(d), NEW n \in Nat, NEW bytes \in Nat
    PROVE  /\ d.touched => Recorded(d, n, bytes).touched
           /\ n > 0 => Recorded(d, n, bytes).touched
  <1>1. PICK f : f = Flushed(d, n, bytes)
    OBVIOUS
  <1>2. DOMAIN f = DurableFields /\ f.touched = d.touched
    BY <1>1 DEF Flushed, DurableOK, DurableFields
  <1>3. Recorded(d, n, bytes) = [f EXCEPT !.touched = f.touched \/ n > 0]
    BY <1>1 DEF Recorded
  <1>4. Recorded(d, n, bytes).touched = (f.touched \/ n > 0)
    BY <1>2, <1>3 DEF DurableFields
  <1> QED BY <1>2, <1>4

(* The turn with one more result. *)
LEMMA ResultShape ==
    ASSUME TurnInv, NEW said, NEW bytes, NEW r, r = WithResult(said, bytes)
    PROVE  /\ DOMAIN r = TurnFields /\ r.results = Append(turn.results, Result(Call.id, said))
           /\ r.pend = turn.pend /\ r.calls = turn.calls /\ r.response = turn.response
           /\ r.fresh = turn.fresh /\ r.arguments = turn.arguments /\ r.at = turn.at
  <1>1. DOMAIN turn = TurnFields
    BY DEF TurnInv, TurnOK
  <1>2. PICK x : x = Result(Call.id, said)
    OBVIOUS
  <1>3. r = [turn EXCEPT !.results = Append(turn.results, x), !.bytes = turn.bytes + 1 + bytes]
    BY <1>2 DEF WithResult
  <1> QED BY <1>1, <1>2, <1>3 DEF TurnFields

(* A batch that ends. *)
LEMMA EndsShape ==
    ASSUME TurnInv, turn.pc \in Inside, NEW said, NEW d, DurableOK(d), d.touched, NEW error,
           NEW t, DOMAIN t = TurnFields, t.results = Append(turn.results, Result(Call.id, said)),
           t.pend = turn.pend, t.calls = turn.calls, t.response = turn.response,
           t.fresh = turn.fresh, t.arguments = turn.arguments,
           UNCHANGED <<session, sink, cancelled, invoked>>, EndsBatch(t, d, error)
    PROVE  SameTurn /\ Completes(said)
  <1>1. PICK k \in Nat : k = Len(Rest)
    BY RestIs
  <1>2. PICK more : more = NotRun
    OBVIOUS
  <1>3. turn' = [t EXCEPT !.pc = "commit", !.error = error, !.bytes = t.bytes + k, !.results = t.results \o more]
    BY <1>1, <1>2 DEF EndsBatch, NotRun
  <1>4. /\ turn'.pc = "commit" /\ turn'.results = t.results \o more /\ turn'.pend = t.pend /\ turn'.calls = t.calls
        /\ turn'.response = t.response /\ turn'.fresh = t.fresh /\ turn'.arguments = t.arguments
    BY <1>3 DEF TurnFields
  <1>5. durable'.touched
    BY <1>1, Touches DEF EndsBatch
  <1> QED BY <1>2, <1>4, <1>5 DEF SameTurn, Completes

(* The completion of a call is recorded. *)
LEMMA RecordedOnce ==
    ASSUME TurnInv, NEW bytes \in Nat
    PROVE  DurableOK(Recorded(durable, 1, bytes)) /\ Recorded(durable, 1, bytes).touched
  <1>1. DurableOK(durable) /\ 1 \in Nat /\ 1 > 0
    BY DEF TurnInv
  <1>2. DurableOK(Recorded(durable, 1, bytes))
    BY <1>1, RecordedIs
  <1> QED BY <1>1, <1>2, Touches

(* A failure before the invocation. *)
LEMMA CallFailsShape ==
    ASSUME TurnInv, turn.pc \in Inside \ {"running"}, NEW error \in Errors, CallFails(error, durable)
    PROVE  BatchStep
  <1>1. DOMAIN turn = TurnFields /\ turn.pc \in Inside /\ UNCHANGED <<session, sink, cancelled, invoked>>
    BY DEF TurnInv, TurnOK, CallFails
  <1>2. CASE turn.results = <<>>
    <2>1. durable' = durable /\ turn' = [turn EXCEPT !.pc = "failing", !.error = error]
      BY <1>2 DEF CallFails
    <2> QED BY <1>1, <1>2, <2>1 DEF TurnFields, BatchStep, SameTurn, Abandons
  <1>3. CASE turn.results # <<>>
    <2>1. PICK t : t = WithResult("notrun", 0)
      OBVIOUS
    <2>2. PICK d : d = Recorded(durable, 1, 1)
      OBVIOUS
    <2>3. EndsBatch(t, d, error)
      BY <1>3, <2>1, <2>2 DEF CallFails
    <2>4. DurableOK(d) /\ d.touched
      BY <2>2, RecordedOnce
    <2>5. SameTurn /\ Completes("notrun")
      BY <1>1, <2>1, <2>3, <2>4, ResultShape, EndsShape
    <2> QED BY <2>5 DEF BatchStep
  <1> QED BY <1>2, <1>3

(* A completion with its result. *)
LEMMA FinalizeShape ==
    ASSUME TurnInv, turn.pc \in Inside, NEW said, NEW size \in Nat, NEW error, Finalize(said, size, error),
           turn.pc = "running" => said \notin Unrun
    PROVE  BatchStep
  <1>1. PICK kept \in Nat : kept = IF Oversized(size) THEN 0 ELSE size
    OBVIOUS
  <1>2. PICK told : told = IF Oversized(size) THEN "omitted" ELSE said
    OBVIOUS
  <1>3. PICK r : r = WithResult(told, kept)
    OBVIOUS
  <1>4. PICK t : t = [r EXCEPT !.output = r.output + kept]
    OBVIOUS
  <1>5. PICK d : d = Recorded(durable, 1, 1 + kept)
    OBVIOUS
  <1>6. turn.pc = "running" => told \notin Unrun
    BY <1>2 DEF Unrun
  <1>7. DurableOK(d) /\ d.touched
    <2>1. 1 + kept \in Nat
      BY <1>1
    <2> QED BY <1>5, <2>1, RecordedOnce
  <1>8. /\ DOMAIN t = TurnFields /\ t.results = Append(turn.results, Result(Call.id, told))
        /\ t.pend = turn.pend /\ t.calls = turn.calls /\ t.response = turn.response
        /\ t.fresh = turn.fresh /\ t.arguments = turn.arguments /\ t.at = turn.at
    <2>1. /\ DOMAIN r = TurnFields /\ r.results = Append(turn.results, Result(Call.id, told))
          /\ r.pend = turn.pend /\ r.calls = turn.calls /\ r.response = turn.response
          /\ r.fresh = turn.fresh /\ r.arguments = turn.arguments /\ r.at = turn.at
      BY <1>3, ResultShape
    <2> QED BY <1>4, <2>1 DEF TurnFields
  <1>9. /\ UNCHANGED <<session, sink, cancelled, invoked>>
        /\ \/ \E ends : EndsBatch(t, d, ends)
           \/ /\ durable' = d
              /\ turn' = [t EXCEPT !.pc = IF Rest = <<>> THEN "commit" ELSE "call",
                                   !.at = IF Rest = <<>> THEN @ ELSE @ + 1]
    BY <1>1, <1>2, <1>3, <1>4, <1>5 DEF Finalize
  <1>10. ASSUME NEW ends, EndsBatch(t, d, ends)
         PROVE  BatchStep
    <2>1. SameTurn /\ Completes(told)
      BY <1>7, <1>8, <1>9, <1>10, EndsShape
    <2> QED BY <1>6, <2>1 DEF BatchStep
  <1>11. ASSUME durable' = d, Rest # <<>>, turn' = [t EXCEPT !.pc = "call", !.at = t.at + 1]
         PROVE  BatchStep
    <2>1. SameTurn /\ Answers(told)
      BY <1>7, <1>8, <1>9, <1>11 DEF TurnFields, SameTurn, Answers
    <2> QED BY <1>6, <2>1 DEF BatchStep
  <1>12. ASSUME durable' = d, Rest = <<>>, turn' = [t EXCEPT !.pc = "commit", !.at = t.at]
         PROVE  BatchStep
    <2>1. PICK s : s = Append(turn.results, Result(Call.id, told))
      OBVIOUS
    <2>2. SameTurn /\ turn'.pc = "commit" /\ turn'.results = s
      BY <1>8, <1>9, <1>12, <2>1 DEF TurnFields, SameTurn
    <2>3. IsSeq(s)
      BY <2>1, Appended DEF TurnInv, TurnOK
    <2>4. NotRun = <<>>
      BY <1>12 DEF NotRun
    <2>5. s \o NotRun = s
      BY <2>3, <2>4 DEF IsSeq
    <2>6. Completes(told)
      BY <1>7, <1>9, <1>12, <2>1, <2>2, <2>5 DEF Completes
    <2> QED BY <1>6, <2>2, <2>6 DEF BatchStep
  <1> QED BY <1>9, <1>10, <1>11, <1>12

(* A checkpoint refused. *)
LEMMA RefusedShape ==
    ASSUME TurnInv, CheckpointRefused
    PROVE  SameTurn /\ Abandons
  <1>1. DOMAIN turn = TurnFields /\ DOMAIN durable = DurableFields
    BY DEF TurnInv, TurnOK, DurableOK
  <1>2. turn' = [turn EXCEPT !.pc = "failing", !.error = "checkpoint"] /\ UNCHANGED session
        /\ durable' = [durable EXCEPT !.failed = TRUE] /\ UNCHANGED <<sink, cancelled, invoked>>
    BY DEF CheckpointRefused, Fails
  <1>3. /\ turn'.pc = "failing" /\ turn'.error = "checkpoint" /\ turn'.results = turn.results
        /\ turn'.pend = turn.pend /\ turn'.calls = turn.calls /\ turn'.response = turn.response
        /\ turn'.fresh = turn.fresh /\ turn'.arguments = turn.arguments
    BY <1>1, <1>2 DEF TurnFields
  <1>4. durable'.failed /\ durable'.touched = durable.touched
    BY <1>1, <1>2 DEF DurableFields
  <1> QED BY <1>2, <1>3, <1>4 DEF SameTurn, Abandons, Errors

(* A call that only moves on. *)
LEMMA MovesShape ==
    ASSUME TurnInv, NEW pc \in Inside \ {"running"}, turn' = [turn EXCEPT !.pc = pc],
           UNCHANGED <<session, sink, cancelled, invoked>>, turn.pc # "running",
           NEW n \in Nat, NEW b \in Nat,
           \/ durable' = Flushed(durable, n, b) /\ pc # "started"
           \/ durable' = [Flushed(durable, n, b) EXCEPT !.touched = TRUE]
    PROVE  BatchStep
  <1>1. DOMAIN turn = TurnFields /\ DOMAIN durable = DurableFields
    BY DEF TurnInv, TurnOK, DurableOK
  <1>2. PICK f : f = Flushed(durable, n, b)
    OBVIOUS
  <1>3. DOMAIN f = DurableFields /\ f.touched = durable.touched
    BY <1>1, <1>2 DEF Flushed, DurableFields
  <1>4. (durable.touched => durable'.touched) /\ (pc = "started" => durable'.touched)
    BY <1>2, <1>3 DEF DurableFields
  <1>5. /\ turn'.pc = pc /\ turn'.results = turn.results /\ turn'.at = turn.at
        /\ turn'.pend = turn.pend /\ turn'.calls = turn.calls /\ turn'.response = turn.response
        /\ turn'.fresh = turn.fresh /\ turn'.arguments = turn.arguments
    BY <1>1 DEF TurnFields
  <1> QED BY <1>4, <1>5 DEF BatchStep, SameTurn, Moves

(* The actions of a batch. *)
BatchActions ==
    \/ CallCancelled \/ RejectCall \/ RequestApproval \/ Decide \/ DenyCall \/ StartTool \/ InvokeTool
    \/ ToolReturns \/ InterruptTool \/ BatchCheckpointFails

(* Every one of them is such a step. *)
LEMMA BatchActionShape ==
    ASSUME TurnInv, BatchActions
    PROVE  turn.pc \in Inside /\ BatchStep
  <1>1. turn.pc \in Inside
    BY DEF BatchActions, Inside, CallCancelled, RejectCall, RequestApproval, Decide, DenyCall, StartTool,
           InvokeTool, ToolReturns, InterruptTool, BatchCheckpointFails
  <1> SUFFICES BatchStep
    BY <1>1
  <1>2. PICK one \in Nat : one = 1
    OBVIOUS
  <1>3. ASSUME NEW said, NEW error, Finalize(said, 1, error), turn.pc = "running" => said \notin Unrun
        PROVE  BatchStep
    <2>1. Finalize(said, one, error)
      BY <1>2, <1>3
    <2> QED BY <1>1, <1>3, <2>1, FinalizeShape
  <1>4. ASSUME NEW error \in {"cancelled", "sink", "fatal"}, CallFails(error, durable), turn.pc # "running"
        PROVE  BatchStep
    BY <1>1, <1>4, CallFailsShape DEF Errors
  <1>5. CASE CallCancelled
    BY <1>4, <1>5 DEF CallCancelled
  <1>6. CASE RejectCall \/ DenyCall
    BY <1>3, <1>6 DEF RejectCall, DenyCall
  <1>7. CASE RequestApproval
    <2>1. ASSUME durable' = Flushed(durable, 1, 3), turn' = [turn EXCEPT !.pc = "asked"],
                 UNCHANGED <<session, sink, cancelled, invoked>>
          PROVE  BatchStep
      <3>1. "asked" \in Inside \ {"running"} /\ 3 \in Nat /\ turn.pc # "running"
        BY <1>7 DEF Inside, RequestApproval
      <3> QED BY <2>1, <3>1, MovesShape
    <2> QED BY <1>4, <1>7, <2>1 DEF RequestApproval
  <1>8. CASE Decide
    <2>1. ASSUME NEW verdict \in {"allowed", "denied"}, turn' = [turn EXCEPT !.pc = verdict],
                 durable' = Flushed(durable, 1, IF verdict = "denied" THEN 2 ELSE 1),
                 UNCHANGED <<session, sink, cancelled, invoked>>
          PROVE  BatchStep
      <3>1. verdict \in Inside \ {"running"} /\ verdict # "started" /\ (IF verdict = "denied" THEN 2 ELSE 1) \in Nat
            /\ turn.pc # "running"
        BY <1>8 DEF Inside, Decide
      <3> QED BY <2>1, <3>1, MovesShape
    <2> QED BY <1>4, <1>8, <2>1 DEF Decide
  <1>9. CASE StartTool
    <2>1. ASSUME durable' = [Flushed(durable, 1, 1) EXCEPT !.touched = TRUE], turn' = [turn EXCEPT !.pc = "started"],
                 UNCHANGED <<session, sink, cancelled, invoked>>
          PROVE  BatchStep
      <3>1. "started" \in Inside \ {"running"} /\ 1 \in Nat /\ turn.pc # "running"
        BY <1>9 DEF Inside, StartTool
      <3> QED BY <2>1, <3>1, MovesShape
    <2> QED BY <1>4, <1>9, <2>1 DEF StartTool
  <1>10. CASE InvokeTool
    <2>1. DOMAIN turn = TurnFields
      BY DEF TurnInv, TurnOK
    <2>2. /\ turn'.pc = "running" /\ turn'.results = turn.results /\ turn'.at = turn.at
          /\ turn'.pend = turn.pend /\ turn'.calls = turn.calls /\ turn'.response = turn.response
          /\ turn'.fresh = turn.fresh /\ turn'.arguments = turn.arguments
      BY <1>10, <2>1 DEF InvokeTool, TurnFields
    <2> QED BY <1>10, <2>2 DEF InvokeTool, BatchStep, SameTurn, Moves, Inside
  <1>11. CASE ToolReturns
    <2>1. ASSUME NEW size \in OutputSizes, NEW error, Finalize("output", size, error)
          PROVE  BatchStep
      BY <1>1, <2>1, Limits, FinalizeShape DEF Unrun
    <2>2. ASSUME Finalize("interrupted", 1, "cancelled")
          PROVE  BatchStep
      BY <1>3, <2>2 DEF Unrun
    <2>3. ASSUME EndsBatch(WithResult("maybe", 0), Recorded(durable, 1, 1), "fatal"),
                 UNCHANGED <<session, sink, cancelled, invoked>>
          PROVE  BatchStep
      <3>1. PICK t : t = WithResult("maybe", 0)
        OBVIOUS
      <3>2. PICK d : d = Recorded(durable, 1, 1)
        OBVIOUS
      <3>3. DurableOK(d) /\ d.touched
        BY <3>2, RecordedOnce
      <3>4. EndsBatch(t, d, "fatal")
        BY <2>3, <3>1, <3>2
      <3>5. SameTurn /\ Completes("maybe")
        BY <1>1, <2>3, <3>1, <3>3, <3>4, ResultShape, EndsShape
      <3> QED BY <3>5 DEF BatchStep, Unrun
    <2> QED BY <1>11, <2>1, <2>2, <2>3 DEF ToolReturns
  <1>12. CASE InterruptTool
    BY <1>3, <1>12 DEF InterruptTool, Unrun
  <1>13. CASE BatchCheckpointFails
    BY <1>13, RefusedShape DEF BatchCheckpointFails, BatchStep
  <1> QED BY <1>1, <1>5, <1>6, <1>7, <1>8, <1>9, <1>10, <1>11, <1>12, <1>13 DEF BatchActions

-----------------------------------------------------------------------------
(* The consumer.                                                           *)

Batch == Inside \cup {"commit"}
Settled == Batch \cup {"answered", "answer", "plan"}

(* While the stream runs the consumer has what the turn has, and after it  *)
(* what the response has; a turn that fails has an error to tell.          *)
ToldInv ==
    /\ DOMAIN sink = {"text", "calls", "ends"} /\ IsSeq(hist) /\ EndIsTold
    /\ turn.pc \in {"closing", "failing"} => turn.error \in Errors
    /\ turn.pc = "stream" => sink.text = turn.text /\ sink.calls = turn.calls
    /\ turn.pc \in Settled => sink.text = turn.response.text /\ sink.calls = turn.calls
    /\ turn.pc = "answer" => turn.calls = <<>>
    /\ \A i \in DOMAIN turn.results : turn.results[i].role = "tool"

(* Nothing is said of the end before it. *)
LEMMA NotYetTold ==
    ASSUME EndIsTold, turn.pc # "idle", turn'.pc # "idle", sink'.ends = sink.ends
    PROVE  EndIsTold'
  BY ShortLists DEF EndIsTold

(* A turn that starts, starts a round, or is on its way out. *)
LEMMA NothingAnnounced ==
    ASSUME ToldInv, turn.pc # "idle", turn'.pc \in {"begin", "round", "closing", "failing"},
           turn'.pc \in {"closing", "failing"} => turn'.error \in Errors,
           turn'.results = turn.results \/ turn'.results = <<>>,
           DOMAIN sink' = {"text", "calls", "ends"}, sink'.ends = sink.ends, IsSeq(hist')
    PROVE  ToldInv'
  <1>1. EndIsTold'
    BY NotYetTold DEF ToldInv
  <1>2. \A i \in DOMAIN turn'.results : turn'.results[i].role = "tool"
    BY DEF ToldInv
  <1> QED BY <1>1, <1>2 DEF ToldInv, Settled, Batch, Inside

(* An error on the way. *)
LEMMA FailsTold ==
    ASSUME TurnInv, ToldInv, turn.pc # "idle", NEW error \in Errors, Fails(error),
           sink' = sink \/ sink' = [NoSink EXCEPT !.ends = sink.ends]
    PROVE  ToldInv'
  <1>1. DOMAIN turn = TurnFields
    BY DEF TurnInv, TurnOK
  <1>2. turn'.pc = "failing" /\ turn'.error = error /\ turn'.results = turn.results /\ hist' = hist
    BY <1>1 DEF Fails, TurnFields, session
  <1>3. DOMAIN sink' = {"text", "calls", "ends"} /\ sink'.ends = sink.ends /\ IsSeq(hist')
    BY <1>2 DEF ToldInv, NoSink
  <1> QED BY <1>2, <1>3, NothingAnnounced

(* The consumer refuses an event, or storage a checkpoint. *)
LEMMA RefusalsTold ==
    ASSUME TurnInv, ToldInv, turn.pc # "idle", SinkRefuses \/ CheckpointRefused
    PROVE  ToldInv'
  <1>1. (Fails("sink") \/ Fails("checkpoint")) /\ sink' = sink
    BY DEF SinkRefuses, CheckpointRefused
  <1> QED BY <1>1, FailsTold DEF Errors

(* A turn starts with nothing told. *)
LEMMA RunMessageTold ==
    ASSUME TurnInv, ToldInv, RunMessage
    PROVE  ToldInv'
  <1>1. sink' = NoSink /\ hist' = hist
    BY DEF RunMessage
  <1>2. DOMAIN sink' = {"text", "calls", "ends"} /\ sink'.ends = <<>> /\ IsSeq(hist')
    BY <1>1 DEF NoSink, ToldInv
  <1>3. /\ turn'.results = <<>>
        /\ turn'.pc = "begin" \/ (turn'.pc = "idle" /\ turn'.outcome = "checkpoint")
    BY DEF RunMessage, NoTurn
  <1>4. EndIsTold'
    BY <1>2, <1>3, ShortLists DEF EndIsTold
  <1> QED BY <1>2, <1>3, <1>4 DEF ToldInv, Settled, Batch, Inside

(* AgentStarted tells nothing of the end. *)
LEMMA BeginTold ==
    ASSUME TurnInv, ToldInv, Begin
    PROVE  ToldInv'
  <1>1. turn.pc # "idle" /\ DOMAIN turn = TurnFields
    BY DEF Begin, TurnInv, TurnOK
  <1>2. ASSUME Fails("cancelled"), sink' = sink
        PROVE  ToldInv'
    BY <1>1, <1>2, FailsTold DEF Errors
  <1>3. ASSUME turn' = [turn EXCEPT !.pc = "round"], UNCHANGED <<session, sink>>
        PROVE  ToldInv'
    <2>1. turn'.pc = "round" /\ turn'.results = turn.results
      BY <1>1, <1>3 DEF TurnFields
    <2>2. DOMAIN sink' = {"text", "calls", "ends"} /\ sink'.ends = sink.ends /\ IsSeq(hist')
      BY <1>3 DEF ToldInv, session
    <2> QED BY <1>1, <2>1, <2>2, NothingAnnounced
  <1> QED BY <1>1, <1>2, <1>3, RefusalsTold DEF Begin

(* A round starts with nothing streamed and nothing seen of it. *)
LEMMA StartRoundTold ==
    ASSUME TurnInv, ToldInv, StartRound
    PROVE  ToldInv'
  <1>1. turn.pc # "idle" /\ DOMAIN turn = TurnFields
    BY DEF StartRound, TurnInv, TurnOK
  <1>2. ASSUME sink' = [NoSink EXCEPT !.ends = sink.ends], Fails("request")
        PROVE  ToldInv'
    BY <1>1, <1>2, FailsTold DEF Errors
  <1>3. ASSUME sink' = [NoSink EXCEPT !.ends = sink.ends], UNCHANGED session,
               turn' = [turn EXCEPT !.pc = "stream", !.round = @ + 1, !.text = <<>>, !.source = <<>>,
                                    !.calls = <<>>, !.response = NoResponse]
        PROVE  ToldInv'
    <2>1. turn'.pc = "stream" /\ turn'.results = turn.results /\ turn'.text = <<>> /\ turn'.calls = <<>>
      BY <1>1, <1>3 DEF TurnFields
    <2>2. /\ DOMAIN sink' = {"text", "calls", "ends"} /\ sink'.ends = sink.ends
          /\ sink'.text = <<>> /\ sink'.calls = <<>> /\ IsSeq(hist')
      BY <1>3 DEF ToldInv, NoSink, session
    <2>3. EndIsTold'
      BY <1>1, <2>1, <2>2, NotYetTold DEF ToldInv
    <2> QED BY <2>1, <2>2, <2>3 DEF ToldInv, Settled, Batch, Inside
  <1> QED BY <1>1, <1>2, <1>3, RefusalsTold DEF StartRound

(* What was announced stays when the turn goes on with it. *)
LEMMA StaysAnnounced ==
    ASSUME TurnInv, ToldInv, turn.pc \in Settled, NEW pc \in Settled, turn' = [turn EXCEPT !.pc = pc],
           pc = "answer" => turn.calls = <<>>, UNCHANGED <<session, sink>>
    PROVE  ToldInv'
  <1>1. DOMAIN turn = TurnFields
    BY DEF TurnInv, TurnOK
  <1>2. /\ turn'.pc = pc /\ turn'.results = turn.results /\ turn'.calls = turn.calls
        /\ turn'.response = turn.response
    BY <1>1 DEF TurnFields
  <1>3. EndIsTold'
    BY <1>2, NotYetTold DEF ToldInv, Settled, Batch, Inside
  <1> QED BY <1>2, <1>3 DEF ToldInv, Settled, Batch, Inside, session

(* Only a response without calls becomes the answer. *)
LEMMA AnsweredTold ==
    ASSUME TurnInv, ToldInv, Answered
    PROVE  ToldInv'
  <1>1. turn.pc # "idle" /\ turn.pc \in Settled
    BY DEF Answered, Settled
  <1>2. ASSUME sink' = sink, Fails("protocol") \/ Fails("rounds")
        PROVE  ToldInv'
    BY <1>1, <1>2, FailsTold DEF Errors
  <1>3. ASSUME UNCHANGED <<session, sink>>,
               turn' = [turn EXCEPT !.pc = IF turn.calls # <<>> THEN "plan" ELSE "answer"]
        PROVE  ToldInv'
    <2>1. PICK pc \in Settled : /\ pc = (IF turn.calls # <<>> THEN "plan" ELSE "answer")
                                /\ pc = "answer" => turn.calls = <<>>
      BY DEF Settled
    <2> QED BY <1>1, <1>3, <2>1, StaysAnnounced
  <1> QED BY <1>1, <1>2, <1>3, RefusalsTold DEF Answered

(* The end of a turn, and what the consumer hears of it. *)
LEMMA OverTold ==
    ASSUME NEW outcome, NEW memory, IsSeq(memory), Over(outcome, memory), NEW ends,
           sink' = [NoSink EXCEPT !.ends = ends],
           \/ outcome \in {"completed", "cancelled"} /\ ends = <<outcome>>
           \/ outcome \in {"sink", "delivery", "checkpoint"} /\ ends = <<>>
           \/ outcome \in Errors \ {"sink", "cancelled"} /\ ends = <<"failed">>
    PROVE  ToldInv'
  <1>1. turn'.pc = "idle" /\ turn'.outcome = outcome /\ turn'.results = <<>> /\ hist' = memory
    BY DEF Over, NoTurn
  <1>2. DOMAIN sink' = {"text", "calls", "ends"} /\ sink'.ends = ends
    BY DEF NoSink
  <1>3. Len(ends) <= 1
    <2>1. ends = <<>> \/ \E x : ends = <<x>>
      OBVIOUS
    <2> QED BY <2>1, ShortLists
  <1>4. EndIsTold'
    BY <1>1, <1>2, <1>3 DEF EndIsTold, Errors
  <1> QED BY <1>1, <1>2, <1>4 DEF ToldInv, Settled, Batch, Inside

(* The answer is told as completed, or not at all. *)
LEMMA PersistAnswerTold ==
    ASSUME TurnInv, ToldInv, PersistAnswer
    PROVE  ToldInv'
  <1>1. PICK memory : memory = hist \o Append(turn.pend, Assistant(turn.response.text, <<>>))
    OBVIOUS
  <1>2. IsSeq(memory) /\ IsSeq(hist)
    BY <1>1, Appended, Joined DEF ToldInv, TurnInv, TurnOK
  <1>3. NoSink = [NoSink EXCEPT !.ends = <<>>]
    BY DEF NoSink
  <1>4. \/ Over("completed", memory) /\ sink' = [NoSink EXCEPT !.ends = <<"completed">>]
        \/ Over("delivery", memory) /\ sink' = NoSink
        \/ Over("checkpoint", hist) /\ sink' = NoSink
    BY <1>1 DEF PersistAnswer
  <1>5. CASE Over("completed", memory) /\ sink' = [NoSink EXCEPT !.ends = <<"completed">>]
    BY <1>2, <1>5, OverTold
  <1>6. CASE Over("delivery", memory) /\ sink' = NoSink
    BY <1>2, <1>3, <1>6, OverTold
  <1>7. CASE Over("checkpoint", hist) /\ sink' = NoSink
    BY <1>2, <1>3, <1>7, OverTold
  <1> QED BY <1>4, <1>5, <1>6, <1>7

(* fail_turn! tells it once. *)
LEMMA EmitTerminalErrorTold ==
    ASSUME TurnInv, ToldInv, EmitTerminalError
    PROVE  ToldInv'
  <1>1. turn.error \in Errors /\ sink.ends = <<>> /\ IsSeq(hist)
    BY DEF EmitTerminalError, ToldInv, EndIsTold
  <1>2. NoSink = [NoSink EXCEPT !.ends = <<>>]
    BY DEF NoSink
  <1>3. CASE Over("sink", hist) /\ sink' = NoSink
    BY <1>1, <1>2, <1>3, OverTold
  <1>4. CASE turn.error = "cancelled" /\ Over(turn.error, hist) /\ sink' = [NoSink EXCEPT !.ends = <<"cancelled">>]
    BY <1>1, <1>4, OverTold
  <1>5. CASE /\ turn.error \notin {"cancelled", "sink"} /\ Over(turn.error, hist)
             /\ sink' = [NoSink EXCEPT !.ends = <<"failed">>]
    BY <1>1, <1>5, OverTold
  <1>6. Append(<<>>, "cancelled") = <<"cancelled">> /\ Append(<<>>, "failed") = <<"failed">>
    OBVIOUS
  <1> QED BY <1>1, <1>3, <1>4, <1>5, <1>6 DEF EmitTerminalError

(* The stream is left early. *)
LEMMA BreaksTold ==
    ASSUME TurnInv, ToldInv, turn.pc = "stream", NEW error \in Errors, Breaks(error)
    PROVE  ToldInv'
  <1>1. DOMAIN turn = TurnFields
    BY DEF TurnInv, TurnOK
  <1>2. turn'.pc = "closing" /\ turn'.error = error /\ turn'.results = turn.results /\ hist' = hist
    BY <1>1 DEF Breaks, TurnFields, session
  <1>3. DOMAIN sink' = {"text", "calls", "ends"} /\ sink'.ends = sink.ends /\ IsSeq(hist')
    BY <1>2 DEF Breaks, NoSink, ToldInv
  <1> QED BY <1>2, <1>3, NothingAnnounced

(* The stream is broken, cancelled, closed. *)
LEMMA StreamStopsTold ==
    ASSUME TurnInv, ToldInv, StreamBreaks \/ StreamCancelled \/ CloseStream
    PROVE  ToldInv'
  <1>1. CASE StreamBreaks \/ StreamCancelled
    <2>1. turn.pc = "stream" /\ (Breaks("protocol") \/ Breaks("cancelled"))
      BY <1>1 DEF StreamBreaks, StreamCancelled, Streaming
    <2> QED BY <2>1, BreaksTold DEF Errors
  <1>2. CASE CloseStream
    <2>1. DOMAIN turn = TurnFields /\ turn.pc = "closing" /\ turn.error \in Errors
      BY <1>2 DEF TurnInv, TurnOK, ToldInv, CloseStream
    <2>2. turn'.pc = "failing" /\ turn'.error \in Errors /\ turn'.results = turn.results
      BY <1>2, <2>1 DEF CloseStream, TurnFields, Errors
    <2>3. DOMAIN sink' = {"text", "calls", "ends"} /\ sink'.ends = sink.ends /\ IsSeq(hist')
      BY <1>2 DEF CloseStream, ToldInv, session
    <2> QED BY <2>1, <2>2, <2>3, NothingAnnounced
  <1> QED BY <1>1, <1>2

(* A step of the stream that goes on, whatever it adds. *)
LEMMA StreamTold ==
    ASSUME TurnInv, ToldInv, turn.pc = "stream", UNCHANGED session, NEW text, NEW calls,
           turn'.pc = "stream", turn'.results = turn.results, turn'.text = text, turn'.calls = calls,
           DOMAIN sink' = {"text", "calls", "ends"}, sink'.ends = sink.ends,
           sink'.text = text, sink'.calls = calls
    PROVE  ToldInv'
  <1>1. EndIsTold'
    BY NotYetTold DEF ToldInv
  <1> QED BY <1>1 DEF ToldInv, Settled, Batch, Inside, session

(* A delta is announced as it joins the text. *)
LEMMA StreamDeltaTold ==
    ASSUME TurnInv, ToldInv, NEW piece, StreamDelta(piece)
    PROVE  ToldInv'
  <1>1. turn.pc = "stream" /\ DOMAIN turn = TurnFields /\ DOMAIN sink = {"text", "calls", "ends"}
        /\ sink.text = turn.text /\ sink.calls = turn.calls
    BY DEF StreamDelta, Streaming, TurnInv, TurnOK, ToldInv
  <1>2. ASSUME turn' = [turn EXCEPT !.text = Append(@, piece), !.spoken = @ + 1],
               sink' = [sink EXCEPT !.text = Append(@, piece)], UNCHANGED session
        PROVE  ToldInv'
    <2>1. /\ turn'.pc = "stream" /\ turn'.results = turn.results /\ turn'.calls = turn.calls
          /\ turn'.text = Append(turn.text, piece)
      BY <1>1, <1>2 DEF TurnFields
    <2>2. /\ DOMAIN sink' = {"text", "calls", "ends"} /\ sink'.ends = sink.ends
          /\ sink'.text = Append(turn.text, piece) /\ sink'.calls = turn.calls
      BY <1>1, <1>2
    <2> QED BY <1>1, <1>2, <2>1, <2>2, StreamTold
  <1> QED BY <1>1, <1>2, BreaksTold DEF StreamDelta, Errors

(* A call is announced under its new identifier. *)
LEMMA StreamCallTold ==
    ASSUME TurnInv, ToldInv, NEW id, NEW tool, StreamCall(id, tool)
    PROVE  ToldInv'
  <1>1. turn.pc = "stream" /\ DOMAIN turn = TurnFields /\ DOMAIN sink = {"text", "calls", "ends"}
        /\ sink.text = turn.text /\ sink.calls = turn.calls
    BY DEF StreamCall, Streaming, TurnInv, TurnOK, ToldInv
  <1>2. PICK c : c = <<[id |-> id, tool |-> tool]>>
    OBVIOUS
  <1>3. PICK call : call = Reidentified(c)
    OBVIOUS
  <1>4. ASSUME turn' = [turn EXCEPT !.source = @ \o c, !.calls = @ \o call,
                                    !.fresh = @ \cup ToolIds(call), !.arguments = @ + 1],
               sink' = [sink EXCEPT !.calls = @ \o call], UNCHANGED session
        PROVE  ToldInv'
    <2>1. /\ turn'.pc = "stream" /\ turn'.results = turn.results /\ turn'.calls = turn.calls \o call
          /\ turn'.text = turn.text
      BY <1>1, <1>4 DEF TurnFields
    <2>2. /\ DOMAIN sink' = {"text", "calls", "ends"} /\ sink'.ends = sink.ends
          /\ sink'.text = turn.text /\ sink'.calls = turn.calls \o call
      BY <1>1, <1>4
    <2> QED BY <1>1, <1>4, <2>1, <2>2, StreamTold
  <1>5. ASSUME Breaks("sink") \/ Breaks("protocol")
        PROVE  ToldInv'
    BY <1>1, <1>5, BreaksTold DEF Errors
  <1> QED BY <1>2, <1>3, <1>4, <1>5 DEF StreamCall

(* The terminal response is only kept. *)
LEMMA StreamTerminalTold ==
    ASSUME TurnInv, ToldInv, NEW response, StreamTerminal(response)
    PROVE  ToldInv'
  <1>1. turn.pc = "stream" /\ DOMAIN turn = TurnFields /\ DOMAIN sink = {"text", "calls", "ends"}
        /\ sink.text = turn.text /\ sink.calls = turn.calls
    BY DEF StreamTerminal, Streaming, TurnInv, TurnOK, ToldInv
  <1>2. turn' = [turn EXCEPT !.response = response] /\ sink' = sink /\ UNCHANGED session
    BY DEF StreamTerminal
  <1>3. /\ turn'.pc = "stream" /\ turn'.results = turn.results /\ turn'.calls = turn.calls
        /\ turn'.text = turn.text
    BY <1>1, <1>2 DEF TurnFields
  <1> QED BY <1>1, <1>2, <1>3, StreamTold

(* A prefix and the rest are the whole. *)
LEMMA PrefixAndRest ==
    ASSUME NEW s, NEW t, IsSeq(s), IsSeq(t), IsPrefix(s, t)
    PROVE  s \o SubSeq(t, Len(s) + 1, Len(t)) = t
  <1>1. PICK A : s \in Seq(A)
    BY DEF IsSeq
  <1>2. PICK B : t \in Seq(B)
    BY DEF IsSeq
  <1>3. PICK C : C = A \cup B
    OBVIOUS
  <1>4. s \in Seq(C) /\ t \in Seq(C)
    BY <1>1, <1>2, <1>3
  <1>5. Len(s) \in Nat /\ Len(t) \in Nat /\ Len(s) <= Len(t) /\ SubSeq(s, 1, Len(s)) = SubSeq(t, 1, Len(s))
    BY <1>4 DEF IsPrefix
  <1>6. \A i \in 1..Len(s) : s[i] = t[i]
    <2>1. \A i \in 1..Len(s) : SubSeq(s, 1, Len(s))[i] = s[i] /\ SubSeq(t, 1, Len(s))[i] = t[i]
      BY <1>4, <1>5
    <2> QED BY <1>5, <2>1
  <1>7. PICK r : r = SubSeq(t, Len(s) + 1, Len(t))
    OBVIOUS
  <1>8. r \in Seq(C) /\ Len(r) = Len(t) - Len(s) /\ \A i \in 1..Len(r) : r[i] = t[Len(s) + i]
    BY <1>4, <1>5, <1>7
  <1>9. s \o r \in Seq(C) /\ Len(s \o r) = Len(t)
    BY <1>4, <1>5, <1>8
  <1>10. \A i \in 1..Len(t) : (s \o r)[i] = t[i]
    <2> SUFFICES ASSUME NEW i \in 1..Len(t) PROVE (s \o r)[i] = t[i]
      OBVIOUS
    <2>1. CASE i <= Len(s)
      BY <1>4, <1>5, <1>6, <1>8, <2>1
    <2>2. CASE i > Len(s)
      <3>1. i - Len(s) \in 1..Len(r) /\ (s \o r)[i] = r[i - Len(s)] /\ Len(s) + (i - Len(s)) = i
        BY <1>4, <1>5, <1>8, <2>2
      <3> QED BY <1>8, <3>1
    <2>3. i <= Len(s) \/ i > Len(s)
      BY <1>5
    <2> QED BY <2>1, <2>2, <2>3
  <1>11. s \o r = t
    BY <1>4, <1>9, <1>10, SeqEqual
  <1> QED BY <1>7, <1>11

(* What the stream left out is announced before the response counts. *)
LEMMA StreamEndsTold ==
    ASSUME TurnInv, ToldInv, StreamEnds
    PROVE  ToldInv'
  <1>1. turn.pc = "stream" /\ DOMAIN turn = TurnFields /\ DOMAIN sink = {"text", "calls", "ends"}
        /\ sink.text = turn.text /\ sink.calls = turn.calls
    BY DEF StreamEnds, Streaming, TurnInv, TurnOK, ToldInv
  <1>2. PICK late : late = IF turn.calls = <<>> THEN Reidentified(turn.response.calls) ELSE <<>>
    OBVIOUS
  <1>3. ASSUME Reconciles,
               turn' = [turn EXCEPT !.pc = "answered", !.text = <<>>, !.source = <<>>,
                                    !.spoken = @ + Len(Missing), !.response.calls = <<>>,
                                    !.calls = @ \o late, !.fresh = @ \cup ToolIds(late),
                                    !.arguments = @ + Len(late)],
               sink' = [sink EXCEPT !.text = @ \o Missing, !.calls = @ \o late], UNCHANGED session
        PROVE  ToldInv'
    <2>1. turn.text \o Missing = turn.response.text
      BY <1>3, PrefixAndRest DEF Reconciles, Missing, TurnInv, TurnOK, ResponseOK
    <2>2. PICK r : r = [turn.response EXCEPT !.calls = <<>>]
      OBVIOUS
    <2>3. r.text = turn.response.text
      BY <2>2 DEF TurnInv, TurnOK, ResponseOK
    <2>4. turn' = [turn EXCEPT !.pc = "answered", !.text = <<>>, !.source = <<>>,
                               !.spoken = @ + Len(Missing), !.response = r,
                               !.calls = @ \o late, !.fresh = @ \cup ToolIds(late),
                               !.arguments = @ + Len(late)]
      BY <1>3, <2>2
    <2>5. /\ turn'.pc = "answered" /\ turn'.results = turn.results /\ turn'.calls = turn.calls \o late
          /\ turn'.response = r
      BY <1>1, <2>4 DEF TurnFields
    <2>6. /\ DOMAIN sink' = {"text", "calls", "ends"} /\ sink'.ends = sink.ends
          /\ sink'.text = turn.response.text /\ sink'.calls = turn.calls \o late
      BY <1>1, <1>3, <2>1
    <2>7. EndIsTold'
      BY <1>1, <2>5, <2>6, NotYetTold DEF ToldInv
    <2> QED BY <1>3, <2>3, <2>5, <2>6, <2>7 DEF ToldInv, Settled, Batch, Inside, session
  <1>4. ASSUME Breaks("sink") \/ Breaks("protocol")
        PROVE  ToldInv'
    BY <1>1, <1>4, BreaksTold DEF Errors
  <1> QED BY <1>2, <1>3, <1>4 DEF StreamEnds

(* The batch starts with no result. *)
LEMMA StartToolBatchTold ==
    ASSUME TurnInv, ToldInv, StartToolBatch
    PROVE  ToldInv'
  <1>1. turn.pc = "plan" /\ DOMAIN turn = TurnFields
    BY DEF StartToolBatch, TurnInv, TurnOK
  <1>2. ASSUME turn' = [turn EXCEPT !.pc = "call", !.at = 1, !.results = <<>>, !.bytes = 0],
               UNCHANGED <<session, sink>>
        PROVE  ToldInv'
    <2>1. /\ turn'.pc = "call" /\ turn'.results = <<>> /\ turn'.calls = turn.calls
          /\ turn'.response = turn.response
      BY <1>1, <1>2 DEF TurnFields
    <2>2. EndIsTold'
      BY <1>1, <1>2, <2>1, NotYetTold DEF ToldInv
    <2> QED BY <1>1, <1>2, <2>1, <2>2 DEF ToldInv, Settled, Batch, Inside, session
  <1> QED BY <1>1, <1>2, RefusalsTold DEF StartToolBatch

(* The results of a batch are results. *)
LEMMA ResultsStay ==
    ASSUME NEW s, IsSeq(s), NEW r, r.role = "tool", \A i \in DOMAIN s : s[i].role = "tool",
           NEW more, IsSeq(more), \A i \in DOMAIN more : more[i].role = "tool"
    PROVE  /\ \A i \in DOMAIN Append(s, r) : Append(s, r)[i].role = "tool"
           /\ \A i \in DOMAIN (Append(s, r) \o more) : (Append(s, r) \o more)[i].role = "tool"
  <1>1. PICK A : s \in Seq(A)
    BY DEF IsSeq
  <1>2. PICK B : more \in Seq(B)
    BY DEF IsSeq
  <1>3. PICK C : C = A \cup B \cup {r}
    OBVIOUS
  <1>4. s \in Seq(C) /\ more \in Seq(C) /\ r \in C
    BY <1>1, <1>2, <1>3
  <1>5. PICK a : a = Append(s, r)
    OBVIOUS
  <1>6. a \in Seq(C) /\ Len(a) = Len(s) + 1 /\ \A i \in 1..Len(a) : a[i] = IF i <= Len(s) THEN s[i] ELSE r
    BY <1>4, <1>5
  <1>7. \A i \in DOMAIN a : a[i].role = "tool"
    BY <1>4, <1>6
  <1>8. \A i \in DOMAIN (a \o more) : (a \o more)[i].role = "tool"
    <2> SUFFICES ASSUME NEW i \in DOMAIN (a \o more) PROVE (a \o more)[i].role = "tool"
      OBVIOUS
    <2>1. Len(a) \in Nat /\ Len(more) \in Nat /\ i \in 1..(Len(a) + Len(more))
      BY <1>4, <1>6
    <2>2. CASE i <= Len(a)
      BY <1>4, <1>6, <1>7, <2>1, <2>2
    <2>3. CASE i > Len(a)
      <3>1. i - Len(a) \in DOMAIN more /\ (a \o more)[i] = more[i - Len(a)]
        BY <1>4, <1>6, <2>1, <2>3
      <3> QED BY <3>1
    <2>4. i <= Len(a) \/ i > Len(a)
      BY <2>1
    <2> QED BY <2>2, <2>3, <2>4
  <1> QED BY <1>5, <1>7, <1>8

(* The calls that are not executed are answered one for one. *)
LEMMA NotRunIs ==
    ASSUME TurnInv, turn.pc \in Inside
    PROVE  /\ IsSeq(NotRun) /\ Len(NotRun) = Len(Rest) /\ DOMAIN NotRun = DOMAIN Rest
           /\ \A i \in DOMAIN NotRun : NotRun[i].role = "tool" /\ NotRun[i].id = Rest[i].id
  <1>1. PICK more : more = NotRun
    OBVIOUS
  <1>2. more = [i \in DOMAIN Rest |-> more[i]]
    BY <1>1 DEF NotRun
  <1>3. IsSeq(more) /\ Len(more) = Len(Rest)
    BY <1>2, RestIs, Mapped
  <1>4. \A i \in DOMAIN Rest : more[i] = Result(Rest[i].id, "notrun")
    BY <1>1 DEF NotRun
  <1>5. \A x : Result(x, "notrun").role = "tool" /\ Result(x, "notrun").id = x
    BY DEF Result
  <1> QED BY <1>1, <1>2, <1>3, <1>4, <1>5

(* No step of a batch changes what was announced. *)
LEMMA BatchTold ==
    ASSUME TurnInv, ToldInv, turn.pc \in Inside, BatchStep
    PROVE  ToldInv'
  <1>1. /\ hist' = hist /\ sink' = sink /\ turn'.calls = turn.calls /\ turn'.response = turn.response
        /\ sink.text = turn.response.text /\ sink.calls = turn.calls /\ turn.pc # "idle"
    BY DEF BatchStep, SameTurn, session, ToldInv, Settled, Batch, Inside
  <1>2. CASE Abandons
    BY <1>1, <1>2, NothingAnnounced DEF Abandons, ToldInv
  <1>3. ASSUME turn'.pc \in Batch, \A i \in DOMAIN turn'.results : turn'.results[i].role = "tool"
        PROVE  ToldInv'
    <2>1. EndIsTold'
      BY <1>1, <1>3, NotYetTold DEF ToldInv, Batch, Inside
    <2> QED BY <1>1, <1>3, <2>1 DEF ToldInv, Settled, Batch, Inside
  <1>4. CASE Moves
    BY <1>3, <1>4 DEF Moves, ToldInv, Batch
  <1>5. ASSUME NEW said, Answers(said) \/ Completes(said)
        PROVE  ToldInv'
    <2>1. Result(Call.id, said).role = "tool"
      BY DEF Result
    <2>2. IsSeq(turn.results) /\ \A i \in DOMAIN turn.results : turn.results[i].role = "tool"
      BY DEF TurnInv, TurnOK, ToldInv
    <2>3. \A i \in DOMAIN turn'.results : turn'.results[i].role = "tool"
      <3>1. PICK r : r = Result(Call.id, said)
        OBVIOUS
      <3>2. PICK more : more = NotRun
        OBVIOUS
      <3>3. IsSeq(more) /\ \A i \in DOMAIN more : more[i].role = "tool"
        BY <3>2, NotRunIs
      <3>4. /\ \A i \in DOMAIN Append(turn.results, r) : Append(turn.results, r)[i].role = "tool"
            /\ \A i \in DOMAIN (Append(turn.results, r) \o more) : (Append(turn.results, r) \o more)[i].role = "tool"
        BY <2>1, <2>2, <3>1, <3>3, ResultsStay
      <3>5. turn'.results = Append(turn.results, r) \/ turn'.results = Append(turn.results, r) \o more
        BY <1>5, <3>1, <3>2 DEF Answers, Completes
      <3> QED BY <3>4, <3>5
    <2>4. turn'.pc \in Batch
      BY <1>5 DEF Answers, Completes, Batch, Inside
    <2> QED BY <1>3, <2>3, <2>4
  <1> QED BY <1>2, <1>4, <1>5 DEF BatchStep

(* The batch becomes history. *)
LEMMA CommitBatchTold ==
    ASSUME TurnInv, ToldInv, CommitBatch
    PROVE  ToldInv'
  <1>1. turn.pc = "commit" /\ TurnOK(turn) /\ DOMAIN turn = TurnFields
    BY DEF CommitBatch, TurnInv, TurnOK
  <1>2. ASSUME hist' = hist \o Append(turn.pend, Assistant(turn.response.text, turn.calls)) \o turn.results,
               turn' = [turn EXCEPT !.pend = <<>>, !.results = <<>>, !.at = 0, !.bytes = 0,
                                    !.pc = IF turn.error = "none" THEN "round" ELSE "failing"],
               sink' = sink
        PROVE  ToldInv'
    <2>1. /\ turn'.results = <<>> /\ turn'.error = turn.error
          /\ turn'.pc = IF turn.error = "none" THEN "round" ELSE "failing"
      BY <1>1, <1>2 DEF TurnFields
    <2>2. turn.error \in Errors \cup {"none"}
      BY <1>1 DEF TurnOK
    <2>3. IsSeq(hist')
      <3>1. PICK a : a = Append(turn.pend, Assistant(turn.response.text, turn.calls))
        OBVIOUS
      <3>2. IsSeq(a) /\ IsSeq(hist) /\ IsSeq(turn.results)
        BY <1>1, <3>1, Appended DEF TurnOK, ToldInv
      <3>3. IsSeq(hist \o a)
        BY <3>2, Joined
      <3> QED BY <1>2, <3>1, <3>2, <3>3, Joined
    <2> QED BY <1>1, <1>2, <2>1, <2>2, <2>3, NothingAnnounced DEF ToldInv
  <1> QED BY <1>1, <1>2, RefusalsTold DEF CommitBatch

(* It holds at the start. *)
LEMMA ToldInit == Init => ToldInv
  <1> SUFFICES ASSUME Init PROVE ToldInv
    OBVIOUS
  <1>1. turn = NoTurn /\ sink = NoSink /\ hist \in InitialHistories
    BY DEF Init
  <1>2. IsSeq(hist)
    <2>1. PICK n \in Nat : n = Len(hist)
      BY <1>1, HistoriesConstants
    <2>2. hist = [i \in 1..n |-> hist[i]]
      BY <1>1, <2>1, HistoriesConstants
    <2>3. hist \in [1..n -> {hist[i] : i \in 1..n}]
      BY <2>2
    <2>4. hist \in Seq({hist[i] : i \in 1..n})
      BY <2>3, SeqDef
    <2> QED BY <2>4 DEF IsSeq
  <1>3. turn.pc = "idle" /\ turn.outcome = "none" /\ turn.results = <<>>
    BY <1>1 DEF NoTurn
  <1>4. DOMAIN sink = {"text", "calls", "ends"} /\ sink.ends = <<>>
    BY <1>1 DEF NoSink
  <1>5. EndIsTold
    BY <1>3, <1>4, ShortLists DEF EndIsTold
  <1> QED BY <1>2, <1>3, <1>4, <1>5 DEF ToldInv, Settled, Batch, Inside

(* Every step keeps it. *)
LEMMA ToldNext == TurnInv /\ ToldInv /\ [Next]_vars => ToldInv'
  <1> SUFFICES ASSUME TurnInv, ToldInv, [Next]_vars PROVE ToldInv'
    OBVIOUS
  <1>1. CASE BatchActions
    BY <1>1, BatchActionShape, BatchTold
  <1>2. CASE RunMessage
    BY <1>2, RunMessageTold
  <1>3. CASE Cancel \/ UNCHANGED vars
    BY <1>3 DEF Cancel, vars, session, ToldInv, EndIsTold
  <1>4. CASE Harness
    BY <1>1, <1>4, BeginTold, StartRoundTold, StreamStopsTold, AnsweredTold, PersistAnswerTold, StartToolBatchTold,
       CommitBatchTold, EmitTerminalErrorTold DEF Harness, BatchActions
  <1>5. CASE Model
    BY <1>5, StreamStopsTold, StreamEndsTold, StreamDeltaTold, StreamCallTold, StreamTerminalTold DEF Model
  <1>6. CASE World
    BY <1>1, <1>5, <1>6 DEF World, BatchActions
  <1> QED BY <1>2, <1>3, <1>4, <1>6 DEF Next

-----------------------------------------------------------------------------
(* Only the answer and the batch become history. *)
LEMMA OnlyCommits ==
    ASSUME TurnInv, [Next]_vars
    PROVE  \/ hist' = hist
           \/ PersistAnswer /\ hist' = hist \o Append(turn.pend, Assistant(turn.response.text, <<>>))
           \/ CommitBatch /\ hist' = hist \o Append(turn.pend, Assistant(turn.response.text, turn.calls)) \o turn.results
  <1>1. CASE BatchActions
    BY <1>1, BatchActionShape DEF BatchStep, SameTurn, session
  <1>2. CASE RunMessage \/ Cancel \/ UNCHANGED vars
    BY <1>2 DEF RunMessage, Cancel, vars, session
  <1>3. CASE PersistAnswer
    BY <1>3 DEF PersistAnswer, Over
  <1>4. CASE CommitBatch
    BY <1>4 DEF CommitBatch, CheckpointRefused, Fails, session
  <1>5. CASE EmitTerminalError
    BY <1>5 DEF EmitTerminalError, Over
  <1>6. CASE Begin \/ StartRound \/ Answered \/ StartToolBatch
    BY <1>6 DEF Begin, StartRound, Answered, StartToolBatch, SinkRefuses, CheckpointRefused, Fails, session
  <1>7. CASE StreamBreaks \/ StreamCancelled \/ CloseStream
    BY <1>7 DEF StreamBreaks, StreamCancelled, CloseStream, Breaks, session
  <1>8. CASE Model
    <2>1. ASSUME NEW id, NEW tool, StreamCall(id, tool) PROVE hist' = hist
      BY <2>1 DEF StreamCall, Breaks, session
    <2>2. ASSUME NEW piece, StreamDelta(piece) PROVE hist' = hist
      BY <2>2 DEF StreamDelta, Breaks, session
    <2>3. ASSUME NEW response, StreamTerminal(response) PROVE hist' = hist
      BY <2>3 DEF StreamTerminal, session
    <2>4. ASSUME StreamEnds PROVE hist' = hist
      BY <2>4 DEF StreamEnds, Breaks, session
    <2> QED BY <1>7, <1>8, <2>1, <2>2, <2>3, <2>4 DEF Model
  <1> QED BY <1>1, <1>2, <1>3, <1>4, <1>5, <1>6, <1>7, <1>8 DEF Next, Harness, World, BatchActions

(* The last message of the assistant in g is m. *)
EndsWith(g, m) ==
    \E n \in DOMAIN g : /\ g[n] = m /\ DOMAIN g \subseteq Nat
                        /\ \A k \in DOMAIN g : g[k].role = "assistant" => k <= n

AllResults(s) == \A i \in DOMAIN s : s[i].role = "tool"

(* It is the response, when a response joins a history. *)
LEMMA LastAssistant ==
    ASSUME NEW h, NEW p, NEW m, NEW r, IsSeq(h), IsSeq(p), IsSeq(r), m.role = "assistant",
           AllResults(r), NEW g, g = h \o Append(p, m) \o r
    PROVE  EndsWith(g, m)
  <1>1. PICK A : h \in Seq(A)
    BY DEF IsSeq
  <1>2. PICK B : p \in Seq(B)
    BY DEF IsSeq
  <1>3. PICK C : r \in Seq(C)
    BY DEF IsSeq
  <1>4. PICK S : S = A \cup B \cup C \cup {m}
    OBVIOUS
  <1>5. h \in Seq(S) /\ p \in Seq(S) /\ r \in Seq(S) /\ m \in S
    BY <1>1, <1>2, <1>3, <1>4
  <1>6. PICK n \in Nat : n = Len(h) + Len(p) + 1
    BY <1>5
  <1>7. PICK q : q = h \o Append(p, m)
    OBVIOUS
  <1>8. q \in Seq(S) /\ Len(q) = n /\ q[n] = m
    <2>1. PICK a : a = Append(p, m)
      OBVIOUS
    <2>2. a \in Seq(S) /\ Len(a) = Len(p) + 1 /\ a[Len(a)] = m
      BY <1>5, <2>1
    <2>3. q \in Seq(S) /\ Len(q) = Len(h) + Len(a) /\ q[Len(h) + Len(a)] = a[Len(a)]
      BY <1>5, <1>7, <2>1, <2>2
    <2>4. Len(h) + Len(a) = n
      BY <1>5, <1>6, <2>2
    <2> QED BY <2>2, <2>3, <2>4
  <1>9. g \in Seq(S) /\ Len(g) = n + Len(r) /\ g[n] = m /\ n \in DOMAIN g
    BY <1>5, <1>6, <1>7, <1>8
  <1>10. \A k \in DOMAIN g : g[k].role = "assistant" => k <= n
    <2> SUFFICES ASSUME NEW k \in DOMAIN g, g[k].role = "assistant", ~(k <= n) PROVE FALSE
      OBVIOUS
    <2>1. k \in 1..(n + Len(r)) /\ Len(r) \in Nat
      BY <1>5, <1>9
    <2>2. k - n \in DOMAIN r /\ g[k] = r[k - n]
      BY <1>5, <1>6, <1>7, <1>8, <2>1
    <2>3. r[k - n].role = "tool"
      BY <2>2 DEF AllResults
    <2> QED BY <2>2, <2>3
  <1>11. DOMAIN g \subseteq Nat
    BY <1>9
  <1> QED BY <1>9, <1>10, <1>11 DEF EndsWith

(* What becomes history was announced. *)
LEMMA CommitIsAnnounced ==
    ASSUME TurnInv, ToldInv, [Next]_vars, hist' # hist
    PROVE  LET a == CHOOSE i \in DOMAIN hist' : /\ hist'[i].role = "assistant"
                      /\ \A k \in DOMAIN hist' : hist'[k].role = "assistant" => k <= i
           IN  hist'[a].text = sink.text /\ hist'[a].calls = sink.calls
  <1>1. IsSeq(hist) /\ IsSeq(turn.pend) /\ IsSeq(turn.results) /\ \A i \in DOMAIN turn.results : turn.results[i].role = "tool"
    BY DEF TurnInv, TurnOK, ToldInv
  <1>2. PICK m, r : /\ hist' = hist \o Append(turn.pend, m) \o r /\ IsSeq(r)
                    /\ \A i \in DOMAIN r : r[i].role = "tool"
                    /\ m.role = "assistant" /\ m.text = sink.text /\ m.calls = sink.calls
    <2>1. CASE PersistAnswer /\ hist' = hist \o Append(turn.pend, Assistant(turn.response.text, <<>>))
      <3>1. sink.text = turn.response.text /\ sink.calls = <<>>
        BY <2>1 DEF PersistAnswer, ToldInv, Settled
      <3>2. PICK m : m = Assistant(turn.response.text, <<>>)
        OBVIOUS
      <3>3. m.role = "assistant" /\ m.text = sink.text /\ m.calls = sink.calls
        BY <3>1, <3>2 DEF Assistant
      <3>4. PICK q : q = hist \o Append(turn.pend, m)
        OBVIOUS
      <3>5. IsSeq(q)
        BY <1>1, <3>4, Appended, Joined
      <3>6. q \o <<>> = q
        BY <3>5 DEF IsSeq
      <3>7. hist' = hist \o Append(turn.pend, m) \o <<>>
        BY <2>1, <3>2, <3>4, <3>6
      <3>8. IsSeq(<<>>) /\ \A i \in DOMAIN <<>> : <<>>[i].role = "tool"
        BY ShortLists
      <3> QED BY <3>3, <3>7, <3>8
    <2>2. CASE CommitBatch /\ hist' = hist \o Append(turn.pend, Assistant(turn.response.text, turn.calls)) \o turn.results
      <3>1. sink.text = turn.response.text /\ sink.calls = turn.calls
        BY <2>2 DEF CommitBatch, ToldInv, Settled, Batch
      <3>2. PICK m : m = Assistant(turn.response.text, turn.calls)
        OBVIOUS
      <3>3. m.role = "assistant" /\ m.text = sink.text /\ m.calls = sink.calls
        BY <3>1, <3>2 DEF Assistant
      <3> QED BY <1>1, <2>2, <3>2, <3>3
    <2> QED BY <2>1, <2>2, OnlyCommits
  <1>3. PICK g : g = hist'
    OBVIOUS
  <1>4. PICK n \in DOMAIN g : /\ g[n] = m /\ DOMAIN g \subseteq Nat
                             /\ \A k \in DOMAIN g : g[k].role = "assistant" => k <= n
    <2>1. g = hist \o Append(turn.pend, m) \o r
      BY <1>2, <1>3
    <2>2. IsSeq(r) /\ m.role = "assistant" /\ AllResults(r)
      BY <1>2 DEF AllResults
    <2>3. EndsWith(g, m)
      BY <1>1, <2>1, <2>2, LastAssistant
    <2> QED BY <2>3 DEF EndsWith
  <1>5. PICK a : a = CHOOSE i \in DOMAIN g : /\ g[i].role = "assistant"
                        /\ \A k \in DOMAIN g : g[k].role = "assistant" => k <= i
    OBVIOUS
  <1>6. m.role = "assistant"
    BY <1>2
  <1>7. a \in DOMAIN g /\ g[a].role = "assistant" /\ \A k \in DOMAIN g : g[k].role = "assistant" => k <= a
    BY <1>4, <1>5, <1>6
  <1>8. a = n
    <2>1. a \in Nat /\ n \in Nat /\ a <= n /\ n <= a
      BY <1>4, <1>6, <1>7
    <2> QED BY <2>1
  <1>9. g[a].text = sink.text /\ g[a].calls = sink.calls
    BY <1>2, <1>4, <1>8
  <1> QED BY <1>3, <1>5, <1>9

(* Whatever the model, the tools, cancellation, storage and the consumer   *)
(* do: a turn has at most one terminal event, its last, which tells how it *)
(* ended; and the text and the calls that enter the history are the ones   *)
(* the consumer was shown in that round, streamed or not.                  *)
THEOREM ConsumersAreTold == Spec => ConsumerIsTold
  <1>1. ToldInv => EndIsTold
    BY DEF ToldInv
  <1>2. TurnInv /\ ToldInv /\ [Next]_vars =>
          [hist' # hist =>
            LET a == CHOOSE i \in DOMAIN hist' : /\ hist'[i].role = "assistant"
                        /\ \A k \in DOMAIN hist' : hist'[k].role = "assistant" => k <= i
            IN  hist'[a].text = sink.text /\ hist'[a].calls = sink.calls]_vars
    BY CommitIsAnnounced
  <1>3. Spec => []TurnInv
    BY TurnInvInit, TurnInvNext, PTL DEF Spec
  <1>4. Spec => []ToldInv
    BY <1>3, ToldInit, ToldNext, PTL DEF Spec
  <1>5. Spec => [][Next]_vars
    BY PTL DEF Spec
  <1>6. Spec => CommittedIsAnnounced
    BY <1>2, <1>3, <1>4, <1>5, PTL DEF CommittedIsAnnounced
  <1>7. Spec => []EndIsTold
    BY <1>1, <1>4, PTL
  <1> QED BY <1>6, <1>7 DEF ConsumerIsTold

-----------------------------------------------------------------------------
(* Identifiers.                                                            *)

(* The elements of j, which is s and then t. *)
IsJoin(j, s, t, m, n) ==
    /\ IsSeq(j) /\ Len(j) = m + n /\ DOMAIN j = 1..(m + n) /\ DOMAIN s = 1..m /\ DOMAIN t = 1..n
    /\ \A i \in 1..m : j[i] = s[i]
    /\ \A i \in 1..n : j[m + i] = t[i]
    /\ \A i \in 1..(m + n) : i > m => i - m \in 1..n /\ j[i] = t[i - m]

(* Two lists, joined. *)
LEMMA JoinedAre ==
    ASSUME NEW s, NEW t, IsSeq(s), IsSeq(t), NEW m \in Nat, m = Len(s), NEW n \in Nat, n = Len(t),
           NEW j, j = s \o t
    PROVE  IsJoin(j, s, t, m, n)
  <1>1. PICK A : s \in Seq(A)
    BY DEF IsSeq
  <1>2. PICK B : t \in Seq(B)
    BY DEF IsSeq
  <1>3. PICK C : C = A \cup B
    OBVIOUS
  <1>4. s \in Seq(C) /\ t \in Seq(C)
    BY <1>1, <1>2, <1>3
  <1>5. DOMAIN s = 1..m /\ DOMAIN t = 1..n
    BY <1>4
  <1>6. j \in Seq(C) /\ Len(j) = m + n /\ DOMAIN j = 1..(m + n)
    BY <1>4
  <1>7. \A i \in 1..m : j[i] = s[i]
    BY <1>4
  <1>8. \A i \in 1..(m + n) : i > m => i - m \in 1..n /\ j[i] = t[i - m]
    BY <1>4
  <1>9. \A i \in 1..n : m + i \in 1..(m + n) /\ m + i > m /\ (m + i) - m = i
    OBVIOUS
  <1>10. \A i \in 1..n : j[m + i] = t[i]
    BY <1>8, <1>9
  <1>11. IsSeq(j)
    BY <1>6 DEF IsSeq
  <1> QED BY <1>5, <1>6, <1>7, <1>8, <1>10, <1>11 DEF IsJoin

Distinct(calls) == \A i, k \in DOMAIN calls : calls[i].id = calls[k].id => i = k

(* There are enough of them: every turn may draw all its arguments allow. *)
LEMMA Enough ==
    ASSUME NEW a \in Nat, NEW t \in Nat, NEW m \in Nat, t <= m
    PROVE  a * t \in Nat /\ a * t <= (a + 1) * m /\ (a + 1) * m \in Nat
  <1>1. PICK d \in Nat : m = t + d
    <2>1. m - t \in Nat /\ m = t + (m - t)
      OBVIOUS
    <2> QED BY <2>1
  <1>2. a * t \in Nat /\ a * d \in Nat
    OBVIOUS
  <1>3. (a + 1) * m = a * t + a * d + m
    BY <1>1
  <1> QED BY <1>2, <1>3

(* So are those of one more turn. *)
LEMMA NextShare ==
    ASSUME NEW a \in Nat, NEW t \in Nat
    PROVE  a * t \in Nat /\ a * (t + 1) = a * t + a
  OBVIOUS

(* The new identifiers are as many as that. *)
LEMMA IdsAre ==
    IsFiniteSet(Ids) /\ Cardinality(Ids) = (MaxTotalToolArguments + 1) * MaxTurns /\ Cardinality(Ids) \in Nat
  <1>1. PICK n \in Nat : n = (MaxTotalToolArguments + 1) * MaxTurns
    <2>1. MaxTotalToolArguments \in Nat /\ MaxTurns \in Nat
      BY Limits
    <2> QED BY <2>1, Enough
  <1>2. IsFiniteSet(1..n) /\ Cardinality(1..n) = IF 1 > n THEN 0 ELSE n - 1 + 1
    BY FS_Interval
  <1>3. Cardinality(1..n) = n
    BY <1>2
  <1> QED BY <1>1, <1>2, <1>3 DEF Ids

(* The identifiers in use, of those that can be new. *)
InUse == (issued \cap Ids) \cup turn.fresh

IdsInv ==
    /\ turn.fresh \subseteq Ids /\ invoked \subseteq Ids
    /\ turn.pc = "idle" => Cardinality(issued \cap Ids) <= MaxTotalToolArguments * turns
    /\ turn.pc # "idle" => /\ turns >= 1
                           /\ Cardinality(InUse) <= MaxTotalToolArguments * (turns - 1) + turn.arguments

(* An injection into a set that is large enough. *)
LEMMA Draws ==
    ASSUME NEW S, IsFiniteSet(S), NEW n \in Nat, n <= Cardinality(S)
    PROVE  \E f \in [1..n -> S] : IsInjective(f)
  <1>1. PICK m \in Nat : m = Cardinality(S) /\ ExistsBijection(1..m, S)
    BY FS_CardinalityType
  <1>2. PICK g : g \in Bijection(1..m, S)
    BY <1>1 DEF ExistsBijection
  <1>3. g \in [1..m -> S] /\ \A x, y \in 1..m : g[x] = g[y] => x = y
    BY <1>2 DEF Bijection, Injection, IsInjective
  <1>4. 1..n \subseteq 1..m
    BY <1>1
  <1>5. PICK f : f = [i \in 1..n |-> g[i]]
    OBVIOUS
  <1>6. f \in [1..n -> S] /\ \A x, y \in DOMAIN f : f[x] = f[y] => x = y
    BY <1>3, <1>4, <1>5
  <1> QED BY <1>6 DEF IsInjective

(* A new identifier for each of n calls. *)
LEMMA NewIdsAre ==
    ASSUME TurnInv, IdsInv, turn.pc # "idle", NEW n \in Nat, turn.arguments + n <= MaxTotalToolArguments
    PROVE  NewIds(n) \in [1..n -> Ids \ Taken] /\ IsInjective(NewIds(n))
  <1>1. turn.arguments \in Nat /\ turns \in Nat /\ turns >= 1 /\ turns <= MaxTurns /\ MaxTurns \in Nat
        /\ MaxTotalToolArguments \in Nat
    BY Limits DEF TurnInv, TurnOK, RestOK, IdsInv
  <1>2. InUse \subseteq Ids /\ Ids \ Taken = Ids \ InUse /\ Ids \cap InUse = InUse
    BY DEF IdsInv, InUse, Taken
  <1>3. IsFiniteSet(Ids \ InUse) /\ Cardinality(Ids \ InUse) = Cardinality(Ids) - Cardinality(Ids \cap InUse)
        /\ IsFiniteSet(InUse)
    BY <1>2, IdsAre, FS_Difference, FS_Subset
  <1>4. PICK u \in Nat : u = Cardinality(InUse)
    BY <1>3, FS_CardinalityType
  <1>5. PICK t \in Nat : turns = t + 1
    <2>1. turns - 1 \in Nat /\ turns = (turns - 1) + 1
      BY <1>1
    <2> QED BY <2>1
  <1>6. PICK s \in Nat : s = MaxTotalToolArguments * t /\ MaxTotalToolArguments * (t + 1) = s + MaxTotalToolArguments
    BY <1>1, NextShare
  <1>7. PICK z \in Nat : z = Cardinality(Ids) /\ s + MaxTotalToolArguments <= z
    <2>1. t + 1 \in Nat /\ t + 1 <= MaxTurns
      BY <1>1, <1>5
    <2>2. MaxTotalToolArguments * (t + 1) <= (MaxTotalToolArguments + 1) * MaxTurns
      BY <1>1, <2>1, Enough
    <2> QED BY <1>6, <2>2, IdsAre
  <1>8. u <= s + turn.arguments
    <2>1. turns - 1 = t
      BY <1>5
    <2> QED BY <1>4, <1>6, <2>1 DEF IdsInv
  <1>9. n <= z - u
    BY <1>1, <1>7, <1>8
  <1>10. n <= Cardinality(Ids \ Taken) /\ IsFiniteSet(Ids \ Taken)
    BY <1>2, <1>3, <1>4, <1>7, <1>9
  <1>11. \E f \in [1..n -> Ids \ Taken] : IsInjective(f)
    BY <1>10, Draws
  <1> QED BY <1>11 DEF NewIds

(* The calls under their new identifiers. *)
LEMMA ReidentifiedAre ==
    ASSUME TurnInv, IdsInv, turn.pc # "idle", NEW c, IsSeq(c), turn.arguments + Len(c) <= MaxTotalToolArguments,
           NEW call, call = Reidentified(c)
    PROVE  /\ IsSeq(call) /\ Len(call) = Len(c) /\ Distinct(call) /\ ToolIds(call) \subseteq Ids \ Taken
           /\ IsFiniteSet(ToolIds(call)) /\ Cardinality(ToolIds(call)) = Len(c)
  <1>1. PICK n \in Nat : n = Len(c)
    BY ListIs
  <1>2. DOMAIN c = 1..n
    <2>1. PICK A : c \in Seq(A)
      BY DEF IsSeq
    <2> QED BY <1>1, <2>1
  <1>3. PICK f : f = NewIds(n)
    OBVIOUS
  <1>4. f \in [1..n -> Ids \ Taken] /\ \A i, k \in 1..n : f[i] = f[k] => i = k
    BY <1>1, <1>3, NewIdsAre DEF IsInjective
  <1>5. IsSeq(call) /\ Len(call) = n
    BY <1>1, ReidentifiedIs
  <1>6. call = [i \in 1..n |-> [id |-> f[i], tool |-> c[i].tool]]
    BY <1>1, <1>2, <1>3 DEF Reidentified
  <1>7. DOMAIN call = 1..n /\ \A i \in 1..n : call[i].id = f[i]
    BY <1>6
  <1>8. Distinct(call)
    BY <1>4, <1>7 DEF Distinct
  <1>9. ToolIds(call) \subseteq Ids \ Taken
    BY <1>4, <1>7 DEF ToolIds
  <1>10. f \in Bijection(1..n, ToolIds(call))
    <2>1. ToolIds(call) = {f[i] : i \in 1..n}
      BY <1>7 DEF ToolIds
    <2>2. f \in [1..n -> ToolIds(call)] /\ \A x \in ToolIds(call) : \E i \in 1..n : f[i] = x
      BY <1>4, <2>1
    <2> QED BY <1>4, <2>2 DEF Bijection, Injection, Surjection, IsInjective
  <1>11. ExistsBijection(1..n, ToolIds(call))
    BY <1>10 DEF ExistsBijection
  <1>12. IsFiniteSet(ToolIds(call)) /\ Cardinality(ToolIds(call)) = n
    BY <1>11, FS_NatBijection, FS_CountingElements
  <1> QED BY <1>1, <1>5, <1>8, <1>9, <1>12

(* As many identifiers as calls, when they are distinct. *)
LEMMA DistinctCount ==
    ASSUME NEW calls, IsSeq(calls), Distinct(calls)
    PROVE  Cardinality(ToolIds(calls)) = Len(calls)
  <1>1. PICK n \in Nat : n = Len(calls) /\ DOMAIN calls = 1..n
    <2>1. PICK A : calls \in Seq(A)
      BY DEF IsSeq
    <2> QED BY <2>1
  <1>2. PICK f : f = [i \in 1..n |-> calls[i].id]
    OBVIOUS
  <1>3. f \in Bijection(1..n, ToolIds(calls))
    <2>1. ToolIds(calls) = {f[i] : i \in 1..n}
      BY <1>1, <1>2 DEF ToolIds
    <2>2. f \in [1..n -> ToolIds(calls)] /\ \A x \in ToolIds(calls) : \E i \in 1..n : f[i] = x
      BY <1>2, <2>1
    <2>3. \A i, k \in 1..n : f[i] = f[k] => i = k
      BY <1>1, <1>2 DEF Distinct
    <2> QED BY <2>2, <2>3 DEF Bijection, Injection, Surjection, IsInjective
  <1>4. ExistsBijection(1..n, ToolIds(calls))
    BY <1>3 DEF ExistsBijection
  <1> QED BY <1>1, <1>4, FS_CountingElements

(* Calls that join the ones of the round. *)
LEMMA CallsJoin ==
    ASSUME NEW s, NEW t, IsSeq(s), IsSeq(t), Distinct(s), Distinct(t), ToolIds(s) \cap ToolIds(t) = {}
    PROVE  Distinct(s \o t) /\ ToolIds(s \o t) = ToolIds(s) \cup ToolIds(t)
  <1>1. PICK m \in Nat : m = Len(s)
    BY ListIs
  <1>2. PICK n \in Nat : n = Len(t)
    BY ListIs
  <1>3. PICK j : j = s \o t
    OBVIOUS
  <1>4. /\ DOMAIN j = 1..(m + n) /\ \A i \in 1..m : j[i] = s[i]
        /\ \A i \in 1..(m + n) : i > m => i - m \in 1..n /\ j[i] = t[i - m]
        /\ DOMAIN s = 1..m /\ DOMAIN t = 1..n
    BY <1>1, <1>2, <1>3, JoinedAre DEF IsJoin
  <1>5. \A i \in 1..n : m + i \in 1..(m + n) /\ m + i > m /\ (m + i) - m = i
    OBVIOUS
  <1>6. \A x : x \in ToolIds(j) <=> x \in ToolIds(s) \/ x \in ToolIds(t)
    <2> SUFFICES ASSUME NEW x PROVE x \in ToolIds(j) <=> x \in ToolIds(s) \/ x \in ToolIds(t)
      OBVIOUS
    <2>1. ASSUME x \in ToolIds(j) PROVE x \in ToolIds(s) \/ x \in ToolIds(t)
      <3>1. PICK i \in 1..(m + n) : x = j[i].id
        BY <1>4, <2>1 DEF ToolIds
      <3>2. CASE i <= m
        <4>1. i \in 1..m /\ j[i] = s[i]
          BY <1>4, <3>2
        <4> QED BY <1>4, <3>1, <4>1 DEF ToolIds
      <3>3. CASE i > m
        BY <1>4, <3>1, <3>3 DEF ToolIds
      <3>4. i <= m \/ i > m
        OBVIOUS
      <3> QED BY <3>2, <3>3, <3>4
    <2>2. ASSUME x \in ToolIds(s) PROVE x \in ToolIds(j)
      <3>1. PICK i \in 1..m : x = s[i].id
        BY <1>4, <2>2 DEF ToolIds
      <3>2. i \in 1..(m + n) /\ x = j[i].id
        BY <1>4, <3>1
      <3> QED BY <1>4, <3>2 DEF ToolIds
    <2>3. ASSUME x \in ToolIds(t) PROVE x \in ToolIds(j)
      <3>1. PICK i \in 1..n : x = t[i].id
        BY <1>4, <2>3 DEF ToolIds
      <3>2. m + i \in 1..(m + n) /\ x = j[m + i].id
        BY <1>4, <1>5, <3>1
      <3> QED BY <1>4, <3>2 DEF ToolIds
    <2> QED BY <2>1, <2>2, <2>3
  <1>7. Distinct(j)
    <2> SUFFICES ASSUME NEW i \in 1..(m + n), NEW k \in 1..(m + n), j[i].id = j[k].id PROVE i = k
      BY <1>4 DEF Distinct
    <2>1. \A i1 \in 1..m, k1 \in 1..n : s[i1].id # t[k1].id
      BY <1>4 DEF ToolIds
    <2>2. CASE i <= m /\ k <= m
      <3>1. i \in 1..m /\ k \in 1..m /\ s[i].id = s[k].id
        BY <1>4, <2>2
      <3> QED BY <1>4, <3>1 DEF Distinct
    <2>3. CASE i > m /\ k > m
      <3>1. i - m \in 1..n /\ k - m \in 1..n /\ t[i - m].id = t[k - m].id
        BY <1>4, <2>3
      <3>2. i - m = k - m
        BY <1>4, <3>1 DEF Distinct
      <3> QED BY <3>2
    <2>4. CASE i <= m /\ k > m
      <3>1. i \in 1..m /\ k - m \in 1..n /\ s[i].id = t[k - m].id
        BY <1>4, <2>4
      <3> QED BY <2>1, <3>1
    <2>5. CASE i > m /\ k <= m
      <3>1. k \in 1..m /\ i - m \in 1..n /\ s[k].id = t[i - m].id
        BY <1>4, <2>5
      <3> QED BY <2>1, <3>1
    <2>6. (i <= m \/ i > m) /\ (k <= m \/ k > m)
      OBVIOUS
    <2> QED BY <2>2, <2>3, <2>4, <2>5, <2>6
  <1> QED BY <1>3, <1>6, <1>7

-----------------------------------------------------------------------------
(* Histories.                                                              *)

AnsweredIds(h, i) == {h[j].id : j \in {k \in 1..(i - 1) : h[k].role = "tool"}}

(* An identifier is issued by a call before, and answered by a result. *)
LEMMA IssuedBy ==
    ASSUME NEW h, NEW i, NEW x
    PROVE  /\ x \in Issued(h, i) <=> \E j \in 1..(i - 1) : h[j].role = "assistant" /\ x \in ToolIds(h[j].calls)
           /\ x \in AnsweredIds(h, i) <=> \E j \in 1..(i - 1) : h[j].role = "tool" /\ x = h[j].id
           /\ x \in Unanswered(h, i) <=> x \in Issued(h, i) /\ x \notin AnsweredIds(h, i)
  BY DEF Issued, AnsweredIds, Unanswered

(* Two histories with the same messages before position i. *)
AgreeBefore(g, h, i) == \A j \in 1..(i - 1) : g[j] = h[j]

(* Only what comes before counts. *)
LEMMA SameBefore ==
    ASSUME NEW g, NEW h, NEW i \in Nat, AgreeBefore(g, h, i)
    PROVE  Issued(g, i) = Issued(h, i) /\ AnsweredIds(g, i) = AnsweredIds(h, i) /\ Unanswered(g, i) = Unanswered(h, i)
  <1>1. \A x : x \in Issued(g, i) <=> x \in Issued(h, i)
    BY IssuedBy DEF AgreeBefore
  <1>2. \A x : x \in AnsweredIds(g, i) <=> x \in AnsweredIds(h, i)
    BY IssuedBy DEF AgreeBefore
  <1>3. \A x : x \in Unanswered(g, i) <=> x \in Unanswered(h, i)
    BY <1>1, <1>2, IssuedBy
  <1> QED BY <1>1, <1>2, <1>3

(* One message more. *)
LEMMA OneMore ==
    ASSUME NEW g, NEW i \in Nat \ {0}
    PROVE  /\ g[i].role = "assistant" => /\ Issued(g, i + 1) = Issued(g, i) \cup ToolIds(g[i].calls)
                                         /\ AnsweredIds(g, i + 1) = AnsweredIds(g, i)
           /\ g[i].role = "user" => Issued(g, i + 1) = Issued(g, i) /\ AnsweredIds(g, i + 1) = AnsweredIds(g, i)
  <1>1. \A j : j \in 1..((i + 1) - 1) <=> j \in 1..(i - 1) \/ j = i
    OBVIOUS
  <1>2. \A x : x \in Issued(g, i + 1) <=> x \in Issued(g, i) \/ (g[i].role = "assistant" /\ x \in ToolIds(g[i].calls))
    BY <1>1, IssuedBy
  <1>3. \A x : x \in AnsweredIds(g, i + 1) <=> x \in AnsweredIds(g, i) \/ (g[i].role = "tool" /\ x = g[i].id)
    BY <1>1, IssuedBy
  <1> QED BY <1>2, <1>3

(* n results from position m on, and what they answer. *)
ResultsFrom(g, m, n) == \A j \in m..(m + n - 1) : g[j].role = "tool"

AnsweredFrom(g, m, n) == {g[j].id : j \in m..(m + n - 1)}

(* Results only answer. *)
LEMMA ManyResults ==
    ASSUME NEW g, NEW m \in Nat \ {0}, NEW n \in Nat, ResultsFrom(g, m, n)
    PROVE  /\ Issued(g, m + n) = Issued(g, m)
           /\ AnsweredIds(g, m + n) = AnsweredIds(g, m) \cup AnsweredFrom(g, m, n)
  <1>1. \A j : j \in 1..((m + n) - 1) <=> j \in 1..(m - 1) \/ j \in m..(m + n - 1)
    OBVIOUS
  <1>2. \A x : x \in Issued(g, m + n) <=> x \in Issued(g, m)
    BY <1>1, IssuedBy DEF ResultsFrom
  <1>3. \A x : x \in AnsweredIds(g, m + n) <=> x \in AnsweredIds(g, m) \/ \E j \in m..(m + n - 1) : x = g[j].id
    BY <1>1, IssuedBy DEF ResultsFrom
  <1>4. \A x : x \in AnsweredFrom(g, m, n) <=> \E j \in m..(m + n - 1) : x = g[j].id
    BY DEF AnsweredFrom
  <1> QED BY <1>2, <1>3, <1>4

(* In a valid history only what was issued is answered. *)
LEMMA AnsweredWasIssued ==
    ASSUME NEW h, IsSeq(h), ValidHistory(h)
    PROVE  AnsweredIds(h, Len(h) + 1) = Issued(h, Len(h) + 1)
  <1>1. PICK n \in Nat : n = Len(h) /\ DOMAIN h = 1..n
    <2>1. PICK A : h \in Seq(A)
      BY DEF IsSeq
    <2> QED BY <2>1
  <1>2. Unanswered(h, n + 1) = {}
    BY <1>1 DEF ValidHistory
  <1>3. ASSUME NEW x, x \in AnsweredIds(h, n + 1) PROVE x \in Issued(h, n + 1)
    <2>1. PICK j \in 1..((n + 1) - 1) : h[j].role = "tool" /\ x = h[j].id
      BY <1>3, IssuedBy
    <2>2. j \in 1..n
      BY <2>1
    <2>3. x \in Unanswered(h, j)
      BY <1>1, <2>1, <2>2 DEF ValidHistory, ValidMessage
    <2>4. PICK k \in 1..(j - 1) : h[k].role = "assistant" /\ x \in ToolIds(h[k].calls)
      BY <2>3, IssuedBy
    <2>5. k \in 1..((n + 1) - 1)
      BY <2>2, <2>4
    <2> QED BY <2>4, <2>5, IssuedBy
  <1>4. ASSUME NEW x, x \in Issued(h, n + 1) PROVE x \in AnsweredIds(h, n + 1)
    BY <1>2, <1>4, IssuedBy
  <1> QED BY <1>1, <1>3, <1>4

(* Messages that were valid stay valid when more follow. *)
LEMMA StaysValid ==
    ASSUME NEW h, NEW g, NEW i \in Nat \ {0}, \A j \in 1..i : g[j] = h[j], ValidMessage(h, i)
    PROVE  ValidMessage(g, i)
  <1>1. g[i] = h[i] /\ AgreeBefore(g, h, i)
    BY DEF AgreeBefore
  <1>2. Issued(g, i) = Issued(h, i) /\ Unanswered(g, i) = Unanswered(h, i)
    BY <1>1, SameBefore
  <1> QED BY <1>1, <1>2 DEF ValidMessage

(* What a response adds to a history: the message, the response with its   *)
(* calls, and a result for each call in order.                             *)
AddsTo(h, g, p, m, r) ==
    /\ IsSeq(g) /\ Len(g) = Len(h) + p + 1 + Len(r) /\ p \in {0, 1}
    /\ \A i \in 1..Len(h) : g[i] = h[i]
    /\ p = 1 => g[Len(h) + 1] = User
    /\ g[Len(h) + p + 1] = m
    /\ \A i \in 1..Len(r) : g[Len(h) + p + 1 + i] = r[i]

(* Which is what is committed. *)
LEMMA Adds ==
    ASSUME NEW h, NEW q, NEW m, NEW r, NEW g, IsSeq(h), IsSeq(r), q \in {<<>>, <<User>>},
           g = h \o Append(q, m) \o r
    PROVE  AddsTo(h, g, Len(q), m, r)
  <1>1. PICK A : h \in Seq(A)
    BY DEF IsSeq
  <1>2. PICK B : r \in Seq(B)
    BY DEF IsSeq
  <1>3. PICK S : S = A \cup B \cup {m, User}
    OBVIOUS
  <1>4. h \in Seq(S) /\ r \in Seq(S) /\ m \in S /\ User \in S
    BY <1>1, <1>2, <1>3
  <1>5. PICK p \in {0, 1} : p = Len(q)
    BY ShortLists
  <1>6. PICK a : a = Append(q, m)
    OBVIOUS
  <1>7. a \in Seq(S) /\ Len(a) = p + 1 /\ a[p + 1] = m /\ (p = 1 => a[1] = User)
    <2>1. CASE q = <<>>
      BY <1>4, <1>5, <1>6, <2>1
    <2>2. CASE q = <<User>>
      BY <1>4, <1>5, <1>6, <2>2
    <2> QED BY <2>1, <2>2
  <1>8. PICK l \in Nat : l = Len(h)
    BY <1>4
  <1>9. PICK b : b = h \o a
    OBVIOUS
  <1>10. /\ b \in Seq(S) /\ Len(b) = l + p + 1 /\ \A i \in 1..l : b[i] = h[i]
         /\ b[l + p + 1] = m /\ (p = 1 => b[l + 1] = User)
    <2>1. b \in Seq(S) /\ Len(b) = l + (p + 1) /\ \A i \in 1..l : b[i] = h[i]
      BY <1>4, <1>7, <1>8, <1>9
    <2>2. \A i \in 1..(p + 1) : b[l + i] = a[i]
      BY <1>4, <1>7, <1>8, <1>9
    <2>3. l + (p + 1) = l + p + 1 /\ p + 1 \in 1..(p + 1) /\ 1 \in 1..(p + 1)
      BY <1>5
    <2> QED BY <1>7, <2>1, <2>2, <2>3
  <1>11. PICK n \in Nat : n = Len(r)
    BY <1>4
  <1>12. g = b \o r
    BY <1>6, <1>9
  <1>13. PICK k \in Nat : k = l + p + 1
    BY <1>5
  <1>14. /\ IsSeq(g) /\ Len(g) = k + n /\ \A i \in 1..k : g[i] = b[i]
         /\ \A i \in 1..n : g[k + i] = r[i]
    <2>1. IsSeq(b) /\ Len(b) = k
      BY <1>10, <1>13 DEF IsSeq
    <2>2. IsJoin(g, b, r, k, n)
      BY <1>11, <1>12, <2>1, JoinedAre
    <2> QED BY <2>2 DEF IsJoin
  <1>15. \A i \in 1..l : g[i] = h[i]
    <2>1. \A i \in 1..l : i \in 1..k
      BY <1>5, <1>13
    <2>2. \A i \in 1..l : b[i] = h[i]
      BY <1>10
    <2>3. \A i \in 1..k : g[i] = b[i]
      BY <1>14
    <2> QED BY <2>1, <2>2, <2>3
  <1>16. g[k] = m /\ (p = 1 => g[l + 1] = User)
    <2>1. k \in 1..k /\ l + 1 \in 1..k
      BY <1>5, <1>13
    <2> QED BY <1>10, <1>13, <1>14, <2>1
  <1> QED BY <1>5, <1>8, <1>11, <1>13, <1>14, <1>15, <1>16 DEF AddsTo

(* One result for each call, in order. *)
AnswersTo(r, calls) == Len(r) = Len(calls) /\ AllResults(r) /\ \A i \in DOMAIN r : r[i].id = calls[i].id

(* The history that results is valid. *)
LEMMA HistoryGrows ==
    ASSUME NEW h, IsSeq(h), ValidHistory(h), NEW text, NEW calls, IsSeq(calls),
           text # <<>> \/ calls # <<>>, Len(calls) <= MaxToolCallsPerRound, Distinct(calls),
           ToolIds(calls) \cap Issued(h, Len(h) + 1) = {},
           NEW r, IsSeq(r), AnswersTo(r, calls),
           NEW g, NEW q, AddsTo(h, g, q, Assistant(text, calls), r)
    PROVE  ValidHistory(g) /\ Issued(g, Len(g) + 1) = Issued(h, Len(h) + 1) \cup ToolIds(calls)
  <1>1. PICK l \in Nat : l = Len(h) /\ DOMAIN h = 1..l
    <2>1. PICK A : h \in Seq(A)
      BY DEF IsSeq
    <2> QED BY <2>1
  <1>2. PICK n \in Nat : n = Len(r) /\ DOMAIN r = 1..n
    <2>1. PICK A : r \in Seq(A)
      BY DEF IsSeq
    <2> QED BY <2>1
  <1>3. DOMAIN calls = 1..n
    <2>1. PICK A : calls \in Seq(A)
      BY DEF IsSeq
    <2> QED BY <1>2, <2>1 DEF AnswersTo
  <1>4. PICK p \in {0, 1} : p = q
    BY DEF AddsTo
  <1>5. PICK m : m = Assistant(text, calls)
    OBVIOUS
  <1>6. PICK a \in Nat : a = l + p + 1 /\ a >= 1
    BY <1>4
  <1>7. DOMAIN g = 1..(a + n) /\ Len(g) = a + n
    <2>1. IsSeq(g) /\ Len(g) = a + n
      BY <1>1, <1>2, <1>4, <1>6 DEF AddsTo
    <2>2. PICK A : g \in Seq(A)
      BY <2>1 DEF IsSeq
    <2> QED BY <2>1, <2>2
  <1>8. /\ \A i \in 1..l : g[i] = h[i]
        /\ p = 1 => g[l + 1] = User
        /\ g[a] = m /\ \A i \in 1..n : g[a + i] = r[i]
    BY <1>1, <1>2, <1>4, <1>5, <1>6 DEF AddsTo
  <1>9. m.role = "assistant" /\ m.text = text /\ m.calls = calls /\ User.role = "user"
    BY <1>5 DEF Assistant, User
  <1>10. PICK old : old = Issued(h, l + 1) /\ old = AnsweredIds(h, l + 1)
    BY <1>1, AnsweredWasIssued
  <1>11. Issued(g, l + 1) = old /\ AnsweredIds(g, l + 1) = old
    <2>1. AgreeBefore(g, h, l + 1) /\ l + 1 \in Nat
      BY <1>8 DEF AgreeBefore
    <2> QED BY <1>10, <2>1, SameBefore
  <1>12. Issued(g, a) = old /\ AnsweredIds(g, a) = old
    <2>1. CASE p = 0
      BY <1>6, <1>11, <2>1
    <2>2. CASE p = 1
      <3>1. l + 1 \in Nat \ {0} /\ g[l + 1].role = "user" /\ a = (l + 1) + 1
        BY <1>6, <1>8, <1>9, <2>2
      <3> QED BY <1>11, <3>1, OneMore
    <2> QED BY <1>4, <2>1, <2>2
  <1>13. Issued(g, a + 1) = old \cup ToolIds(calls) /\ AnsweredIds(g, a + 1) = old
    <2>1. a \in Nat \ {0} /\ g[a].role = "assistant" /\ g[a].calls = calls
      BY <1>6, <1>8, <1>9
    <2> QED BY <1>12, <2>1, OneMore
  <1>14. ASSUME NEW k \in 0..n
         PROVE  /\ Issued(g, (a + 1) + k) = old \cup ToolIds(calls)
                /\ \A x : x \in AnsweredIds(g, (a + 1) + k) <=> x \in old \/ \E i \in 1..k : x = calls[i].id
    <2>1. k \in Nat /\ a + 1 \in Nat \ {0}
      BY <1>6
    <2>2. \A j \in (a + 1)..((a + 1) + k - 1) : j - a \in 1..k /\ j - a \in 1..n /\ a + (j - a) = j
      BY <1>6
    <2>3. \A j \in (a + 1)..((a + 1) + k - 1) : g[j] = r[j - a]
      BY <1>8, <2>2
    <2>4. \A i \in 1..n : r[i].role = "tool" /\ r[i].id = calls[i].id
      BY <1>2 DEF AnswersTo, AllResults
    <2>5. \A j \in (a + 1)..((a + 1) + k - 1) : g[j].role = "tool" /\ g[j].id = calls[j - a].id
      BY <2>2, <2>3, <2>4
    <2>6. /\ Issued(g, (a + 1) + k) = Issued(g, a + 1)
          /\ AnsweredIds(g, (a + 1) + k) = AnsweredIds(g, a + 1) \cup AnsweredFrom(g, a + 1, k)
      <3>1. ResultsFrom(g, a + 1, k)
        BY <2>5 DEF ResultsFrom
      <3> QED BY <2>1, <3>1, ManyResults
    <2>7. \A i \in 1..k : a + i \in (a + 1)..((a + 1) + k - 1) /\ (a + i) - a = i
      BY <1>6
    <2>8. \A x : (\E j \in (a + 1)..((a + 1) + k - 1) : x = g[j].id) <=> \E i \in 1..k : x = calls[i].id
      <3>1. ASSUME NEW x, NEW j \in (a + 1)..((a + 1) + k - 1), x = g[j].id
            PROVE  \E i \in 1..k : x = calls[i].id
        BY <2>2, <2>5, <3>1
      <3>2. ASSUME NEW x, NEW i \in 1..k, x = calls[i].id
            PROVE  \E j \in (a + 1)..((a + 1) + k - 1) : x = g[j].id
        <4>1. g[a + i].id = calls[i].id
          BY <2>5, <2>7
        <4> QED BY <2>7, <3>2, <4>1
      <3> QED BY <3>1, <3>2
    <2>9. \A x : x \in AnsweredFrom(g, a + 1, k) <=> \E i \in 1..k : x = calls[i].id
      BY <2>8 DEF AnsweredFrom
    <2> QED BY <1>13, <2>6, <2>9
  <1>15. \A x : x \in ToolIds(calls) <=> \E i \in 1..n : x = calls[i].id
    BY <1>3 DEF ToolIds
  <1>16. ToolIds(calls) \cap old = {}
    BY <1>1, <1>10
  <1>17. Issued(g, Len(g) + 1) = old \cup ToolIds(calls) /\ Unanswered(g, Len(g) + 1) = {}
    <2>1. n \in 0..n /\ Len(g) + 1 = (a + 1) + n
      BY <1>7
    <2>2. Issued(g, Len(g) + 1) = old \cup ToolIds(calls)
      BY <1>14, <2>1
    <2>3. \A x : x \in AnsweredIds(g, Len(g) + 1) <=> x \in old \/ \E i \in 1..n : x = calls[i].id
      BY <1>14, <2>1
    <2>4. \A x : x \notin Unanswered(g, Len(g) + 1)
      BY <1>15, <2>2, <2>3, IssuedBy
    <2> QED BY <2>2, <2>4
  <1>18. \A i \in 1..l : ValidMessage(g, i)
    <2> SUFFICES ASSUME NEW i \in 1..l PROVE ValidMessage(g, i)
      OBVIOUS
    <2>1. i \in Nat \ {0} /\ \A j \in 1..i : g[j] = h[j]
      BY <1>8
    <2>2. ValidMessage(h, i)
      BY <1>1 DEF ValidHistory
    <2> QED BY <2>1, <2>2, StaysValid
  <1>19. \A i \in {l + 1, a} : Unanswered(g, i) = {}
    <2>1. \A x : x \notin Unanswered(g, l + 1) /\ x \notin Unanswered(g, a)
      BY <1>11, <1>12, IssuedBy
    <2> QED BY <2>1
  <1>20. p = 1 => ValidMessage(g, l + 1)
    BY <1>8, <1>9, <1>19 DEF ValidMessage
  <1>21. ValidMessage(g, a)
    <2>1. Cardinality(ToolIds(calls)) = Len(calls)
      BY DistinctCount
    <2>2. ToolIds(calls) \cap Issued(g, a) = {}
      BY <1>12, <1>16
    <2>3. g[a].role = "assistant" /\ g[a].text = text /\ g[a].calls = calls
      BY <1>8, <1>9
    <2> QED BY <1>19, <2>1, <2>2, <2>3 DEF ValidMessage
  <1>22. \A i \in 1..n : ValidMessage(g, a + i)
    <2> SUFFICES ASSUME NEW i \in 1..n PROVE ValidMessage(g, a + i)
      OBVIOUS
    <2>1. PICK k \in 0..n : k = i - 1 /\ (a + 1) + k = a + i
      <3>1. i - 1 \in 0..n /\ (a + 1) + (i - 1) = a + i
        BY <1>6
      <3> QED BY <3>1
    <2>2. PICK x : x = calls[i].id
      OBVIOUS
    <2>3. g[a + i].role = "tool" /\ g[a + i].id = x
      BY <1>2, <1>8, <2>2 DEF AnswersTo, AllResults
    <2>4. x \in ToolIds(calls) /\ x \notin old
      BY <1>15, <1>16, <2>2
    <2>5. \A j \in 1..k : calls[j].id # x
      <3>1. \A j \in 1..k : j \in 1..n /\ j # i
        BY <2>1
      <3> QED BY <1>3, <2>2, <3>1 DEF Distinct
    <2>6. x \in Issued(g, a + i) /\ x \notin AnsweredIds(g, a + i)
      <3>1. /\ Issued(g, a + i) = old \cup ToolIds(calls)
            /\ \A y : y \in AnsweredIds(g, a + i) <=> y \in old \/ \E j \in 1..k : y = calls[j].id
        BY <1>14, <2>1
      <3> QED BY <2>4, <2>5, <3>1
    <2>7. x \in Unanswered(g, a + i)
      BY <2>6, IssuedBy
    <2> QED BY <2>3, <2>7 DEF ValidMessage
  <1>23. \A i \in DOMAIN g : ValidMessage(g, i)
    <2> SUFFICES ASSUME NEW i \in 1..(a + n) PROVE ValidMessage(g, i)
      BY <1>7
    <2>1. CASE i <= l
      BY <1>18, <2>1
    <2>2. CASE i > l /\ i < a
      <3>1. p = 1 /\ i = l + 1
        BY <1>4, <1>6, <2>2
      <3> QED BY <1>20, <3>1
    <2>3. CASE i = a
      BY <1>21, <2>3
    <2>4. CASE i > a
      <3>1. i - a \in 1..n /\ a + (i - a) = i
        BY <1>6, <2>4
      <3> QED BY <1>22, <3>1
    <2>5. i <= l \/ (i > l /\ i < a) \/ i = a \/ i > a
      BY <1>6
    <2> QED BY <2>1, <2>2, <2>3, <2>4, <2>5
  <1>24. Issued(g, Len(g) + 1) = Issued(h, Len(h) + 1) \cup ToolIds(calls)
    BY <1>1, <1>10, <1>17
  <1> QED BY <1>17, <1>23, <1>24 DEF ValidHistory

-----------------------------------------------------------------------------
(* The inductive invariant of the history.                                 *)

(* What is committed is valid, and the session knows its identifiers. *)
MemoryInv ==
    /\ ValidHistory(hist) /\ Issued(hist, Len(hist) + 1) \subseteq issued
    /\ turn.pend \in {<<>>, <<User>>}

(* The calls of a round are new, and a response says something. *)
CallsInv ==
    /\ turn.pc \in Settled \cup {"stream"} =>
         /\ Distinct(turn.calls) /\ ToolIds(turn.calls) \subseteq turn.fresh \ issued
         /\ Len(turn.calls) <= MaxToolCallsPerRound
    /\ turn.pc = "stream" => Len(turn.source) = Len(turn.calls)
    /\ turn.pc \in Settled => turn.response.text # <<>> \/ turn.calls # <<>>

(* The results of a batch answer its calls, in their order. *)
ResultsInv ==
    /\ turn.pc \in Inside => Len(turn.results) = turn.at - 1
    /\ turn.pc = "commit" => Len(turn.results) = Len(turn.calls)
    /\ turn.pc \in Batch => \A i \in DOMAIN turn.results : turn.results[i].id = turn.calls[i].id

(* A result of id in s that does not say the tool did not run. *)
TellsOf(s, id) == \E i \in DOMAIN s : s[i].role = "tool" /\ s[i].id = id /\ s[i].said \notin Unrun

(* Where a tool that was entered is accounted for: in the history, in the  *)
(* batch, or by a session that will not be used again.                     *)
Accounted(id) ==
    \/ TellsOf(hist, id)
    \/ turn.pc = "idle" /\ poisoned
    \/ turn.pc = "failing" /\ durable.failed /\ durable.touched
    \/ /\ turn.pc \in Batch /\ durable.touched
       /\ TellsOf(turn.results, id) \/ (turn.pc = "running" /\ id = Call.id)

EffectsInv ==
    /\ turn.pc \in {"started", "running"} => durable.touched
    /\ \A id \in invoked : Accounted(id)

HistInv == MemoryInv /\ IdsInv /\ CallsInv /\ ResultsInv /\ EffectsInv

(* Away from the batch and from a failure every effect is in the history. *)
LEMMA AllTold ==
    ASSUME EffectsInv, turn.pc \notin Batch \cup {"failing"}, turn.pc = "idle" => ~poisoned
    PROVE  \A id \in invoked : TellsOf(hist, id)
  BY DEF EffectsInv, Accounted

(* It stays there. *)
LEMMA StillTold ==
    ASSUME EffectsInv, turn.pc \notin Batch \cup {"failing"}, turn.pc = "idle" => ~poisoned,
           hist' = hist, invoked' = invoked, turn'.pc \notin {"started", "running"}
    PROVE  EffectsInv'
  <1>1. \A id \in invoked' : TellsOf(hist, id)
    BY AllTold
  <1>2. \A id \in invoked' : TellsOf(hist', id)
    BY <1>1
  <1>3. \A id \in invoked' : Accounted(id)'
    BY <1>2 DEF Accounted
  <1> QED BY <1>3 DEF EffectsInv

(* No identifier is drawn. *)
LEMMA NoneDrawn ==
    ASSUME IdsInv, turn.pc # "idle", turn'.pc # "idle", UNCHANGED session, invoked' \subseteq Ids,
           turn'.fresh = turn.fresh, turn'.arguments = turn.arguments
    PROVE  IdsInv'
  <1>1. issued' = issued /\ turns' = turns
    BY DEF session
  <1>2. InUse' = InUse
    BY <1>1 DEF InUse
  <1> QED BY <1>1, <1>2 DEF IdsInv

(* Memory stays as it is. *)
LEMMA SameMemory ==
    ASSUME MemoryInv, UNCHANGED session, turn'.pend = turn.pend
    PROVE  MemoryInv'
  BY DEF MemoryInv, session

(* A turn that goes on, or fails, with nothing committed and no batch. *)
LEMMA PassesOn ==
    ASSUME HistInv, turn.pc \notin Batch \cup {"failing", "idle"}, turn'.pc \in {"round", "closing", "failing"},
           UNCHANGED <<session, invoked>>, turn'.fresh = turn.fresh, turn'.arguments = turn.arguments,
           turn'.pend = turn.pend
    PROVE  HistInv'
  <1>1. hist' = hist /\ invoked' = invoked /\ invoked' \subseteq Ids /\ UNCHANGED session
    BY DEF HistInv, IdsInv, session
  <1>2. MemoryInv'
    BY <1>1, SameMemory DEF HistInv
  <1>3. IdsInv'
    BY <1>1, NoneDrawn DEF HistInv
  <1>4. EffectsInv'
    BY <1>1, StillTold DEF HistInv
  <1>5. CallsInv' /\ ResultsInv'
    BY DEF CallsInv, ResultsInv, Settled, Batch, Inside
  <1> QED BY <1>2, <1>3, <1>4, <1>5 DEF HistInv

(* An error on the way, from where no batch is pending. *)
LEMMA FailsSafely ==
    ASSUME TurnInv, HistInv, turn.pc \notin Batch \cup {"failing", "idle"}, NEW error, Fails(error), invoked' = invoked
    PROVE  HistInv'
  <1>1. DOMAIN turn = TurnFields
    BY DEF TurnInv, TurnOK
  <1>2. turn'.pc = "failing" /\ turn'.fresh = turn.fresh /\ turn'.arguments = turn.arguments
        /\ turn'.pend = turn.pend /\ UNCHANGED <<session, invoked>>
    BY <1>1 DEF Fails, TurnFields
  <1> QED BY <1>2, PassesOn

(* The consumer refuses an event, or storage a checkpoint. *)
LEMMA RefusalsSafely ==
    ASSUME TurnInv, HistInv, turn.pc \notin Batch \cup {"failing", "idle"}, SinkRefuses \/ CheckpointRefused
    PROVE  HistInv'
  <1>1. (Fails("sink") \/ Fails("checkpoint")) /\ invoked' = invoked
    BY DEF SinkRefuses, CheckpointRefused
  <1> QED BY <1>1, FailsSafely

(* A turn starts with the identifiers it may draw. *)
LEMMA RunMessageHist ==
    ASSUME TurnInv, HistInv, RunMessage
    PROVE  HistInv'
  <1>1. turn.pc = "idle" /\ ~poisoned /\ turns' = turns + 1 /\ turns \in Nat /\ hist' = hist /\ issued' = issued
        /\ invoked' = invoked /\ MaxTotalToolArguments \in Nat
    BY Limits DEF RunMessage, TurnInv, RestOK
  <1>2. /\ turn'.pc \in {"begin", "idle"} /\ turn'.fresh = {} /\ turn'.arguments = 0
        /\ turn'.pend \in {<<>>, <<User>>}
    BY DEF RunMessage, NoTurn
  <1>3. MemoryInv'
    BY <1>1, <1>2 DEF HistInv, MemoryInv
  <1>4. EffectsInv'
    BY <1>1, <1>2, StillTold DEF HistInv, Batch, Inside
  <1>5. CallsInv' /\ ResultsInv'
    BY <1>2 DEF CallsInv, ResultsInv, Settled, Batch, Inside
  <1>6. IdsInv'
    <2>1. PICK used \in Nat : used = Cardinality(issued \cap Ids)
      <3>1. IsFiniteSet(issued \cap Ids)
        BY IdsAre, FS_Subset
      <3> QED BY <3>1, FS_CardinalityType
    <2>2. PICK share \in Nat : /\ share = MaxTotalToolArguments * turns
                               /\ MaxTotalToolArguments * (turns + 1) = share + MaxTotalToolArguments
      BY <1>1, NextShare
    <2>3. used <= share
      BY <1>1, <2>1, <2>2 DEF HistInv, IdsInv
    <2>4. InUse' = issued \cap Ids /\ issued' \cap Ids = issued \cap Ids
      BY <1>1, <1>2 DEF InUse
    <2>5. Cardinality(issued' \cap Ids) <= MaxTotalToolArguments * turns'
      BY <1>1, <2>1, <2>2, <2>3, <2>4
    <2>6. turns' >= 1 /\ turns' - 1 = turns
      BY <1>1
    <2>7. Cardinality(InUse') <= MaxTotalToolArguments * (turns' - 1) + turn'.arguments
      BY <1>2, <2>1, <2>2, <2>3, <2>4, <2>6
    <2>8. turn'.fresh \subseteq Ids /\ invoked' \subseteq Ids
      BY <1>1, <1>2 DEF HistInv, IdsInv
    <2> QED BY <2>5, <2>6, <2>7, <2>8 DEF IdsInv
  <1> QED BY <1>3, <1>4, <1>5, <1>6 DEF HistInv

(* AgentStarted. *)
LEMMA BeginHist ==
    ASSUME TurnInv, HistInv, Begin
    PROVE  HistInv'
  <1>1. turn.pc \notin Batch \cup {"failing", "idle"} /\ DOMAIN turn = TurnFields
    BY DEF Begin, Batch, Inside, TurnInv, TurnOK
  <1>2. ASSUME Fails("cancelled"), invoked' = invoked
        PROVE  HistInv'
    BY <1>1, <1>2, FailsSafely
  <1>3. ASSUME turn' = [turn EXCEPT !.pc = "round"], UNCHANGED <<session, invoked>>
        PROVE  HistInv'
    <2>1. turn'.pc = "round" /\ turn'.fresh = turn.fresh /\ turn'.arguments = turn.arguments
          /\ turn'.pend = turn.pend
      BY <1>1, <1>3 DEF TurnFields
    <2> QED BY <1>1, <1>3, <2>1, PassesOn
  <1> QED BY <1>1, <1>2, <1>3, RefusalsSafely DEF Begin

(* What a place outside the batch needs besides the calls. *)
LEMMA KeepsRest ==
    ASSUME HistInv, turn.pc \notin Batch \cup {"failing", "idle"}, turn'.pc \in {"stream", "answered", "plan", "answer", "call"},
           UNCHANGED <<session, invoked>>, turn'.pend = turn.pend, turn'.pc \notin Batch \/ ResultsInv',
           CallsInv', IdsInv'
    PROVE  HistInv'
  <1>1. hist' = hist /\ invoked' = invoked /\ UNCHANGED session
    BY DEF session
  <1>2. MemoryInv'
    BY <1>1, SameMemory DEF HistInv
  <1>3. EffectsInv'
    BY <1>1, StillTold DEF HistInv
  <1>4. ResultsInv'
    BY DEF ResultsInv, Batch
  <1> QED BY <1>2, <1>3, <1>4 DEF HistInv

(* A round starts without calls. *)
LEMMA StartRoundHist ==
    ASSUME TurnInv, HistInv, StartRound
    PROVE  HistInv'
  <1>1. turn.pc \notin Batch \cup {"failing", "idle"} /\ DOMAIN turn = TurnFields
    BY DEF StartRound, Batch, Inside, TurnInv, TurnOK
  <1>2. ASSUME Fails("request"), invoked' = invoked
        PROVE  HistInv'
    BY <1>1, <1>2, FailsSafely
  <1>3. ASSUME UNCHANGED <<session, invoked>>,
               turn' = [turn EXCEPT !.pc = "stream", !.round = @ + 1, !.text = <<>>, !.source = <<>>,
                                    !.calls = <<>>, !.response = NoResponse]
        PROVE  HistInv'
    <2>1. /\ turn'.pc = "stream" /\ turn'.fresh = turn.fresh /\ turn'.arguments = turn.arguments
          /\ turn'.pend = turn.pend /\ turn'.calls = <<>> /\ turn'.source = <<>>
      BY <1>1, <1>3 DEF TurnFields
    <2>2. IdsInv'
      BY <1>1, <1>3, <2>1, NoneDrawn DEF HistInv, IdsInv
    <2>3. CallsInv'
      <3>1. Distinct(<<>>) /\ ToolIds(<<>>) = {} /\ Len(<<>>) <= MaxToolCallsPerRound
        BY Limits DEF Distinct, ToolIds
      <3> QED BY <2>1, <3>1 DEF CallsInv, Settled, Batch, Inside
    <2>4. turn'.pc \notin Batch
      BY <2>1 DEF Batch, Inside
    <2> QED BY <1>1, <1>3, <2>1, <2>2, <2>3, <2>4, KeepsRest
  <1> QED BY <1>1, <1>2, <1>3, RefusalsSafely DEF StartRound

(* The calls of a round stay. *)
LEMMA SameCalls ==
    ASSUME CallsInv, turn.pc \in Settled \cup {"stream"}, turn'.calls = turn.calls, UNCHANGED session,
           turn'.fresh = turn.fresh,
           \/ turn.pc \in Settled /\ turn'.pc \in Settled /\ turn'.response = turn.response
           \/ turn.pc = "stream" /\ turn'.pc = "stream" /\ turn'.source = turn.source
    PROVE  CallsInv'
  <1>1. issued' = issued
    BY DEF session
  <1>2. "stream" \notin Settled
    BY DEF Settled, Batch, Inside
  <1> QED BY <1>1, <1>2 DEF CallsInv

(* The response decides. *)
LEMMA AnsweredHist ==
    ASSUME TurnInv, HistInv, Answered
    PROVE  HistInv'
  <1>1. turn.pc \notin Batch \cup {"failing", "idle"} /\ DOMAIN turn = TurnFields /\ turn.pc \in Settled
    BY DEF Answered, Batch, Inside, Settled, TurnInv, TurnOK
  <1>2. ASSUME Fails("protocol") \/ Fails("rounds"), invoked' = invoked
        PROVE  HistInv'
    BY <1>1, <1>2, FailsSafely
  <1>3. ASSUME UNCHANGED <<session, invoked>>, NEW pc \in {"plan", "answer"}, turn' = [turn EXCEPT !.pc = pc]
        PROVE  HistInv'
    <2>1. /\ turn'.pc = pc /\ turn'.fresh = turn.fresh /\ turn'.arguments = turn.arguments
          /\ turn'.pend = turn.pend /\ turn'.calls = turn.calls /\ turn'.response = turn.response
      BY <1>1, <1>3 DEF TurnFields
    <2>2. IdsInv'
      BY <1>1, <1>3, <2>1, NoneDrawn DEF HistInv, IdsInv
    <2>3. pc \in Settled /\ pc \notin Batch
      BY DEF Settled, Batch, Inside
    <2>4. CallsInv'
      BY <1>1, <1>3, <2>1, <2>3, SameCalls DEF HistInv
    <2> QED BY <1>1, <1>3, <2>1, <2>2, <2>3, <2>4, KeepsRest
  <1>4. PICK pc \in {"plan", "answer"} : pc = IF turn.calls # <<>> THEN "plan" ELSE "answer"
    OBVIOUS
  <1> QED BY <1>1, <1>2, <1>3, <1>4, RefusalsSafely DEF Answered

(* The stream is left early. *)
LEMMA BreaksHist ==
    ASSUME TurnInv, HistInv, turn.pc = "stream", NEW error, Breaks(error)
    PROVE  HistInv'
  <1>1. DOMAIN turn = TurnFields /\ turn.pc \notin Batch \cup {"failing", "idle"}
    BY DEF TurnInv, TurnOK, Batch, Inside
  <1>2. /\ turn'.pc = "closing" /\ turn'.fresh = turn.fresh /\ turn'.arguments = turn.arguments
        /\ turn'.pend = turn.pend /\ UNCHANGED <<session, invoked>>
    BY <1>1 DEF Breaks, TurnFields
  <1> QED BY <1>1, <1>2, PassesOn

(* The stream is broken, cancelled, closed. *)
LEMMA StreamStopsHist ==
    ASSUME TurnInv, HistInv, StreamBreaks \/ StreamCancelled \/ CloseStream
    PROVE  HistInv'
  <1>1. CASE StreamBreaks \/ StreamCancelled
    <2>1. turn.pc = "stream" /\ (Breaks("protocol") \/ Breaks("cancelled"))
      BY <1>1 DEF StreamBreaks, StreamCancelled, Streaming
    <2> QED BY <2>1, BreaksHist
  <1>2. CASE CloseStream
    <2>1. DOMAIN turn = TurnFields /\ turn.pc \notin Batch \cup {"failing", "idle"}
      BY <1>2 DEF TurnInv, TurnOK, CloseStream, Batch, Inside
    <2>2. /\ turn'.pc = "failing" /\ turn'.fresh = turn.fresh /\ turn'.arguments = turn.arguments
          /\ turn'.pend = turn.pend /\ UNCHANGED <<session, invoked>>
      BY <1>2, <2>1 DEF CloseStream, TurnFields
    <2> QED BY <2>1, <2>2, PassesOn
  <1> QED BY <1>1, <1>2

(* A step of the stream that adds no call. *)
LEMMA StreamHist ==
    ASSUME TurnInv, HistInv, turn.pc = "stream", turn'.pc = "stream", UNCHANGED <<session, invoked>>,
           turn'.fresh = turn.fresh, turn'.arguments = turn.arguments, turn'.pend = turn.pend,
           turn'.calls = turn.calls, turn'.source = turn.source
    PROVE  HistInv'
  <1>1. turn.pc \notin Batch \cup {"failing", "idle"} /\ turn'.pc \notin Batch /\ UNCHANGED session
    BY DEF Batch, Inside
  <1>2. IdsInv'
    BY <1>1, NoneDrawn DEF HistInv, IdsInv
  <1>3. CallsInv'
    BY <1>1, SameCalls DEF HistInv
  <1> QED BY <1>1, <1>2, <1>3, KeepsRest

(* Deltas, and the terminal response. *)
LEMMA StreamQuietHist ==
    ASSUME TurnInv, HistInv, NEW x, StreamDelta(x) \/ StreamTerminal(x)
    PROVE  HistInv'
  <1>1. turn.pc = "stream" /\ DOMAIN turn = TurnFields
    BY DEF StreamDelta, StreamTerminal, Streaming, TurnInv, TurnOK
  <1>2. CASE Breaks("sink") \/ Breaks("protocol")
    BY <1>1, <1>2, BreaksHist
  <1>3. ASSUME \/ turn' = [turn EXCEPT !.text = Append(@, x), !.spoken = @ + 1]
               \/ turn' = [turn EXCEPT !.response = x],
               UNCHANGED <<session, invoked>>
        PROVE  HistInv'
    <2>1. /\ turn'.pc = "stream" /\ turn'.fresh = turn.fresh /\ turn'.arguments = turn.arguments
          /\ turn'.pend = turn.pend /\ turn'.calls = turn.calls /\ turn'.source = turn.source
      BY <1>1, <1>3 DEF TurnFields
    <2> QED BY <1>1, <1>3, <2>1, StreamHist
  <1> QED BY <1>2, <1>3 DEF StreamDelta, StreamTerminal

(* Calls under new identifiers join those of the round. *)
LEMMA CallsGrow ==
    ASSUME TurnInv, HistInv, turn.pc = "stream", NEW c, IsSeq(c),
           turn.arguments + Len(c) <= MaxTotalToolArguments,
           Len(turn.source) + Len(c) <= MaxToolCallsPerRound,
           NEW new, new = Reidentified(c),
           turn'.pc # "idle", turn'.calls = turn.calls \o new, turn'.fresh = turn.fresh \cup ToolIds(new),
           turn'.arguments = turn.arguments + Len(c), UNCHANGED <<session, invoked>>
    PROVE  /\ IdsInv'
           /\ Distinct(turn'.calls) /\ ToolIds(turn'.calls) \subseteq turn'.fresh \ issued'
           /\ Len(turn'.calls) = Len(turn.source) + Len(c) /\ Len(turn'.calls) <= MaxToolCallsPerRound
  <1>1. /\ IsSeq(new) /\ Len(new) = Len(c) /\ Distinct(new) /\ ToolIds(new) \subseteq Ids \ Taken
        /\ IsFiniteSet(ToolIds(new)) /\ Cardinality(ToolIds(new)) = Len(c)
    BY ReidentifiedAre DEF HistInv
  <1>2. /\ IsSeq(turn.calls) /\ Distinct(turn.calls) /\ ToolIds(turn.calls) \subseteq turn.fresh \ issued
        /\ Len(turn.source) = Len(turn.calls)
    BY DEF HistInv, CallsInv, TurnInv, TurnOK
  <1>3. ToolIds(turn.calls) \cap ToolIds(new) = {}
    BY <1>1, <1>2 DEF Taken
  <1>4. Distinct(turn'.calls) /\ ToolIds(turn'.calls) = ToolIds(turn.calls) \cup ToolIds(new)
    BY <1>1, <1>2, <1>3, CallsJoin
  <1>5. issued' = issued /\ turns' = turns /\ invoked' = invoked
    BY DEF session
  <1>6. ToolIds(turn'.calls) \subseteq turn'.fresh \ issued'
    BY <1>1, <1>2, <1>4, <1>5 DEF Taken
  <1>7. Len(turn'.calls) = Len(turn.source) + Len(c)
    <2>1. Len(turn.calls \o new) = Len(turn.calls) + Len(new)
      BY <1>1, <1>2, Joined
    <2>2. turn'.calls = turn.calls \o new
      OBVIOUS
    <2> QED BY <1>1, <1>2, <2>1, <2>2
  <1>8. IdsInv'
    <2>1. InUse' = InUse \cup ToolIds(new)
      BY <1>5 DEF InUse
    <2>2. InUse \subseteq Ids /\ IsFiniteSet(InUse)
      <3>1. InUse \subseteq Ids
        BY DEF HistInv, IdsInv, InUse
      <3> QED BY <3>1, IdsAre, FS_Subset
    <2>3. InUse \cap ToolIds(new) = {}
      BY <1>1 DEF InUse, Taken
    <2>4. Cardinality(InUse') = Cardinality(InUse) + Cardinality(ToolIds(new)) - Cardinality(InUse \cap ToolIds(new))
      BY <1>1, <2>1, <2>2, FS_Union
    <2>5. PICK u \in Nat : u = Cardinality(InUse)
      BY <2>2, FS_CardinalityType
    <2>6. PICK k \in Nat : k = Len(c)
      BY ListIs
    <2>7. Cardinality(InUse') = u + k
      <3>1. Cardinality(InUse \cap ToolIds(new)) = 0
        BY <2>3, FS_EmptySet
      <3> QED BY <1>1, <2>4, <2>5, <2>6, <3>1
    <2>8. PICK share \in Nat : share = MaxTotalToolArguments * (turns - 1)
      <3>1. turns - 1 \in Nat /\ MaxTotalToolArguments \in Nat
        BY Limits DEF HistInv, IdsInv, TurnInv, RestOK
      <3> QED BY <3>1, NextShare
    <2>9. turn.arguments \in Nat /\ u <= share + turn.arguments
      BY <2>5, <2>8, Limits DEF HistInv, IdsInv, TurnInv, TurnOK
    <2>10. Cardinality(InUse') <= share + turn'.arguments
      BY <2>6, <2>7, <2>9
    <2>11. turn'.fresh \subseteq Ids /\ invoked' \subseteq Ids /\ turns' >= 1
      BY <1>1, <1>5 DEF HistInv, IdsInv
    <2>12. Cardinality(InUse') <= MaxTotalToolArguments * (turns' - 1) + turn'.arguments
      BY <1>5, <2>8, <2>10
    <2> QED BY <2>11, <2>12 DEF IdsInv
  <1> QED BY <1>4, <1>6, <1>7, <1>8

(* A call that is streamed. *)
LEMMA StreamCallHist ==
    ASSUME TurnInv, HistInv, NEW id, NEW tool, StreamCall(id, tool)
    PROVE  HistInv'
  <1>1. turn.pc = "stream" /\ DOMAIN turn = TurnFields /\ turn.pc \notin Batch \cup {"failing", "idle"}
    BY DEF StreamCall, Streaming, TurnInv, TurnOK, Batch, Inside
  <1>2. PICK c : c = <<[id |-> id, tool |-> tool]>>
    OBVIOUS
  <1>3. PICK call : call = Reidentified(c)
    OBVIOUS
  <1>4. IsSeq(c) /\ Len(c) = 1 /\ IsSeq(turn.source)
    BY <1>2, ShortLists DEF TurnInv, TurnOK
  <1>5. ASSUME Admissible(c), UNCHANGED <<session, invoked>>,
               turn' = [turn EXCEPT !.source = @ \o c, !.calls = @ \o call,
                                    !.fresh = @ \cup ToolIds(call), !.arguments = @ + 1]
        PROVE  HistInv'
    <2>1. /\ turn'.pc = "stream" /\ turn'.pend = turn.pend /\ turn'.calls = turn.calls \o call
          /\ turn'.source = turn.source \o c /\ turn'.fresh = turn.fresh \cup ToolIds(call)
          /\ turn'.arguments = turn.arguments + Len(c)
      BY <1>1, <1>4, <1>5 DEF TurnFields
    <2>2. Len(turn'.source) = Len(turn.source) + Len(c)
      BY <1>4, <2>1, Joined
    <2>3. /\ turn.arguments + Len(c) <= MaxTotalToolArguments
          /\ Len(turn.source) + Len(c) <= MaxToolCallsPerRound
      BY <1>5, <2>1, <2>2 DEF Admissible
    <2>4. /\ IdsInv'
          /\ Distinct(turn'.calls) /\ ToolIds(turn'.calls) \subseteq turn'.fresh \ issued'
          /\ Len(turn'.calls) = Len(turn.source) + Len(c) /\ Len(turn'.calls) <= MaxToolCallsPerRound
      BY <1>1, <1>3, <1>4, <1>5, <2>1, <2>3, CallsGrow
    <2>5. CallsInv' /\ turn'.pc \notin Batch
      BY <2>1, <2>2, <2>4 DEF CallsInv, Settled, Batch, Inside
    <2> QED BY <1>1, <1>5, <2>1, <2>4, <2>5, KeepsRest
  <1>6. ASSUME Breaks("sink") \/ Breaks("protocol")
        PROVE  HistInv'
    BY <1>1, <1>6, BreaksHist
  <1> QED BY <1>2, <1>3, <1>5, <1>6 DEF StreamCall

(* The calls that only the terminal response has. *)
LEMMA StreamEndsHist ==
    ASSUME TurnInv, HistInv, StreamEnds
    PROVE  HistInv'
  <1>1. turn.pc = "stream" /\ DOMAIN turn = TurnFields /\ turn.pc \notin Batch \cup {"failing", "idle"}
        /\ ResponseOK(turn.response) /\ IsSeq(turn.source) /\ IsSeq(turn.calls) /\ Len(turn.source) = Len(turn.calls)
    BY DEF StreamEnds, Streaming, TurnInv, TurnOK, Batch, Inside, HistInv, CallsInv
  <1>2. PICK late : late = IF turn.calls = <<>> THEN Reidentified(turn.response.calls) ELSE <<>>
    OBVIOUS
  <1>3. PICK c : c = IF turn.calls = <<>> THEN turn.response.calls ELSE <<>>
    OBVIOUS
  <1>4. IsSeq(c) /\ late = Reidentified(c)
    <2>1. Reidentified(<<>>) = <<>>
      BY DEF Reidentified
    <2> QED BY <1>1, <1>2, <1>3, <2>1, ShortLists DEF ResponseOK
  <1>5. Len(late) = Len(c)
    BY <1>4, ReidentifiedIs
  <1>6. ASSUME Reconciles, UNCHANGED <<session, invoked>>,
               turn' = [turn EXCEPT !.pc = "answered", !.text = <<>>, !.source = <<>>,
                                    !.spoken = @ + Len(Missing), !.response.calls = <<>>,
                                    !.calls = @ \o late, !.fresh = @ \cup ToolIds(late),
                                    !.arguments = @ + Len(late)]
        PROVE  HistInv'
    <2>1. PICK r : r = [turn.response EXCEPT !.calls = <<>>]
      OBVIOUS
    <2>2. r.text = turn.response.text
      BY <1>1, <2>1 DEF ResponseOK
    <2>3. turn' = [turn EXCEPT !.pc = "answered", !.text = <<>>, !.source = <<>>,
                               !.spoken = @ + Len(Missing), !.response = r,
                               !.calls = @ \o late, !.fresh = @ \cup ToolIds(late),
                               !.arguments = @ + Len(late)]
      BY <1>6, <2>1
    <2>4. /\ turn'.pc = "answered" /\ turn'.pend = turn.pend /\ turn'.calls = turn.calls \o late
          /\ turn'.response = r /\ turn'.fresh = turn.fresh \cup ToolIds(late)
          /\ turn'.arguments = turn.arguments + Len(c)
      BY <1>1, <1>5, <2>3 DEF TurnFields
    <2>5. /\ turn.arguments + Len(c) <= MaxTotalToolArguments
          /\ Len(turn.source) + Len(c) <= MaxToolCallsPerRound
      <3>1. CASE turn.calls = <<>>
        <4>1. Admissible(c)
          BY <1>3, <1>6, <3>1 DEF Reconciles
        <4>2. Len(turn.source \o c) = Len(turn.source) + Len(c)
          BY <1>1, <1>4, Joined
        <4> QED BY <4>1, <4>2 DEF Admissible
      <3>2. CASE turn.calls # <<>>
        <4>1. Len(c) = 0
          BY <1>3, <3>2, ShortLists
        <4>2. turn.arguments \in Nat /\ turn.arguments <= MaxTotalToolArguments /\ MaxTotalToolArguments \in Nat
          BY Limits DEF TurnInv, TurnOK
        <4>3. Len(turn.source) \in Nat /\ Len(turn.source) <= MaxToolCallsPerRound
          BY <1>1, ListIs DEF HistInv, CallsInv
        <4> QED BY <4>1, <4>2, <4>3
      <3> QED BY <3>1, <3>2
    <2>6. /\ IdsInv'
          /\ Distinct(turn'.calls) /\ ToolIds(turn'.calls) \subseteq turn'.fresh \ issued'
          /\ Len(turn'.calls) = Len(turn.source) + Len(c) /\ Len(turn'.calls) <= MaxToolCallsPerRound
      BY <1>1, <1>4, <1>6, <2>4, <2>5, CallsGrow
    <2>7. turn'.response.text # <<>> \/ turn'.calls # <<>>
      <3>1. CASE turn.response.text # <<>>
        BY <2>2, <2>4, <3>1
      <3>2. CASE turn.response.calls # <<>>
        <4>1. Len(turn.source) \in Nat /\ Len(c) \in Nat /\ (Len(turn.source) = 0 => Len(c) # 0)
          BY <1>1, <1>3, <1>4, <3>2, ListIs
        <4>2. Len(turn'.calls) # 0
          BY <2>6, <4>1
        <4> QED BY <4>2, ShortLists
      <3> QED BY <1>6, <3>1, <3>2 DEF Reconciles
    <2>8. CallsInv' /\ turn'.pc \notin Batch
      BY <2>4, <2>6, <2>7 DEF CallsInv, Settled, Batch, Inside
    <2> QED BY <1>1, <1>6, <2>4, <2>6, <2>8, KeepsRest
  <1>7. ASSUME Breaks("sink") \/ Breaks("protocol")
        PROVE  HistInv'
    BY <1>1, <1>7, BreaksHist
  <1> QED BY <1>2, <1>6, <1>7 DEF StreamEnds

(* The batch starts with its first call and no result. *)
LEMMA StartToolBatchHist ==
    ASSUME TurnInv, HistInv, StartToolBatch
    PROVE  HistInv'
  <1>1. turn.pc = "plan" /\ DOMAIN turn = TurnFields /\ turn.pc \notin Batch \cup {"failing", "idle"}
    BY DEF StartToolBatch, TurnInv, TurnOK, Batch, Inside
  <1>2. ASSUME turn' = [turn EXCEPT !.pc = "call", !.at = 1, !.results = <<>>, !.bytes = 0],
               UNCHANGED <<session, invoked>>
        PROVE  HistInv'
    <2>1. /\ turn'.pc = "call" /\ turn'.results = <<>> /\ turn'.at = 1 /\ turn'.calls = turn.calls
          /\ turn'.response = turn.response /\ turn'.fresh = turn.fresh /\ turn'.arguments = turn.arguments
          /\ turn'.pend = turn.pend
      BY <1>1, <1>2 DEF TurnFields
    <2>2. ResultsInv'
      BY <2>1, ShortLists DEF ResultsInv, Inside
    <2>3. CallsInv'
      <3>1. turn.pc \in Settled /\ turn'.pc \in Settled
        BY <1>1, <2>1 DEF Settled, Batch, Inside
      <3> QED BY <1>2, <2>1, <3>1, SameCalls DEF HistInv
    <2>4. IdsInv'
      BY <1>1, <1>2, <2>1, NoneDrawn DEF HistInv, IdsInv
    <2> QED BY <1>1, <1>2, <2>1, <2>2, <2>3, <2>4, KeepsRest
  <1> QED BY <1>1, <1>2, RefusalsSafely DEF StartToolBatch

(* What a list tells of, a longer one does. *)
LEMMA JoinTells ==
    ASSUME NEW j, NEW s, NEW t, NEW m \in Nat, NEW n \in Nat, IsJoin(j, s, t, m, n), NEW id,
           TellsOf(s, id) \/ TellsOf(t, id)
    PROVE  TellsOf(j, id)
  <1>1. CASE TellsOf(s, id)
    <2>1. PICK i \in 1..m : s[i].role = "tool" /\ s[i].id = id /\ s[i].said \notin Unrun
      BY <1>1 DEF TellsOf, IsJoin
    <2>2. i \in DOMAIN j /\ j[i] = s[i]
      <3>1. i \in 1..(m + n)
        OBVIOUS
      <3> QED BY <2>1, <3>1 DEF IsJoin
    <2> QED BY <2>1, <2>2 DEF TellsOf
  <1>2. CASE TellsOf(t, id)
    <2>1. PICK i \in 1..n : t[i].role = "tool" /\ t[i].id = id /\ t[i].said \notin Unrun
      BY <1>2 DEF TellsOf, IsJoin
    <2>2. m + i \in DOMAIN j /\ j[m + i] = t[i]
      <3>1. m + i \in 1..(m + n)
        OBVIOUS
      <3> QED BY <2>1, <3>1 DEF IsJoin
    <2> QED BY <2>1, <2>2 DEF TellsOf
  <1> QED BY <1>1, <1>2

(* One more result, and then the ones of the calls that were not run. *)
AnswerInOrder(one, all, said) ==
    /\ Len(one) = turn.at /\ Len(all) = Len(turn.calls)
    /\ \A i \in DOMAIN one : one[i].id = turn.calls[i].id
    /\ \A i \in DOMAIN all : all[i].id = turn.calls[i].id
    /\ \A id : TellsOf(turn.results, id) => TellsOf(one, id) /\ TellsOf(all, id)
    /\ said \notin Unrun => TellsOf(one, Call.id) /\ TellsOf(all, Call.id)

(* The results of a batch with one more, and the calls that were not run. *)
LEMMA MoreResults ==
    ASSUME TurnInv, HistInv, turn.pc \in Inside, NEW said, NEW one, one = Append(turn.results, Result(Call.id, said)),
           NEW all, all = one \o NotRun
    PROVE  AnswerInOrder(one, all, said)
  <1>1. /\ IsSeq(turn.results) /\ IsSeq(turn.calls) /\ turn.at \in Nat /\ turn.at >= 1 /\ turn.at <= Len(turn.calls)
        /\ Len(turn.results) = turn.at - 1 /\ \A i \in DOMAIN turn.results : turn.results[i].id = turn.calls[i].id
    BY DEF TurnInv, TurnOK, Account, HistInv, ResultsInv, Batch
  <1>2. PICK a \in Nat : a = turn.at /\ a >= 1
    BY <1>1
  <1>3. PICK n \in Nat : n = Len(turn.calls) /\ a <= n
    BY <1>1, <1>2, ListIs
  <1>4. PICK b \in Nat : b = a - 1 /\ b = Len(turn.results) /\ b + 1 = a
    <2>1. a - 1 \in Nat /\ (a - 1) + 1 = a
      BY <1>2
    <2> QED BY <1>1, <1>2, <2>1
  <1>5. PICK r : r = Result(Call.id, said)
    OBVIOUS
  <1>6. r.role = "tool" /\ r.id = turn.calls[a].id /\ r.said = said
    BY <1>2, <1>5 DEF Result, Call
  <1>7. PICK last : last = <<r>>
    OBVIOUS
  <1>8. IsSeq(last) /\ Len(last) = 1 /\ last[1] = r
    BY <1>7, ShortLists
  <1>9. one = turn.results \o last
    <2>1. PICK A : turn.results \in Seq(A)
      BY <1>1 DEF IsSeq
    <2>2. turn.results \in Seq(A \cup {r}) /\ r \in A \cup {r}
      BY <2>1
    <2> QED BY <1>5, <1>7, <2>2
  <1>10. PICK k \in Nat : k = 1
    OBVIOUS
  <1>11. IsJoin(one, turn.results, last, b, k)
    BY <1>1, <1>4, <1>8, <1>9, <1>10, JoinedAre
  <1>12. IsSeq(one) /\ Len(one) = a /\ DOMAIN one = 1..a
    BY <1>4, <1>10, <1>11 DEF IsJoin
  <1>13. \A i \in 1..a : one[i].id = turn.calls[i].id
    <2> SUFFICES ASSUME NEW i \in 1..a PROVE one[i].id = turn.calls[i].id
      OBVIOUS
    <2>1. CASE i <= b
      <3>1. i \in 1..b
        BY <2>1
      <3>2. one[i] = turn.results[i] /\ i \in DOMAIN turn.results
        BY <1>11, <3>1 DEF IsJoin
      <3> QED BY <1>1, <3>2
    <2>2. CASE i = a
      <3>1. one[b + 1] = last[1]
        BY <1>10, <1>11 DEF IsJoin
      <3> QED BY <1>4, <1>6, <1>8, <2>2, <3>1
    <2>3. i <= b \/ i = a
      BY <1>4
    <2> QED BY <2>1, <2>2, <2>3
  <1>14. PICK more : more = NotRun
    OBVIOUS
  <1>15. PICK l \in Nat : l = n - a /\ l = Len(Rest) /\ a + l = n
    <2>1. n - a \in Nat /\ a + (n - a) = n
      BY <1>3
    <2>2. Len(Rest) = n - a
      BY <1>2, <1>3, RestIs DEF CallsLeft
    <2> QED BY <2>1, <2>2
  <1>16. IsSeq(more) /\ Len(more) = l /\ DOMAIN more = DOMAIN Rest /\ \A i \in DOMAIN more : more[i].id = Rest[i].id
    BY <1>14, <1>15, NotRunIs
  <1>17. IsJoin(all, one, more, a, l)
    BY <1>12, <1>14, <1>16, JoinedAre
  <1>18. \A i \in 1..l : Rest[i] = turn.calls[a + i]
    <2>1. PICK A : turn.calls \in Seq(A)
      BY <1>1 DEF IsSeq
    <2>2. Rest = SubSeq(turn.calls, a + 1, n)
      BY <1>2, <1>3 DEF Rest
    <2>3. PICK s : s = turn.calls
      OBVIOUS
    <2>4. s \in Seq(A) /\ Len(s) = n
      BY <1>3, <2>1, <2>3
    <2>5. PICK t : t = SubSeq(s, a + 1, n)
      OBVIOUS
    <2>6. t \in Seq(A) /\ Len(t) = n - a /\ \A i \in 1..Len(t) : t[i] = s[a + i]
      BY <1>3, <2>4, <2>5
    <2> QED BY <1>15, <2>2, <2>3, <2>5, <2>6
  <1>19. Len(all) = n /\ DOMAIN all = 1..n
    BY <1>15, <1>17 DEF IsJoin
  <1>20. \A i \in 1..n : all[i].id = turn.calls[i].id
    <2> SUFFICES ASSUME NEW i \in 1..n PROVE all[i].id = turn.calls[i].id
      OBVIOUS
    <2>1. CASE i <= a
      <3>1. i \in 1..a
        BY <2>1
      <3>2. all[i] = one[i]
        BY <1>17, <3>1 DEF IsJoin
      <3> QED BY <1>13, <3>1, <3>2
    <2>2. CASE i > a
      <3>1. i - a \in 1..l /\ a + (i - a) = i /\ i \in 1..(a + l)
        BY <1>15, <2>2
      <3>2. all[i] = more[i - a] /\ DOMAIN more = 1..l
        BY <1>17, <2>2, <3>1 DEF IsJoin
      <3> QED BY <1>16, <1>18, <3>1, <3>2
    <2>3. i <= a \/ i > a
      OBVIOUS
    <2> QED BY <2>1, <2>2, <2>3
  <1>21. \A id : TellsOf(turn.results, id) => TellsOf(one, id) /\ TellsOf(all, id)
    BY <1>11, <1>17, JoinTells
  <1>22. said \notin Unrun => TellsOf(one, Call.id) /\ TellsOf(all, Call.id)
    <2> SUFFICES ASSUME said \notin Unrun PROVE TellsOf(one, Call.id) /\ TellsOf(all, Call.id)
      OBVIOUS
    <2>1. TellsOf(last, Call.id)
      <3>1. 1 \in DOMAIN last
        BY <1>7
      <3> QED BY <1>2, <1>6, <1>8, <3>1 DEF TellsOf, Call
    <2> QED BY <1>11, <1>17, <2>1, JoinTells
  <1> QED BY <1>2, <1>3, <1>12, <1>13, <1>19, <1>20, <1>21, <1>22 DEF AnswerInOrder

(* A step of a batch loses no result and no effect. *)
LEMMA BatchHist ==
    ASSUME TurnInv, HistInv, turn.pc \in Inside, BatchStep
    PROVE  HistInv'
  <1>1. /\ UNCHANGED session /\ hist' = hist /\ turn'.pend = turn.pend /\ turn'.calls = turn.calls
        /\ turn'.response = turn.response /\ turn'.fresh = turn.fresh /\ turn'.arguments = turn.arguments
        /\ turn.pc # "idle" /\ turn.pc \in Batch /\ turn.pc \in Settled /\ turn.pc # "failing" /\ turn.pc # "commit"
    BY DEF BatchStep, SameTurn, session, Settled, Batch, Inside
  <1>2. PICK call : call = Call.id
    OBVIOUS
  <1>3. call \in Ids
    <2>1. turn.at \in DOMAIN turn.calls
      <3>1. PICK A : turn.calls \in Seq(A)
        BY DEF TurnInv, TurnOK, IsSeq
      <3> QED BY <3>1 DEF TurnInv, TurnOK, Account
    <2> QED BY <1>1, <1>2, <2>1 DEF Call, ToolIds, HistInv, CallsInv, IdsInv
  <1>4. turn'.pc \in Batch \cup {"failing"} /\ turn'.pc # "idle" /\ (invoked' = invoked \/ invoked' = invoked \cup {call})
    BY <1>2 DEF BatchStep, Moves, Abandons, Answers, Completes, Batch, Inside
  <1>5. MemoryInv'
    BY <1>1, SameMemory DEF HistInv
  <1>6. IdsInv'
    <2>1. invoked' \subseteq Ids
      BY <1>3, <1>4 DEF HistInv, IdsInv
    <2> QED BY <1>1, <1>4, <2>1, NoneDrawn DEF HistInv
  <1>7. CallsInv'
    <2>1. CASE turn'.pc = "failing"
      BY <2>1 DEF CallsInv, Settled, Batch, Inside
    <2>2. CASE turn'.pc \in Batch
      BY <1>1, <2>2, SameCalls DEF HistInv, Settled
    <2> QED BY <1>4, <2>1, <2>2
  <1>8. \A id \in invoked : \/ TellsOf(hist, id)
                            \/ durable.touched /\ (TellsOf(turn.results, id) \/ (turn.pc = "running" /\ id = call))
    BY <1>1, <1>2 DEF HistInv, EffectsInv, Accounted
  <1>9. SUFFICES ResultsInv' /\ EffectsInv'
    BY <1>5, <1>6, <1>7 DEF HistInv
  <1>10. CASE Moves
    <2>1. /\ turn'.pc \in Inside /\ turn'.pc # "commit" /\ turn'.results = turn.results /\ turn'.at = turn.at
          /\ turn.pc # "running" /\ (durable.touched => durable'.touched)
          /\ (turn'.pc = "started" => durable'.touched)
          /\ (turn'.pc = "running" => turn.pc = "started" /\ invoked' = invoked \cup {call})
          /\ (turn'.pc # "running" => invoked' = invoked)
      BY <1>2, <1>10 DEF Moves, Inside
    <2>2. ResultsInv'
      BY <1>1, <2>1 DEF HistInv, ResultsInv
    <2>3. turn'.pc \in {"started", "running"} => durable'.touched
      BY <2>1 DEF HistInv, EffectsInv
    <2>4. Call' = Call
      BY <1>1, <2>1 DEF Call
    <2>5. ASSUME NEW id \in invoked' PROVE Accounted(id)'
      <3>1. CASE id \in invoked
        <4>1. TellsOf(hist', id) \/ (durable'.touched /\ TellsOf(turn'.results, id))
          BY <1>1, <1>8, <2>1, <3>1
        <4> QED BY <2>1, <4>1 DEF Accounted, Batch
      <3>2. CASE id \notin invoked
        <4>1. turn'.pc = "running" /\ id = call /\ durable'.touched
          BY <2>1, <2>3, <3>2
        <4>2. id = Call'.id /\ turn'.pc \in Batch
          BY <1>2, <2>1, <2>4, <4>1 DEF Batch
        <4> QED BY <4>1, <4>2 DEF Accounted
      <3> QED BY <3>1, <3>2
    <2> QED BY <2>2, <2>3, <2>5 DEF EffectsInv
  <1>11. CASE Abandons
    <2>1. turn'.pc = "failing" /\ durable'.touched = durable.touched /\ invoked' = invoked
          /\ (durable'.failed \/ (turn.results = <<>> /\ turn.pc # "running"))
      BY <1>11 DEF Abandons
    <2>2. ResultsInv'
      BY <2>1 DEF ResultsInv, Batch, Inside
    <2>3. \A id : ~TellsOf(<<>>, id)
      BY DEF TellsOf
    <2>4. ASSUME NEW id \in invoked' PROVE Accounted(id)'
      <3>1. TellsOf(hist', id) \/ (durable'.touched /\ durable'.failed)
        BY <1>1, <1>8, <2>1, <2>3
      <3> QED BY <2>1, <3>1 DEF Accounted
    <2> QED BY <2>1, <2>2, <2>4 DEF EffectsInv
  <1>12. ASSUME NEW said, turn.pc = "running" => said \notin Unrun, Answers(said) \/ Completes(said)
         PROVE  ResultsInv' /\ EffectsInv'
    <2>1. PICK one : one = Append(turn.results, Result(Call.id, said))
      OBVIOUS
    <2>2. PICK all : all = one \o NotRun
      OBVIOUS
    <2>3. /\ Len(one) = turn.at /\ Len(all) = Len(turn.calls)
          /\ \A i \in DOMAIN one : one[i].id = turn.calls[i].id
          /\ \A i \in DOMAIN all : all[i].id = turn.calls[i].id
          /\ \A id : TellsOf(turn.results, id) => TellsOf(one, id) /\ TellsOf(all, id)
          /\ said \notin Unrun => TellsOf(one, Call.id) /\ TellsOf(all, Call.id)
      <3>1. AnswerInOrder(one, all, said)
        BY <2>1, <2>2, MoreResults
      <3> QED BY <3>1 DEF AnswerInOrder
    <2>4. /\ durable'.touched /\ invoked' = invoked
          /\ \/ turn'.pc = "call" /\ turn'.at = turn.at + 1 /\ turn'.results = one
             \/ turn'.pc = "commit" /\ turn'.results = all
      BY <1>12, <2>1, <2>2 DEF Answers, Completes
    <2>5. turn.at \in Nat
      BY DEF TurnInv, TurnOK
    <2>6. ResultsInv'
      BY <1>1, <2>3, <2>4, <2>5 DEF ResultsInv, Batch, Inside
    <2>7. ASSUME NEW id \in invoked' PROVE Accounted(id)'
      <3>1. TellsOf(hist', id) \/ TellsOf(turn'.results, id)
        BY <1>1, <1>2, <1>8, <1>12, <2>3, <2>4
      <3>2. turn'.pc \in Batch
        BY <2>4 DEF Batch, Inside
      <3> QED BY <2>4, <3>1, <3>2 DEF Accounted
    <2> QED BY <2>4, <2>6, <2>7 DEF EffectsInv
  <1> QED BY <1>10, <1>11, <1>12 DEF BatchStep

(* The identifiers of a turn that ends are within its share. *)
LEMMA OverIds ==
    ASSUME TurnInv, IdsInv, turn.pc # "idle", turn'.pc = "idle", turn'.fresh = {}, invoked' = invoked, turns' = turns,
           issued' \in {issued, issued \cup turn.fresh}
    PROVE  IdsInv'
  <1>1. InUse \subseteq Ids /\ issued' \cap Ids \subseteq InUse
    BY DEF IdsInv, InUse
  <1>2. IsFiniteSet(InUse) /\ IsFiniteSet(issued' \cap Ids) /\ Cardinality(issued' \cap Ids) <= Cardinality(InUse)
    <2>1. IsFiniteSet(InUse)
      BY <1>1, IdsAre, FS_Subset
    <2> QED BY <1>1, <2>1, FS_Subset
  <1>3. PICK u \in Nat : u = Cardinality(InUse)
    BY <1>2, FS_CardinalityType
  <1>4. PICK w \in Nat : w = Cardinality(issued' \cap Ids)
    BY <1>2, FS_CardinalityType
  <1>5. PICK t \in Nat : turns = t + 1
    <2>1. turns - 1 \in Nat /\ turns = (turns - 1) + 1
      BY DEF IdsInv, TurnInv, RestOK
    <2> QED BY <2>1
  <1>6. turn.arguments \in Nat /\ turn.arguments <= MaxTotalToolArguments /\ MaxTotalToolArguments \in Nat
    BY Limits DEF TurnInv, TurnOK
  <1>7. PICK share \in Nat : /\ share = MaxTotalToolArguments * t
                             /\ MaxTotalToolArguments * (t + 1) = share + MaxTotalToolArguments
    BY <1>6, NextShare
  <1>8. u <= share + turn.arguments
    <2>1. turns - 1 = t
      BY <1>5
    <2> QED BY <1>3, <1>7, <2>1 DEF IdsInv
  <1>9. w <= u
    BY <1>2, <1>3, <1>4
  <1>10. w <= MaxTotalToolArguments * (t + 1)
    BY <1>6, <1>7, <1>8, <1>9
  <1>11. Cardinality(issued' \cap Ids) <= MaxTotalToolArguments * turns'
    BY <1>4, <1>5, <1>10
  <1> QED BY <1>11 DEF IdsInv

(* A turn that ends, with every effect in the history or the session       *)
(* poisoned.                                                               *)
LEMMA OverHist ==
    ASSUME TurnInv, HistInv, turn.pc # "idle", NEW outcome, NEW memory, Over(outcome, memory),
           invoked' = invoked, turns' = turns, issued' \in {issued, issued \cup turn.fresh},
           ValidHistory(memory), Issued(memory, Len(memory) + 1) \subseteq issued',
           \A id \in invoked : TellsOf(memory, id) \/ poisoned'
    PROVE  HistInv'
  <1>1. /\ turn'.pc = "idle" /\ turn'.fresh = {} /\ turn'.pend = <<>> /\ hist' = memory
    BY DEF Over, NoTurn
  <1>2. IdsInv'
    BY <1>1, OverIds DEF HistInv
  <1>3. MemoryInv'
    BY <1>1 DEF MemoryInv
  <1>4. CallsInv' /\ ResultsInv'
    BY <1>1 DEF CallsInv, ResultsInv, Settled, Batch, Inside
  <1>5. EffectsInv'
    BY <1>1 DEF EffectsInv, Accounted
  <1> QED BY <1>2, <1>3, <1>4, <1>5 DEF HistInv

(* What joins the history keeps what it tells of. *)
LEMMA AddsTells ==
    ASSUME NEW h, IsSeq(h), NEW g, NEW p, NEW m, NEW r, IsSeq(r), AddsTo(h, g, p, m, r), NEW id,
           TellsOf(h, id) \/ TellsOf(r, id)
    PROVE  TellsOf(g, id)
  <1>1. PICK l \in Nat : l = Len(h) /\ DOMAIN h = 1..l
    <2>1. PICK A : h \in Seq(A)
      BY DEF IsSeq
    <2> QED BY <2>1
  <1>2. PICK n \in Nat : n = Len(r) /\ DOMAIN r = 1..n
    <2>1. PICK A : r \in Seq(A)
      BY DEF IsSeq
    <2> QED BY <2>1
  <1>3. PICK k \in Nat : k = l + p + 1
    BY DEF AddsTo
  <1>4. IsSeq(g) /\ Len(g) = k + n /\ l <= k
    BY <1>1, <1>2, <1>3 DEF AddsTo
  <1>5. DOMAIN g = 1..(k + n)
    <2>1. PICK A : g \in Seq(A)
      BY <1>4 DEF IsSeq
    <2> QED BY <1>4, <2>1
  <1>6. (\A i \in 1..l : g[i] = h[i]) /\ \A i \in 1..n : g[k + i] = r[i]
    BY <1>1, <1>2, <1>3 DEF AddsTo
  <1>7. CASE TellsOf(h, id)
    <2>1. PICK i \in 1..l : h[i].role = "tool" /\ h[i].id = id /\ h[i].said \notin Unrun
      BY <1>1, <1>7 DEF TellsOf
    <2>2. i \in 1..(k + n) /\ g[i] = h[i]
      BY <1>4, <1>6
    <2> QED BY <1>5, <2>1, <2>2 DEF TellsOf
  <1>8. CASE TellsOf(r, id)
    <2>1. PICK i \in 1..n : r[i].role = "tool" /\ r[i].id = id /\ r[i].said \notin Unrun
      BY <1>2, <1>8 DEF TellsOf
    <2>2. k + i \in 1..(k + n) /\ g[k + i] = r[i]
      BY <1>6
    <2> QED BY <1>5, <2>1, <2>2 DEF TellsOf
  <1> QED BY <1>7, <1>8

(* A history that tells of all that h and r do. *)
Retells(g, h, r) == \A id : TellsOf(h, id) \/ TellsOf(r, id) => TellsOf(g, id)

(* The history with the response of a turn and its results. *)
LEMMA Remembers ==
    ASSUME TurnInv, ToldInv, HistInv, turn.pc \in Settled, NEW r, IsSeq(r), AnswersTo(r, turn.calls),
           NEW g, g = hist \o Append(turn.pend, Assistant(turn.response.text, turn.calls)) \o r
    PROVE  /\ ValidHistory(g) /\ Issued(g, Len(g) + 1) \subseteq issued \cup turn.fresh
           /\ Retells(g, hist, r)
  <1>1. PICK q : q = turn.pend
    OBVIOUS
  <1>2. PICK text : text = turn.response.text
    OBVIOUS
  <1>3. PICK calls : calls = turn.calls
    OBVIOUS
  <1>4. PICK m : m = Assistant(text, calls)
    OBVIOUS
  <1>5. g = hist \o Append(q, m) \o r
    BY <1>1, <1>2, <1>3, <1>4
  <1>6. IsSeq(hist) /\ q \in {<<>>, <<User>>} /\ IsSeq(calls)
    BY <1>1, <1>3 DEF ToldInv, HistInv, MemoryInv, TurnInv, TurnOK
  <1>7. AddsTo(hist, g, Len(q), m, r)
    BY <1>5, <1>6, Adds
  <1>8. /\ text # <<>> \/ calls # <<>>
        /\ Len(calls) <= MaxToolCallsPerRound /\ Distinct(calls) /\ ToolIds(calls) \subseteq turn.fresh \ issued
    BY <1>2, <1>3 DEF HistInv, CallsInv
  <1>9. ValidHistory(hist) /\ Issued(hist, Len(hist) + 1) \subseteq issued
    BY DEF HistInv, MemoryInv
  <1>10. ToolIds(calls) \cap Issued(hist, Len(hist) + 1) = {}
    BY <1>8, <1>9
  <1>11. AnswersTo(r, calls)
    BY <1>3
  <1>12. PICK k : k = Len(q)
    OBVIOUS
  <1>13. AddsTo(hist, g, k, Assistant(text, calls), r)
    BY <1>4, <1>7, <1>12
  <1>14. ValidHistory(g) /\ Issued(g, Len(g) + 1) = Issued(hist, Len(hist) + 1) \cup ToolIds(calls)
    BY <1>6, <1>8, <1>9, <1>10, <1>11, <1>13, HistoryGrows
  <1>15. Issued(g, Len(g) + 1) \subseteq issued \cup turn.fresh
    BY <1>8, <1>9, <1>14
  <1>16. Retells(g, hist, r)
    BY <1>6, <1>7, AddsTells DEF Retells
  <1> QED BY <1>14, <1>15, <1>16

(* The answer. *)
LEMMA PersistAnswerHist ==
    ASSUME TurnInv, ToldInv, HistInv, PersistAnswer
    PROVE  HistInv'
  <1>1. /\ turn.pc = "answer" /\ turn.pc # "idle" /\ turn.pc \in Settled /\ turn.calls = <<>>
        /\ invoked' = invoked /\ turns' = turns
    BY DEF PersistAnswer, Settled, ToldInv
  <1>2. \A id \in invoked : TellsOf(hist, id)
    BY <1>1, AllTold DEF HistInv, Batch, Inside
  <1>3. PICK g : g = hist \o Append(turn.pend, Assistant(turn.response.text, <<>>))
    OBVIOUS
  <1>4. ASSUME NEW outcome, Over(outcome, g), issued' = issued \cup turn.fresh
        PROVE  HistInv'
    <2>1. IsSeq(g)
      BY <1>3, Appended, Joined DEF ToldInv, TurnInv, TurnOK
    <2>2. g \o <<>> = g
      BY <2>1 DEF IsSeq
    <2>3. g = hist \o Append(turn.pend, Assistant(turn.response.text, turn.calls)) \o <<>>
      BY <1>1, <1>3, <2>2
    <2>4. PICK r : r = <<>>
      OBVIOUS
    <2>5. IsSeq(r) /\ AnswersTo(r, turn.calls)
      BY <1>1, <2>4, ShortLists DEF AnswersTo, AllResults
    <2>6. /\ ValidHistory(g) /\ Issued(g, Len(g) + 1) \subseteq issued \cup turn.fresh
          /\ Retells(g, hist, r)
      BY <1>1, <2>3, <2>4, <2>5, Remembers
    <2>7. \A id \in invoked : TellsOf(g, id)
      BY <1>2, <2>6 DEF Retells
    <2> QED BY <1>1, <1>4, <2>6, <2>7, OverHist
  <1>5. ASSUME Over("checkpoint", hist), issued' = issued
        PROVE  HistInv'
    BY <1>1, <1>2, <1>5, OverHist DEF HistInv, MemoryInv
  <1> QED BY <1>3, <1>4, <1>5 DEF PersistAnswer

(* The terminal error of a turn: effects that are not in the history       *)
(* poison the session.                                                     *)
LEMMA EmitTerminalErrorHist ==
    ASSUME TurnInv, HistInv, EmitTerminalError
    PROVE  HistInv'
  <1>1. /\ turn.pc = "failing" /\ turn.pc # "idle" /\ turn.pc \notin Batch
        /\ invoked' = invoked /\ turns' = turns /\ issued' = issued /\ durable' = durable
    BY DEF EmitTerminalError, Batch, Inside
  <1>2. PICK outcome : Over(outcome, hist)
    BY DEF EmitTerminalError
  <1>3. \A id \in invoked : TellsOf(hist, id) \/ (durable.failed /\ durable.touched)
    BY <1>1 DEF HistInv, EffectsInv, Accounted
  <1>4. durable.failed /\ durable.touched => poisoned'
    BY <1>1, <1>2 DEF Over
  <1> QED BY <1>1, <1>2, <1>3, <1>4, OverHist DEF HistInv, MemoryInv

(* The batch becomes history, or storage refuses it. *)
LEMMA CommitBatchHist ==
    ASSUME TurnInv, ToldInv, HistInv, CommitBatch
    PROVE  HistInv'
  <1>1. /\ turn.pc = "commit" /\ turn.pc \in Batch /\ turn.pc \in Settled /\ turn.pc # "idle"
        /\ turn.pc # "running" /\ DOMAIN turn = TurnFields
    BY DEF CommitBatch, Batch, Settled, TurnInv, TurnOK
  <1>2. \A id \in invoked : TellsOf(hist, id) \/ (durable.touched /\ TellsOf(turn.results, id))
    BY <1>1 DEF HistInv, EffectsInv, Accounted
  <1>3. invoked' = invoked /\ invoked \subseteq Ids
    BY DEF CommitBatch, CheckpointRefused, HistInv, IdsInv
  <1>4. ASSUME hist' = hist \o Append(turn.pend, Assistant(turn.response.text, turn.calls)) \o turn.results,
               issued' = issued \cup turn.fresh, turns' = turns,
               turn' = [turn EXCEPT !.pend = <<>>, !.results = <<>>, !.at = 0, !.bytes = 0,
                                    !.pc = IF turn.error = "none" THEN "round" ELSE "failing"]
        PROVE  HistInv'
    <2>1. /\ turn'.pc \in {"round", "failing"} /\ turn'.pend = <<>> /\ turn'.fresh = turn.fresh
          /\ turn'.arguments = turn.arguments
      BY <1>1, <1>4 DEF TurnFields
    <2>2. PICK g : g = hist'
      OBVIOUS
    <2>3. PICK r : r = turn.results
      OBVIOUS
    <2>4. IsSeq(r) /\ AnswersTo(r, turn.calls)
      BY <1>1, <2>3 DEF TurnInv, TurnOK, HistInv, ResultsInv, ToldInv, AnswersTo, AllResults
    <2>5. g = hist \o Append(turn.pend, Assistant(turn.response.text, turn.calls)) \o r
      BY <1>4, <2>2, <2>3
    <2>6. /\ ValidHistory(g) /\ Issued(g, Len(g) + 1) \subseteq issued \cup turn.fresh
          /\ Retells(g, hist, r)
      BY <1>1, <2>4, <2>5, Remembers
    <2>7. MemoryInv'
      BY <1>4, <2>1, <2>2, <2>6 DEF MemoryInv
    <2>8. IdsInv'
      <3>1. InUse' = InUse
        BY <1>4, <2>1 DEF InUse, HistInv, IdsInv
      <3>2. turn'.pc # "idle"
        BY <2>1
      <3> QED BY <1>1, <1>3, <1>4, <2>1, <3>1, <3>2 DEF HistInv, IdsInv
    <2>9. CallsInv' /\ ResultsInv'
      BY <2>1 DEF CallsInv, ResultsInv, Settled, Batch, Inside
    <2>10. \A id \in invoked' : TellsOf(hist', id)
      BY <1>2, <1>3, <2>2, <2>3, <2>6 DEF Retells
    <2>11. EffectsInv'
      BY <2>1, <2>10 DEF EffectsInv, Accounted
    <2> QED BY <2>7, <2>8, <2>9, <2>11 DEF HistInv
  <1>5. ASSUME CheckpointRefused
        PROVE  HistInv'
    <2>1. /\ turn'.pc = "failing" /\ durable'.failed /\ durable'.touched = durable.touched
          /\ turn'.pend = turn.pend /\ turn'.fresh = turn.fresh /\ turn'.arguments = turn.arguments
          /\ UNCHANGED session /\ hist' = hist
      BY <1>5, RefusedShape DEF SameTurn, session, CheckpointRefused, Fails, TurnInv, TurnOK, DurableOK, TurnFields, DurableFields
    <2>2. MemoryInv'
      BY <2>1, SameMemory DEF HistInv
    <2>3. IdsInv'
      BY <1>1, <1>3, <2>1, NoneDrawn DEF HistInv
    <2>4. CallsInv' /\ ResultsInv'
      BY <2>1 DEF CallsInv, ResultsInv, Settled, Batch, Inside
    <2>5. EffectsInv'
      BY <1>2, <1>3, <2>1 DEF EffectsInv, Accounted
    <2> QED BY <2>2, <2>3, <2>4, <2>5 DEF HistInv
  <1> QED BY <1>4, <1>5 DEF CommitBatch

(* A step that changes none of this. *)
LEMMA IdleHist ==
    ASSUME HistInv, Cancel \/ UNCHANGED vars
    PROVE  HistInv'
  <1>1. /\ hist' = hist /\ issued' = issued /\ turn' = turn /\ durable' = durable /\ poisoned' = poisoned
        /\ turns' = turns /\ invoked' = invoked
    BY DEF Cancel, vars, session
  <1>2. MemoryInv' /\ CallsInv' /\ ResultsInv'
    BY <1>1 DEF HistInv, MemoryInv, CallsInv, ResultsInv
  <1>3. InUse' = InUse /\ Call' = Call
    BY <1>1 DEF InUse, Call
  <1>4. IdsInv'
    BY <1>1, <1>3 DEF HistInv, IdsInv
  <1>5. EffectsInv'
    BY <1>1, <1>3 DEF HistInv, EffectsInv, Accounted
  <1> QED BY <1>2, <1>4, <1>5 DEF HistInv

(* It holds at the start. *)
LEMMA HistInit == Init => HistInv
  <1> SUFFICES ASSUME Init PROVE HistInv
    OBVIOUS
  <1>1. /\ turn = NoTurn /\ hist \in InitialHistories /\ issued = Issued(hist, Len(hist) + 1) /\ invoked = {}
        /\ turns = 0
    BY DEF Init
  <1>2. turn.pc = "idle" /\ turn.pend = <<>> /\ turn.fresh = {}
    BY <1>1 DEF NoTurn
  <1>3. MemoryInv
    BY <1>1, <1>2, HistoriesConstants DEF MemoryInv
  <1>4. IdsInv
    <2>1. issued \cap Ids = {}
      BY <1>1, HistoriesConstants
    <2>2. Cardinality(issued \cap Ids) = 0
      BY <2>1, FS_EmptySet
    <2>3. MaxTotalToolArguments * turns = 0
      BY <1>1, Limits
    <2> QED BY <1>1, <1>2, <2>2, <2>3 DEF IdsInv
  <1>5. CallsInv /\ ResultsInv
    BY <1>2 DEF CallsInv, ResultsInv, Settled, Batch, Inside
  <1>6. EffectsInv
    BY <1>1, <1>2 DEF EffectsInv
  <1> QED BY <1>3, <1>4, <1>5, <1>6 DEF HistInv

(* Every step keeps it. *)
LEMMA HistNext == TurnInv /\ ToldInv /\ HistInv /\ [Next]_vars => HistInv'
  <1> SUFFICES ASSUME TurnInv, ToldInv, HistInv, [Next]_vars PROVE HistInv'
    OBVIOUS
  <1>1. CASE BatchActions
    BY <1>1, BatchActionShape, BatchHist
  <1>2. CASE RunMessage
    BY <1>2, RunMessageHist
  <1>3. CASE Cancel \/ UNCHANGED vars
    BY <1>3, IdleHist
  <1>4. CASE Harness
    BY <1>1, <1>4, BeginHist, StartRoundHist, StreamStopsHist, AnsweredHist, PersistAnswerHist, StartToolBatchHist,
       CommitBatchHist, EmitTerminalErrorHist DEF Harness, BatchActions
  <1>5. CASE Model
    BY <1>5, StreamStopsHist, StreamEndsHist, StreamQuietHist, StreamCallHist DEF Model
  <1>6. CASE World
    BY <1>1, <1>5, <1>6 DEF World, BatchActions
  <1> QED BY <1>2, <1>3, <1>4, <1>6 DEF Next

(* Whatever the model answers, whichever tools are approved, run, fail or  *)
(* are interrupted, and whenever storage or the consumer refuses: the      *)
(* history the session keeps is one validate_history accepts as far as     *)
(* order and identifiers go, so no later turn finds a call without its     *)
(* result or a result without its call; a new identifier exists for every  *)
(* call the limits admit; and a session that accepts another turn has, for *)
(* every tool that was ever entered, a result that does not say it did not *)
(* run.                                                                    *)
THEOREM HistoriesAreSound == Spec => []HistoryIsSound
  <1>1. HistInv => HistoryIsSound
    <2> SUFFICES ASSUME HistInv PROVE HistoryIsSound
      OBVIOUS
    <2>1. HistoryIsValid
      BY DEF HistInv, MemoryInv, IdsInv, HistoryIsValid
    <2>2. EffectsAreKept
      <3> SUFFICES ASSUME turn.pc = "idle", ~poisoned, NEW id \in invoked PROVE TellsOf(hist, id)
        BY DEF EffectsAreKept, TellsOf, Unrun
      <3>1. turn.pc \notin Batch \cup {"failing"}
        BY DEF Batch, Inside
      <3> QED BY <3>1, AllTold DEF HistInv
    <2> QED BY <2>1, <2>2 DEF HistoryIsSound
  <1>2. Spec => []TurnInv
    BY TurnInvInit, TurnInvNext, PTL DEF Spec
  <1>3. Spec => []ToldInv
    BY <1>2, ToldInit, ToldNext, PTL DEF Spec
  <1>4. Spec => []HistInv
    BY <1>2, <1>3, HistInit, HistNext, PTL DEF Spec
  <1> QED BY <1>1, <1>4, PTL
==============================================================================
