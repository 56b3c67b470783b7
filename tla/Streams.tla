------------------------------ MODULE Streams --------------------------------
(* One client: callers submit jobs to a bounded queue, one inference thread   *)
(* runs them in order, and each job answers over a channel of its own.  A     *)
(* native stream has a bounded channel, a cancellation flag and a completion  *)
(* signal; a Rig stream has only the channel; a whole generation has a flag   *)
(* and a one-shot channel.  What a job sends comes from the emitter, the      *)
(* classifier and the reconciler of module Markers.                           *)
EXTENDS Markers

CONSTANTS
    Jobs,       \* requests
    Requests,   \* what each may be: [mode, tokens, seed, budget, stops], where
                \* mode is "native", "rig" or "whole" and the rest is what the
                \* prompt and the model will do
    QueueSize,  \* queue_capacity, in waiting jobs
    Cap,        \* the capacity of an event channel, 64 in the code
    Leaves,     \* how a reader may leave: subset of {"cancel", "wait", "drop"}
    MaxFaults,  \* bound: requests that fail or panic in the engine
    Symbols,    \* what texts are made of
    Vocabulary, MaxTokens, Seeds, Budgets   \* bounds: replies that are enumerated

ASSUME StreamsConstants ==
    /\ \A j \in Jobs : \A r \in Requests[j] :
           r.mode \in {"native", "rig", "whole"} /\ r.tokens \in Seq(Seq(Symbols))
    /\ Leaves \subseteq {"cancel", "wait", "drop"}
    /\ QueueSize \in Nat \ {0} /\ Cap \in Nat \ {0} /\ MaxFaults \in Nat

VARIABLES
    open,       \* some Client clone exists
    queue,      \* jobs submitted and not yet taken
    thread,     \* the inference thread runs
    request,    \* of each job: its mode, and what the emitter will produce
    state,      \* "idle", "refused", "queued", "running", "ended"
    work,       \* the job being run (see Started), or NoWork
    channel,    \* events sent and not yet received
    closed,     \* the receiver is closed or gone
    cancelled,  \* the cancellation flag
    user,       \* "none", "reading", a member of Leaves while cancel() runs,
                \* "cancelled", "waiting", "over"
    got,        \* events received
    faults

vars == <<open, queue, thread, request, state, work, channel, closed,
          cancelled, user, got, faults>>

callers == <<closed, cancelled, user, got>>

NoWork == [job |-> "none"]

Init ==
    /\ open = TRUE /\ thread = TRUE /\ queue = <<>> /\ work = NoWork /\ faults = 0
    /\ request = [j \in Jobs |-> [mode |-> "none", log |-> <<>>]]
    /\ state = [j \in Jobs |-> "idle"] /\ user = [j \in Jobs |-> "none"]
    /\ channel = [j \in Jobs |-> <<>>] /\ got = [j \in Jobs |-> <<>>]
    /\ closed = [j \in Jobs |-> FALSE] /\ cancelled = [j \in Jobs |-> FALSE]

-----------------------------------------------------------------------------
(* Callers. *)

(* What the emitter produces for a reply, token by token and at the end, and *)
(* the reply after each.                                                     *)
Log(r) == Streamed(r.tokens, r.seed, r.budget, r.stops).log
Tokens(j) == Len(request[j].log) - 1

(* submit: never blocks; a full queue refuses. *)
Submit(j, r) ==
    /\ open /\ state[j] = "idle"
    /\ request' = [request EXCEPT ![j] = [mode |-> r.mode, log |-> Log(r)]]
    /\ IF Len(queue) < QueueSize
       THEN /\ queue' = Append(queue, j)
            /\ state' = [state EXCEPT ![j] = "queued"]
            /\ user' = [user EXCEPT ![j] = "reading"]
       ELSE /\ state' = [state EXCEPT ![j] = "refused"]
            /\ UNCHANGED <<queue, user>>
    /\ UNCHANGED <<open, thread, work, channel, closed, cancelled, got, faults>>

(* The last Client goes; jobs that were accepted stay in the queue. *)
DropClients ==
    /\ open
    /\ open' = FALSE
    /\ UNCHANGED <<queue, thread, request, state, work, channel, faults, callers>>

(* recv of a stream, also after cancel(); a whole generation awaits its      *)
(* single answer.                                                            *)
Receive(j) ==
    /\ user[j] \in {"reading", "cancelled"} /\ channel[j] # <<>>
    /\ got' = [got EXCEPT ![j] = Append(@, Head(channel[j]))]
    /\ channel' = [channel EXCEPT ![j] = Tail(@)]
    /\ UNCHANGED <<open, queue, thread, request, state, work, closed, cancelled, user, faults>>

(* recv returns None: the buffer is empty and no sender is left, or closed.  *)
(* A caller that is done keeps nothing.                                      *)
ReceiveEnd(j) ==
    /\ user[j] \in {"reading", "cancelled"} /\ channel[j] = <<>>
    /\ state[j] = "ended" \/ closed[j]
    /\ user' = [user EXCEPT ![j] = "over"]
    /\ got' = [got EXCEPT ![j] = <<>>]
    /\ UNCHANGED <<open, queue, thread, request, state, work, channel, closed,
                   cancelled, faults>>

(* cancel, cancel_and_wait, Drop, CancelOnDrop: the flag is set first.  A    *)
(* Rig stream has no flag and can only be dropped.                           *)
Leave(j, how) ==
    /\ user[j] = "reading"
    /\ request[j].mode = "native" \/ how = "drop"
    /\ user' = [user EXCEPT ![j] = how]
    /\ cancelled' = [cancelled EXCEPT ![j] = request[j].mode # "rig"]
    /\ UNCHANGED <<open, queue, thread, request, state, work, channel, closed, got, faults>>

(* ... and then the receiver is closed, or gone with what it holds.  Only    *)
(* after cancel() is it read again here.                                     *)
Close(j) ==
    /\ user[j] \in Leaves
    /\ closed' = [closed EXCEPT ![j] = TRUE]
    /\ user' = [user EXCEPT ![j] = CASE @ = "cancel" -> "cancelled"
                                     [] @ = "wait"   -> "waiting"
                                     [] @ = "drop"   -> "over"]
    /\ channel' = IF user[j] = "cancel" THEN channel ELSE [channel EXCEPT ![j] = <<>>]
    /\ got' = IF user[j] = "cancel" THEN got ELSE [got EXCEPT ![j] = <<>>]
    /\ UNCHANGED <<open, queue, thread, request, state, work, cancelled, faults>>

(* cancel_and_wait returns when the job has left the thread. *)
WaitReturns(j) ==
    /\ user[j] = "waiting" /\ state[j] = "ended"
    /\ user' = [user EXCEPT ![j] = "over"]
    /\ UNCHANGED <<open, queue, thread, request, state, work, channel, closed,
                   cancelled, got, faults>>

-----------------------------------------------------------------------------
(* The inference thread. *)

Progress(n) == [type |-> "progress", n |-> n]
Event(type, value) == [type |-> type, value |-> value]

(* The job as the thread runs it: the tokens emitted, the reconciler, and    *)
(* the callbacks or events to make.                                          *)
Started(j) ==
    [job |-> j, phase |-> "decode", at |-> 0, rec |-> Reconciler,
     todo |-> <<Progress(0), Progress(0)>>]

(* The predicate that checkpoint() asks. *)
IsCancelled(j) == cancelled[j] \/ (closed[j] /\ request[j].mode # "whole")

(* A queued job that was cancelled is over at once.  A whole generation      *)
(* still answers, which nobody reads.                                        *)
IsStale(j) == IF request[j].mode = "rig" THEN closed[j] ELSE cancelled[j]

TakeJob ==
    /\ thread /\ work = NoWork /\ queue # <<>>
    /\ LET j == Head(queue)
       IN /\ state' = [state EXCEPT ![j] = IF IsStale(j) THEN "ended" ELSE "running"]
          /\ work' = IF IsStale(j) THEN NoWork ELSE Started(j)
    /\ queue' = Tail(queue)
    /\ UNCHANGED <<open, thread, request, channel, faults, callers>>

(* Mutant: the thread stops with the clients and drops the queue. *)
ExitEarly ==
    /\ thread /\ work = NoWork /\ ~open
    /\ thread' = FALSE
    /\ UNCHANGED <<open, queue, request, state, work, channel, faults, callers>>

(* job_rx.recv() fails when every sender is gone and the queue is empty. *)
Exit ==
    /\ thread /\ work = NoWork /\ queue = <<>> /\ ~open
    /\ thread' = FALSE
    /\ UNCHANGED <<open, queue, request, state, work, channel, faults, callers>>

(* The error that ends a job is the last thing it sends. *)
Fails(why) == work' = [work EXCEPT !.phase = "deliver", !.todo = <<Event("error", why)>>]

(* blocking_send: waits while the channel is full. *)
Send(j, event) ==
    /\ Len(channel[j]) < Cap
    /\ channel' = [channel EXCEPT ![j] = Append(@, event)]

(* Does the callback report that the request goes on?  A native stream looks *)
(* at the flag before every segment, every stream at its receiver.           *)
Refuses(j, item) ==
    CASE request[j].mode = "native" -> closed[j] \/ (item.type = "segment" /\ cancelled[j])
      [] request[j].mode = "rig"    -> item.type = "segment" /\ closed[j]
      [] request[j].mode = "whole"  -> item.type = "segment" /\ cancelled[j]

(* Progress goes to native streams, segments to both kinds of streams. *)
IsSent(j, item) ==
    CASE item.type = "progress" -> request[j].mode = "native"
      [] item.type = "segment"  -> request[j].mode # "whole" /\ Forwards(work.rec, item.value)

(* The answer FALSE ends the loop, without the terminal flush. *)
Callback ==
    /\ work # NoWork /\ work.phase \in {"decode", "flush"} /\ work.todo # <<>>
    /\ LET j    == work.job
           item == Head(work.todo)
       IN IF Refuses(j, item)
          THEN work' = [work EXCEPT !.phase = "flush", !.todo = <<>>] /\ UNCHANGED channel
          ELSE /\ IF IsSent(j, item)
                  THEN Send(j, IF item.type = "progress" THEN item
                               ELSE Event(item.value.kind, item.value.text))
                  ELSE UNCHANGED channel
               /\ work' = [work EXCEPT !.todo = Tail(@),
                             !.rec = IF item.type = "segment" THEN Observe(@, item.value)
                                     ELSE @]
    /\ UNCHANGED <<open, queue, thread, request, state, faults, callers>>

(* The callbacks for one emitted token: progress when the ledger advances,   *)
(* then the segments, or one empty segment.                                  *)
Segments(out) == [i \in DOMAIN out |-> [type |-> "segment", value |-> out[i]]]

Emitted(out) ==
    <<Progress(work.at + 1)>>
    \o Segments(IF out = <<>> THEN <<Segment("text", <<>>)>> ELSE out)

(* Before the first token, prefill asks whether the request was cancelled;   *)
(* from then on only the callbacks notice it.                                *)
Decodes == work # NoWork /\ work.phase = "decode" /\ work.todo = <<>>

others == <<open, queue, thread, request, state, channel, faults, callers>>

Checkpoint ==
    /\ Decodes /\ work.at = 0 /\ IsCancelled(work.job)
    /\ Fails("cancelled")
    /\ UNCHANGED others

(* A token of the model, of a forced close or the stop token is emitted. *)
NextToken ==
    /\ Decodes /\ work.at < Tokens(work.job)
    /\ (work.at = 0 => ~IsCancelled(work.job))
    /\ LET k == work.at + 1
       IN work' = [work EXCEPT !.at = k,
                     !.todo = Emitted(request[work.job].log[k].out)]
    /\ UNCHANGED others

(* At the end into_emitted flushes what was withheld. *)
Flush ==
    /\ Decodes /\ work.at = Tokens(work.job)
    /\ work' = [work EXCEPT !.phase = "flush",
                   !.todo = Segments(Last(request[work.job].log).out)]
    /\ UNCHANGED others

Generate == Checkpoint \/ NextToken \/ Flush

(* A reply with its usage. *)
Numbered(reply, n) ==
    [text |-> reply.text, reasoning |-> reply.reasoning, calls |-> reply.calls, n |-> n]

(* What is left of the answer, the calls, and the whole reply. *)
Terminal(reply) ==
    LET rest == Suffix(work.rec, reply.text)
    IN (IF rest = <<>> THEN <<>> ELSE <<Event("text", rest)>>)
       \o [i \in DOMAIN reply.calls |-> Event("call", reply.calls[i])]
       \o <<Event("completed", reply)>>

(* Mutant: a loop that was cut short counts as finished. *)
FinishUnchecked ==
    /\ work # NoWork /\ work.phase = "flush" /\ work.todo = <<>>
    /\ LET log   == request[work.job].log
           reply == Numbered(log[Max({work.at, 1})].reply, work.at)
       IN IF ~IsReconciled(work.rec, reply.text) THEN Fails("protocol")
          ELSE work' = [work EXCEPT !.phase = "deliver", !.todo = Terminal(reply)]
    /\ UNCHANGED others

(* The last checkpoint, the reply, and its reconciliation with what was sent. *)
Finish ==
    /\ work # NoWork /\ work.phase = "flush" /\ work.todo = <<>>
    /\ LET log   == request[work.job].log
           reply == Numbered(log[Max({work.at, 1})].reply, work.at)
       IN IF IsCancelled(work.job) THEN Fails("cancelled")
          ELSE IF request[work.job].mode = "whole"
          THEN work' = [work EXCEPT !.phase = "deliver",
                                    !.todo = <<Event("completed", reply)>>]
          ELSE IF ~IsReconciled(work.rec, reply.text) THEN Fails("protocol")
          ELSE work' = [work EXCEPT !.phase = "deliver", !.todo = Terminal(reply)]
    /\ UNCHANGED others

Ended(j) == work' = NoWork /\ state' = [state EXCEPT ![j] = "ended"]

(* The terminal events.  The first that nobody takes ends the job.           *)
Deliver ==
    /\ work # NoWork /\ work.phase = "deliver"
    /\ LET j == work.job
       IN IF closed[j]
          THEN Ended(j) /\ UNCHANGED channel
          ELSE /\ Send(j, Head(work.todo))
               /\ IF Len(work.todo) = 1 THEN Ended(j)
                  ELSE /\ work' = [work EXCEPT !.todo = Tail(@)]
                       /\ UNCHANGED state
    /\ UNCHANGED <<open, queue, thread, request, faults, callers>>

(* Mutant: a request that panicked leaves without a word. *)
FaultSilently ==
    /\ work # NoWork /\ work.phase \in {"decode", "flush"} /\ faults < MaxFaults
    /\ Ended(work.job)
    /\ faults' = faults + 1
    /\ UNCHANGED <<open, queue, thread, request, channel, callers>>

(* The engine fails or panics in this request; the thread goes on. *)
Fault ==
    /\ work # NoWork /\ work.phase \in {"decode", "flush"} /\ faults < MaxFaults
    /\ Fails("failed")
    /\ faults' = faults + 1
    /\ UNCHANGED <<open, queue, thread, request, state, channel, callers>>

Worker == TakeJob \/ Exit \/ Callback \/ Generate \/ Finish \/ Deliver

Caller(j) == Receive(j) \/ ReceiveEnd(j) \/ Close(j) \/ WaitReturns(j)

Next ==
    \/ \E j \in Jobs : \E r \in Requests[j] : Submit(j, r)
    \/ DropClients
    \/ \E j \in Jobs, how \in Leaves : Leave(j, how)
    \/ \E j \in Jobs : Caller(j)
    \/ Worker
    \/ Fault

(* The thread keeps running.  A caller that holds a stream keeps reading it  *)
(* or leaves: the code has no time limit on a reader.                        *)
Spec ==
    /\ Init /\ [][Next]_vars
    /\ WF_vars(Worker)
    /\ \A j \in Jobs : WF_vars(Caller(j))

-----------------------------------------------------------------------------
(* Properties. *)

TypeOK ==
    /\ open \in BOOLEAN /\ thread \in BOOLEAN /\ faults \in 0..MaxFaults
    /\ queue \in Seq(Jobs) /\ Len(queue) <= QueueSize
    /\ \A j \in Jobs :
        /\ request[j].mode \in {"none", "native", "rig", "whole"}
        /\ state[j] \in {"idle", "refused", "queued", "running", "ended"}
        /\ user[j] \in {"none", "reading", "cancelled", "waiting", "over"} \cup Leaves
        /\ Len(channel[j]) <= Cap
        /\ closed[j] \in BOOLEAN /\ cancelled[j] \in BOOLEAN
    /\ work = NoWork \/ (work.job \in Jobs /\ work.phase \in {"decode", "flush", "deliver"})

(* What the events of a type say, one after the other. *)
Piece(type, v) ==
    IF v.type # type THEN <<>>
    ELSE CASE type = "progress" -> <<v.n>>
           [] type = "call"     -> <<v.value>>
           [] OTHER             -> v.value

Of(type, events) == FoldLeft(LAMBDA t, v : t \o Piece(type, v), <<>>, events)

(* Whatever is cancelled, dropped or fails, and whenever: the answer, the    *)
(* reasoning and the calls that a reader has received are the beginning of   *)
(* those of the whole reply, they are all of them when the stream completes, *)
(* a reply that was cut short never completes, nothing follows completion,   *)
(* and the reconciliation never fails.                                       *)
DeliveredIsExact ==
    \A j \in {i \in Jobs : got[i] # <<>>} :
        LET g == got[j]
            a == Last(request[j].log).reply
            ended == Last(g).type = "completed"
            exact(part, all) == IF ended THEN part = all ELSE IsPrefix(part, all)
        IN /\ request[j].mode = "whole" \/
                  /\ exact(Of("text", g), a.text)
                  /\ exact(Of("reasoning", g), a.reasoning)
                  /\ exact(Of("call", g), a.calls)
           /\ (ended => Last(g).value = Numbered(a, Tokens(j)))
           /\ \A i \in DOMAIN g :
                  /\ (g[i].type = "completed" => i = Len(g))
                  /\ g[i] # Event("error", "protocol")

(* The progress a native stream reports counts the emitted tokens one by     *)
(* one, forced and stop tokens included, whatever the number of segments,    *)
(* and its last number is the usage of the reply.                            *)
ProgressIsExact ==
    \A j \in {i \in Jobs : got[i] # <<>> /\ request[i].mode = "native"} :
        LET q == Of("progress", got[j])
        IN /\ \A i \in DOMAIN q : q[i] = IF i <= 2 THEN 0 ELSE i - 2
           /\ (Last(got[j]).type = "completed" => Last(got[j]).value.n = Last(q))

(* A reader that did not leave never sees the stream just end: the last      *)
(* event is the complete reply or an error, and the error is not that        *)
(* somebody else's request was cancelled.                                    *)
EndIsAnnounced ==
    [][\A j \in Jobs :
        user[j] = "reading" /\ user'[j] = "over" =>
            /\ got[j] # <<>> /\ Last(got[j]).type \in {"completed", "error"}
            /\ Last(got[j]) # Event("error", "cancelled")]_vars

(* A reply as the emitter logs it is a sequence of texts, and it is exact.   *)
LogEntry ==
    [out   : Seq([kind : {"text", "reasoning", "tool"}, text : Seq(Symbols)]),
     reply : [text : Seq(Symbols), reasoning : Seq(Symbols), calls : Seq(Valid)]]

ReplyIsExact(r) ==
    Log(r) \in Seq(LogEntry) /\ StreamIsExact(r.tokens, r.seed, r.budget, r.stops)

RequestsAreExact == \A j \in Jobs : \A r \in Requests[j] : ReplyIsExact(r)

(* The same for the requests here and for every short reply, however it is   *)
(* cut into tokens, with and without a reasoning span opened by the prompt,  *)
(* a spent budget and a stop token.  It is about no state and asked once,    *)
(* before the first request.                                                 *)
EveryStreamIsExact ==
    open /\ (\A j \in Jobs : state[j] = "idle") =>
        /\ RequestsAreExact
        /\ \A seed \in Seeds, budget \in Budgets, stops \in BOOLEAN, n \in 0..MaxTokens :
               \A tokens \in [1..n -> Vocabulary] :
                   ReplyIsExact([tokens |-> tokens, seed |-> seed, budget |-> budget, stops |-> stops])

(* Every accepted request leaves the thread, whoever stalled and left and    *)
(* whatever failed before it, and its caller, the one in cancel_and_wait     *)
(* too, is let go.                                                           *)
AcceptedIsServed ==
    \A j \in Jobs : state[j] = "queued" ~> (state[j] = "ended" /\ user[j] = "over")

(* Once the last client is gone the thread ends, and the model with it, but  *)
(* not before the jobs that were accepted are done.                          *)
ThreadEnds ==
    ~open ~> (~thread /\ \A j \in Jobs : state[j] \notin {"queued", "running"})

(* What a reader sees, in text, calls and numbers, is the reply, as far as *)
(* the stream got.                                                         *)
ReadersSeeTheReply == TypeOK /\ DeliveredIsExact /\ ProgressIsExact

(* Nobody waits for ever: readers, callers in cancel_and_wait, requests in *)
(* the queue, and the thread when its clients are gone.                    *)
RequestsAreServed == AcceptedIsServed /\ ThreadEnds
=============================================================================
