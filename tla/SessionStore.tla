----------------------------- MODULE SessionStore -----------------------------
(***************************************************************************)
(* One Session of the durable MemoryStore: its transcript, its execution   *)
(* lease and its transcript-compaction jobs.  Owners (chat processes) hold *)
(* SessionLease values, workers (`emelex memory work` processes) hold      *)
(* CompactionLease values, an operator retries and cancels jobs, and       *)
(* maintenance runs at any time.  Every store call is one `BEGIN           *)
(* IMMEDIATE` SQLite transaction, hence one action.                        *)
(*                                                                         *)
(* Abstractions.                                                           *)
(*  - A deadline is the number of ticks left until it: `deadline > now` is *)
(*    ttl > 0, and Tick lets time pass for every deadline at once.         *)
(*  - A claim token is a fresh UUID, so all that matters is whose it is: a *)
(*    row names the lease value that matches it, Orphan when that value is *)
(*    gone (crash, destructor that found the database busy), NoOne for     *)
(*    NULL.                                                                *)
(*  - A transcript event is its sequence number; only turn ends and        *)
(*    summaries are told apart.  What a summary says is the set of raw     *)
(*    events it was generated from.                                        *)
(***************************************************************************)
EXTENDS Integers, FiniteSets

CONSTANTS
    Handles,        \* slots for SessionLease values, in any process
    Workers,        \* slots for CompactionLease values, in any process
    NoOne,          \* a NULL token, a free slot's owner
    Orphan,         \* a token whose lease value no longer exists
    MaxSeq,         \* bound: events the session may hold
    MaxTurn,        \* bound: events of one turn
    SessionTtl,     \* SESSION_LEASE in ticks
    WorkerTtl,      \* COMPACTION_LEASE in ticks
    RetryBase,      \* JOB_RETRY_BASE in ticks
    RetryMax,       \* JOB_RETRY_MAX in ticks
    MaxRetries,     \* bound: retries of failed jobs by the operator
    MaxCancels      \* bound: cancellations of a running job by the operator

ASSUME OwnersAssumption ==
    /\ NoOne \notin Handles \cup Workers
    /\ Orphan \notin Handles \cup Workers
    /\ NoOne # Orphan

ASSUME BoundsAssumption ==
    /\ MaxSeq \in Nat /\ MaxTurn \in Nat
    /\ MaxRetries \in Nat /\ MaxCancels \in Nat

ASSUME TimesAssumption ==
    /\ SessionTtl \in Nat \ {0} /\ WorkerTtl \in Nat \ {0}
    /\ RetryBase \in Nat \ {0} /\ RetryMax \in Nat \ {0}

MAX_JOB_FAILURES == 3

VARIABLES
    exists,     \* the sessions row exists
    lastSeq,    \* MAX(session_events.sequence)
    turnEnds,   \* sequences with turn_index + 1 = turn_size
    claim,      \* execution_token and execution_lease_until
    lease,      \* the SessionLease value of each slot
    jobs,       \* compaction_jobs, by through_sequence
    worker,     \* the CompactionLease value of each slot and what it loaded
    retries,    \* operator retries so far
    cancels     \* operator cancellations so far

vars == <<exists, lastSeq, turnEnds, claim, lease, jobs, worker, retries, cancels>>

Seqs == 1..MaxSeq

Claim == [holder : Handles \cup {NoOne, Orphan}, ttl : Nat]

NoClaim == [holder |-> NoOne, ttl |-> 0]

(* view and lapsed are history: the events the owner was shown or wrote,   *)
(* and whether its claim expired since it was last shown them.             *)
Lease == [held : BOOLEAN, cursor : Nat, replayed : BOOLEAN,
          view : SUBSET Nat, lapsed : BOOLEAN]

NoLease == [held |-> FALSE, cursor |-> 0, replayed |-> FALSE,
            view |-> {}, lapsed |-> FALSE]

JobStates == {"none", "pending", "running", "completed", "failed"}

(* summary is the sequence of the job's summary event; covers is history:  *)
(* the raw events that summary was generated from.                         *)
Job == [state : JobStates, fails : Nat, wait : Nat,
        holder : Workers \cup {NoOne, Orphan}, ttl : Nat,
        born : Nat, summary : Nat, covers : SUBSET Nat]

NoJob == [state |-> "none", fails |-> 0, wait |-> 0, holder |-> NoOne, ttl |-> 0,
          born |-> 0, summary |-> 0, covers |-> {}]

(* through = 0: the slot is free.                                          *)
Worker == [through : Nat, source : SUBSET Nat]

NoWorker == [through |-> 0, source |-> {}]

TypeOK ==
    /\ exists \in BOOLEAN
    /\ lastSeq \in 0..MaxSeq
    /\ turnEnds \in SUBSET Seqs
    /\ claim \in Claim
    /\ lease \in [Handles -> Lease]
    /\ jobs \in [Seqs -> Job]
    /\ worker \in [Workers -> Worker]
    /\ retries \in 0..MaxRetries
    /\ cancels \in 0..MaxCancels

-----------------------------------------------------------------------------
(* Derived state.                                                          *)

(* Mutant: the last tick of a lease already counts as expired.             *)
SessionLiveEarly == claim.holder # NoOne /\ claim.ttl > 1

SessionLive == claim.holder # NoOne /\ claim.ttl > 0

Completed == {t \in Seqs : jobs[t].state = "completed"}

Active == {t \in Seqs : jobs[t].state \in {"pending", "running"}}

Summaries == {jobs[t].summary : t \in Completed}

RawEvents == (1..lastSeq) \ Summaries

(* The completed job that replay starts from.                              *)
IsLatest(c) == c \in Completed /\ \A t \in Completed : t <= c

(* Mutant: the tail starts after the summary instead of the boundary.      *)
TailOfSummary(c) == {e \in 1..lastSeq : e > jobs[c].summary}

(* The tail replay reads after that job's boundary.                        *)
TailOf(c) == {e \in 1..lastSeq : e > c /\ e # jobs[c].summary}

Readable == \A c \in Completed : IsLatest(c) => TailOf(c) \cap Summaries = {}

ReplayEvents ==
    IF Completed = {} THEN 1..lastSeq
    ELSE UNION {{jobs[c].summary} \cup TailOf(c) : c \in {t \in Completed : IsLatest(t)}}

(* The raw events that a set of events stands for.                         *)
Expand(E) ==
    {e \in E : e \in RawEvents}
        \cup UNION {jobs[t].covers : t \in {c \in Completed : jobs[c].summary \in E}}

(* The delay after failure f: JOB_RETRY_BASE shifted left f - 1 times, and *)
(* capped.  Failure MAX_JOB_FAILURES is terminal, so f is 1 or 2 here.     *)
Backoff(f) ==
    LET delay == IF f = 1 THEN RetryBase ELSE 2 * RetryBase
    IN  IF delay <= RetryMax THEN delay ELSE RetryMax

(* A running job after one more failure; a lease that runs out is a        *)
(* retryable one.                                                          *)
JobFailure(job, permanent) ==
    LET f == job.fails + 1 IN
    IF permanent \/ f >= MAX_JOB_FAILURES
    THEN [job EXCEPT !.state = "failed", !.fails = f, !.wait = 0,
                     !.holder = NoOne, !.ttl = 0]
    ELSE [job EXCEPT !.state = "pending", !.fails = f, !.wait = Backoff(f),
                     !.holder = NoOne, !.ttl = 0]

(* The other transitions of a job row.                                     *)
JobStarted(job, w) == [job EXCEPT !.state = "running", !.holder = w, !.ttl = WorkerTtl]

JobReleased(job) == [job EXCEPT !.state = "pending", !.holder = NoOne, !.ttl = 0]

JobCompleted(job, seq, source) ==
    [job EXCEPT !.state = "completed", !.holder = NoOne, !.ttl = 0,
                !.summary = seq, !.covers = source]

JobRequeued(job) == [job EXCEPT !.state = "pending", !.fails = 0, !.wait = 0]

Expired(job) == job.state = "running" /\ job.ttl = 0

(* Mutant: an expired claim is returned to the queue uncounted.            *)
RecoveredUncounted ==
    [t \in Seqs |-> IF Expired(jobs[t])
                    THEN [jobs[t] EXCEPT !.state = "pending", !.holder = NoOne]
                    ELSE jobs[t]]

Recovered ==
    [t \in Seqs |-> IF Expired(jobs[t]) THEN JobFailure(jobs[t], FALSE) ELSE jobs[t]]

(* Mutant: the worker's job row is updated by id alone.                     *)
OwnsJobById(w) == worker[w].through \in Seqs

OwnsJob(w) ==
    LET t == worker[w].through IN
    t \in Seqs /\ jobs[t].state = "running" /\ jobs[t].holder = w

(* The claim check of compaction_source and complete_compaction.           *)
HoldsJob(w) == OwnsJob(w) /\ jobs[worker[w].through].ttl > 0

-----------------------------------------------------------------------------
(* The owner's calls.                                                      *)

ClaimSession(h) ==
    /\ ~lease[h].held
    /\ exists
    /\ ~SessionLive
    /\ claim' = [holder |-> h, ttl |-> SessionTtl]
    /\ lease' = [lease EXCEPT ![h] = [held |-> TRUE, cursor |-> lastSeq,
                     replayed |-> lastSeq = 0, view |-> {}, lapsed |-> FALSE]]
    /\ UNCHANGED <<exists, lastSeq, turnEnds, jobs, worker, retries, cancels>>

(* Only the token is checked: an expired claim nobody took is revived.     *)
RenewSession(h) ==
    /\ lease[h].held
    /\ claim.holder = h
    /\ claim' = [claim EXCEPT !.ttl = SessionTtl]
    /\ UNCHANGED <<exists, lastSeq, turnEnds, lease, jobs, worker, retries, cancels>>

ReleaseSession(h) ==
    /\ lease[h].held
    /\ claim.holder = h
    /\ claim' = NoClaim
    /\ lease' = [lease EXCEPT ![h] = NoLease]
    /\ UNCHANGED <<exists, lastSeq, turnEnds, jobs, worker, retries, cancels>>

(* The destructor clears the token unless the database is busy; a crash    *)
(* runs no destructor.  Either way the lease value is gone.                *)
DropSessionLease(h) ==
    /\ lease[h].held
    /\ lease' = [lease EXCEPT ![h] = NoLease]
    /\ \/ claim' = IF claim.holder = h THEN NoClaim ELSE claim
       \/ claim' = IF claim.holder = h THEN [claim EXCEPT !.holder = Orphan] ELSE claim
    /\ UNCHANGED <<exists, lastSeq, turnEnds, jobs, worker, retries, cancels>>

(* Mutant: the append trusts the lease and does not compare the cursor.     *)
CursorTrusted(h) == TRUE

CursorCurrent(h) == lease[h].cursor = lastSeq

OwnsLive(h) == lease[h].held /\ claim.holder = h /\ claim.ttl > 0

ReplaySession(h) ==
    /\ OwnsLive(h)
    /\ Readable
    /\ lease' = [lease EXCEPT ![h] = [held |-> TRUE, cursor |-> lastSeq,
                     replayed |-> TRUE, view |-> ReplayEvents, lapsed |-> FALSE]]
    /\ UNCHANGED <<exists, lastSeq, turnEnds, claim, jobs, worker, retries, cancels>>

AppendTurn(h, n) ==
    /\ OwnsLive(h)
    /\ lease[h].replayed
    /\ CursorCurrent(h)
    /\ lastSeq + n <= MaxSeq
    /\ lastSeq' = lastSeq + n
    /\ turnEnds' = turnEnds \cup {lastSeq + n}
    /\ claim' = [claim EXCEPT !.ttl = SessionTtl]
    /\ lease' = [lease EXCEPT ![h] = [held |-> TRUE, cursor |-> lastSeq + n,
                     replayed |-> TRUE, lapsed |-> @.lapsed,
                     view |-> @.view \cup ((lastSeq + 1)..(lastSeq + n))]]
    /\ UNCHANGED <<exists, jobs, worker, retries, cancels>>

(* The cursor check failed: StaleReplay, and the lease must replay again.  *)
AppendStale(h) ==
    /\ OwnsLive(h)
    /\ lease[h].replayed
    /\ ~CursorCurrent(h)
    /\ lease' = [lease EXCEPT ![h].replayed = FALSE]
    /\ UNCHANGED <<exists, lastSeq, turnEnds, claim, jobs, worker, retries, cancels>>

-----------------------------------------------------------------------------
(* Calls that need no lease and are refused while one is live.             *)

SetSessionTitle ==
    /\ exists
    /\ ~SessionLive
    /\ claim' = NoClaim
    /\ UNCHANGED <<exists, lastSeq, turnEnds, lease, jobs, worker, retries, cancels>>

AppendEvent ==
    /\ exists
    /\ ~SessionLive
    /\ lastSeq < MaxSeq
    /\ claim' = NoClaim
    /\ lastSeq' = lastSeq + 1
    /\ turnEnds' = turnEnds \cup {lastSeq + 1}
    /\ UNCHANGED <<exists, lease, jobs, worker, retries, cancels>>

(* ON DELETE CASCADE takes the events and the jobs along.                  *)
Erase ==
    /\ exists' = FALSE
    /\ lastSeq' = 0
    /\ turnEnds' = {}
    /\ claim' = NoClaim
    /\ jobs' = [t \in Seqs |-> NoJob]

NoLiveWorker == \A t \in Seqs : ~(jobs[t].state = "running" /\ jobs[t].ttl > 0)

DeleteSession ==
    /\ exists
    /\ ~SessionLive
    /\ NoLiveWorker
    /\ Erase
    /\ UNCHANGED <<lease, worker, retries, cancels>>

(* Expired claims are cleared, expired jobs counted as failures, and a     *)
(* session past its retention age is deleted.                              *)
Maintain ==
    /\ exists
    /\ \/ /\ claim' = IF claim.ttl = 0 THEN NoClaim ELSE claim
          /\ jobs' = Recovered
          /\ UNCHANGED <<exists, lastSeq, turnEnds>>
       \/ ~SessionLive /\ NoLiveWorker /\ Erase
    /\ UNCHANGED <<lease, worker, retries, cancels>>

-----------------------------------------------------------------------------
(* Compaction jobs.                                                        *)

(* Mutant: only the boundaries of earlier jobs are compared.               *)
IncludesPriorBoundary(t) == \A c \in Completed : c <= t

IncludesPriorSummary(t) == \A c \in Completed : jobs[c].summary <= t

(* A boundary below the newest summary is refused, and so is one while     *)
(* another job is active.  A job that exists already is left as it is.     *)
QueueCompaction(t) ==
    /\ exists
    /\ t \in turnEnds
    /\ jobs[t].state = "none"
    /\ Active = {}
    /\ IncludesPriorSummary(t)
    /\ jobs' = [jobs EXCEPT ![t] =
                   [NoJob EXCEPT !.state = "pending",
                                 !.born = Cardinality({j \in Seqs : jobs[j].state # "none"})]]
    /\ UNCHANGED <<exists, lastSeq, turnEnds, claim, lease, worker, retries, cancels>>

(* The jobs a worker may claim once expired claims have been recovered.    *)
Claimable(js) ==
    IF SessionLive THEN {} ELSE {t \in Seqs : js[t].state = "pending" /\ js[t].wait = 0}

Oldest(js, t) == t \in Claimable(js) /\ \A u \in Claimable(js) : js[t].born <= js[u].born

ClaimCompaction(w) ==
    /\ worker[w].through = 0
    /\ \/ \E t \in Seqs :
            /\ Oldest(Recovered, t)
            /\ jobs' = [Recovered EXCEPT ![t] = JobStarted(@, w)]
            /\ worker' = [worker EXCEPT ![w] = [through |-> t, source |-> {}]]
       \/ /\ Claimable(Recovered) = {}
          /\ jobs' = Recovered
          /\ UNCHANGED worker
    /\ UNCHANGED <<exists, lastSeq, turnEnds, claim, lease, retries, cancels>>

RecoverStaleCompactions ==
    /\ jobs' = Recovered
    /\ UNCHANGED <<exists, lastSeq, turnEnds, claim, lease, worker, retries, cancels>>

(* The replayed events up to the boundary, expanded to what they stand for.*)
CompactionSource(w) ==
    LET E == {e \in ReplayEvents : e <= worker[w].through} IN
    /\ HoldsJob(w)
    /\ Readable
    /\ E # {}
    /\ worker' = [worker EXCEPT ![w].source = Expand(E)]
    /\ UNCHANGED <<exists, lastSeq, turnEnds, claim, lease, jobs, retries, cancels>>

(* Only the token is checked: an expired claim not yet recovered revives.  *)
RenewCompaction(w) ==
    /\ OwnsJob(w)
    /\ jobs' = [jobs EXCEPT ![worker[w].through] = [@ EXCEPT !.ttl = WorkerTtl]]
    /\ UNCHANGED <<exists, lastSeq, turnEnds, claim, lease, worker, retries, cancels>>

RecordCompactionFailure(w, permanent) ==
    /\ OwnsJob(w)
    /\ jobs' = [jobs EXCEPT ![worker[w].through] = JobFailure(@, permanent)]
    /\ worker' = [worker EXCEPT ![w] = NoWorker]
    /\ UNCHANGED <<exists, lastSeq, turnEnds, claim, lease, retries, cancels>>

(* Called when the session turned out to be live at completion, and when   *)
(* the operator cancels the worker.                                        *)
ReleaseCompaction(w) ==
    /\ OwnsJob(w)
    /\ jobs' = [jobs EXCEPT ![worker[w].through] = JobReleased(@)]
    /\ worker' = [worker EXCEPT ![w] = NoWorker]
    /\ \/ SessionLive /\ UNCHANGED cancels
       \/ cancels < MaxCancels /\ cancels' = cancels + 1
    /\ UNCHANGED <<exists, lastSeq, turnEnds, claim, lease, retries>>

CompleteCompaction(w) ==
    /\ HoldsJob(w)
    /\ worker[w].source # {}
    /\ ~SessionLive
    /\ lastSeq < MaxSeq
    /\ lastSeq' = lastSeq + 1
    /\ turnEnds' = turnEnds \cup {lastSeq + 1}
    /\ jobs' = [jobs EXCEPT ![worker[w].through] =
                   JobCompleted(@, lastSeq + 1, worker[w].source)]
    /\ worker' = [worker EXCEPT ![w] = NoWorker]
    /\ UNCHANGED <<exists, claim, lease, retries, cancels>>

(* The destructor records a retryable failure unless the database is busy; *)
(* a crash leaves the claim to expire.  A lost claim is dropped as well.   *)
DropCompactionLease(w) ==
    /\ worker[w].through # 0
    /\ worker' = [worker EXCEPT ![w] = NoWorker]
    /\ \/ ~OwnsJob(w) /\ UNCHANGED jobs
       \/ OwnsJob(w) /\ jobs' = [jobs EXCEPT ![worker[w].through] = JobFailure(@, FALSE)]
       \/ OwnsJob(w) /\ jobs' = [jobs EXCEPT ![worker[w].through] = [@ EXCEPT !.holder = Orphan]]
    /\ UNCHANGED <<exists, lastSeq, turnEnds, claim, lease, retries, cancels>>

RetryFailedJob(t) ==
    /\ jobs[t].state = "failed"
    /\ retries < MaxRetries
    /\ retries' = retries + 1
    /\ jobs' = [jobs EXCEPT ![t] = JobRequeued(@)]
    /\ UNCHANGED <<exists, lastSeq, turnEnds, claim, lease, worker, cancels>>

-----------------------------------------------------------------------------
(* Mutant: the subtraction does not stop at zero.                          *)
LessUnchecked(n) == n - 1

Less(n) == IF n = 0 THEN 0 ELSE n - 1

(* One tick of the wall clock that every deadline is compared with.        *)
Tick ==
    /\ claim' = [claim EXCEPT !.ttl = Less(@)]
    /\ lease' = [h \in Handles |->
                   [lease[h] EXCEPT !.lapsed = @ \/ (claim.holder = h /\ claim.ttl <= 1)]]
    /\ jobs' = [t \in Seqs |-> [jobs[t] EXCEPT !.ttl = Less(@), !.wait = Less(@)]]
    /\ UNCHANGED <<exists, lastSeq, turnEnds, worker, retries, cancels>>

Init ==
    /\ exists = TRUE
    /\ lastSeq = 0
    /\ turnEnds = {}
    /\ claim = NoClaim
    /\ lease = [h \in Handles |-> NoLease]
    /\ jobs = [t \in Seqs |-> NoJob]
    /\ worker = [w \in Workers |-> NoWorker]
    /\ retries = 0
    /\ cancels = 0

OwnerStep(h) ==
    \/ ClaimSession(h)
    \/ RenewSession(h)
    \/ ReleaseSession(h)
    \/ DropSessionLease(h)
    \/ ReplaySession(h)
    \/ \E n \in 1..MaxTurn : AppendTurn(h, n)
    \/ AppendStale(h)

WorkerStep(w) ==
    \/ ClaimCompaction(w)
    \/ CompactionSource(w)
    \/ RenewCompaction(w)
    \/ \E permanent \in BOOLEAN : RecordCompactionFailure(w, permanent)
    \/ ReleaseCompaction(w)
    \/ CompleteCompaction(w)
    \/ DropCompactionLease(w)

StoreStep ==
    \/ SetSessionTitle
    \/ AppendEvent
    \/ DeleteSession
    \/ Maintain
    \/ RecoverStaleCompactions
    \/ \E t \in Seqs : QueueCompaction(t) \/ RetryFailedJob(t)

Next ==
    \/ \E h \in Handles : OwnerStep(h)
    \/ \E w \in Workers : WorkerStep(w)
    \/ StoreStep
    \/ Tick

Spec == Init /\ [][Next]_vars

(* A worker that holds a job finishes it: generation is bounded by its     *)
(* token limit, and then the worker completes, records a failure or exits. *)
FinishJob(w) ==
    \/ CompleteCompaction(w)
    \/ \E permanent \in BOOLEAN : RecordCompactionFailure(w, permanent)
    \/ DropCompactionLease(w)

(* Time passes, and `emelex memory work` is run again and again.           *)
FairSpec ==
    /\ Spec
    /\ WF_vars(Tick)
    /\ \A w \in Workers : WF_vars(ClaimCompaction(w)) /\ WF_vars(FinishJob(w))

-----------------------------------------------------------------------------
(* Properties.                                                             *)

(* An owner whose lease never ran out since it claimed or replayed keeps   *)
(* the session: the row exists, its token is the current one, and what it  *)
(* replayed is still the whole effective transcript.  Nothing that others  *)
(* do (claims, lease-free appends, titles, maintenance, deletion, a        *)
(* compaction finishing) can take that away; only its own lapse can.       *)
PromptOwnerKeepsAuthority ==
    \A h \in Handles :
        lease[h].held /\ ~lease[h].lapsed =>
            /\ exists
            /\ claim.holder = h
            /\ claim.ttl > 0
            /\ lease[h].replayed => /\ lease[h].cursor = lastSeq
                                   /\ lease[h].view = ReplayEvents

(* A turn is appended only by an owner that has been shown, or has written *)
(* itself, exactly the transcript a replay would return at that moment:    *)
(* also after its lease expired and was revived by a renewal.              *)
AppendOnReplayedHistory ==
    [][\A h \in Handles :
          lastSeq' > lastSeq /\ lease'[h] # lease[h] => lease[h].view = ReplayEvents]_vars

(* load_session_replay never finds another summary in the tail it reads    *)
(* after the newest compaction: the session can always be resumed.         *)
ReplayReadable == exists => Readable

(* Replay loses nothing: what its events stand for, the summary expanded   *)
(* to the events it was generated from, is the whole raw transcript.       *)
HistoryCovered == exists => Expand(ReplayEvents) = RawEvents

(* A completed compaction is final: no late call of a worker whose claim   *)
(* expired meanwhile rewrites the job or its summary.                      *)
CompletionIsFinal ==
    [][\A t \in Seqs : jobs[t].state = "completed" => jobs'[t] \in {jobs[t], NoJob}]_vars

(* A worker that crashed has always spent one attempt: its job leaves the  *)
(* running state with one more failure on record.                          *)
CrashIsCounted ==
    [][\A t \in Seqs :
          /\ jobs[t].state = "running" /\ jobs[t].holder = Orphan
          /\ jobs'[t].state \notin {"running", "none"}
          => jobs'[t].fails = jobs[t].fails + 1]_vars

(* Once the session is left alone, there is always a time when every       *)
(* compaction that was queued is completed or parked as failed: crashes,   *)
(* expired claims and backoff cannot make workers try one forever.         *)
JobSettles ==
    <>[](~SessionLive) =>
        []<>(\A t \in Seqs : jobs[t].state \notin {"pending", "running"})

(* Workers that die, lose their claim or give up cannot keep a compaction  *)
(* alive: each attempt that ends in a crash is counted, and the job of a   *)
(* session that is left alone comes to an end.                             *)
JobsSettle == CrashIsCounted /\ JobSettles
=============================================================================
