------------------------------ MODULE Knowledge ------------------------------
(***************************************************************************)
(* Workspace Knowledge and the distillation jobs that feed it.  The user   *)
(* remembers, activates, pins and forgets entries; workers apply the       *)
(* candidates a model proposed from a Session's transcript; maintenance    *)
(* hides, removes and prunes.  Every call is one SQLite transaction, hence *)
(* one action.                                                             *)
(*                                                                         *)
(* Abstractions.                                                           *)
(*  - Only the age of a row matters to retention: ages count ticks and     *)
(*    stop at the retention window they are compared with.                 *)
(*  - A distillation job is named by its boundary: transcripts only grow,  *)
(*    so equal boundaries are equal source digests.                        *)
(*  - A version is its number and the job that proposed it (0: the user).  *)
(*  - The Session is its length, whether it exists and whether its         *)
(*    execution lease is live; SessionStore has the rest.                  *)
(***************************************************************************)
EXTENDS Integers, FiniteSets, FiniteSetsExt

CONSTANTS
    Keys,           \* knowledge keys of one workspace
    Workers,        \* slots for DistillationLease values
    NoOne,          \* a NULL claim token
    Orphan,         \* a token whose lease value no longer exists
    MaxSeq,         \* bound: events of the session
    MaxVersion,     \* bound: versions of one entry
    Keep,           \* versions_per_key
    MaxAge,         \* knowledge_max_age in ticks
    Grace,          \* tombstone_grace in ticks
    WorkerTtl,      \* DISTILLATION_LEASE in ticks
    Backoff,        \* the delay before a retry in ticks
    MaxRetries      \* bound: retries of failed jobs by the operator

ASSUME KnowledgeAssumption ==
    /\ NoOne \notin Workers /\ Orphan \notin Workers /\ NoOne # Orphan
    /\ MaxSeq \in Nat /\ MaxVersion \in Nat /\ MaxRetries \in Nat /\ Backoff \in Nat
    /\ Keep \in Nat \ {0} /\ MaxAge \in Nat \ {0} /\ Grace \in Nat \ {0}
    /\ WorkerTtl \in Nat \ {0}

MAX_JOB_FAILURES == 3

VARIABLES
    session,    \* the source session
    rows,       \* the knowledge rows with their knowledge_versions
    jobs,       \* distillation_jobs, by through_sequence
    worker,     \* the job of each DistillationLease, 0 when the slot is free
    retries,    \* operator retries so far
    hist        \* history, see below

vars == <<session, rows, jobs, worker, retries, hist>>

Seqs == 1..MaxSeq

Session == [exists : BOOLEAN, live : BOOLEAN, last : 0..MaxSeq]

(* active = 0: there is no row for the key.                                *)
Row == [active : 0..MaxVersion, versions : SUBSET [v : 1..MaxVersion, by : 0..MaxSeq],
        pinned : BOOLEAN, tombstoned : BOOLEAN, age : 0..MaxAge, tombAge : 0..Grace]

NoRow == [active |-> 0, versions |-> {}, pinned |-> FALSE, tombstoned |-> FALSE,
          age |-> 0, tombAge |-> 0]

Job == [state : {"none", "pending", "running", "completed", "failed"},
        fails : 0..MAX_JOB_FAILURES, wait : 0..Backoff,
        holder : Workers \cup {NoOne, Orphan}, ttl : 0..WorkerTtl]

NoJob == [state |-> "none", fails |-> 0, wait |-> 0, holder |-> NoOne, ttl |-> 0]

(* spent: the version numbers ever given out under the entry's id; hidden: *)
(* ticks since the entry was last visible; audit: age of its newest audit  *)
(* record (Grace when it has none); applied: how often the candidates of a *)
(* job were applied.                                                       *)
History == [spent : [Keys -> SUBSET (1..MaxVersion)], hidden : [Keys -> 0..Grace],
            audit : [Keys -> 0..Grace], applied : [Seqs -> Nat]]

TypeOK ==
    /\ session \in Session
    /\ rows \in [Keys -> Row]
    /\ jobs \in [Seqs -> Job]
    /\ worker \in [Workers -> 0..MaxSeq]
    /\ retries \in 0..MaxRetries
    /\ hist \in History

-----------------------------------------------------------------------------
(* Rows.                                                                   *)

Stored(row) == row.active # 0

Numbers(row) == {x.v : x \in row.versions}

(* COALESCE(MAX(version), 0) + 1                                           *)
NextVersion(row) == IF row.versions = {} THEN 1 ELSE Max(Numbers(row)) + 1

(* remember and apply_distilled_version: append a version, make it active  *)
(* and the entry visible.  `pin` can only add a pin.                       *)
WithVersion(row, by, pin) ==
    LET v == NextVersion(row) IN
    [active |-> v, versions |-> row.versions \cup {[v |-> v, by |-> by]},
     pinned |-> row.pinned \/ pin, tombstoned |-> FALSE, age |-> 0, tombAge |-> 0]

(* Mutant: hiding an entry again leaves the time of the first tombstone.   *)
TombstoneOnce(row) ==
    IF row.tombstoned THEN [row EXCEPT !.age = 0]
    ELSE [row EXCEPT !.tombstoned = TRUE, !.tombAge = 0, !.age = 0]

(* The tombstone of a distillation candidate.                              *)
Tombstone(row) == [row EXCEPT !.tombstoned = TRUE, !.tombAge = 0, !.age = 0]

MayTombstone(row) == Stored(row) /\ ~row.pinned

(* What one candidate does to its entry: candidates have distinct keys.    *)
Applied(row, candidate, by) ==
    CASE candidate = "none" -> row
      [] candidate = "upsert" -> WithVersion(row, by, FALSE)
      [] candidate = "upsertPinned" -> WithVersion(row, by, TRUE)
      [] candidate = "tombstone" -> IF MayTombstone(row) THEN Tombstone(row) ELSE row

Candidates == {"none", "upsert", "upsertPinned", "tombstone"}

(* retained_rank: 1 for the newest version.                                *)
Rank(row, x) == Cardinality({y \in row.versions : y.v >= x.v})

(* Mutant: pruning goes by rank alone.                                     *)
PrunedByRank(row) ==
    IF row.pinned THEN row
    ELSE [row EXCEPT !.versions = {x \in @ : Rank(row, x) <= Keep}]

Pruned(row) ==
    IF row.pinned THEN row
    ELSE [row EXCEPT !.versions = {x \in @ : x.v = row.active \/ Rank(row, x) <= Keep}]

(* One maintenance pass over an entry: hide it when it is old, remove it   *)
(* when its tombstone is old, prune its versions.                          *)
Hidden(row) ==
    IF Stored(row) /\ ~row.pinned /\ ~row.tombstoned /\ row.age >= MaxAge
    THEN [row EXCEPT !.tombstoned = TRUE, !.tombAge = 0, !.age = 0] ELSE row

Removable(row) == Stored(row) /\ ~row.pinned /\ row.tombstoned /\ row.tombAge >= Grace

Retained(row) ==
    LET hid == Hidden(row) IN IF Removable(hid) THEN NoRow ELSE Pruned(hid)

-----------------------------------------------------------------------------
(* Job rows.                                                               *)

JobFailure(job, permanent) ==
    LET f == job.fails + 1
        last == permanent \/ f >= MAX_JOB_FAILURES
    IN  [state |-> IF last THEN "failed" ELSE "pending", fails |-> f,
         wait |-> IF last THEN 0 ELSE Backoff, holder |-> NoOne, ttl |-> 0]

Expired(job) == job.state = "running" /\ job.ttl = 0

Recovered ==
    [t \in Seqs |-> IF Expired(jobs[t]) THEN JobFailure(jobs[t], FALSE) ELSE jobs[t]]

OwnsJob(w) ==
    worker[w] \in Seqs /\ jobs[worker[w]].state = "running" /\ jobs[worker[w]].holder = w

(* Mutant: the worker's job row is found by its id alone.                  *)
HoldsJobById(w) == worker[w] \in Seqs /\ jobs[worker[w]].state # "none"

(* validate_distillation_lease                                             *)
HoldsJob(w) == OwnsJob(w) /\ jobs[worker[w]].ttl > 0

NoLiveWorker == \A t \in Seqs : ~(jobs[t].state = "running" /\ jobs[t].ttl > 0)

(* Claimable jobs once expired claims have been recovered.  They were all  *)
(* queued at growing boundaries, so the oldest has the least boundary.     *)
Claimable(js) ==
    {t \in Seqs : ~session.live /\ js[t].state = "pending" /\ js[t].wait = 0}

-----------------------------------------------------------------------------
(* The history that goes with new rows: an entry that has no row starts    *)
(* over with its next row.  `audited` are the entries whose tombstone is   *)
(* put on record.                                                          *)
HistoryOf(newRows, audited) ==
    [hist EXCEPT
        !.spent = [k \in Keys |-> IF Stored(newRows[k]) THEN @[k] \cup Numbers(newRows[k]) ELSE {}],
        !.hidden = [k \in Keys |-> IF Stored(newRows[k]) /\ newRows[k].tombstoned THEN @[k] ELSE 0],
        !.audit = [k \in Keys |-> IF ~Stored(newRows[k]) THEN Grace
                                  ELSE IF k \in audited THEN 0 ELSE @[k]]]

SetRow(k, row, audited) ==
    /\ rows' = [rows EXCEPT ![k] = row]
    /\ hist' = HistoryOf(rows', audited)

-----------------------------------------------------------------------------
(* The user's calls.                                                       *)

Remember(k) ==
    /\ NextVersion(rows[k]) <= MaxVersion
    /\ SetRow(k, WithVersion(rows[k], 0, FALSE), {})
    /\ UNCHANGED <<session, jobs, worker, retries>>

ActivateKnowledge(k, v) ==
    /\ v \in Numbers(rows[k])
    /\ SetRow(k, [rows[k] EXCEPT !.active = v, !.tombstoned = FALSE, !.tombAge = 0, !.age = 0], {})
    /\ UNCHANGED <<session, jobs, worker, retries>>

SetKnowledgePinned(k, pinned) ==
    /\ Stored(rows[k])
    /\ SetRow(k, [rows[k] EXCEPT !.pinned = pinned, !.age = 0], {})
    /\ UNCHANGED <<session, jobs, worker, retries>>

(* Forgetting also removes the pin; a hidden entry is left as it is.       *)
DeleteKnowledge(k) ==
    /\ Stored(rows[k]) /\ ~rows[k].tombstoned
    /\ SetRow(k, [rows[k] EXCEPT !.tombstoned = TRUE, !.tombAge = 0, !.pinned = FALSE, !.age = 0], {k})
    /\ UNCHANGED <<session, jobs, worker, retries>>

-----------------------------------------------------------------------------
(* The session: claimed, grown and left by its owner, deleted by anyone.   *)

OwnerStep ==
    /\ session.exists
    /\ \/ session' = [session EXCEPT !.live = ~@]
       \/ session.live /\ session.last < MaxSeq /\ session' = [session EXCEPT !.last = @ + 1]
    /\ UNCHANGED <<rows, jobs, worker, retries, hist>>

(* ON DELETE CASCADE takes the jobs along; what they taught stays.         *)
Erase ==
    /\ session' = [exists |-> FALSE, live |-> FALSE, last |-> 0]
    /\ jobs' = [t \in Seqs |-> NoJob]

DeleteSession ==
    /\ session.exists /\ ~session.live /\ NoLiveWorker
    /\ Erase
    /\ UNCHANGED <<rows, worker, retries, hist>>

(* The whole transcript, once per source digest.                           *)
QueueDistillation ==
    /\ session.exists
    /\ session.last > 0
    /\ jobs[session.last].state = "none"
    /\ jobs' = [jobs EXCEPT ![session.last] = [NoJob EXCEPT !.state = "pending"]]
    /\ UNCHANGED <<session, rows, worker, retries, hist>>

-----------------------------------------------------------------------------
(* The workers.                                                            *)

ClaimDistillation(w) ==
    /\ worker[w] = 0
    /\ IF Claimable(Recovered) = {}
       THEN jobs' = Recovered /\ UNCHANGED worker
       ELSE LET t == Min(Claimable(Recovered)) IN
            /\ jobs' = [Recovered EXCEPT ![t] =
                          [@ EXCEPT !.state = "running", !.holder = w, !.ttl = WorkerTtl]]
            /\ worker' = [worker EXCEPT ![w] = t]
    /\ UNCHANGED <<session, rows, retries, hist>>

(* Only the token is checked: an expired claim not yet recovered revives.  *)
RenewDistillation(w) ==
    /\ OwnsJob(w)
    /\ jobs' = [jobs EXCEPT ![worker[w]] = [@ EXCEPT !.ttl = WorkerTtl]]
    /\ UNCHANGED <<session, rows, worker, retries, hist>>

RecordDistillationFailure(w, permanent) ==
    /\ OwnsJob(w)
    /\ jobs' = [jobs EXCEPT ![worker[w]] = JobFailure(@, permanent)]
    /\ worker' = [worker EXCEPT ![w] = 0]
    /\ UNCHANGED <<session, rows, retries, hist>>

(* Cancelled by the operator, or the session turned out to be live.        *)
AbandonDistillation(w) ==
    /\ OwnsJob(w)
    /\ jobs' = [jobs EXCEPT ![worker[w]] =
                  [@ EXCEPT !.state = "pending", !.holder = NoOne, !.ttl = 0]]
    /\ worker' = [worker EXCEPT ![w] = 0]
    /\ UNCHANGED <<session, rows, retries, hist>>

(* All candidates and the completion in one transaction.                   *)
CompleteDistillation(w, candidates) ==
    LET t == worker[w] IN
    /\ HoldsJob(w)
    /\ ~session.live
    /\ rows' = [k \in Keys |-> Applied(rows[k], candidates[k], t)]
    /\ \A k \in Keys : rows'[k].active <= MaxVersion
    /\ jobs' = [jobs EXCEPT ![t] = [NoJob EXCEPT !.state = "completed", !.fails = jobs[t].fails]]
    /\ worker' = [worker EXCEPT ![w] = 0]
    /\ hist' = [HistoryOf(rows', {k \in Keys : candidates[k] = "tombstone" /\ MayTombstone(rows[k])})
                  EXCEPT !.applied[t] = @ + 1]
    /\ UNCHANGED <<session, retries>>

(* The destructor records a retryable failure unless the database is busy; *)
(* a crash leaves the claim to expire.  A lost claim is dropped as well.   *)
DropDistillationLease(w) ==
    /\ worker[w] # 0
    /\ worker' = [worker EXCEPT ![w] = 0]
    /\ \/ ~OwnsJob(w) /\ UNCHANGED jobs
       \/ OwnsJob(w) /\ jobs' = [jobs EXCEPT ![worker[w]] = JobFailure(@, FALSE)]
       \/ OwnsJob(w) /\ jobs' = [jobs EXCEPT ![worker[w]] = [@ EXCEPT !.holder = Orphan]]
    /\ UNCHANGED <<session, rows, retries, hist>>

RetryFailedJob(t) ==
    /\ jobs[t].state = "failed"
    /\ retries < MaxRetries
    /\ retries' = retries + 1
    /\ jobs' = [jobs EXCEPT ![t] = [NoJob EXCEPT !.state = "pending"]]
    /\ UNCHANGED <<session, rows, worker, hist>>

-----------------------------------------------------------------------------
(* One maintenance transaction; the cap on rows per phase is not reached.  *)
Maintain ==
    /\ rows' = [k \in Keys |-> Retained(rows[k])]
    /\ hist' = HistoryOf(rows', {})
    /\ \/ jobs' = Recovered /\ UNCHANGED session
       \/ session.exists /\ ~session.live /\ NoLiveWorker /\ Erase
    /\ UNCHANGED <<worker, retries>>

Sooner(n, cap) == IF n < cap THEN n + 1 ELSE cap

Less(n) == IF n = 0 THEN 0 ELSE n - 1

Tick ==
    /\ rows' = [k \in Keys |->
          IF ~Stored(rows[k]) THEN rows[k]
          ELSE [rows[k] EXCEPT !.age = Sooner(@, MaxAge),
                               !.tombAge = IF rows[k].tombstoned THEN Sooner(@, Grace) ELSE 0]]
    /\ jobs' = [t \in Seqs |-> [jobs[t] EXCEPT !.ttl = Less(@), !.wait = Less(@)]]
    /\ hist' = [hist EXCEPT
          !.hidden = [k \in Keys |-> IF rows[k].tombstoned THEN Sooner(@[k], Grace) ELSE 0],
          !.audit = [k \in Keys |-> Sooner(@[k], Grace)]]
    /\ UNCHANGED <<session, worker, retries>>

Init ==
    /\ session = [exists |-> TRUE, live |-> FALSE, last |-> 0]
    /\ rows = [k \in Keys |-> NoRow]
    /\ jobs = [t \in Seqs |-> NoJob]
    /\ worker = [w \in Workers |-> 0]
    /\ retries = 0
    /\ hist = [spent |-> [k \in Keys |-> {}], hidden |-> [k \in Keys |-> 0],
               audit |-> [k \in Keys |-> Grace], applied |-> [t \in Seqs |-> 0]]

UserStep(k) ==
    \/ Remember(k)
    \/ \E v \in 1..MaxVersion : ActivateKnowledge(k, v)
    \/ \E pinned \in BOOLEAN : SetKnowledgePinned(k, pinned)
    \/ DeleteKnowledge(k)

WorkerStep(w) ==
    \/ ClaimDistillation(w)
    \/ RenewDistillation(w)
    \/ \E permanent \in BOOLEAN : RecordDistillationFailure(w, permanent)
    \/ AbandonDistillation(w)
    \/ worker[w] # 0 /\ \E candidates \in [Keys -> Candidates] : CompleteDistillation(w, candidates)
    \/ DropDistillationLease(w)

Next ==
    \/ \E k \in Keys : UserStep(k)
    \/ \E w \in Workers : WorkerStep(w)
    \/ OwnerStep
    \/ DeleteSession
    \/ QueueDistillation
    \/ \E t \in Seqs : RetryFailedJob(t)
    \/ Maintain
    \/ Tick

Spec == Init /\ [][Next]_vars

-----------------------------------------------------------------------------
(* Properties.                                                             *)

(* The active version of every entry is there: activating an old version,  *)
(* pruning and new versions in any order never leave active_version, which *)
(* no foreign key protects, pointing at a pruned version.                  *)
ActiveIsStored == \A k \in Keys : Stored(rows[k]) => rows[k].active \in Numbers(rows[k])

(* A version number names one version for ever: no version appended after  *)
(* activations and pruning takes a number that was given out before.       *)
VersionNumbersAreFresh ==
    [][\A k \in Keys :
          Stored(rows[k]) => \A x \in rows'[k].versions \ rows[k].versions :
                                x.v \notin hist.spent[k]]_vars

(* A pinned entry stays visible with all its versions until the user       *)
(* forgets it, whatever distillation and maintenance do meanwhile.         *)
PinsHold ==
    [][\A k \in Keys :
          Stored(rows[k]) /\ rows[k].pinned =>
              \/ /\ Stored(rows'[k])
                 /\ rows'[k].tombstoned => rows[k].tombstoned
                 /\ rows[k].versions \subseteq rows'[k].versions
              \/ DeleteKnowledge(k)]_vars

(* What is removed was hidden, and every record of why it was hidden kept, *)
(* for the whole grace period, also when it was hidden more than once.     *)
GraceIsKept ==
    [][\A k \in Keys :
          Stored(rows[k]) /\ ~Stored(rows'[k]) => hist.hidden[k] = Grace /\ hist.audit[k] = Grace]_vars

(* The candidates of a job are applied once and only by its completion,    *)
(* however many workers lost, dropped or were late with its claim.         *)
AppliedOnce ==
    session.exists =>
        \A t \in Seqs : hist.applied[t] = IF jobs[t].state = "completed" THEN 1 ELSE 0

(* An entry never points at a version that is gone or that is not the one  *)
(* that once had its number.                                               *)
VersionsAreSound == [](TypeOK /\ ActiveIsStored) /\ VersionNumbersAreFresh

(* Nothing goes early: neither what is pinned nor what is still within its *)
(* grace is taken away by distillation or maintenance.                     *)
RetentionIsKept == PinsHold /\ GraceIsKept
=============================================================================
