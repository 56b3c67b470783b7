-------------------------- MODULE SessionStoreProofs --------------------------
(* Theorems about SessionStore for every number of slots, events and ticks.*)
EXTENDS SessionStore, FiniteSetTheorems, WellFoundedInduction, TLAPS

(* job_failure_transition turns a job row into a job row.                  *)
LEMMA JobFailureType ==
    ASSUME NEW job \in Job, NEW permanent \in BOOLEAN
    PROVE  JobFailure(job, permanent) \in Job
  <1> DEFINE f == job.fails + 1
  <1>1. f \in Nat /\ Backoff(f) \in Nat
    BY TimesAssumption DEF Job, Backoff
  <1>2. [job EXCEPT !.state = "failed", !.fails = f, !.wait = 0,
                    !.holder = NoOne, !.ttl = 0] \in Job
    BY <1>1 DEF Job, JobStates
  <1>3. [job EXCEPT !.state = "pending", !.fails = f, !.wait = Backoff(f),
                    !.holder = NoOne, !.ttl = 0] \in Job
    BY <1>1 DEF Job, JobStates
  <1> QED BY <1>2, <1>3 DEF JobFailure

(* So does every other transition of a job row.                            *)
LEMMA JobTypes ==
    ASSUME NEW job \in Job
    PROVE  /\ \A w \in Workers : JobStarted(job, w) \in Job
           /\ JobReleased(job) \in Job
           /\ \A seq \in Nat, E \in SUBSET Nat : JobCompleted(job, seq, E) \in Job
           /\ JobRequeued(job) \in Job
           /\ [job EXCEPT !.ttl = WorkerTtl] \in Job
           /\ [job EXCEPT !.holder = Orphan] \in Job
           /\ [job EXCEPT !.ttl = Less(@), !.wait = Less(@)] \in Job
           /\ NoJob \in Job
  <1> USE TimesAssumption DEF Job, JobStates
  <1>1. \A w \in Workers : JobStarted(job, w) \in Job
    BY DEF JobStarted
  <1>2. JobReleased(job) \in Job
    BY DEF JobReleased
  <1>3. \A seq \in Nat, E \in SUBSET Nat : JobCompleted(job, seq, E) \in Job
    BY DEF JobCompleted
  <1>4. JobRequeued(job) \in Job
    BY DEF JobRequeued
  <1>5. [job EXCEPT !.ttl = WorkerTtl] \in Job
    OBVIOUS
  <1>6. [job EXCEPT !.holder = Orphan] \in Job
    OBVIOUS
  <1>7. [job EXCEPT !.ttl = Less(@), !.wait = Less(@)] \in Job
    <2>1. Less(job.ttl) \in Nat /\ Less(job.wait) \in Nat
      BY DEF Less
    <2> QED BY <2>1
  <1>8. NoJob \in Job
    BY DEF NoJob
  <1> QED BY <1>1, <1>2, <1>3, <1>4, <1>5, <1>6, <1>7, <1>8

(* Recovering every expired claim keeps the table a table of jobs.         *)
LEMMA RecoveredType ==
    ASSUME jobs \in [Seqs -> Job]
    PROVE  Recovered \in [Seqs -> Job]
  BY JobFailureType DEF Recovered

(* The sets replay works with hold sequence numbers.                       *)
LEMMA ReplayTypes ==
    ASSUME TypeOK
    PROVE  /\ ReplayEvents \in SUBSET Nat
           /\ \A E \in SUBSET Nat : Expand(E) \in SUBSET Nat
  <1>1. ASSUME NEW c \in Completed
        PROVE  jobs[c].summary \in Nat /\ jobs[c].covers \in SUBSET Nat
    BY <1>1 DEF TypeOK, Completed, Job
  <1>2. 1..lastSeq \in SUBSET Nat
    BY BoundsAssumption DEF TypeOK
  <1>3. ReplayEvents \in SUBSET Nat
    BY <1>1, <1>2 DEF ReplayEvents, TailOf
  <1>4. \A E \in SUBSET Nat : Expand(E) \in SUBSET Nat
    BY <1>1 DEF Expand
  <1> QED BY <1>3, <1>4

(* The number of jobs queued so far is a number.                           *)
LEMMA BornType == Cardinality({j \in Seqs : jobs[j].state # "none"}) \in Nat
  <1>1. IsFiniteSet(Seqs)
    BY FS_Interval, BoundsAssumption DEF Seqs
  <1>2. IsFiniteSet({j \in Seqs : jobs[j].state # "none"})
    BY <1>1, FS_Subset
  <1> QED BY <1>2, FS_CardinalityType

(* The cascade of a deletion leaves well formed, empty rows.               *)
LEMMA EraseType ==
    ASSUME Erase
    PROVE  /\ exists' \in BOOLEAN
           /\ lastSeq' \in 0..MaxSeq
           /\ turnEnds' \in SUBSET Seqs
           /\ claim' \in Claim
           /\ jobs' \in [Seqs -> Job]
  <1>1. lastSeq' \in 0..MaxSeq
    BY BoundsAssumption DEF Erase
  <1>2. claim' \in Claim
    BY DEF Erase, NoClaim, Claim
  <1>3. jobs' \in [Seqs -> Job]
    BY DEF Erase, NoJob, Job, JobStates
  <1> QED BY <1>1, <1>2, <1>3 DEF Erase

(* Every call of the store, of any owner or worker, keeps the rows and the *)
(* lease values well formed.                                               *)
LEMMA TypeStep == TypeOK /\ [Next]_vars => TypeOK'
  <1> SUFFICES ASSUME TypeOK, [Next]_vars PROVE TypeOK'
    OBVIOUS
  <1> USE OwnersAssumption, BoundsAssumption, TimesAssumption
  <1>1. ASSUME NEW h \in Handles, OwnerStep(h) PROVE TypeOK'
    <2>1. CASE ClaimSession(h)
      BY <2>1 DEF ClaimSession, TypeOK, Claim, Lease
    <2>2. CASE RenewSession(h)
      BY <2>2 DEF RenewSession, TypeOK, Claim
    <2>3. CASE ReleaseSession(h)
      BY <2>3 DEF ReleaseSession, NoClaim, NoLease, TypeOK, Claim, Lease
    <2>4. CASE DropSessionLease(h)
      BY <2>4 DEF DropSessionLease, NoClaim, NoLease, TypeOK, Claim, Lease
    <2>5. CASE ReplaySession(h)
      BY <2>5, ReplayTypes DEF ReplaySession, TypeOK, Lease
    <2>6. ASSUME NEW n \in 1..MaxTurn, AppendTurn(h, n) PROVE TypeOK'
      <3>1. lastSeq' \in 0..MaxSeq /\ turnEnds' \in SUBSET Seqs
        BY <2>6 DEF AppendTurn, TypeOK, Seqs
      <3>2. lease' \in [Handles -> Lease]
        <4>1. lastSeq + n \in Nat /\ (lastSeq + 1)..(lastSeq + n) \in SUBSET Nat
          BY <2>6 DEF TypeOK
        <4> QED BY <2>6, <4>1 DEF AppendTurn, TypeOK, Lease
      <3>3. claim' \in Claim
        BY <2>6 DEF AppendTurn, TypeOK, Claim
      <3> QED BY <2>6, <3>1, <3>2, <3>3 DEF AppendTurn, TypeOK
    <2>7. CASE AppendStale(h)
      BY <2>7 DEF AppendStale, TypeOK, Lease
    <2> QED BY <1>1, <2>1, <2>2, <2>3, <2>4, <2>5, <2>6, <2>7 DEF OwnerStep
  <1>2. ASSUME NEW w \in Workers, WorkerStep(w) PROVE TypeOK'
    <2>1. CASE ClaimCompaction(w)
      <3>1. Recovered \in [Seqs -> Job]
        BY RecoveredType DEF TypeOK
      <3>2. CASE jobs' = Recovered /\ UNCHANGED worker
        BY <2>1, <3>1, <3>2 DEF ClaimCompaction, TypeOK
      <3>3. ASSUME NEW t \in Seqs,
                   jobs' = [Recovered EXCEPT ![t] = JobStarted(@, w)],
                   worker' = [worker EXCEPT ![w] = [through |-> t, source |-> {}]]
            PROVE  TypeOK'
        <4>1. JobStarted(Recovered[t], w) \in Job
          BY <3>1, JobTypes
        <4>2. jobs' \in [Seqs -> Job]
          BY <3>1, <3>3, <4>1
        <4>3. worker' \in [Workers -> Worker]
          BY <3>3 DEF TypeOK, Worker, Seqs
        <4> QED BY <2>1, <4>2, <4>3 DEF ClaimCompaction, TypeOK
      <3> QED BY <2>1, <3>2, <3>3 DEF ClaimCompaction
    <2>2. CASE CompactionSource(w)
      BY <2>2, ReplayTypes DEF CompactionSource, TypeOK, Worker
    <2>3. CASE RenewCompaction(w)
      BY <2>3, JobTypes DEF RenewCompaction, OwnsJob, TypeOK
    <2>4. ASSUME NEW permanent \in BOOLEAN, RecordCompactionFailure(w, permanent)
          PROVE  TypeOK'
      BY <2>4, JobFailureType DEF RecordCompactionFailure, OwnsJob, NoWorker, Worker, TypeOK
    <2>5. CASE ReleaseCompaction(w)
      <3>1. worker[w].through \in Seqs /\ jobs[worker[w].through] \in Job
        BY <2>5 DEF ReleaseCompaction, OwnsJob, TypeOK
      <3>2. JobReleased(jobs[worker[w].through]) \in Job
        BY <3>1, JobTypes
      <3>3. jobs' \in [Seqs -> Job] /\ worker' \in [Workers -> Worker]
        BY <2>5, <3>1, <3>2 DEF ReleaseCompaction, NoWorker, Worker, TypeOK
      <3> QED BY <2>5, <3>3 DEF ReleaseCompaction, TypeOK
    <2>6. CASE CompleteCompaction(w)
      <3>1. worker[w].through \in Seqs /\ jobs[worker[w].through] \in Job
        BY <2>6 DEF CompleteCompaction, HoldsJob, OwnsJob, TypeOK
      <3>2. lastSeq + 1 \in Nat /\ worker[w].source \in SUBSET Nat
        BY DEF TypeOK, Worker
      <3>3. JobCompleted(jobs[worker[w].through], lastSeq + 1, worker[w].source) \in Job
        BY <3>1, <3>2, JobTypes
      <3>4. jobs' \in [Seqs -> Job] /\ worker' \in [Workers -> Worker]
        BY <2>6, <3>1, <3>3 DEF CompleteCompaction, NoWorker, Worker, TypeOK
      <3>5. lastSeq' \in 0..MaxSeq /\ turnEnds' \in SUBSET Seqs
        <4>1. lastSeq' = lastSeq + 1 /\ lastSeq < MaxSeq /\ turnEnds' = turnEnds \cup {lastSeq + 1}
          BY <2>6 DEF CompleteCompaction
        <4> QED BY <4>1 DEF TypeOK, Seqs
      <3> QED BY <2>6, <3>4, <3>5 DEF CompleteCompaction, TypeOK
    <2>7. CASE DropCompactionLease(w)
      <3>1. worker' \in [Workers -> Worker]
        BY <2>7 DEF DropCompactionLease, NoWorker, Worker, TypeOK
      <3>2. jobs' \in [Seqs -> Job]
        <4>1. CASE UNCHANGED jobs
          BY <4>1 DEF TypeOK
        <4>2. CASE OwnsJob(w)
          <5>1. worker[w].through \in Seqs /\ jobs[worker[w].through] \in Job
            BY <4>2 DEF OwnsJob, TypeOK
          <5>2. /\ JobFailure(jobs[worker[w].through], FALSE) \in Job
                /\ [jobs[worker[w].through] EXCEPT !.holder = Orphan] \in Job
            BY <5>1, JobFailureType, JobTypes
          <5> QED BY <2>7, <5>1, <5>2 DEF DropCompactionLease, TypeOK
        <4> QED BY <2>7, <4>1, <4>2 DEF DropCompactionLease
      <3> QED BY <2>7, <3>1, <3>2 DEF DropCompactionLease, TypeOK
    <2> QED BY <1>2, <2>1, <2>2, <2>3, <2>4, <2>5, <2>6, <2>7 DEF WorkerStep
  <1>3. CASE StoreStep
    <2>1. CASE SetSessionTitle
      BY <2>1 DEF SetSessionTitle, NoClaim, TypeOK, Claim
    <2>2. CASE AppendEvent
      BY <2>2 DEF AppendEvent, NoClaim, TypeOK, Claim, Seqs
    <2>3. CASE DeleteSession
      BY <2>3, EraseType DEF DeleteSession, TypeOK
    <2>4. CASE Maintain
      <3>1. CASE Erase
        BY <2>4, <3>1, EraseType DEF Maintain, TypeOK
      <3>2. CASE ~Erase
        <4>1. claim' \in Claim
          <5>1. claim' = IF claim.ttl = 0 THEN NoClaim ELSE claim
            BY <2>4, <3>2 DEF Maintain
          <5>2. NoClaim \in Claim
            BY DEF NoClaim, Claim
          <5> QED BY <5>1, <5>2 DEF TypeOK
        <4>2. jobs' \in [Seqs -> Job]
          BY <2>4, <3>2, RecoveredType DEF Maintain, TypeOK
        <4> QED BY <2>4, <3>2, <4>1, <4>2 DEF Maintain, TypeOK
      <3> QED BY <3>1, <3>2
    <2>5. CASE RecoverStaleCompactions
      BY <2>5, RecoveredType DEF RecoverStaleCompactions, TypeOK
    <2>6. ASSUME NEW t \in Seqs, QueueCompaction(t) PROVE TypeOK'
      BY <2>6, BornType DEF QueueCompaction, NoJob, TypeOK, Job, JobStates
    <2>7. ASSUME NEW t \in Seqs, RetryFailedJob(t) PROVE TypeOK'
      <3>1. JobRequeued(jobs[t]) \in Job
        BY JobTypes DEF TypeOK
      <3> QED BY <2>7, <3>1 DEF RetryFailedJob, TypeOK
    <2> QED BY <1>3, <2>1, <2>2, <2>3, <2>4, <2>5, <2>6, <2>7 DEF StoreStep
  <1>4. CASE Tick
    <2>1. \A n \in Nat : Less(n) \in Nat
      BY DEF Less
    <2>2. claim' \in Claim
      BY <1>4, <2>1 DEF Tick, TypeOK, Claim
    <2>3. lease' \in [Handles -> Lease]
      BY <1>4 DEF Tick, TypeOK, Lease
    <2>4. jobs' \in [Seqs -> Job]
      BY <1>4, JobTypes DEF Tick, TypeOK
    <2> QED BY <1>4, <2>2, <2>3, <2>4 DEF Tick, TypeOK
  <1>5. CASE UNCHANGED vars
    BY <1>5 DEF vars, TypeOK
  <1> QED BY <1>1, <1>2, <1>3, <1>4, <1>5 DEF Next

(* The rows of the store and the lease values stay well formed.            *)
THEOREM TypeCorrect == Spec => []TypeOK
  <1>1. Init => TypeOK
    BY BoundsAssumption DEF Init, TypeOK, NoClaim, Claim, NoLease, Lease, NoJob, Job,
       JobStates, NoWorker, Worker
  <1> QED BY <1>1, TypeStep, PTL DEF Spec

-----------------------------------------------------------------------------
(* Where events, jobs and summaries lie: jobs and turn ends name events of *)
(* the transcript, and a summary comes after the boundary it summarises.   *)
TranscriptInv ==
    /\ turnEnds \subseteq 1..lastSeq
    /\ \A t \in Seqs : jobs[t].state # "none" => t <= lastSeq
    /\ \A c \in Completed : c < jobs[c].summary /\ jobs[c].summary <= lastSeq

(* A step that touches neither the events nor a completed job.             *)
SameTranscript ==
    /\ lastSeq' = lastSeq
    /\ turnEnds' = turnEnds
    /\ \A t \in Seqs :
          /\ jobs[t].state = "none" <=> jobs'[t].state = "none"
          /\ jobs[t].state = "completed" <=> jobs'[t].state = "completed"
          /\ jobs'[t].summary = jobs[t].summary
          /\ jobs'[t].covers = jobs[t].covers

(* A failure keeps a running job's identity and summary.                   *)
LEMMA JobFailureKeeps ==
    ASSUME NEW job \in Job, NEW permanent \in BOOLEAN
    PROVE  /\ JobFailure(job, permanent).state \in {"pending", "failed"}
           /\ JobFailure(job, permanent).summary = job.summary
           /\ JobFailure(job, permanent).covers = job.covers
  <1> DEFINE f == job.fails + 1
  <1>1. /\ [job EXCEPT !.state = "failed", !.fails = f, !.wait = 0,
                       !.holder = NoOne, !.ttl = 0].state = "failed"
        /\ [job EXCEPT !.state = "failed", !.fails = f, !.wait = 0,
                       !.holder = NoOne, !.ttl = 0].summary = job.summary
        /\ [job EXCEPT !.state = "failed", !.fails = f, !.wait = 0,
                       !.holder = NoOne, !.ttl = 0].covers = job.covers
    BY DEF Job
  <1>2. /\ [job EXCEPT !.state = "pending", !.fails = f, !.wait = Backoff(f),
                       !.holder = NoOne, !.ttl = 0].state = "pending"
        /\ [job EXCEPT !.state = "pending", !.fails = f, !.wait = Backoff(f),
                       !.holder = NoOne, !.ttl = 0].summary = job.summary
        /\ [job EXCEPT !.state = "pending", !.fails = f, !.wait = Backoff(f),
                       !.holder = NoOne, !.ttl = 0].covers = job.covers
    BY DEF Job
  <1> QED BY <1>1, <1>2 DEF JobFailure

(* What Recovered leaves of every job.                                     *)
LEMMA RecoveredKeeps ==
    ASSUME jobs \in [Seqs -> Job], NEW t \in Seqs
    PROVE  /\ jobs[t].state = "none" <=> Recovered[t].state = "none"
           /\ jobs[t].state = "completed" <=> Recovered[t].state = "completed"
           /\ Recovered[t].summary = jobs[t].summary
           /\ Recovered[t].covers = jobs[t].covers
  <1>1. CASE Expired(jobs[t])
    <2>1. Recovered[t] = JobFailure(jobs[t], FALSE)
      BY <1>1 DEF Recovered
    <2> QED BY <1>1, <2>1, JobFailureKeeps DEF Expired
  <1>2. CASE ~Expired(jobs[t])
    BY <1>2 DEF Recovered
  <1> QED BY <1>1, <1>2

(* Which steps leave the transcript alone.                                 *)
LEMMA QuietSteps ==
    ASSUME TypeOK
    PROVE  /\ \A h \in Handles : OwnerStep(h) =>
                 SameTranscript \/ \E n \in 1..MaxTurn : AppendTurn(h, n)
           /\ \A w \in Workers : WorkerStep(w) => SameTranscript \/ CompleteCompaction(w)
           /\ \A t \in Seqs : RetryFailedJob(t) => SameTranscript
           /\ SetSessionTitle \/ RecoverStaleCompactions \/ Tick => SameTranscript
           /\ Maintain => SameTranscript \/ Erase
  <1>1. ASSUME NEW h \in Handles, OwnerStep(h), ~\E n \in 1..MaxTurn : AppendTurn(h, n)
        PROVE  SameTranscript
    BY <1>1 DEF OwnerStep, SameTranscript, ClaimSession, RenewSession, ReleaseSession,
       DropSessionLease, ReplaySession, AppendStale
  <1>2. ASSUME jobs' = Recovered, lastSeq' = lastSeq, turnEnds' = turnEnds
        PROVE  SameTranscript
    BY <1>2, RecoveredKeeps DEF SameTranscript, TypeOK
  <1>3. ASSUME NEW t \in Seqs, NEW job \in Job, jobs' = [jobs EXCEPT ![t] = job],
               lastSeq' = lastSeq, turnEnds' = turnEnds,
               jobs[t].state \notin {"none", "completed"},
               job.state \notin {"none", "completed"},
               job.summary = jobs[t].summary, job.covers = jobs[t].covers
        PROVE  SameTranscript
    BY <1>3 DEF SameTranscript, TypeOK
  <1>4. ASSUME NEW w \in Workers, OwnsJob(w)
        PROVE  /\ worker[w].through \in Seqs
               /\ jobs[worker[w].through] \in Job
               /\ jobs[worker[w].through].state = "running"
    BY <1>4 DEF OwnsJob, TypeOK
  <1>5. ASSUME NEW w \in Workers, WorkerStep(w), ~CompleteCompaction(w)
        PROVE  SameTranscript
    <2>1. CASE ClaimCompaction(w)
      <3>1. CASE jobs' = Recovered
        BY <2>1, <3>1, <1>2 DEF ClaimCompaction
      <3>2. ASSUME NEW t \in Seqs, Oldest(Recovered, t),
                   jobs' = [Recovered EXCEPT ![t] = JobStarted(@, w)]
            PROVE  SameTranscript
        <4>1. Recovered \in [Seqs -> Job] /\ Recovered[t].state = "pending"
          BY <3>2, RecoveredType DEF Oldest, Claimable, TypeOK
        <4>2. /\ JobStarted(Recovered[t], w).state = "running"
              /\ JobStarted(Recovered[t], w).summary = Recovered[t].summary
              /\ JobStarted(Recovered[t], w).covers = Recovered[t].covers
          BY <4>1 DEF JobStarted, Job
        <4>3. /\ jobs' = [Recovered EXCEPT ![t] = JobStarted(Recovered[t], w)]
              /\ lastSeq' = lastSeq /\ turnEnds' = turnEnds
          BY <2>1, <3>2 DEF ClaimCompaction
        <4>4. \A u \in Seqs : jobs'[u] = IF u = t THEN JobStarted(Recovered[t], w) ELSE Recovered[u]
          BY <4>1, <4>3
        <4> QED BY <4>1, <4>2, <4>3, <4>4, RecoveredKeeps DEF SameTranscript, TypeOK
      <3> QED BY <2>1, <3>1, <3>2 DEF ClaimCompaction
    <2>2. CASE CompactionSource(w)
      BY <2>2 DEF CompactionSource, SameTranscript
    <2>3. CASE RenewCompaction(w)
      <3>1. OwnsJob(w) /\ [jobs[worker[w].through] EXCEPT !.ttl = WorkerTtl] \in Job
        BY <2>3, <1>4, JobTypes DEF RenewCompaction
      <3>2. /\ [jobs[worker[w].through] EXCEPT !.ttl = WorkerTtl].state = "running"
            /\ [jobs[worker[w].through] EXCEPT !.ttl = WorkerTtl].summary
                  = jobs[worker[w].through].summary
            /\ [jobs[worker[w].through] EXCEPT !.ttl = WorkerTtl].covers
                  = jobs[worker[w].through].covers
        BY <1>4, <3>1 DEF Job
      <3> QED BY <2>3, <1>3, <1>4, <3>1, <3>2 DEF RenewCompaction
    <2>4. ASSUME NEW permanent \in BOOLEAN, RecordCompactionFailure(w, permanent)
          PROVE  SameTranscript
      BY <2>4, <1>3, <1>4, JobFailureType, JobFailureKeeps DEF RecordCompactionFailure
    <2>5. CASE ReleaseCompaction(w)
      <3>1. OwnsJob(w) /\ JobReleased(jobs[worker[w].through]) \in Job
        BY <2>5, <1>4, JobTypes DEF ReleaseCompaction
      <3>2. /\ JobReleased(jobs[worker[w].through]).state = "pending"
            /\ JobReleased(jobs[worker[w].through]).summary = jobs[worker[w].through].summary
            /\ JobReleased(jobs[worker[w].through]).covers = jobs[worker[w].through].covers
        BY <1>4, <3>1 DEF Job, JobReleased
      <3> QED BY <2>5, <1>3, <1>4, <3>1, <3>2 DEF ReleaseCompaction
    <2>6. CASE DropCompactionLease(w)
      <3>1. CASE UNCHANGED jobs
        BY <2>6, <3>1 DEF DropCompactionLease, SameTranscript
      <3>2. CASE OwnsJob(w) /\ jobs' = [jobs EXCEPT ![worker[w].through] = JobFailure(@, FALSE)]
        BY <2>6, <3>2, <1>3, <1>4, JobFailureType, JobFailureKeeps DEF DropCompactionLease
      <3>3. CASE OwnsJob(w) /\ jobs' = [jobs EXCEPT ![worker[w].through] = [@ EXCEPT !.holder = Orphan]]
        <4>1. [jobs[worker[w].through] EXCEPT !.holder = Orphan] \in Job
          BY <3>3, <1>4, JobTypes
        <4>2. /\ [jobs[worker[w].through] EXCEPT !.holder = Orphan].state = "running"
              /\ [jobs[worker[w].through] EXCEPT !.holder = Orphan].summary
                    = jobs[worker[w].through].summary
              /\ [jobs[worker[w].through] EXCEPT !.holder = Orphan].covers
                    = jobs[worker[w].through].covers
          BY <3>3, <1>4 DEF Job
        <4> QED BY <2>6, <3>3, <1>3, <1>4, <4>1, <4>2 DEF DropCompactionLease
      <3> QED BY <2>6, <3>1, <3>2, <3>3 DEF DropCompactionLease
    <2> QED BY <1>5, <2>1, <2>2, <2>3, <2>4, <2>5, <2>6 DEF WorkerStep
  <1>6. ASSUME NEW t \in Seqs, RetryFailedJob(t) PROVE SameTranscript
    <2>1. jobs[t] \in Job /\ JobRequeued(jobs[t]) \in Job
      BY JobTypes DEF TypeOK
    <2>2. /\ JobRequeued(jobs[t]).state = "pending"
          /\ JobRequeued(jobs[t]).summary = jobs[t].summary
          /\ JobRequeued(jobs[t]).covers = jobs[t].covers
      BY <2>1 DEF Job, JobRequeued
    <2> QED BY <1>6, <1>3, <2>1, <2>2 DEF RetryFailedJob
  <1>7. ASSUME SetSessionTitle \/ RecoverStaleCompactions PROVE SameTranscript
    BY <1>7, <1>2 DEF SetSessionTitle, RecoverStaleCompactions, SameTranscript
  <1>8. ASSUME Tick PROVE SameTranscript
    BY <1>8 DEF Tick, SameTranscript, TypeOK, Job
  <1>9. ASSUME Maintain, ~Erase PROVE SameTranscript
    BY <1>9, <1>2 DEF Maintain
  <1> QED BY <1>1, <1>5, <1>6, <1>7, <1>8, <1>9

(* Of finitely many completed jobs one has the largest boundary.           *)
LEMMA LatestExists ==
    ASSUME Completed # {}
    PROVE  \E c \in Completed : IsLatest(c)
  <1> DEFINE T == {MaxSeq - t : t \in Completed}
  <1>1. T \subseteq Nat /\ T # {}
    BY BoundsAssumption DEF Completed, Seqs
  <1>2. PICK x \in T : \A y \in T : ~(<<y, x>> \in OpToRel(<, Nat))
    <2> HIDE DEF T
    <2> QED BY <1>1, WFMin, NatLessThanWellFounded
  <1>3. \A y \in T : ~(y < x)
    BY <1>1, <1>2 DEF OpToRel
  <1>4. PICK c \in Completed : x = MaxSeq - c
    BY <1>2
  <1>5. \A t \in Completed : t <= c
    <2> SUFFICES ASSUME NEW t \in Completed PROVE t <= c
      OBVIOUS
    <2>1. MaxSeq - t \in T
      OBVIOUS
    <2>2. ~(MaxSeq - t < MaxSeq - c)
      BY <1>3, <1>4, <2>1
    <2>3. t \in Int /\ c \in Int /\ MaxSeq \in Int
      BY BoundsAssumption DEF Completed, Seqs
    <2> QED BY <2>2, <2>3
  <1> QED BY <1>4, <1>5 DEF IsLatest

(* Events, jobs and summaries stay where TranscriptInv says.               *)
LEMMA TranscriptStep ==
    ASSUME TypeOK, TypeOK', TranscriptInv, [Next]_vars
    PROVE  TranscriptInv'
  <1>1. ASSUME SameTranscript PROVE TranscriptInv'
    BY <1>1 DEF SameTranscript, TranscriptInv, Completed
  <1>2. ASSUME UNCHANGED jobs, lastSeq' >= lastSeq,
               turnEnds' \in SUBSET (turnEnds \cup {lastSeq'}), lastSeq' > 0
        PROVE  TranscriptInv'
    <2>1. turnEnds' \subseteq 1..lastSeq'
      BY <1>2 DEF TranscriptInv, TypeOK
    <2>2. \A t \in Seqs : jobs'[t].state # "none" => t <= lastSeq'
      BY <1>2 DEF TranscriptInv, TypeOK, Seqs
    <2>3. \A c \in Completed' : c < jobs'[c].summary /\ jobs'[c].summary <= lastSeq'
      BY <1>2 DEF TranscriptInv, TypeOK, Completed, Job
    <2> QED BY <2>1, <2>2, <2>3 DEF TranscriptInv
  <1>3. ASSUME NEW h \in Handles, NEW n \in 1..MaxTurn, AppendTurn(h, n)
        PROVE  TranscriptInv'
    BY <1>2, <1>3, BoundsAssumption DEF AppendTurn, TypeOK
  <1>4. ASSUME AppendEvent PROVE TranscriptInv'
    BY <1>2, <1>4, BoundsAssumption DEF AppendEvent, TypeOK
  <1>5. ASSUME Erase PROVE TranscriptInv'
    BY <1>5 DEF Erase, TranscriptInv, Completed, NoJob
  <1>6. ASSUME NEW w \in Workers, CompleteCompaction(w) PROVE TranscriptInv'
    <2> DEFINE t == worker[w].through
    <2>1. t \in Seqs /\ jobs[t] \in Job /\ jobs[t].state = "running"
      BY <1>6 DEF CompleteCompaction, HoldsJob, OwnsJob, TypeOK
    <2>2. t <= lastSeq
      BY <2>1 DEF TranscriptInv
    <2>3. \A u \in Seqs : u # t => jobs'[u] = jobs[u]
      BY <1>6, <2>1 DEF CompleteCompaction, TypeOK
    <2>4. jobs'[t] = JobCompleted(jobs[t], lastSeq + 1, worker[w].source)
      BY <1>6, <2>1 DEF CompleteCompaction, TypeOK
    <2>5. jobs'[t].state = "completed" /\ jobs'[t].summary = lastSeq + 1
      BY <2>1, <2>4 DEF JobCompleted, Job
    <2>6. lastSeq' = lastSeq + 1 /\ turnEnds' = turnEnds \cup {lastSeq + 1}
      BY <1>6 DEF CompleteCompaction
    <2>7. turnEnds' \subseteq 1..lastSeq'
      BY <2>6 DEF TranscriptInv, TypeOK
    <2> HIDE DEF t
    <2>8. \A u \in Seqs : jobs'[u].state # "none" => u <= lastSeq'
      BY <2>2, <2>3, <2>6 DEF TranscriptInv, TypeOK, Seqs
    <2>9. \A c \in Completed' : c < jobs'[c].summary /\ jobs'[c].summary <= lastSeq'
      <3> SUFFICES ASSUME NEW c \in Completed'
                   PROVE  c < jobs'[c].summary /\ jobs'[c].summary <= lastSeq'
        OBVIOUS
      <3>1. CASE c = t
        BY <2>1, <2>2, <2>5, <2>6, <3>1 DEF TypeOK, Seqs
      <3>2. CASE c # t
        <4>1. c \in Completed /\ jobs'[c] = jobs[c]
          BY <2>3, <3>2 DEF Completed
        <4> QED BY <4>1, <2>6 DEF TranscriptInv, TypeOK, Completed, Job
      <3> QED BY <3>1, <3>2
    <2> QED BY <2>7, <2>8, <2>9 DEF TranscriptInv
  <1>7. ASSUME NEW t \in Seqs, QueueCompaction(t) PROVE TranscriptInv'
    <2>1. /\ lastSeq' = lastSeq /\ turnEnds' = turnEnds /\ t \in turnEnds
          /\ \A u \in Seqs : u # t => jobs'[u] = jobs[u]
      BY <1>7 DEF QueueCompaction, TypeOK
    <2>2. jobs'[t].state = "pending"
      BY <1>7 DEF QueueCompaction, TypeOK, NoJob
    <2>3. t <= lastSeq
      BY <2>1 DEF TranscriptInv, TypeOK
    <2>4. Completed' = Completed /\ \A c \in Completed : jobs'[c] = jobs[c]
      <3>1. jobs[t].state = "none"
        BY <1>7 DEF QueueCompaction
      <3> QED BY <2>1, <2>2, <3>1 DEF Completed
    <2> QED BY <2>1, <2>3, <2>4 DEF TranscriptInv
  <1>8. CASE UNCHANGED vars
    BY <1>8 DEF vars, TranscriptInv, Completed
  <1> QED BY <1>1, <1>3, <1>4, <1>5, <1>6, <1>7, <1>8, QuietSteps
         DEF Next, StoreStep, DeleteSession

-----------------------------------------------------------------------------
(* A step that leaves the transcript alone leaves its replay alone.        *)
LEMMA ReplaySame ==
    ASSUME TypeOK, SameTranscript
    PROVE  ReplayEvents' = ReplayEvents
  <1>1. Completed' = Completed
    BY DEF SameTranscript, Completed
  <1>2. \A c \in Completed : jobs'[c].summary = jobs[c].summary
    BY DEF SameTranscript, Completed
  <1>3. \A c : IsLatest(c)' <=> IsLatest(c)
    BY <1>1 DEF IsLatest
  <1>4. \A c \in Completed : TailOf(c)' = TailOf(c)
    BY <1>2 DEF TailOf, SameTranscript
  <1>5. CASE Completed = {}
    BY <1>1, <1>5 DEF ReplayEvents, SameTranscript
  <1>6. CASE Completed # {}
    <2>1. {t \in Completed' : IsLatest(t)'} = {t \in Completed : IsLatest(t)}
      BY <1>1, <1>3
    <2> QED BY <1>1, <1>2, <1>4, <1>6, <2>1 DEF ReplayEvents
  <1> QED BY <1>5, <1>6

(* Replay starts from one job: the completed one with the largest boundary.*)
LEMMA ReplayOfLatest ==
    ASSUME NEW c \in Completed, IsLatest(c)
    PROVE  ReplayEvents = {jobs[c].summary} \cup TailOf(c)
  <1>1. \A t \in Completed : IsLatest(t) => t = c
    BY DEF IsLatest, Completed, Seqs
  <1>2. {t \in Completed : IsLatest(t)} = {c}
    BY <1>1
  <1> QED BY <1>2 DEF ReplayEvents

(* Events appended to the transcript are appended to its replay.           *)
LEMMA ReplayGrows ==
    ASSUME TypeOK, TranscriptInv, UNCHANGED jobs,
           NEW n \in Nat, lastSeq' = lastSeq + n
    PROVE  ReplayEvents' = ReplayEvents \cup ((lastSeq + 1)..(lastSeq + n))
  <1>1. Completed' = Completed /\ \A c : IsLatest(c)' <=> IsLatest(c)
    BY DEF Completed, IsLatest
  <1>2. lastSeq \in Nat
    BY DEF TypeOK
  <1>3. CASE Completed = {}
    <2>1. ReplayEvents = 1..lastSeq /\ ReplayEvents' = 1..(lastSeq + n)
      BY <1>1, <1>3 DEF ReplayEvents
    <2> QED BY <1>2, <2>1
  <1>4. CASE Completed # {}
    <2>1. PICK c \in Completed : IsLatest(c)
      BY <1>4, LatestExists
    <2>2. {t \in Completed : IsLatest(t)} = {c}
      BY <2>1 DEF IsLatest, Completed, Seqs
    <2>3. {t \in Completed' : IsLatest(t)'} = {c}
      BY <1>1, <2>2
    <2>4. ReplayEvents = {jobs[c].summary} \cup TailOf(c)
      BY <1>4, <2>2 DEF ReplayEvents
    <2>5. ReplayEvents' = {jobs[c].summary} \cup TailOf(c)'
      BY <1>1, <1>4, <2>3 DEF ReplayEvents
    <2>6. /\ c \in Nat /\ jobs[c].summary \in Nat
          /\ c < jobs[c].summary /\ jobs[c].summary <= lastSeq
      BY <2>1 DEF TranscriptInv, TypeOK, Completed, Job, Seqs
    <2>7. TailOf(c)' = TailOf(c) \cup ((lastSeq + 1)..(lastSeq + n))
      <3> DEFINE s == jobs[c].summary
      <3>1. /\ TailOf(c) = {e \in 1..lastSeq : e > c /\ e # s}
            /\ TailOf(c)' = {e \in 1..(lastSeq + n) : e > c /\ e # s}
        BY DEF TailOf
      <3>2. s \in Nat /\ c < s /\ s <= lastSeq /\ c \in Nat
        BY <2>6
      <3> HIDE DEF s
      <3> QED BY <1>2, <3>1, <3>2
    <2> QED BY <2>4, <2>5, <2>7
  <1> QED BY <1>3, <1>4

(* A queued job is not completed, so replay does not see it.               *)
LEMMA QueueKeepsReplay ==
    ASSUME TypeOK, NEW t \in Seqs, QueueCompaction(t)
    PROVE  ReplayEvents' = ReplayEvents
  <1>1. lastSeq' = lastSeq /\ \A u \in Seqs : u # t => jobs'[u] = jobs[u]
    BY DEF QueueCompaction, TypeOK
  <1>2. jobs[t].state = "none" /\ jobs'[t].state = "pending"
    BY DEF QueueCompaction, TypeOK, NoJob
  <1>3. Completed' = Completed /\ \A c \in Completed : jobs'[c] = jobs[c]
    BY <1>1, <1>2 DEF Completed
  <1>4. \A c : IsLatest(c)' <=> IsLatest(c)
    BY <1>3 DEF IsLatest
  <1>5. \A c \in Completed : TailOf(c)' = TailOf(c)
    BY <1>1, <1>3 DEF TailOf
  <1>6. {u \in Completed' : IsLatest(u)'} = {u \in Completed : IsLatest(u)}
    BY <1>3, <1>4
  <1> QED BY <1>1, <1>3, <1>5, <1>6 DEF ReplayEvents

(* A claim is a column of the session's row: none outlives the row.        *)
ClaimInv == claim.holder # NoOne => exists

(* No step leaves a claim on a deleted session.                            *)
LEMMA ClaimStep ==
    ASSUME TypeOK, ClaimInv, [Next]_vars
    PROVE  ClaimInv'
  <1> USE OwnersAssumption DEF ClaimInv
  <1>1. ASSUME NEW h \in Handles, OwnerStep(h) PROVE ClaimInv'
    BY <1>1 DEF OwnerStep, ClaimSession, RenewSession, ReleaseSession, DropSessionLease,
       ReplaySession, AppendTurn, AppendStale, OwnsLive, NoClaim, TypeOK, Claim
  <1>2. ASSUME NEW w \in Workers, WorkerStep(w) PROVE ClaimInv'
    BY <1>2 DEF WorkerStep, ClaimCompaction, CompactionSource, RenewCompaction,
       RecordCompactionFailure, ReleaseCompaction, CompleteCompaction, DropCompactionLease
  <1>3. CASE StoreStep
    <2>1. CASE Maintain
      <3>1. (exists' /\ claim' \in {claim, NoClaim}) \/ claim' = NoClaim
        BY <2>1 DEF Maintain, Erase
      <3> QED BY <2>1, <3>1 DEF Maintain, NoClaim
    <2>2. CASE ~Maintain
      <3>1. claim' = NoClaim \/ (claim' = claim /\ exists' = exists)
        BY <1>3, <2>2 DEF StoreStep, SetSessionTitle, AppendEvent, DeleteSession, Erase,
           RecoverStaleCompactions, QueueCompaction, RetryFailedJob
      <3> QED BY <3>1 DEF NoClaim
    <2> QED BY <2>1, <2>2
  <1>4. CASE Tick
    BY <1>4 DEF Tick, TypeOK, Claim
  <1>5. CASE UNCHANGED vars
    BY <1>5 DEF vars
  <1> QED BY <1>1, <1>2, <1>3, <1>4, <1>5 DEF Next

(* The inductive invariant of the owners.  Promptness alone is not         *)
(* inductive: a revived claim needs the row it belongs to, and a claim of  *)
(* an empty session needs that nothing was summarised yet.                 *)
OwnerInv == TypeOK /\ TranscriptInv /\ ClaimInv /\ PromptOwnerKeepsAuthority

(* What a prompt owner relies on.                                          *)
Authority(h) ==
    /\ exists
    /\ claim.holder = h
    /\ claim.ttl > 0
    /\ lease[h].replayed => lease[h].cursor = lastSeq /\ lease[h].view = ReplayEvents

(* While the session is not live there is no prompt owner.                 *)
LEMMA NotLiveNotPrompt ==
    ASSUME PromptOwnerKeepsAuthority, ~SessionLive, NEW h \in Handles
    PROVE  ~(lease[h].held /\ ~lease[h].lapsed)
  BY OwnersAssumption DEF PromptOwnerKeepsAuthority, SessionLive

(* No step takes the session away from a prompt owner.                     *)
LEMMA PromptStep ==
    ASSUME OwnerInv, TypeOK', [Next]_vars
    PROVE  PromptOwnerKeepsAuthority'
  <1> SUFFICES ASSUME NEW o \in Handles, lease'[o].held, ~lease'[o].lapsed
               PROVE  Authority(o)'
    BY DEF PromptOwnerKeepsAuthority, Authority
  <1> USE OwnersAssumption, BoundsAssumption, TimesAssumption
  <1> DEFINE Prompt == lease[o].held /\ ~lease[o].lapsed
  <1>a. Prompt => Authority(o)
    BY DEF OwnerInv, PromptOwnerKeepsAuthority, Authority
  <1>b. TypeOK /\ TranscriptInv /\ ClaimInv /\ PromptOwnerKeepsAuthority
    BY DEF OwnerInv
  <1>c. ~SessionLive => ~Prompt
    BY <1>b, NotLiveNotPrompt
  <1>d. ASSUME Prompt, lease'[o] = lease[o], exists' = exists, SameTranscript,
               claim'.holder = claim.holder, claim'.ttl > 0
        PROVE  Authority(o)'
    BY <1>a, <1>b, <1>d, ReplaySame DEF Authority, SameTranscript
  <1> HIDE DEF Prompt
  <1>1. ASSUME NEW h \in Handles, OwnerStep(h) PROVE Authority(o)'
    <2>1. CASE ClaimSession(h)
      <3>1. CASE o = h
        <4>1. lastSeq = 0 => ReplayEvents = {}
          <5>1. lastSeq = 0 => Completed = {}
            BY <1>b DEF TranscriptInv, TypeOK, Completed, Seqs
          <5> QED BY <5>1 DEF ReplayEvents
        <4>2. lease'[o] = [held |-> TRUE, cursor |-> lastSeq, replayed |-> lastSeq = 0,
                           view |-> {}, lapsed |-> FALSE]
          BY <1>b, <2>1, <3>1 DEF ClaimSession, TypeOK
        <4>3. SameTranscript
          BY <2>1 DEF ClaimSession, SameTranscript
        <4>4. ReplayEvents' = ReplayEvents
          BY <1>b, <4>3, ReplaySame
        <4>5. exists' /\ claim'.holder = o /\ claim'.ttl > 0 /\ lastSeq' = lastSeq
          BY <2>1, <3>1 DEF ClaimSession
        <4>6. ASSUME lastSeq # 0 PROVE ~lease'[o].replayed
          <5>1. (lastSeq = 0) = FALSE
            BY <4>6
          <5>2. lease'[o] = [held |-> TRUE, cursor |-> lastSeq, replayed |-> FALSE,
                             view |-> {}, lapsed |-> FALSE]
            BY <4>2, <5>1
          <5> QED BY <5>2
        <4>7. lease'[o].cursor = lastSeq /\ lease'[o].view = {}
          BY <4>2
        <4> QED BY <4>1, <4>4, <4>5, <4>6, <4>7 DEF Authority
      <3>2. CASE o # h
        <4>1. Prompt
          BY <1>b, <2>1, <3>2 DEF ClaimSession, TypeOK, Prompt
        <4> QED BY <1>c, <2>1, <4>1 DEF ClaimSession
      <3> QED BY <3>1, <3>2
    <2>2. CASE RenewSession(h)
      <3>1. Prompt /\ lease'[o] = lease[o] /\ exists' = exists
        BY <2>2 DEF RenewSession, Prompt
      <3>2. claim'.holder = claim.holder /\ claim'.ttl > 0
        BY <1>b, <2>2 DEF RenewSession, TypeOK, Claim
      <3>3. SameTranscript
        BY <2>2 DEF RenewSession, SameTranscript
      <3> QED BY <1>d, <3>1, <3>2, <3>3
    <2>3. CASE ReleaseSession(h) \/ DropSessionLease(h)
      <3>1. o # h
        BY <1>b, <2>3 DEF ReleaseSession, DropSessionLease, NoLease, TypeOK
      <3>2. lease'[o] = lease[o] /\ exists' = exists /\ Prompt
        BY <1>b, <2>3, <3>1 DEF ReleaseSession, DropSessionLease, TypeOK, Prompt
      <3>3. claim' = claim
        BY <1>a, <2>3, <3>1, <3>2 DEF ReleaseSession, DropSessionLease, Authority
      <3>4. SameTranscript
        BY <2>3 DEF ReleaseSession, DropSessionLease, SameTranscript
      <3> QED BY <1>a, <1>d, <3>2, <3>3, <3>4 DEF Authority
    <2>4. CASE ReplaySession(h)
      <3>1. SameTranscript /\ exists' = exists /\ claim' = claim
        BY <2>4 DEF ReplaySession, SameTranscript
      <3>2. CASE o = h
        <4>1. lease'[o] = [held |-> TRUE, cursor |-> lastSeq, replayed |-> TRUE,
                           view |-> ReplayEvents, lapsed |-> FALSE]
          BY <1>b, <2>4, <3>2 DEF ReplaySession, TypeOK
        <4>2. ReplayEvents' = ReplayEvents
          BY <1>b, <3>1, ReplaySame
        <4>3. exists
          BY <1>b, <2>4 DEF ReplaySession, OwnsLive, ClaimInv
        <4> QED BY <2>4, <3>1, <3>2, <4>1, <4>2, <4>3
              DEF Authority, ReplaySession, OwnsLive, SameTranscript
      <3>3. CASE o # h
        <4>1. Prompt /\ lease'[o] = lease[o]
          BY <1>b, <2>4, <3>3 DEF ReplaySession, TypeOK, Prompt
        <4> QED BY <1>a, <1>d, <3>1, <4>1 DEF Authority
      <3> QED BY <3>2, <3>3
    <2>5. ASSUME NEW n \in 1..MaxTurn, AppendTurn(h, n) PROVE Authority(o)'
      <3>1. claim.holder = h /\ exists' = exists /\ claim'.holder = h /\ claim'.ttl > 0
        BY <1>b, <2>5 DEF AppendTurn, OwnsLive, TypeOK, Claim
      <3>2. CASE o = h
        <4>1. lease'[h] = [held |-> TRUE, cursor |-> lastSeq + n, replayed |-> TRUE,
                           lapsed |-> lease[h].lapsed,
                           view |-> lease[h].view \cup ((lastSeq + 1)..(lastSeq + n))]
          BY <1>b, <2>5 DEF AppendTurn, TypeOK
        <4>2. Prompt
          BY <2>5, <3>2, <4>1 DEF AppendTurn, OwnsLive, Prompt
        <4>3. exists /\ lease[h].view = ReplayEvents
          BY <1>a, <2>5, <3>2, <4>2 DEF Authority, AppendTurn
        <4>4. ReplayEvents' = ReplayEvents \cup ((lastSeq + 1)..(lastSeq + n))
          <5>1. n \in Nat /\ lastSeq' = lastSeq + n /\ UNCHANGED jobs
            BY <2>5 DEF AppendTurn
          <5> QED BY <1>b, <5>1, ReplayGrows
        <4>5. lease'[o].cursor = lastSeq' /\ lease'[o].view = ReplayEvents'
          BY <2>5, <3>2, <4>1, <4>3, <4>4 DEF AppendTurn
        <4> QED BY <3>1, <3>2, <4>3, <4>5 DEF Authority
      <3>3. CASE o # h
        <4>1. Prompt
          BY <1>b, <2>5, <3>3 DEF AppendTurn, TypeOK, Prompt
        <4> QED BY <1>a, <3>1, <3>3, <4>1 DEF Authority
      <3> QED BY <3>2, <3>3
    <2>6. CASE AppendStale(h)
      <3>1. SameTranscript /\ exists' = exists /\ claim' = claim
        BY <2>6 DEF AppendStale, SameTranscript
      <3>2. CASE o = h
        <4>1. lease'[o].held = lease[o].held /\ lease'[o].lapsed = lease[o].lapsed
          BY <1>b, <2>6, <3>2 DEF AppendStale, TypeOK, Lease
        <4>2. Prompt
          BY <4>1 DEF Prompt
        <4> QED BY <1>a, <2>6, <3>2, <4>2 DEF Authority, AppendStale, CursorCurrent
      <3>3. CASE o # h
        <4>1. Prompt /\ lease'[o] = lease[o]
          BY <1>b, <2>6, <3>3 DEF AppendStale, TypeOK, Prompt
        <4> QED BY <1>a, <1>d, <3>1, <4>1 DEF Authority
      <3> QED BY <3>2, <3>3
    <2> QED BY <1>1, <2>1, <2>2, <2>3, <2>4, <2>5, <2>6 DEF OwnerStep
  <1>2. ASSUME NEW w \in Workers, WorkerStep(w) PROVE Authority(o)'
    <2>1. lease' = lease /\ exists' = exists /\ claim' = claim /\ Prompt
      BY <1>2 DEF WorkerStep, ClaimCompaction, CompactionSource, RenewCompaction,
         RecordCompactionFailure, ReleaseCompaction, CompleteCompaction,
         DropCompactionLease, Prompt
    <2>2. ~CompleteCompaction(w)
      BY <1>c, <2>1 DEF CompleteCompaction
    <2>3. SameTranscript
      BY <1>b, <1>2, <2>2, QuietSteps
    <2> QED BY <1>a, <1>d, <2>1, <2>3 DEF Authority
  <1>3. CASE StoreStep
    <2>1. Prompt /\ lease' = lease
      BY <1>3 DEF StoreStep, SetSessionTitle, AppendEvent, DeleteSession, Maintain,
         RecoverStaleCompactions, QueueCompaction, RetryFailedJob, Prompt
    <2>2. SessionLive /\ claim.ttl # 0
      BY <1>a, <1>b, <1>c, <2>1 DEF Authority, TypeOK, Claim
    <2>3. CASE Maintain
      <3>1. claim' = claim /\ exists' = exists /\ jobs' = Recovered
              /\ lastSeq' = lastSeq /\ turnEnds' = turnEnds
        BY <2>2, <2>3 DEF Maintain
      <3>2. SameTranscript
        BY <1>b, <3>1, RecoveredKeeps DEF SameTranscript, TypeOK
      <3> QED BY <1>a, <1>d, <2>1, <3>1, <3>2 DEF Authority
    <2>4. CASE RecoverStaleCompactions
      <3>1. SameTranscript
        BY <1>b, <2>4, QuietSteps
      <3> QED BY <1>a, <1>d, <2>1, <2>4, <3>1 DEF Authority, RecoverStaleCompactions
    <2>5. ASSUME NEW t \in Seqs, RetryFailedJob(t) PROVE Authority(o)'
      <3>1. SameTranscript
        BY <1>b, <2>5, QuietSteps
      <3> QED BY <1>a, <1>d, <2>1, <2>5, <3>1 DEF Authority, RetryFailedJob
    <2>6. ASSUME NEW t \in Seqs, QueueCompaction(t) PROVE Authority(o)'
      <3>1. lastSeq' = lastSeq /\ exists' = exists /\ claim' = claim
        BY <2>6 DEF QueueCompaction
      <3>2. ReplayEvents' = ReplayEvents
        BY <1>b, <2>6, QueueKeepsReplay
      <3> QED BY <1>a, <2>1, <3>1, <3>2 DEF Authority
    <2> QED BY <1>3, <2>2, <2>3, <2>4, <2>5, <2>6
          DEF StoreStep, SetSessionTitle, AppendEvent, DeleteSession
  <1>4. CASE Tick
    <2>1. lease'[o] = [lease[o] EXCEPT !.lapsed = @ \/ (claim.holder = o /\ claim.ttl <= 1)]
      BY <1>4 DEF Tick
    <2>2. lease[o] \in Lease
      BY <1>b DEF TypeOK
    <2>3. /\ lease'[o].held = lease[o].held
          /\ lease'[o].replayed = lease[o].replayed
          /\ lease'[o].cursor = lease[o].cursor
          /\ lease'[o].view = lease[o].view
          /\ lease'[o].lapsed = (lease[o].lapsed \/ (claim.holder = o /\ claim.ttl <= 1))
      BY <2>1, <2>2 DEF Lease
    <2>4. Prompt /\ ~(claim.holder = o /\ claim.ttl <= 1)
      BY <2>3 DEF Prompt
    <2>5. claim.ttl > 1 /\ claim.holder = o
      BY <1>a, <1>b, <2>4 DEF Authority, TypeOK, Claim
    <2>6. claim'.holder = o /\ claim'.ttl > 0
      <3>1. claim' = [claim EXCEPT !.ttl = Less(claim.ttl)] /\ claim \in Claim
        BY <1>4, <1>b DEF Tick, TypeOK
      <3>2. claim'.holder = claim.holder /\ claim'.ttl = Less(claim.ttl)
        BY <3>1 DEF Claim
      <3>3. claim.ttl \in Nat
        BY <3>1 DEF Claim
      <3> QED BY <2>5, <3>2, <3>3 DEF Less
    <2>7. SameTranscript
      BY <1>4, <1>b, QuietSteps
    <2>8. ReplayEvents' = ReplayEvents
      BY <1>b, <2>7, ReplaySame
    <2> QED BY <1>4, <1>a, <2>3, <2>4, <2>6, <2>8 DEF Authority, Tick
  <1>5. CASE UNCHANGED vars
    <2>1. Prompt /\ SameTranscript
      BY <1>5 DEF vars, Prompt, SameTranscript
    <2> QED BY <1>5, <1>a, <1>d, <2>1 DEF vars, Authority
  <1> QED BY <1>1, <1>2, <1>3, <1>4, <1>5 DEF Next

(* A new session has no owner and nothing to replay.                       *)
LEMMA OwnerInit == Init => OwnerInv
  <1>1. Init => TypeOK
    BY BoundsAssumption DEF Init, TypeOK, NoClaim, Claim, NoLease, Lease, NoJob, Job,
       JobStates, NoWorker, Worker
  <1>2. Init => TranscriptInv
    BY DEF Init, TranscriptInv, Completed, NoJob
  <1>3. Init => PromptOwnerKeepsAuthority
    BY DEF Init, PromptOwnerKeepsAuthority, NoLease
  <1>4. Init => ClaimInv
    BY DEF Init, ClaimInv
  <1> QED BY <1>1, <1>2, <1>3, <1>4 DEF OwnerInv

(* The invariant of the owners is inductive.                               *)
LEMMA OwnerInvStep == OwnerInv /\ [Next]_vars => OwnerInv'
  BY TypeStep, TranscriptStep, ClaimStep, PromptStep DEF OwnerInv

(* A prompt owner keeps the session, whatever the other processes do.      *)
THEOREM PromptOwner == Spec => []PromptOwnerKeepsAuthority
  <1>1. OwnerInv => PromptOwnerKeepsAuthority
    BY DEF OwnerInv
  <1> QED BY <1>1, OwnerInit, OwnerInvStep, PTL DEF Spec

-----------------------------------------------------------------------------
(* What a replayed lease says of its owner, lapsed or not: the cursor is   *)
(* never ahead of the transcript, and while it is level with the end the   *)
(* owner's view is what a replay would return.                             *)
ViewCurrent(h) ==
    /\ lease[h].cursor <= lastSeq
    /\ lease[h].cursor = lastSeq => lease[h].view = ReplayEvents

(* Without `exists` this would fail: a deletion resets the transcript      *)
(* under the leases that outlived their claim.                             *)
CursorInv ==
    \A h \in Handles : lease[h].held /\ lease[h].replayed /\ exists => ViewCurrent(h)

(* Comparing the cursor with the last sequence is enough: every step that  *)
(* changes what a replay would return makes the transcript longer.         *)
LEMMA CursorStep ==
    ASSUME OwnerInv, CursorInv, TypeOK', [Next]_vars
    PROVE  CursorInv'
  <1> SUFFICES ASSUME NEW o \in Handles, lease'[o].held, lease'[o].replayed, exists'
               PROVE  ViewCurrent(o)'
    BY DEF CursorInv
  <1> USE OwnersAssumption, BoundsAssumption
  <1>b. TypeOK /\ TranscriptInv
    BY DEF OwnerInv
  <1>c. lastSeq \in Nat /\ lastSeq' \in Nat /\ lease[o].cursor \in Nat
    BY <1>b DEF TypeOK, Lease
  <1>d. ASSUME lease[o].held, lease[o].replayed, exists,
               lease'[o].cursor = lease[o].cursor, lease'[o].view = lease[o].view,
               lastSeq' = lastSeq, ReplayEvents' = ReplayEvents
        PROVE  ViewCurrent(o)'
    BY <1>d DEF CursorInv, ViewCurrent
  <1>e. ASSUME lease'[o] = lease[o], exists, lastSeq' > lastSeq
        PROVE  ViewCurrent(o)'
    <2>1. lease[o].cursor <= lastSeq
      BY <1>e DEF CursorInv, ViewCurrent
    <2> QED BY <1>c, <1>e, <2>1 DEF ViewCurrent
  <1>1. ASSUME NEW h \in Handles, OwnerStep(h) PROVE ViewCurrent(o)'
    <2>0. exists
      BY <1>1 DEF OwnerStep, ClaimSession, RenewSession, ReleaseSession, DropSessionLease,
         ReplaySession, AppendTurn, AppendStale
    <2>1. CASE \E n \in 1..MaxTurn : AppendTurn(h, n)
      <3>1. PICK n \in 1..MaxTurn : AppendTurn(h, n)
        BY <2>1
      <3>2. lastSeq' = lastSeq + n /\ n \in Nat /\ n > 0 /\ UNCHANGED jobs
        BY <3>1 DEF AppendTurn
      <3>3. CASE o = h
        <4>1. /\ lease'[o].cursor = lastSeq + n
              /\ lease'[o].view = lease[o].view \cup ((lastSeq + 1)..(lastSeq + n))
          BY <1>b, <3>1, <3>3 DEF AppendTurn, TypeOK
        <4>2. lease[o].held /\ lease[o].replayed /\ lease[o].cursor = lastSeq
          BY <3>1, <3>3 DEF AppendTurn, OwnsLive, CursorCurrent
        <4>3. lease[o].view = ReplayEvents
          BY <2>0, <4>2 DEF CursorInv, ViewCurrent
        <4>4. ReplayEvents' = ReplayEvents \cup ((lastSeq + 1)..(lastSeq + n))
          BY <1>b, <3>2, ReplayGrows
        <4> QED BY <1>c, <3>2, <4>1, <4>3, <4>4 DEF ViewCurrent
      <3>4. CASE o # h
        <4>1. lease'[o] = lease[o]
          BY <1>b, <3>1, <3>4 DEF AppendTurn, TypeOK
        <4> QED BY <1>c, <1>e, <2>0, <3>2, <4>1
      <3> QED BY <3>3, <3>4
    <2>2. CASE ~\E n \in 1..MaxTurn : AppendTurn(h, n)
      <3>1. SameTranscript
        BY <1>1, <1>b, <2>2, QuietSteps
      <3>2. lastSeq' = lastSeq /\ ReplayEvents' = ReplayEvents
        BY <1>b, <3>1, ReplaySame DEF SameTranscript
      <3>3. CASE o # h \/ RenewSession(h)
        <4>1. lease'[o] = lease[o]
          BY <1>1, <1>b, <2>2, <3>3 DEF OwnerStep, ClaimSession, RenewSession,
             ReleaseSession, DropSessionLease, ReplaySession, AppendStale, TypeOK
        <4> QED BY <1>d, <2>0, <3>2, <4>1
      <3>4. CASE o = h /\ (ReleaseSession(h) \/ DropSessionLease(h))
        <4>1. lease'[o] = NoLease
          BY <1>b, <3>4 DEF ReleaseSession, DropSessionLease, TypeOK
        <4> QED BY <4>1 DEF NoLease
      <3>5. CASE o = h /\ AppendStale(h)
        BY <1>b, <3>5 DEF AppendStale, TypeOK, Lease
      <3>6. CASE o = h /\ ReplaySession(h)
        <4>1. lease'[o].cursor = lastSeq /\ lease'[o].view = ReplayEvents
          BY <1>b, <3>6 DEF ReplaySession, TypeOK
        <4> QED BY <1>c, <3>2, <4>1 DEF ViewCurrent
      <3>7. CASE o = h /\ ClaimSession(h)
        <4>1. lease'[o] = [held |-> TRUE, cursor |-> lastSeq, replayed |-> lastSeq = 0,
                           view |-> {}, lapsed |-> FALSE]
          BY <1>b, <3>7 DEF ClaimSession, TypeOK
        <4>2. ASSUME lastSeq # 0 PROVE FALSE
          <5>1. (lastSeq = 0) = FALSE
            BY <4>2
          <5>2. lease'[o] = [held |-> TRUE, cursor |-> lastSeq, replayed |-> FALSE,
                             view |-> {}, lapsed |-> FALSE]
            BY <4>1, <5>1
          <5> QED BY <5>2
        <4>3. lease'[o].cursor = lastSeq /\ lease'[o].view = {}
          BY <4>1
        <4>4. Completed = {}
          BY <1>b, <4>2 DEF TranscriptInv, TypeOK, Completed, Seqs
        <4>5. ReplayEvents = {}
          BY <4>2, <4>4 DEF ReplayEvents
        <4> QED BY <1>c, <3>2, <4>3, <4>5 DEF ViewCurrent
      <3> QED BY <1>1, <2>2, <3>3, <3>4, <3>5, <3>6, <3>7 DEF OwnerStep
    <2> QED BY <2>1, <2>2
  <1>2. ASSUME NEW w \in Workers, WorkerStep(w) PROVE ViewCurrent(o)'
    <2>1. lease' = lease /\ exists' = exists
      BY <1>2 DEF WorkerStep, ClaimCompaction, CompactionSource, RenewCompaction,
         RecordCompactionFailure, ReleaseCompaction, CompleteCompaction,
         DropCompactionLease
    <2>2. CASE SameTranscript
      BY <1>b, <1>d, <2>1, <2>2, ReplaySame DEF SameTranscript
    <2>3. CASE CompleteCompaction(w)
      BY <1>c, <1>e, <2>1, <2>3 DEF CompleteCompaction
    <2> QED BY <1>2, <1>b, <2>2, <2>3, QuietSteps
  <1>3. CASE StoreStep
    <2>1. lease' = lease /\ exists
      BY <1>3 DEF StoreStep, SetSessionTitle, AppendEvent, DeleteSession, Maintain, Erase,
         RecoverStaleCompactions, QueueCompaction, RetryFailedJob
    <2>2. CASE SameTranscript
      BY <1>b, <1>d, <2>1, <2>2, ReplaySame DEF SameTranscript
    <2>3. CASE AppendEvent
      BY <1>c, <1>e, <2>1, <2>3 DEF AppendEvent
    <2>4. ASSUME NEW t \in Seqs, QueueCompaction(t) PROVE ViewCurrent(o)'
      BY <1>b, <1>d, <2>1, <2>4, QueueKeepsReplay DEF QueueCompaction
    <2>5. ~DeleteSession /\ ~Erase
      BY DEF DeleteSession, Erase
    <2> QED BY <1>3, <1>b, <2>2, <2>3, <2>4, <2>5, QuietSteps DEF StoreStep
  <1>4. CASE Tick
    <2>1. lease'[o] = [lease[o] EXCEPT !.lapsed = @ \/ (claim.holder = o /\ claim.ttl <= 1)]
      BY <1>4 DEF Tick
    <2>2. lease[o] \in Lease
      BY <1>b DEF TypeOK
    <2>3. /\ lease'[o].held = lease[o].held
          /\ lease'[o].replayed = lease[o].replayed
          /\ lease'[o].cursor = lease[o].cursor
          /\ lease'[o].view = lease[o].view
      BY <2>1, <2>2 DEF Lease
    <2>4. SameTranscript /\ exists
      BY <1>4, <1>b, QuietSteps DEF Tick
    <2> QED BY <1>b, <1>d, <2>3, <2>4, ReplaySame DEF SameTranscript
  <1>5. CASE UNCHANGED vars
    <2>1. SameTranscript /\ lease' = lease /\ exists
      BY <1>5 DEF vars, SameTranscript
    <2> QED BY <1>b, <1>d, <2>1, ReplaySame DEF SameTranscript
  <1> QED BY <1>1, <1>2, <1>3, <1>4, <1>5 DEF Next

(* Only a turn of the owner itself changes its lease and adds events.      *)
LEMMA AppendingStep ==
    ASSUME OwnerInv, CursorInv, [Next]_vars, NEW o \in Handles,
           lastSeq' > lastSeq, lease'[o] # lease[o]
    PROVE  lease[o].view = ReplayEvents
  <1> USE OwnersAssumption, BoundsAssumption
  <1>1. TypeOK /\ ClaimInv /\ lastSeq \in Nat
    BY DEF OwnerInv, TypeOK
  <1>2. ~SameTranscript /\ ~Erase
    BY <1>1 DEF SameTranscript, Erase
  <1>3. PICK h \in Handles : OwnerStep(h)
    <2>1. ASSUME NEW w \in Workers PROVE ~WorkerStep(w)
      BY DEF WorkerStep, ClaimCompaction, CompactionSource, RenewCompaction,
         RecordCompactionFailure, ReleaseCompaction, CompleteCompaction, DropCompactionLease
    <2>2. ~StoreStep
      BY DEF StoreStep, SetSessionTitle, AppendEvent, DeleteSession, Maintain,
         RecoverStaleCompactions, QueueCompaction, RetryFailedJob
    <2>3. ~Tick /\ ~UNCHANGED vars
      BY <1>1, <1>2, QuietSteps DEF vars
    <2> QED BY <2>1, <2>2, <2>3 DEF Next
  <1>4. PICK n \in 1..MaxTurn : AppendTurn(h, n)
    BY <1>1, <1>2, <1>3, QuietSteps
  <1>5. o = h
    BY <1>1, <1>4 DEF AppendTurn, TypeOK
  <1>6. exists
    BY <1>1, <1>4 DEF AppendTurn, OwnsLive, ClaimInv
  <1> QED BY <1>4, <1>5, <1>6
        DEF AppendTurn, OwnsLive, CursorCurrent, CursorInv, ViewCurrent

(* A turn is only ever appended to the transcript its owner was shown or   *)
(* wrote, also by an owner whose lease lapsed and was revived.             *)
THEOREM AppendIsInformed == Spec => AppendOnReplayedHistory
  <1> DEFINE Inv == OwnerInv /\ CursorInv
             Informed == \A h \in Handles :
                lastSeq' > lastSeq /\ lease'[h] # lease[h] => lease[h].view = ReplayEvents
  <1>1. Init => Inv
    BY OwnerInit DEF Init, CursorInv, NoLease
  <1>2. Inv /\ [Next]_vars => Inv'
    BY OwnerInvStep, CursorStep DEF OwnerInv
  <1>3. Inv /\ [Next]_vars => [Informed]_vars
    BY AppendingStep
  <1> HIDE DEF Inv, Informed
  <1>4. Spec => [][Informed]_vars
    BY <1>1, <1>2, <1>3, PTL DEF Spec
  <1> QED BY <1>4 DEF Informed, AppendOnReplayedHistory

-----------------------------------------------------------------------------
(* A deadline belongs to the state it was set in: only a pending row waits *)
(* out a backoff and only a running one has a lease.                       *)
OwnDeadlines(job) ==
    /\ job.state # "pending" => job.wait = 0
    /\ job.state # "running" => job.ttl = 0

RowsInv == \A t \in Seqs : OwnDeadlines(jobs[t])

(* Every transition of a row clears the deadlines it leaves behind.        *)
LEMMA DeadlineTypes ==
    ASSUME NEW job \in Job, OwnDeadlines(job)
    PROVE  /\ \A permanent \in BOOLEAN : OwnDeadlines(JobFailure(job, permanent))
           /\ \A w : job.wait = 0 => OwnDeadlines(JobStarted(job, w))
           /\ OwnDeadlines(JobReleased(job))
           /\ \A seq, E : job.state = "running" => OwnDeadlines(JobCompleted(job, seq, E))
           /\ job.state = "failed" => OwnDeadlines(JobRequeued(job))
           /\ job.state = "running" => OwnDeadlines([job EXCEPT !.ttl = WorkerTtl])
           /\ job.state = "running" => OwnDeadlines([job EXCEPT !.holder = Orphan])
           /\ OwnDeadlines([job EXCEPT !.ttl = Less(@), !.wait = Less(@)])
           /\ OwnDeadlines(NoJob)
  <1> USE DEF OwnDeadlines, Job
  <1>1. \A permanent \in BOOLEAN : OwnDeadlines(JobFailure(job, permanent))
    <2> DEFINE f == job.fails + 1
    <2>1. OwnDeadlines([job EXCEPT !.state = "failed", !.fails = f, !.wait = 0,
                                   !.holder = NoOne, !.ttl = 0])
      OBVIOUS
    <2>2. OwnDeadlines([job EXCEPT !.state = "pending", !.fails = f, !.wait = Backoff(f),
                                   !.holder = NoOne, !.ttl = 0])
      OBVIOUS
    <2> HIDE DEF OwnDeadlines
    <2> QED BY <2>1, <2>2 DEF JobFailure
  <1>2. \A w : job.wait = 0 => OwnDeadlines(JobStarted(job, w))
    BY DEF JobStarted
  <1>3. OwnDeadlines(JobReleased(job))
    BY DEF JobReleased
  <1>4. \A seq, E : job.state = "running" => OwnDeadlines(JobCompleted(job, seq, E))
    BY DEF JobCompleted
  <1>5. job.state = "failed" => OwnDeadlines(JobRequeued(job))
    BY DEF JobRequeued
  <1>6. job.state = "running" => OwnDeadlines([job EXCEPT !.ttl = WorkerTtl])
    OBVIOUS
  <1>7. job.state = "running" => OwnDeadlines([job EXCEPT !.holder = Orphan])
    OBVIOUS
  <1>8. OwnDeadlines([job EXCEPT !.ttl = Less(@), !.wait = Less(@)])
    BY DEF Less
  <1>9. OwnDeadlines(NoJob)
    BY DEF NoJob
  <1> QED BY <1>1, <1>2, <1>3, <1>4, <1>5, <1>6, <1>7, <1>8, <1>9

(* One step of a row: it stays, it is erased, or it was not completed and  *)
(* moves to a row that has only deadlines of its own.                      *)
RowStep(t) ==
    \/ jobs'[t] \in {jobs[t], NoJob}
    \/ jobs[t].state # "completed" /\ OwnDeadlines(jobs'[t])

(* Recovery is such a step: it touches running rows alone.                 *)
LEMMA RecoveredRow ==
    ASSUME TypeOK, RowsInv, NEW t \in Seqs
    PROVE  /\ OwnDeadlines(Recovered[t])
           /\ Recovered[t] = jobs[t] \/ jobs[t].state = "running"
  <1>1. jobs[t] \in Job /\ OwnDeadlines(jobs[t])
    BY DEF TypeOK, RowsInv
  <1>2. CASE Expired(jobs[t])
    BY <1>1, <1>2, DeadlineTypes DEF Recovered, Expired
  <1>3. CASE ~Expired(jobs[t])
    BY <1>1, <1>3 DEF Recovered
  <1> QED BY <1>2, <1>3

(* Every step of the system is a step of each row.                         *)
LEMMA EveryRowStep ==
    ASSUME TypeOK, RowsInv, [Next]_vars, NEW t \in Seqs
    PROVE  RowStep(t)
  <1>a. jobs[t] \in Job /\ OwnDeadlines(jobs[t]) /\ jobs \in [Seqs -> Job]
    BY DEF TypeOK, RowsInv
  <1>b. jobs' = Recovered => RowStep(t)
    BY RecoveredRow DEF RowStep
  <1>c. Erase => RowStep(t)
    BY DEF Erase, RowStep
  <1>d. UNCHANGED jobs => RowStep(t)
    BY DEF RowStep
  <1>e. ASSUME NEW u \in Seqs, NEW job, jobs' = [jobs EXCEPT ![u] = job],
               jobs[u].state # "completed", OwnDeadlines(job)
        PROVE  RowStep(t)
    BY <1>a, <1>e DEF RowStep
  <1>1. ASSUME NEW h \in Handles, OwnerStep(h) PROVE RowStep(t)
    BY <1>1, <1>d DEF OwnerStep, ClaimSession, RenewSession, ReleaseSession,
       DropSessionLease, ReplaySession, AppendTurn, AppendStale
  <1>2. ASSUME NEW w \in Workers, WorkerStep(w) PROVE RowStep(t)
    <2> DEFINE u == worker[w].through
    <2>a. OwnsJob(w) => /\ u \in Seqs /\ jobs[u] \in Job
                        /\ jobs[u].state = "running" /\ OwnDeadlines(jobs[u])
      BY DEF OwnsJob, TypeOK, RowsInv
    <2> HIDE DEF u
    <2>1. CASE ClaimCompaction(w)
      <3>1. CASE jobs' = Recovered
        BY <1>b, <3>1
      <3>2. ASSUME NEW v \in Seqs, Oldest(Recovered, v),
                   jobs' = [Recovered EXCEPT ![v] = JobStarted(@, w)]
            PROVE  RowStep(t)
        <4>1. CASE t # v
          <5>1. jobs'[t] = Recovered[t]
            BY <1>a, <3>2, <4>1, RecoveredType
          <5> QED BY <5>1, RecoveredRow DEF RowStep
        <4>2. CASE t = v
          <5>1. jobs'[t] = JobStarted(Recovered[t], w) /\ Recovered[t] \in Job
            BY <1>a, <3>2, <4>2, RecoveredType
          <5>2. Recovered[t].state = "pending" /\ Recovered[t].wait = 0
            BY <3>2, <4>2 DEF Oldest, Claimable
          <5>3. jobs[t].state # "completed"
            BY <5>2, RecoveredRow
          <5> QED BY <5>1, <5>2, <5>3, RecoveredRow, DeadlineTypes DEF RowStep
        <4> QED BY <4>1, <4>2
      <3> QED BY <2>1, <3>1, <3>2 DEF ClaimCompaction
    <2>2. CASE CompactionSource(w)
      BY <1>d, <2>2 DEF CompactionSource
    <2>3. CASE RenewCompaction(w)
      <3>1. OwnsJob(w) /\ jobs' = [jobs EXCEPT ![u] = [jobs[u] EXCEPT !.ttl = WorkerTtl]]
        BY <2>3 DEF RenewCompaction, u
      <3> QED BY <1>e, <2>a, <3>1, DeadlineTypes
    <2>4. ASSUME NEW permanent \in BOOLEAN, RecordCompactionFailure(w, permanent)
          PROVE  RowStep(t)
      <3>1. OwnsJob(w) /\ jobs' = [jobs EXCEPT ![u] = JobFailure(jobs[u], permanent)]
        BY <2>4 DEF RecordCompactionFailure, u
      <3> QED BY <1>e, <2>a, <3>1, DeadlineTypes
    <2>5. CASE ReleaseCompaction(w)
      <3>1. OwnsJob(w) /\ jobs' = [jobs EXCEPT ![u] = JobReleased(jobs[u])]
        BY <2>5 DEF ReleaseCompaction, u
      <3> QED BY <1>e, <2>a, <3>1, DeadlineTypes
    <2>6. CASE CompleteCompaction(w)
      <3> DEFINE job == JobCompleted(jobs[u], lastSeq + 1, worker[w].source)
      <3>1. OwnsJob(w) /\ jobs' = [jobs EXCEPT ![u] = job]
        BY <2>6 DEF CompleteCompaction, HoldsJob, u
      <3>2. OwnDeadlines(job)
        BY <2>a, <3>1, DeadlineTypes
      <3> HIDE DEF job
      <3> QED BY <1>e, <2>a, <3>1, <3>2
    <2>7. CASE DropCompactionLease(w)
      <3>1. \/ UNCHANGED jobs
            \/ OwnsJob(w) /\ jobs' = [jobs EXCEPT ![u] = JobFailure(jobs[u], FALSE)]
            \/ OwnsJob(w) /\ jobs' = [jobs EXCEPT ![u] = [jobs[u] EXCEPT !.holder = Orphan]]
        BY <2>7 DEF DropCompactionLease, u
      <3>2. OwnsJob(w) => /\ OwnDeadlines(JobFailure(jobs[u], FALSE))
                          /\ OwnDeadlines([jobs[u] EXCEPT !.holder = Orphan])
        BY <2>a, DeadlineTypes
      <3>3. CASE OwnsJob(w) /\ jobs' = [jobs EXCEPT ![u] = JobFailure(jobs[u], FALSE)]
        BY <1>e, <2>a, <3>2, <3>3
      <3>4. CASE OwnsJob(w) /\ jobs' = [jobs EXCEPT ![u] = [jobs[u] EXCEPT !.holder = Orphan]]
        BY <1>e, <2>a, <3>2, <3>4
      <3> QED BY <1>d, <3>1, <3>3, <3>4
    <2> QED BY <1>2, <2>1, <2>2, <2>3, <2>4, <2>5, <2>6, <2>7 DEF WorkerStep
  <1>3. CASE StoreStep
    <2>1. ASSUME NEW u \in Seqs, QueueCompaction(u) PROVE RowStep(t)
      <3> DEFINE b == Cardinality({j \in Seqs : jobs[j].state # "none"})
      <3>1. /\ jobs' = [jobs EXCEPT ![u] = [NoJob EXCEPT !.state = "pending", !.born = b]]
            /\ jobs[u].state # "completed"
        BY <2>1 DEF QueueCompaction
      <3>2. OwnDeadlines([NoJob EXCEPT !.state = "pending", !.born = b])
        BY DEF NoJob, OwnDeadlines
      <3> HIDE DEF b
      <3> QED BY <1>e, <3>1, <3>2
    <2>2. ASSUME NEW u \in Seqs, RetryFailedJob(u) PROVE RowStep(t)
      <3>1. /\ jobs' = [jobs EXCEPT ![u] = JobRequeued(jobs[u])]
            /\ jobs[u].state = "failed" /\ jobs[u] \in Job /\ OwnDeadlines(jobs[u])
        BY <1>a, <2>2 DEF RetryFailedJob, RowsInv
      <3> QED BY <1>e, <3>1, DeadlineTypes
    <2> QED BY <1>3, <1>b, <1>c, <1>d, <2>1, <2>2 DEF StoreStep, SetSessionTitle,
          AppendEvent, DeleteSession, Maintain, RecoverStaleCompactions
  <1>4. CASE Tick
    <2>1. jobs'[t] = [jobs[t] EXCEPT !.ttl = Less(jobs[t].ttl), !.wait = Less(jobs[t].wait)]
      BY <1>4 DEF Tick
    <2>2. OwnDeadlines(jobs'[t])
      BY <1>a, <2>1, DeadlineTypes
    <2>3. ASSUME jobs[t].state = "completed" PROVE jobs'[t] = jobs[t]
      <3>1. jobs[t].ttl = 0 /\ jobs[t].wait = 0 /\ Less(0) = 0
        BY <1>a, <2>3 DEF OwnDeadlines, Less
      <3>2. jobs'[t] = [jobs[t] EXCEPT !.ttl = jobs[t].ttl, !.wait = jobs[t].wait]
        BY <2>1, <3>1
      <3> QED BY <1>a, <3>2 DEF Job
    <2> QED BY <2>2, <2>3 DEF RowStep
  <1>5. CASE UNCHANGED vars
    BY <1>5, <1>d DEF vars
  <1> QED BY <1>1, <1>2, <1>3, <1>4, <1>5 DEF Next

(* A completed compaction is final.  Time is the step that needs the       *)
(* invariant: a deadline left on a completed row would still run down.     *)
THEOREM CompletedIsFinal == Spec => CompletionIsFinal
  <1> DEFINE Inv == TypeOK /\ RowsInv
             Final == \A t \in Seqs :
                jobs[t].state = "completed" => jobs'[t] \in {jobs[t], NoJob}
  <1>1. Init => Inv
    BY OwnerInit DEF OwnerInv, Init, RowsInv, OwnDeadlines, NoJob
  <1>2. Inv /\ [Next]_vars => Inv'
    <2> SUFFICES ASSUME Inv, [Next]_vars PROVE RowsInv'
      BY TypeStep
    <2>1. ASSUME NEW t \in Seqs PROVE OwnDeadlines(jobs'[t])
      <3>1. OwnDeadlines(NoJob) /\ OwnDeadlines(jobs[t])
        BY DEF OwnDeadlines, NoJob, RowsInv
      <3> QED BY <3>1, EveryRowStep DEF RowStep
    <2> QED BY <2>1 DEF RowsInv
  <1>3. Inv /\ [Next]_vars => [Final]_vars
    BY EveryRowStep DEF RowStep
  <1> HIDE DEF Inv, Final
  <1>4. Spec => [][Final]_vars
    BY <1>1, <1>2, <1>3, PTL DEF Spec
  <1> QED BY <1>4 DEF Final, CompletionIsFinal

-----------------------------------------------------------------------------
(* The raw events up to a boundary: what a summary of it stands for.       *)
CoversUpTo(n) == (1..n) \ Summaries

(* The chain of compactions as long as the operator has retried no job.    *)
(* One job is in the works, behind every summary; each completed boundary  *)
(* lies behind the summaries of the earlier ones; a summary, finished or   *)
(* in the hands of the worker that owns its job, stands for the raw events *)
(* up to its boundary.                                                     *)
ChainInv ==
    /\ \A t, u \in Active : t = u
    /\ \A t \in Active, c \in Completed : jobs[c].summary <= t
    /\ \A c, d \in Completed : c < d => jobs[c].summary <= d
    /\ \A c \in Completed : jobs[c].covers = CoversUpTo(c)
    /\ \A w \in Workers :
          OwnsJob(w) => worker[w].source \in {{}, CoversUpTo(worker[w].through)}

(* A step of the chain that completes nothing and queues nothing.          *)
QuietChain ==
    /\ \A t \in Seqs :
          /\ jobs[t].state = "completed" <=> jobs'[t].state = "completed"
          /\ jobs'[t].summary = jobs[t].summary
          /\ jobs'[t].covers = jobs[t].covers
    /\ Active' \subseteq Active
    /\ \A w \in Workers :
          OwnsJob(w)' => \/ worker'[w].source = {}
                         \/ OwnsJob(w) /\ worker'[w] = worker[w]

(* Such a step keeps the chain.                                            *)
LEMMA QuietKeepsChain ==
    ASSUME ChainInv, QuietChain
    PROVE  ChainInv'
  <1>1. /\ Completed' = Completed
        /\ \A c \in Completed : jobs'[c].summary = jobs[c].summary
                             /\ jobs'[c].covers = jobs[c].covers
    BY DEF QuietChain, Completed
  <1>2. Summaries' = Summaries
    BY <1>1 DEF Summaries
  <1>3. \A n : CoversUpTo(n)' = CoversUpTo(n)
    BY <1>2 DEF CoversUpTo
  <1>4. \A t, u \in Active' : t = u
    BY DEF QuietChain, ChainInv
  <1>5. \A t \in Active', c \in Completed' : jobs'[c].summary <= t
    BY <1>1 DEF QuietChain, ChainInv
  <1>6. \A c, d \in Completed' : c < d => jobs'[c].summary <= d
    BY <1>1 DEF ChainInv
  <1>7. \A c \in Completed' : jobs'[c].covers = CoversUpTo(c)'
    BY <1>1, <1>3 DEF ChainInv
  <1>8. ASSUME NEW w \in Workers, OwnsJob(w)'
        PROVE  (worker[w].source \in {{}, CoversUpTo(worker[w].through)})'
    <2>1. CASE worker'[w].source = {}
      BY <2>1
    <2>2. CASE OwnsJob(w) /\ worker'[w] = worker[w]
      <3>1. worker[w].source \in {{}, CoversUpTo(worker[w].through)}
        BY <2>2 DEF ChainInv
      <3> QED BY <2>2, <1>2, <3>1 DEF CoversUpTo
    <2> QED BY <1>8, <2>1, <2>2 DEF QuietChain
  <1> QED BY <1>4, <1>5, <1>6, <1>7, <1>8 DEF ChainInv

(* Cut behind every summary, the replayed events stand for the raw ones:   *)
(* the newest summary for those up to its boundary, the tail for itself.   *)
LEMMA ReplayCovers ==
    ASSUME TypeOK, TranscriptInv, ChainInv, NEW n \in 0..lastSeq,
           \A c \in Completed : jobs[c].summary <= n
    PROVE  Expand({e \in ReplayEvents : e <= n}) = CoversUpTo(n)
  <1> DEFINE E == {e \in ReplayEvents : e <= n}
  <1>a. lastSeq \in Nat /\ n \in Nat /\ n <= lastSeq
    BY DEF TypeOK
  <1>1. CASE Completed = {}
    <2>1. Summaries = {} /\ E = 1..n
      BY <1>a, <1>1 DEF Summaries, ReplayEvents
    <2>2. UNION {jobs[t].covers : t \in {c \in Completed : jobs[c].summary \in E}} = {}
      BY <1>1
    <2>3. {e \in E : e \in RawEvents} = 1..n
      BY <1>a, <2>1 DEF RawEvents
    <2>4. Expand(E) = {e \in E : e \in RawEvents}
               \cup UNION {jobs[t].covers : t \in {c \in Completed : jobs[c].summary \in E}}
      BY DEF Expand
    <2> HIDE DEF E
    <2> QED BY <2>1, <2>2, <2>3, <2>4 DEF CoversUpTo, E
  <1>2. CASE Completed # {}
    <2>1. PICK c \in Completed : IsLatest(c)
      BY <1>2, LatestExists
    <2> DEFINE s == jobs[c].summary
    <2>2. c \in Nat /\ c > 0 /\ s \in Nat /\ c < s /\ s <= n
      BY <2>1 DEF TranscriptInv, TypeOK, Completed, Job, Seqs
    <2>3. ReplayEvents = {s} \cup {e \in 1..lastSeq : e > c /\ e # s}
      BY <2>1, ReplayOfLatest DEF TailOf
    <2>4. \A e : e \in E <=> e = s \/ (e \in Nat /\ c < e /\ e <= n)
      <3> HIDE DEF s
      <3> QED BY <1>a, <2>2, <2>3
    <2>5. \A d \in Completed : d # c => jobs[d].summary <= c /\ d \in Nat /\ jobs[d].summary \in Nat
      BY <2>1 DEF ChainInv, IsLatest, Completed, Seqs, TypeOK, Job
    <2>6. \A d \in Completed : jobs[d].summary \in E <=> d = c
      <3> HIDE DEF E
      <3>1. \A d \in Completed : jobs[d].summary \in E => d = c
        <4> SUFFICES ASSUME NEW d \in Completed, d # c PROVE jobs[d].summary \notin E
          OBVIOUS
        <4>1. jobs[d].summary <= c /\ jobs[d].summary \in Nat
          BY <2>5
        <4> QED BY <2>2, <2>4, <4>1
      <3>2. jobs[c].summary \in E
        BY <2>4
      <3> QED BY <3>1, <3>2
    <2>7. {d \in Completed : jobs[d].summary \in E} = {c}
      <3> HIDE DEF E
      <3> QED BY <2>1, <2>6
    <2>8. UNION {jobs[t].covers : t \in {d \in Completed : jobs[d].summary \in E}} = jobs[c].covers
      <3> HIDE DEF E
      <3> QED BY <2>7
    <2>9. jobs[c].covers = (1..c) \ Summaries
      BY <2>1 DEF ChainInv, CoversUpTo
    <2>10. s \in Summaries
      BY <2>1 DEF Summaries
    <2> HIDE DEF E, s
    <2>11. {e \in E : e \in RawEvents} = {e \in (c+1)..n : e \notin Summaries}
      <3>1. \A e : e \in E /\ e \in RawEvents <=> e \in (c+1)..n /\ e \notin Summaries
        BY <1>a, <2>2, <2>4, <2>10 DEF RawEvents
      <3> QED BY <3>1
    <2>12. Expand(E) = {e \in E : e \in RawEvents}
               \cup UNION {jobs[t].covers : t \in {d \in Completed : jobs[d].summary \in E}}
      BY DEF Expand
    <2>13. Expand(E) = {e \in (c+1)..n : e \notin Summaries} \cup ((1..c) \ Summaries)
      BY <2>8, <2>9, <2>11, <2>12
    <2>14. {e \in (c+1)..n : e \notin Summaries} \cup ((1..c) \ Summaries) = (1..n) \ Summaries
      BY <1>a, <2>2
    <2> QED BY <2>13, <2>14 DEF CoversUpTo, E
  <1> QED BY <1>1, <1>2

(* The tail behind the newest boundary holds no other summary.             *)
LEMMA ChainReadable ==
    ASSUME TypeOK, TranscriptInv, ChainInv
    PROVE  Readable
  <1> SUFFICES ASSUME NEW c \in Completed, IsLatest(c), NEW d \in Completed,
                      jobs[d].summary \in TailOf(c)
               PROVE  FALSE
    BY DEF Readable, Summaries
  <1>1. d # c
    BY DEF TailOf
  <1>2. c \in Nat /\ d \in Nat /\ d <= c /\ jobs[d].summary \in Nat
    BY DEF IsLatest, Completed, Seqs, TypeOK, Job
  <1>3. jobs[d].summary <= c
    BY <1>1, <1>2 DEF ChainInv
  <1> QED BY <1>2, <1>3 DEF TailOf

(* Replay stands for the whole raw transcript.                             *)
LEMMA ChainCovers ==
    ASSUME TypeOK, TranscriptInv, ChainInv
    PROVE  Expand(ReplayEvents) = RawEvents
  <1>1. lastSeq \in 0..lastSeq /\ lastSeq \in Nat
    BY DEF TypeOK
  <1>2. \A c \in Completed : jobs[c].summary <= lastSeq
    BY DEF TranscriptInv
  <1>3. \A e \in ReplayEvents : e <= lastSeq
    <2>1. CASE Completed = {}
      BY <1>1, <2>1 DEF ReplayEvents
    <2>2. CASE Completed # {}
      <3>1. PICK c \in Completed : IsLatest(c)
        BY <2>2, LatestExists
      <3>2. ReplayEvents = {jobs[c].summary} \cup TailOf(c)
        BY <3>1, ReplayOfLatest
      <3>3. \A e \in TailOf(c) : e <= lastSeq
        BY <1>1 DEF TailOf
      <3> QED BY <1>2, <3>1, <3>2, <3>3
    <2> QED BY <2>1, <2>2
  <1>4. {e \in ReplayEvents : e <= lastSeq} = ReplayEvents
    BY <1>3
  <1>5. Expand({e \in ReplayEvents : e <= lastSeq}) = CoversUpTo(lastSeq)
    BY <1>1, <1>2, ReplayCovers
  <1> QED BY <1>4, <1>5 DEF CoversUpTo, RawEvents

(* Recovery makes no job active, and leaves what still runs alone.         *)
LEMMA RecoveredActive ==
    ASSUME jobs \in [Seqs -> Job], NEW t \in Seqs
    PROVE  /\ Recovered[t].state \in {"pending", "running"} =>
                 jobs[t].state \in {"pending", "running"}
           /\ Recovered[t].state = "running" => Recovered[t] = jobs[t]
  <1>1. CASE Expired(jobs[t])
    <2>1. Recovered[t] = JobFailure(jobs[t], FALSE)
      BY <1>1 DEF Recovered
    <2> QED BY <1>1, <2>1, JobFailureKeeps DEF Expired
  <1>2. CASE ~Expired(jobs[t])
    BY <1>2 DEF Recovered
  <1> QED BY <1>1, <1>2

(* A worker's call that moves its own job, and may give the lease up.      *)
LEMMA OwnJobIsQuiet ==
    ASSUME TypeOK, NEW w \in Workers, OwnsJob(w), NEW job \in Job,
           jobs' = [jobs EXCEPT ![worker[w].through] = job],
           job.state \notin {"none", "completed"},
           job.summary = jobs[worker[w].through].summary,
           job.covers = jobs[worker[w].through].covers,
           job.state = "running" => job.holder \in {w, Orphan},
           worker' \in {worker, [worker EXCEPT ![w] = NoWorker]}
    PROVE  QuietChain
  <1> DEFINE t == worker[w].through
  <1>1. t \in Seqs /\ jobs[t].state = "running" /\ jobs \in [Seqs -> Job]
    BY DEF OwnsJob, TypeOK
  <1>2. jobs'[t] = job /\ \A u \in Seqs : u # t => jobs'[u] = jobs[u]
    BY <1>1
  <1>3. \A u \in Seqs :
          /\ jobs[u].state = "completed" <=> jobs'[u].state = "completed"
          /\ jobs'[u].summary = jobs[u].summary
          /\ jobs'[u].covers = jobs[u].covers
    BY <1>1, <1>2
  <1>4. Active' \subseteq Active
    BY <1>1, <1>2 DEF Active
  <1>5. ASSUME NEW v \in Workers, OwnsJob(v)'
        PROVE  worker'[v].source = {} \/ (OwnsJob(v) /\ worker'[v] = worker[v])
    <2>1. worker \in [Workers -> Worker] /\ Orphan \notin Workers
      BY OwnersAssumption DEF TypeOK
    <2>2. CASE v = w
      BY <2>1, <2>2 DEF NoWorker
    <2>3. CASE v # w
      <3>1. worker'[v] = worker[v]
        BY <2>1, <2>3
      <3> DEFINE u == worker[v].through
      <3>2. u \in Seqs /\ jobs'[u].state = "running" /\ jobs'[u].holder = v
        BY <1>5, <3>1 DEF OwnsJob
      <3>3. u # t
        BY <1>2, <2>1, <2>3, <3>2
      <3>4. OwnsJob(v)
        BY <1>2, <3>2, <3>3 DEF OwnsJob
      <3> QED BY <3>1, <3>4
    <2> QED BY <2>2, <2>3
  <1> QED BY <1>3, <1>4, <1>5 DEF QuietChain

(* Recovery, alone or with the claim of one pending job.                   *)
LEMMA RecoveryIsQuiet ==
    ASSUME TypeOK, jobs' = Recovered, worker' = worker
    PROVE  QuietChain
  <1>1. jobs \in [Seqs -> Job]
    BY DEF TypeOK
  <1>2. Active' \subseteq Active
    BY <1>1, RecoveredActive DEF Active
  <1>3. ASSUME NEW v \in Workers, OwnsJob(v)' PROVE OwnsJob(v)
    BY <1>1, <1>3, RecoveredActive DEF OwnsJob
  <1> QED BY <1>1, <1>2, <1>3, RecoveredKeeps DEF QuietChain

LEMMA ClaimIsQuiet ==
    ASSUME TypeOK, NEW w \in Workers, NEW t \in Seqs, Recovered[t].state = "pending",
           jobs' = [Recovered EXCEPT ![t] = JobStarted(@, w)],
           worker' = [worker EXCEPT ![w] = [through |-> t, source |-> {}]]
    PROVE  QuietChain
  <1>1. jobs \in [Seqs -> Job] /\ Recovered \in [Seqs -> Job] /\ worker \in [Workers -> Worker]
    BY RecoveredType DEF TypeOK
  <1>2. /\ JobStarted(Recovered[t], w).state = "running"
        /\ JobStarted(Recovered[t], w).holder = w
        /\ JobStarted(Recovered[t], w).summary = Recovered[t].summary
        /\ JobStarted(Recovered[t], w).covers = Recovered[t].covers
    BY <1>1 DEF JobStarted, Job
  <1>3. /\ jobs'[t] = JobStarted(Recovered[t], w)
        /\ \A u \in Seqs : u # t => jobs'[u] = Recovered[u]
    BY <1>1
  <1>4. \A u \in Seqs :
          /\ jobs[u].state = "completed" <=> jobs'[u].state = "completed"
          /\ jobs'[u].summary = jobs[u].summary
          /\ jobs'[u].covers = jobs[u].covers
    <2> SUFFICES ASSUME NEW u \in Seqs
                 PROVE  /\ jobs[u].state = "completed" <=> jobs'[u].state = "completed"
                        /\ jobs'[u].summary = jobs[u].summary
                        /\ jobs'[u].covers = jobs[u].covers
      OBVIOUS
    <2>1. /\ jobs[u].state = "completed" <=> Recovered[u].state = "completed"
          /\ Recovered[u].summary = jobs[u].summary
          /\ Recovered[u].covers = jobs[u].covers
      BY <1>1, RecoveredKeeps
    <2> QED BY <1>2, <1>3, <2>1
  <1>5. Active' \subseteq Active
    <2> SUFFICES ASSUME NEW u \in Seqs, jobs'[u].state \in {"pending", "running"}
                 PROVE  jobs[u].state \in {"pending", "running"}
      BY DEF Active
    <2>1. Recovered[u].state \in {"pending", "running"}
      BY <1>3
    <2> QED BY <1>1, <2>1, RecoveredActive
  <1>6. ASSUME NEW v \in Workers, OwnsJob(v)'
        PROVE  worker'[v].source = {} \/ (OwnsJob(v) /\ worker'[v] = worker[v])
    <2>1. CASE v = w
      BY <1>1, <2>1
    <2>2. CASE v # w
      <3>1. worker'[v] = worker[v]
        BY <1>1, <2>2
      <3> DEFINE u == worker[v].through
      <3>2. u \in Seqs /\ jobs'[u].state = "running" /\ jobs'[u].holder = v
        BY <1>6, <3>1 DEF OwnsJob
      <3>3. u # t
        BY <1>2, <1>3, <2>2, <3>2
      <3>4. Recovered[u] = jobs[u]
        BY <1>1, <1>3, <3>2, <3>3, RecoveredActive
      <3>5. OwnsJob(v)
        BY <1>3, <3>2, <3>3, <3>4 DEF OwnsJob
      <3> QED BY <3>1, <3>5
    <2> QED BY <2>1, <2>2
  <1> QED BY <1>4, <1>5, <1>6 DEF QuietChain

(* The calls of a worker that neither load nor complete are quiet.         *)
LEMMA WorkerIsQuiet ==
    ASSUME TypeOK, NEW w \in Workers, WorkerStep(w), ~CompactionSource(w), ~CompleteCompaction(w)
    PROVE  QuietChain
  <1> DEFINE t == worker[w].through
  <1>a. OwnsJob(w) => /\ t \in Seqs /\ jobs[t] \in Job
                      /\ jobs[t].state = "running" /\ jobs[t].holder = w
    BY DEF OwnsJob, TypeOK
  <1>1. CASE ClaimCompaction(w)
    BY <1>1, ClaimIsQuiet, RecoveryIsQuiet DEF ClaimCompaction, Oldest, Claimable
  <1>2. CASE RenewCompaction(w)
    <2> DEFINE job == [jobs[t] EXCEPT !.ttl = WorkerTtl]
    <2>1. OwnsJob(w) /\ jobs' = [jobs EXCEPT ![t] = job] /\ worker' = worker
      BY <1>2 DEF RenewCompaction
    <2>2. job \in Job
      BY <1>a, <2>1, JobTypes
    <2>3. job.state = "running" /\ job.holder = w
          /\ job.summary = jobs[t].summary /\ job.covers = jobs[t].covers
      BY <1>a, <2>1 DEF Job
    <2> HIDE DEF job
    <2> QED BY <2>1, <2>2, <2>3, OwnJobIsQuiet
  <1>3. ASSUME NEW permanent \in BOOLEAN, RecordCompactionFailure(w, permanent)
        PROVE  QuietChain
    <2> DEFINE job == JobFailure(jobs[t], permanent)
    <2>1. /\ OwnsJob(w) /\ jobs' = [jobs EXCEPT ![t] = job]
          /\ worker' = [worker EXCEPT ![w] = NoWorker]
      BY <1>3 DEF RecordCompactionFailure
    <2>2. job \in Job /\ job.state \in {"pending", "failed"}
          /\ job.summary = jobs[t].summary /\ job.covers = jobs[t].covers
      BY <1>a, <2>1, JobFailureType, JobFailureKeeps
    <2> HIDE DEF job
    <2> QED BY <2>1, <2>2, OwnJobIsQuiet
  <1>4. CASE ReleaseCompaction(w)
    <2> DEFINE job == JobReleased(jobs[t])
    <2>1. /\ OwnsJob(w) /\ jobs' = [jobs EXCEPT ![t] = job]
          /\ worker' = [worker EXCEPT ![w] = NoWorker]
      BY <1>4 DEF ReleaseCompaction
    <2>2. job \in Job
      BY <1>a, <2>1, JobTypes
    <2>3. job.state = "pending" /\ job.summary = jobs[t].summary /\ job.covers = jobs[t].covers
      BY <1>a, <2>1 DEF Job, JobReleased
    <2> HIDE DEF job
    <2> QED BY <2>1, <2>2, <2>3, OwnJobIsQuiet
  <1>5. CASE DropCompactionLease(w)
    <2>1. worker' = [worker EXCEPT ![w] = NoWorker]
      BY <1>5 DEF DropCompactionLease
    <2>2. CASE UNCHANGED jobs
      <3>1. worker \in [Workers -> Worker]
        BY DEF TypeOK
      <3>2. Active' = Active
        BY <2>2 DEF Active
      <3>3. ASSUME NEW v \in Workers, OwnsJob(v)'
            PROVE  worker'[v].source = {} \/ (OwnsJob(v) /\ worker'[v] = worker[v])
        <4>1. CASE v = w
          BY <2>1, <3>1, <4>1 DEF NoWorker
        <4>2. CASE v # w
          <5>1. worker'[v] = worker[v]
            BY <2>1, <3>1, <4>2
          <5> QED BY <2>2, <3>3, <5>1 DEF OwnsJob
        <4> QED BY <4>1, <4>2
      <3> QED BY <2>2, <3>2, <3>3 DEF QuietChain
    <2>3. CASE OwnsJob(w) /\ jobs' = [jobs EXCEPT ![t] = JobFailure(jobs[t], FALSE)]
      <3> DEFINE job == JobFailure(jobs[t], FALSE)
      <3>1. job \in Job /\ job.state \in {"pending", "failed"}
            /\ job.summary = jobs[t].summary /\ job.covers = jobs[t].covers
        BY <1>a, <2>3, JobFailureType, JobFailureKeeps
      <3>2. OwnsJob(w) /\ jobs' = [jobs EXCEPT ![t] = job]
        BY <2>3
      <3> HIDE DEF job
      <3> QED BY <2>1, <3>1, <3>2, OwnJobIsQuiet
    <2>4. CASE OwnsJob(w) /\ jobs' = [jobs EXCEPT ![t] = [jobs[t] EXCEPT !.holder = Orphan]]
      <3> DEFINE job == [jobs[t] EXCEPT !.holder = Orphan]
      <3>1. job \in Job
        BY <1>a, <2>4, JobTypes
      <3>2. job.state = "running" /\ job.holder = Orphan
            /\ job.summary = jobs[t].summary /\ job.covers = jobs[t].covers
        BY <1>a, <2>4 DEF Job
      <3>3. OwnsJob(w) /\ jobs' = [jobs EXCEPT ![t] = job]
        BY <2>4
      <3> HIDE DEF job
      <3> QED BY <2>1, <3>1, <3>2, <3>3, OwnJobIsQuiet
    <2> QED BY <1>5, <2>2, <2>3, <2>4 DEF DropCompactionLease
  <1> QED BY <1>1, <1>2, <1>3, <1>4, <1>5 DEF WorkerStep

(* So is every step that leaves jobs and workers alone, and time.          *)
LEMMA IdleIsQuiet ==
    ASSUME jobs' = jobs, worker' = worker
    PROVE  QuietChain
  BY DEF QuietChain, Active, OwnsJob

LEMMA TickIsQuiet ==
    ASSUME TypeOK, Tick
    PROVE  QuietChain
  <1>1. ASSUME NEW t \in Seqs
        PROVE  /\ jobs'[t].state = jobs[t].state /\ jobs'[t].holder = jobs[t].holder
               /\ jobs'[t].summary = jobs[t].summary /\ jobs'[t].covers = jobs[t].covers
    <2>1. jobs[t] \in Job
      BY DEF TypeOK
    <2>2. jobs'[t] = [jobs[t] EXCEPT !.ttl = Less(@), !.wait = Less(@)]
      BY DEF Tick
    <2> QED BY <2>1, <2>2 DEF Job
  <1>2. worker' = worker
    BY DEF Tick
  <1>3. Active' \subseteq Active
    BY <1>1 DEF Active
  <1>4. \A w \in Workers : OwnsJob(w)' => OwnsJob(w)
    BY <1>1, <1>2 DEF OwnsJob
  <1> QED BY <1>1, <1>2, <1>3, <1>4 DEF QuietChain

(* The chain starts empty, and no step breaks it while nothing is retried. *)
LEMMA ChainStep ==
    ASSUME TypeOK, TypeOK', TranscriptInv, retries = 0 => ChainInv, [Next]_vars
    PROVE  retries' = 0 => ChainInv'
  <1> SUFFICES ASSUME retries' = 0 PROVE ChainInv'
    OBVIOUS
  <1>r. retries = 0 /\ ~\E t \in Seqs : RetryFailedJob(t)
    <2>a. retries \in Nat
      BY BoundsAssumption DEF TypeOK
    <2>b. ASSUME NEW h \in Handles, OwnerStep(h) PROVE retries' = retries
      BY <2>b DEF OwnerStep, ClaimSession, RenewSession, ReleaseSession, DropSessionLease,
         ReplaySession, AppendTurn, AppendStale
    <2>c. ASSUME NEW w \in Workers, WorkerStep(w) PROVE retries' = retries
      BY <2>c DEF WorkerStep, ClaimCompaction, CompactionSource, RenewCompaction,
         RecordCompactionFailure, ReleaseCompaction, CompleteCompaction, DropCompactionLease
    <2>d. StoreStep => retries' \in {retries, retries + 1}
      BY DEF StoreStep, SetSessionTitle, AppendEvent, DeleteSession, Maintain,
         RecoverStaleCompactions, QueueCompaction, RetryFailedJob
    <2>e. Tick \/ UNCHANGED vars => retries' = retries
      BY DEF Tick, vars
    <2>1. retries' \in {retries, retries + 1}
      BY <2>b, <2>c, <2>d, <2>e DEF Next
    <2>2. (\E t \in Seqs : RetryFailedJob(t)) => retries' = retries + 1
      BY DEF RetryFailedJob
    <2> QED BY <2>a, <2>1, <2>2
  <1>c. ChainInv
    BY <1>r
  <1>q. QuietChain => ChainInv'
    BY <1>c, QuietKeepsChain
  <1>1. ASSUME NEW h \in Handles, OwnerStep(h) PROVE QuietChain
    BY <1>1, IdleIsQuiet DEF OwnerStep, ClaimSession, RenewSession, ReleaseSession,
       DropSessionLease, ReplaySession, AppendTurn, AppendStale
  <1>2. ASSUME NEW w \in Workers, CompactionSource(w) PROVE ChainInv'
    <2> DEFINE t == worker[w].through
    <2>1. /\ jobs' = jobs /\ lastSeq' = lastSeq
          /\ worker' = [worker EXCEPT ![w].source = Expand({e \in ReplayEvents : e <= t})]
      BY <1>2 DEF CompactionSource
    <2>2. t \in Seqs /\ t \in Active
      BY <1>2 DEF CompactionSource, HoldsJob, OwnsJob, Active
    <2>3. t \in 0..lastSeq
      BY <2>2 DEF TranscriptInv, Active, Seqs, TypeOK
    <2>4. \A c \in Completed : jobs[c].summary <= t
      BY <1>c, <2>2 DEF ChainInv
    <2>5. Expand({e \in ReplayEvents : e <= t}) = CoversUpTo(t)
      BY <1>c, <2>3, <2>4, ReplayCovers
    <2>6. worker \in [Workers -> Worker]
      BY DEF TypeOK
    <2> HIDE DEF t
    <2>7. worker'[w].source = CoversUpTo(t) /\ worker'[w].through = t
      BY <2>1, <2>5, <2>6 DEF Worker, t
    <2>8. Completed' = Completed /\ Active' = Active /\ Summaries' = Summaries
      BY <2>1 DEF Completed, Active, Summaries
    <2>9. ASSUME NEW v \in Workers, OwnsJob(v)'
          PROVE  (worker[v].source \in {{}, CoversUpTo(worker[v].through)})'
      <3>1. CASE v = w
        BY <2>7, <2>8, <3>1 DEF CoversUpTo
      <3>2. CASE v # w
        <4>1. worker'[v] = worker[v]
          BY <2>1, <2>6, <3>2
        <4>2. OwnsJob(v)
          BY <2>1, <2>9, <4>1 DEF OwnsJob
        <4>3. worker[v].source \in {{}, CoversUpTo(worker[v].through)}
          BY <1>c, <4>2 DEF ChainInv
        <4> QED BY <2>8, <4>1, <4>3 DEF CoversUpTo
      <3> QED BY <3>1, <3>2
    <2>10. /\ \A u, v \in Active' : u = v
           /\ \A u \in Active', c \in Completed' : jobs'[c].summary <= u
           /\ \A c, d \in Completed' : c < d => jobs'[c].summary <= d
      BY <1>c, <2>1, <2>8 DEF ChainInv
    <2>11. \A c \in Completed' : jobs'[c].covers = CoversUpTo(c)'
      BY <1>c, <2>1, <2>8 DEF ChainInv, CoversUpTo
    <2> QED BY <2>9, <2>10, <2>11 DEF ChainInv
  <1>3. ASSUME NEW w \in Workers, CompleteCompaction(w) PROVE ChainInv'
    <2>0. PICK t \in Seqs : t = worker[w].through
      BY <1>3 DEF CompleteCompaction, HoldsJob, OwnsJob
    <2>1. /\ jobs' = [jobs EXCEPT ![t] = JobCompleted(jobs[t], lastSeq + 1, worker[w].source)]
          /\ worker' = [worker EXCEPT ![w] = NoWorker]
          /\ OwnsJob(w) /\ worker[w].source # {}
      BY <1>3, <2>0 DEF CompleteCompaction, HoldsJob
    <2>2. /\ t \in Seqs /\ jobs[t] \in Job /\ jobs \in [Seqs -> Job]
          /\ jobs[t].state = "running" /\ jobs[t].holder = w
          /\ lastSeq \in Nat /\ worker \in [Workers -> Worker]
      BY <2>0, <2>1 DEF OwnsJob, TypeOK
    <2>3. worker[w].source = CoversUpTo(t)
      BY <1>c, <2>0, <2>1 DEF ChainInv
    <2>4. jobs'[t] = JobCompleted(jobs[t], lastSeq + 1, worker[w].source)
      BY <2>1, <2>2
    <2>5. jobs'[t].state = "completed" /\ jobs'[t].summary = lastSeq + 1
          /\ jobs'[t].covers = CoversUpTo(t)
      BY <2>2, <2>3, <2>4 DEF JobCompleted, Job
    <2>6. \A u \in Seqs : u # t => jobs'[u] = jobs[u]
      BY <2>1, <2>2
    <2>7. t \in Active /\ t \in Nat /\ t <= lastSeq
      BY <2>2 DEF Active, TranscriptInv, Seqs
    <2>8. Active' = {}
      <3>1. Active \subseteq {t}
        BY <1>c, <2>7 DEF ChainInv
      <3> QED BY <2>5, <2>6, <3>1 DEF Active
    <2>9. t \notin Completed /\ Completed' = Completed \cup {t}
      BY <2>2, <2>5, <2>6 DEF Completed
    <2>10. \A c \in Completed : jobs'[c] = jobs[c]
      BY <2>6, <2>9 DEF Completed
    <2>11. Summaries' = Summaries \cup {lastSeq + 1}
      BY <2>5, <2>9, <2>10 DEF Summaries
    <2>12. \A n \in 0..lastSeq : CoversUpTo(n)' = CoversUpTo(n)
      BY <2>2, <2>11 DEF CoversUpTo
    <2>13. \A c \in Completed : c \in Nat /\ jobs[c].summary \in Nat /\ c < jobs[c].summary
                  /\ jobs[c].summary <= t
      <3> SUFFICES ASSUME NEW c \in Completed
                   PROVE  /\ c \in Nat /\ jobs[c].summary \in Nat
                          /\ c < jobs[c].summary /\ jobs[c].summary <= t
        OBVIOUS
      <3>1. c \in Nat /\ jobs[c].summary \in Nat
        BY <2>2 DEF Completed, Seqs, Job
      <3>2. c < jobs[c].summary
        BY DEF TranscriptInv
      <3>3. jobs[c].summary <= t
        BY <1>c, <2>7 DEF ChainInv
      <3> QED BY <3>1, <3>2, <3>3
    <2>14. \A c, d \in Completed' : c < d => jobs'[c].summary <= d
      <3> SUFFICES ASSUME NEW c \in Completed', NEW d \in Completed', c < d
                   PROVE  jobs'[c].summary <= d
        OBVIOUS
      <3>1. c # t
        BY <2>7, <2>9, <2>13
      <3>2. c \in Completed /\ jobs'[c].summary = jobs[c].summary
        BY <2>9, <2>10, <3>1
      <3>3. CASE d = t
        BY <2>13, <3>2, <3>3
      <3>4. CASE d # t
        BY <1>c, <2>9, <3>2, <3>4 DEF ChainInv
      <3> QED BY <3>3, <3>4
    <2>15. \A c \in Completed' : jobs'[c].covers = CoversUpTo(c)'
      <3> SUFFICES ASSUME NEW c \in Completed' PROVE jobs'[c].covers = CoversUpTo(c)'
        OBVIOUS
      <3>1. CASE c = t
        <4>1. CoversUpTo(t)' = CoversUpTo(t)
          BY <2>2, <2>7, <2>12
        <4> QED BY <2>5, <3>1, <4>1 DEF CoversUpTo
      <3>2. CASE c # t
        <4>1. c \in Completed /\ c \in 0..lastSeq
          BY <2>2, <2>7, <2>9, <2>13, <3>2
        <4>2. jobs[c].covers = CoversUpTo(c)
          BY <1>c, <4>1 DEF ChainInv
        <4> QED BY <2>10, <2>12, <4>1, <4>2
      <3> QED BY <3>1, <3>2
    <2>16. \A v \in Workers : ~OwnsJob(v)'
      BY <2>8 DEF Active, OwnsJob
    <2> QED BY <2>8, <2>14, <2>15, <2>16 DEF ChainInv
  <1>4. ASSUME NEW t \in Seqs, QueueCompaction(t) PROVE ChainInv'
    <2>1. /\ jobs[t].state = "none" /\ Active = {} /\ worker' = worker
          /\ \A c \in Completed : jobs[c].summary <= t
          /\ \A u \in Seqs : u # t => jobs'[u] = jobs[u]
      BY <1>4 DEF QueueCompaction, IncludesPriorSummary, TypeOK
    <2>2. jobs'[t].state = "pending"
      BY <1>4 DEF QueueCompaction, TypeOK, NoJob
    <2>3. Completed' = Completed /\ \A c \in Completed : jobs'[c] = jobs[c]
      BY <2>1, <2>2 DEF Completed
    <2>4. Summaries' = Summaries
      BY <2>3 DEF Summaries
    <2>5. Active' = {t}
      BY <2>1, <2>2 DEF Active
    <2>6. \A w \in Workers : ~OwnsJob(w)'
      BY <2>2, <2>5 DEF Active, OwnsJob
    <2>7. \A c \in Completed' : jobs'[c].covers = CoversUpTo(c)'
      BY <1>c, <2>3, <2>4 DEF ChainInv, CoversUpTo
    <2> QED BY <1>c, <2>1, <2>3, <2>5, <2>6, <2>7 DEF ChainInv
  <1>5. ASSUME Erase PROVE ChainInv'
    <2>1. \A t \in Seqs : jobs'[t].state = "none"
      BY <1>5 DEF Erase, NoJob
    <2>2. Active' = {} /\ Completed' = {} /\ \A w \in Workers : ~OwnsJob(w)'
      BY <2>1 DEF Active, Completed, OwnsJob
    <2> QED BY <2>2 DEF ChainInv
  <1>6. CASE StoreStep
    <2>1. Maintain => QuietChain \/ Erase
      BY RecoveryIsQuiet DEF Maintain
    <2>2. RecoverStaleCompactions => QuietChain
      BY RecoveryIsQuiet DEF RecoverStaleCompactions
    <2>3. SetSessionTitle \/ AppendEvent => QuietChain
      BY IdleIsQuiet DEF SetSessionTitle, AppendEvent
    <2>4. DeleteSession => Erase
      BY DEF DeleteSession
    <2> QED BY <1>6, <1>r, <1>q, <1>4, <1>5, <2>1, <2>2, <2>3, <2>4 DEF StoreStep
  <1>7. CASE UNCHANGED vars
    BY <1>7, <1>q, IdleIsQuiet DEF vars
  <1>8. ASSUME NEW w \in Workers, WorkerStep(w) PROVE ChainInv'
    BY <1>8, <1>q, <1>2, <1>3, WorkerIsQuiet
  <1>9. CASE Tick
    BY <1>9, <1>q, TickIsQuiet
  <1> QED BY <1>q, <1>1, <1>6, <1>7, <1>8, <1>9 DEF Next

(* The transcript and the chain together are inductive.                    *)
LEMMA ChainHolds == Spec => [](TypeOK /\ TranscriptInv /\ (retries = 0 => ChainInv))
  <1> DEFINE Inv == TypeOK /\ TranscriptInv /\ (retries = 0 => ChainInv)
  <1>1. Init => Inv
    <2> SUFFICES ASSUME Init PROVE TranscriptInv /\ ChainInv
      BY OwnerInit DEF OwnerInv
    <2>1. \A t \in Seqs : jobs[t].state = "none"
      BY DEF Init, NoJob
    <2>2. Active = {} /\ Completed = {} /\ \A w \in Workers : ~OwnsJob(w)
      BY <2>1 DEF Active, Completed, OwnsJob
    <2>3. TranscriptInv
      BY <2>1, <2>2 DEF TranscriptInv, Init
    <2> QED BY <2>2, <2>3 DEF ChainInv
  <1>2. Inv /\ [Next]_vars => Inv'
    <2> SUFFICES ASSUME Inv, [Next]_vars PROVE Inv'
      OBVIOUS
    <2>1. TypeOK'
      BY TypeStep
    <2>2. TranscriptInv'
      BY <2>1, TranscriptStep
    <2> QED BY <2>1, <2>2, ChainStep
  <1> HIDE DEF Inv
  <1>3. Spec => []Inv
    BY <1>1, <1>2, PTL DEF Spec
  <1> QED BY <1>3 DEF Inv

(* As long as the operator has retried no failed job, replay finds no      *)
(* other summary behind the newest compaction: the session can be resumed. *)
THEOREM ReplayStaysReadable == Spec => [](retries = 0 => ReplayReadable)
  <1>1. TypeOK /\ TranscriptInv /\ (retries = 0 => ChainInv) => (retries = 0 => ReplayReadable)
    BY ChainReadable DEF ReplayReadable
  <1> QED BY <1>1, ChainHolds, PTL

(* As long as the operator has retried no failed job, replay loses nothing:*)
(* its events stand for the whole raw transcript, however many compactions *)
(* were chained and whatever was appended, deleted or crashed in between.  *)
THEOREM ReplayLosesNothing == Spec => [](retries = 0 => HistoryCovered)
  <1>1. TypeOK /\ TranscriptInv /\ (retries = 0 => ChainInv) => (retries = 0 => HistoryCovered)
    BY ChainCovers DEF HistoryCovered
  <1> QED BY <1>1, ChainHolds, PTL

-----------------------------------------------------------------------------
(* What a step does to the row of a crashed worker: the row stays in that  *)
(* state, is erased, or goes on with one more failure.                     *)
CountsCrash(t) ==
    /\ jobs[t].state = "running" /\ jobs[t].holder = Orphan
    /\ jobs'[t].state \notin {"running", "none"}
    => jobs'[t].fails = jobs[t].fails + 1

(* Recovery is the one way out, and it counts.                             *)
LEMMA RecoveryCounts ==
    ASSUME TypeOK, NEW t \in Seqs, jobs[t].state = "running"
    PROVE  Recovered[t].state = "running" \/ Recovered[t].fails = jobs[t].fails + 1
  <1>1. CASE Expired(jobs[t])
    <2> DEFINE job == jobs[t]
               f == job.fails + 1
    <2>1. job \in Job
      BY DEF TypeOK
    <2>2. [job EXCEPT !.state = "failed", !.fails = f, !.wait = 0,
                      !.holder = NoOne, !.ttl = 0].fails = f
      BY <2>1 DEF Job
    <2>3. [job EXCEPT !.state = "pending", !.fails = f, !.wait = Backoff(f),
                      !.holder = NoOne, !.ttl = 0].fails = f
      BY <2>1 DEF Job
    <2>4. JobFailure(job, FALSE).fails = f
      BY <2>2, <2>3 DEF JobFailure
    <2>5. Recovered[t] = JobFailure(job, FALSE)
      BY <1>1 DEF Recovered
    <2> QED BY <2>4, <2>5
  <1>2. CASE ~Expired(jobs[t])
    BY <1>2 DEF Recovered
  <1> QED BY <1>1, <1>2

(* Every step of the system counts the crash it resolves.                  *)
LEMMA EveryCrashStep ==
    ASSUME TypeOK, [Next]_vars, NEW t \in Seqs
    PROVE  CountsCrash(t)
  <1> SUFFICES ASSUME jobs[t].state = "running", jobs[t].holder = Orphan,
                      jobs'[t].state \notin {"running", "none"}
               PROVE  jobs'[t].fails = jobs[t].fails + 1
    BY DEF CountsCrash
  <1>a. jobs \in [Seqs -> Job] /\ Recovered \in [Seqs -> Job] /\ Orphan \notin Workers
    BY OwnersAssumption, RecoveredType DEF TypeOK
  <1>b. jobs'[t] # jobs[t]
    OBVIOUS
  <1>c. ASSUME NEW u \in Seqs, NEW job, jobs' = [jobs EXCEPT ![u] = job], u # t
        PROVE  FALSE
    BY <1>a, <1>b, <1>c
  <1>d. jobs' = Recovered => jobs'[t].fails = jobs[t].fails + 1
    BY RecoveryCounts
  <1>e. ASSUME NEW w \in Workers, OwnsJob(w)
        PROVE  worker[w].through \in Seqs /\ worker[w].through # t
    BY <1>a, <1>e DEF OwnsJob
  <1>1. ASSUME NEW h \in Handles, OwnerStep(h) PROVE FALSE
    BY <1>1, <1>b DEF OwnerStep, ClaimSession, RenewSession, ReleaseSession,
       DropSessionLease, ReplaySession, AppendTurn, AppendStale
  <1>2. ASSUME NEW w \in Workers, WorkerStep(w)
        PROVE  jobs'[t].fails = jobs[t].fails + 1
    <2>1. CASE ClaimCompaction(w)
      <3>1. ASSUME NEW u \in Seqs, jobs' = [Recovered EXCEPT ![u] = JobStarted(@, w)]
            PROVE  jobs'[t].fails = jobs[t].fails + 1
        <4>1. CASE u = t
          <5>1. jobs'[t] = JobStarted(Recovered[t], w) /\ Recovered[t] \in Job
            BY <1>a, <3>1, <4>1
          <5>2. jobs'[t].state = "running"
            BY <5>1 DEF JobStarted, Job
          <5> QED BY <5>2
        <4>2. CASE u # t
          <5>1. jobs'[t] = Recovered[t]
            BY <1>a, <3>1, <4>2
          <5> QED BY <5>1, RecoveryCounts
        <4> QED BY <4>1, <4>2
      <3> QED BY <2>1, <3>1, <1>d DEF ClaimCompaction
    <2>2. CASE CompactionSource(w)
      BY <2>2, <1>b DEF CompactionSource
    <2>3. CASE RenewCompaction(w)
      BY <2>3, <1>c, <1>e DEF RenewCompaction
    <2>4. ASSUME NEW permanent \in BOOLEAN, RecordCompactionFailure(w, permanent) PROVE FALSE
      BY <2>4, <1>c, <1>e DEF RecordCompactionFailure
    <2>5. CASE ReleaseCompaction(w)
      BY <2>5, <1>c, <1>e DEF ReleaseCompaction
    <2>6. CASE CompleteCompaction(w)
      BY <2>6, <1>c, <1>e DEF CompleteCompaction, HoldsJob
    <2>7. CASE DropCompactionLease(w)
      BY <2>7, <1>b, <1>c, <1>e DEF DropCompactionLease
    <2> QED BY <1>2, <2>1, <2>2, <2>3, <2>4, <2>5, <2>6, <2>7 DEF WorkerStep
  <1>3. CASE StoreStep
    <2>1. ~Erase
      BY DEF Erase, NoJob
    <2>2. ASSUME NEW u \in Seqs, QueueCompaction(u) PROVE FALSE
      BY <2>2, <1>c DEF QueueCompaction
    <2>3. ASSUME NEW u \in Seqs, RetryFailedJob(u) PROVE FALSE
      BY <2>3, <1>c DEF RetryFailedJob
    <2> QED BY <1>3, <1>b, <1>d, <2>1, <2>2, <2>3 DEF StoreStep, SetSessionTitle, AppendEvent,
          DeleteSession, Maintain, RecoverStaleCompactions
  <1>4. CASE Tick
    <2>1. jobs'[t] = [jobs[t] EXCEPT !.ttl = Less(@), !.wait = Less(@)] /\ jobs[t] \in Job
      BY <1>4, <1>a DEF Tick
    <2> QED BY <2>1 DEF Job
  <1>5. CASE UNCHANGED vars
    BY <1>5, <1>b DEF vars
  <1> QED BY <1>1, <1>2, <1>3, <1>4, <1>5 DEF Next

(* A worker that crashed has spent one attempt, whichever process finds    *)
(* its expired claim and whatever that process wanted.                     *)
THEOREM CrashesAreCounted == Spec => CrashIsCounted
  <1> DEFINE Counts == \A t \in Seqs :
                /\ jobs[t].state = "running" /\ jobs[t].holder = Orphan
                /\ jobs'[t].state \notin {"running", "none"}
                => jobs'[t].fails = jobs[t].fails + 1
  <1>1. TypeOK /\ [Next]_vars => [Counts]_vars
    BY EveryCrashStep DEF CountsCrash
  <1> HIDE DEF Counts
  <1>2. Spec => [][Counts]_vars
    BY <1>1, TypeCorrect, PTL DEF Spec
  <1> QED BY <1>2 DEF Counts, CrashIsCounted

=============================================================================
