------------------------------- MODULE Nebula -------------------------------
(***************************************************************************)
(* The job pipeline of nebula-scheduler: worker processes, schedulers and  *)
(* API requests that meet in the database, with the passing of time and    *)
(* the disturbances of NebulaDb.  Each component's step leaves the private *)
(* state of the others alone.                                              *)
(***************************************************************************)
EXTENDS WorkerService, PromotionService, ApiServices

vars == <<dbVars, procVars, sweep, retrying>>

Init == DbInit /\ ProcInit /\ SweepInit /\ ApiInit

WorkerStep(w) ==
    /\ ExecutorStep(w) \/ DLQStep(w) \/ LifeStep(w)
    /\ UNCHANGED <<sweep, retrying>>

(***************************************************************************)
(* A heartbeat runs out: of a row no live process refreshes for nothing,   *)
(* except between the two statements of a recovery; of a live owner of its *)
(* row as a suspicion.                                                     *)
(***************************************************************************)
Expire(w) ==
    /\ HeartbeatExpires(w)
    /\ ~ ownsRow[w]
    /\ \A s \in Schedulers : sweep[s] = "idle"
    /\ UNCHANGED <<budget, sweep, retrying>>

ExpireInSweep(w) ==
    /\ Disturb("sweepGap")
    /\ HeartbeatExpires(w)
    /\ ~ ownsRow[w]
    /\ \E s \in Schedulers : sweep[s] = "marking"
    /\ UNCHANGED <<sweep, retrying>>

Suspect(w) ==
    /\ Disturb("suspect")
    /\ HeartbeatExpires(w)
    /\ ownsRow[w]
    /\ UNCHANGED <<sweep, retrying>>

TimeStep ==
    \/ \E w \in Workers : Expire(w) \/ ExpireInSweep(w) \/ Suspect(w)
    \/ \E j \in Jobs : ComesDue(j) /\ UNCHANGED <<procVars, sweep, retrying>>

Next ==
    \/ \E w \in Workers : WorkerStep(w)
    \/ SchedulerStep /\ UNCHANGED <<procVars, retrying>>
    \/ ApiStep /\ UNCHANGED <<procVars, sweep>>
    \/ TimeStep

Spec == Init /\ [][Next]_vars

-----------------------------------------------------------------------------
(***************************************************************************)
(* Fairness.  An await that started ends (every statement, request and     *)
(* analysis has a timeout), timers fire, time passes, the sweep loop and   *)
(* the poll loop go round, and the orchestrator starts a process on every  *)
(* host that has none, a host that never had one included.  A claim needs  *)
(* strong fairness: SKIP LOCKED and a full queue may send any one poll     *)
(* away empty, but not every poll; it is asked of no process that has lost *)
(* its row.  The expiry of a heartbeat needs it because Expire waits for   *)
(* the gap between two sweeps.                                             *)
(* Clients and operators owe nothing.                                      *)
(***************************************************************************)
WorkerFairness(w) ==
    /\ WF_vars(Register(w) /\ WorkerStep(w))
    /\ WF_vars(BeginPoll(w) /\ WorkerStep(w))
    /\ SF_vars(ClaimNextJob(w) /\ WorkerStep(w))
    /\ WF_vars(ClaimNothing(w) /\ WorkerStep(w))
    /\ WF_vars(Dispatch(w) /\ WorkerStep(w))
    /\ WF_vars((MarkCompleted(w) \/ HandleFailure(w)) /\ WorkerStep(w))
    /\ WF_vars((LoadForDLQ(w) \/ MoveToDLQ(w)) /\ WorkerStep(w))
    /\ WF_vars(Deregister(w) /\ WorkerStep(w))
    /\ SF_vars(Expire(w))

SchedulerFairness ==
    /\ WF_vars(PromoteScheduledJobs /\ UNCHANGED <<procVars, retrying>>)
    /\ \A s \in Schedulers :
          WF_vars((RecoverJobs(s) \/ MarkOffline(s)) /\ UNCHANGED <<procVars, retrying>>)

FairSpec ==
    /\ Spec
    /\ \A w \in Workers : WorkerFairness(w)
    /\ SchedulerFairness
    /\ \A j \in Jobs : WF_vars(ComesDue(j) /\ UNCHANGED <<procVars, sweep, retrying>>)

-----------------------------------------------------------------------------
(* Safety under every disturbance *)

\* Every variable has its type: the columns hold values of their ENUMs, foreign
\* keys name rows, a process holds one job at most.
TypeOK == DbTypeOK /\ ProcTypeOK /\ SweepTypeOK /\ ApiTypeOK

\* No queue ever has more RUNNING jobs than its concurrency_limit, whatever
\* recoveries, stale outcomes and manual retries do to rows between claims.
ConcurrencyLimitHolds == \A q \in Queues : Cardinality(Running(q)) <= Limit[q]

\* `jobs' and `job_executions' agree on what runs: the newest attempt of a
\* RUNNING job is open and belongs to the worker in jobs.worker_id.  Without it
\* the recovery's join misses the job, or an outcome closes another's attempt.
LedgerMatchesJobs ==
    \A j \in Jobs : status[j] = "RUNNING" =>
        /\ workerOf[j] \in Workers
        /\ execs[j] # << >>
        /\ execs[j][Len(execs[j])] = [worker |-> workerOf[j], status |-> "RUNNING"]

\* Nothing reaches the dead letter queue with retries left, not even through
\* two workers that run the same job on different snapshots of retry_count.
DeadLettersAreExhausted == \A j \in Jobs : InDLQ(j) => dlq[j] > MaxRetries[j]

\* A process that executes a job finds an open attempt to write its outcome to,
\* even when recoveries, zombies and retries have opened and closed attempts of
\* the same job meanwhile; only a lost acknowledgement makes it close two.
AttemptsCoverExecutions ==
    \A j \in Jobs :
        Cardinality({w \in Workers : Executes(w, j)}) <= Cardinality(OpenExecs(j))

\* A second promotion of a job, by another worker or after a retry, leaves the
\* first DLQ row as it is.
DeadLettersArePermanent == [][\A j \in Jobs : InDLQ(j) => dlq'[j] = dlq[j]]_vars

-----------------------------------------------------------------------------
(* Safety while no live worker is suspected and no job is retried by hand *)

\* A job that waits carries nothing from an earlier run: no worker owns it, and
\* once QUEUED its scheduled_at has elapsed, or no claim would ever see it.  (The
\* second of two retries by hand may leave the worker of a claim in the row.)
WaitingRowsAreClean ==
    \A j \in Jobs :
        /\ status[j] \in {"SCHEDULED", "QUEUED", "CANCELLED"} => workerOf[j] = NoWorker
        /\ status[j] = "QUEUED" => scheduledAt[j] = "past"

\* No two worker processes execute the same job (Worker.js:19-20).
ExclusiveExecution ==
    \A v, w \in Workers : \A j \in Jobs : Executes(v, j) /\ Executes(w, j) => v = w

\* SUCCEEDED is final: no stale outcome, recovery or request takes it back.
SucceededIsFinal ==
    [][\A j \in Jobs : status[j] = "SUCCEEDED" => status'[j] = "SUCCEEDED"]_vars

FailedExecs(j) == {i \in DOMAIN execs[j] : execs[j][i].status = "FAILED"}

\* retry_count, computed from a snapshot, is the number of attempts recorded as
\* FAILED, although crashes leave attempts that are neither failed nor closed.
RetriesCountFailures == \A j \in Jobs : retries[j] = Cardinality(FailedExecs(j))

\* The retry budget is exact: retry_count counts the failed attempts, a job is
\* FAILED when max_retries + 1 of them have failed and not before, and none fails
\* after that; what crashes and cut drains take of its runs costs it nothing
\* (JobExecutor.js:157-161).
RetryBudgetIsExact ==
    /\ RetriesCountFailures
    /\ \A j \in Jobs :
        /\ Cardinality(FailedExecs(j)) <= MaxRetries[j] + 1
        /\ status[j] = "FAILED" <=> Cardinality(FailedExecs(j)) = MaxRetries[j] + 1

\* A RUNNING job is in the hands of its worker's process, or nobody refreshes the
\* row of that worker, dead or restarted, and the recovery still looks at it: no
\* RUNNING job is lost.
NoStrandedJob ==
    \A j \in Jobs : status[j] = "RUNNING" =>
        \E w \in Workers :
            /\ workerOf[j] = w
            /\ Executes(w, j) \/ (~ ownsRow[w] /\ online[w] = "ONLINE")

-----------------------------------------------------------------------------
(* Safety while no process is cut short and no statement fails *)

\* FAILED and the dead letter row are two transactions with an analysis between
\* them: a FAILED job without a row is in the hands of a process that will write
\* it, although a zombie, a second promotion or a manual retry meets the same job.
FailedArePromoted ==
    \A j \in Jobs : status[j] = "FAILED" =>
        \/ InDLQ(j)
        \/ \E w \in Workers : held[w] = j /\ pc[w] \in {"promoting", "analyzing"}

-----------------------------------------------------------------------------
(* Refinement *)

PhaseOf(s) ==
    CASE s = "ABSENT"                  -> "absent"
      [] s \in {"SCHEDULED", "QUEUED"} -> "waiting"
      [] s = "RUNNING"                 -> "running"
      [] s = "SUCCEEDED"               -> "succeeded"
      [] s = "FAILED"                  -> "failed"
      [] s = "CANCELLED"               -> "cancelled"

Contract == INSTANCE JobContract WITH
    phase    <- [j \in Jobs |-> PhaseOf(status[j])],
    runner   <- [j \in Jobs |-> IF status[j] = "RUNNING" THEN workerOf[j] ELSE NoWorker],
    failures <- retries,
    Nobody   <- NoWorker

\* The pipeline implements JobContract: the tables move only as the owner of a
\* job was promised, through crashes, failed statements and restarts.
ImplementsContract == Contract!ContractSpec

-----------------------------------------------------------------------------
(* Liveness *)

Settled(j) == status[j] \in {"SUCCEEDED", "FAILED", "CANCELLED"}

\* Every host has been restarted: none has a process that works under its row's id.
HostsAreSpent == \A w \in Workers : online[w] # "ABSENT" /\ ~ ownsRow[w]

\* Every job that has been queued ends, through crashes, shutdowns and retries,
\* as long as one host is left whose process is its first: a restarted process
\* never claims again.
JobsSettle == \A j \in Jobs : (status[j] = "QUEUED") ~> (Settled(j) \/ HostsAreSpent)

\* A worker that was told to stop exits, however busy its queues are.
ShutdownCompletes == \A w \in Workers : stopping[w] ~> ~ Alive(w)

\* A promotion that has begun ends in a dead letter row or with its worker,
\* whatever a second worker or a full window of analysis does to the job.
PromotionsArrive ==
    \A w \in Workers : \A j \in Jobs :
        (pc[w] = "promoting" /\ held[w] = j) ~> (InDLQ(j) \/ ~ Alive(w))

=============================================================================
