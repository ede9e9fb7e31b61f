-------------------------- MODULE PromotionService --------------------------
(***************************************************************************)
(* services/scheduler/src/promoter/PromotionService.js: the sweep of the   *)
(* scheduler.  runSweep starts the promotion and the recovery together     *)
(* (Promise.all), so their statements interleave; the recovery is two      *)
(* statements, each with a NOW() of its own, in no common transaction.     *)
(***************************************************************************)
EXTENDS NebulaDb

CONSTANTS
    Schedulers,  \* scheduler replicas that may be inside a sweep
    BatchLimit   \* LIMIT of the promotion UPDATE

ASSUME BatchAssumption == BatchLimit \in Nat \ {0}

VARIABLE sweep   \* "idle", or "marking" between the two statements of a recovery

SweepTypeOK == sweep \in [Schedulers -> {"idle", "marking"}]

SweepInit == sweep = [s \in Schedulers |-> "idle"]

\* SCHEDULED jobs whose scheduled_at has elapsed; NULL never has.
Due == {j \in Jobs : status[j] = "SCHEDULED" /\ scheduledAt[j] = "past"}

\* #promoteScheduledJobs: LIMIT without ORDER BY, any BatchLimit of the due jobs.
PromoteScheduledJobs ==
    /\ \E batch \in SUBSET Due :
          /\ batch # {}
          /\ Cardinality(batch) <= BatchLimit
          /\ batch # Due => Cardinality(batch) = BatchLimit
          /\ status' = [j \in Jobs |-> IF j \in batch THEN "QUEUED" ELSE status[j]]
    /\ UNCHANGED <<workerOf, retries, scheduledAt, execs, dlq>>
    /\ UNCHANGED <<paused, workerTable, budget, sweep>>

\* w.status != 'OFFLINE' AND w.last_heartbeat_at < NOW() - DEAD_WORKER_TTL_S.
Stale(w) == online[w] = "ONLINE" /\ ~ fresh[w]

\* Mutant: the status list names CLAIMED, which no job ever has, and not RUNNING.
HeldByStaleClaimed ==
    {j \in Jobs : status[j] = "CLAIMED" /\ \E w \in Workers : workerOf[j] = w /\ Stale(w)}

\* Mutant: the WHERE clause forgets last_heartbeat_at.
HeldByOnline ==
    {j \in Jobs :
        status[j] = "RUNNING" /\ \E w \in Workers : workerOf[j] = w /\ online[w] = "ONLINE"}

\* RUNNING jobs joined to a stale worker.
HeldByStale ==
    {j \in Jobs : status[j] = "RUNNING" /\ \E w \in Workers : workerOf[j] = w /\ Stale(w)}

\* Mutant: the row keeps its worker_id.
RecoverJobsKeepingWorker(s) ==
    /\ sweep[s] = "idle"
    /\ status' = [j \in Jobs |-> IF j \in HeldByStale THEN "QUEUED" ELSE status[j]]
    /\ sweep' = [sweep EXCEPT ![s] = "marking"]
    /\ UNCHANGED <<workerOf, retries, scheduledAt, execs, dlq, paused, workerTable, budget>>

\* Mutant: the open attempts of a recovered job are closed as FAILED.
RecoverJobsClosingAttempts(s) ==
    /\ sweep[s] = "idle"
    /\ LET lost == HeldByStale IN
          /\ status' = [j \in Jobs |-> IF j \in lost THEN "QUEUED" ELSE status[j]]
          /\ workerOf' = [j \in Jobs |-> IF j \in lost THEN NoWorker ELSE workerOf[j]]
          /\ execs' = [j \in Jobs |-> IF j \in lost THEN CloseExec(j, "FAILED")[j] ELSE execs[j]]
    /\ sweep' = [sweep EXCEPT ![s] = "marking"]
    /\ UNCHANGED <<retries, scheduledAt, dlq, paused, workerTable, budget>>

\* Steps a and b of #recoverDeadWorkerJobs; job_executions is left alone.
RecoverJobs(s) ==
    /\ sweep[s] = "idle"
    /\ LET lost == HeldByStale IN
          /\ status' = [j \in Jobs |-> IF j \in lost THEN "QUEUED" ELSE status[j]]
          /\ workerOf' = [j \in Jobs |-> IF j \in lost THEN NoWorker ELSE workerOf[j]]
    /\ sweep' = [sweep EXCEPT ![s] = "marking"]
    /\ UNCHANGED <<retries, scheduledAt, execs, dlq, paused, workerTable, budget>>

\* Step c: whoever is stale now, not when step b looked.
MarkOffline(s) ==
    /\ sweep[s] = "marking"
    /\ online' = [w \in Workers |-> IF Stale(w) THEN "OFFLINE" ELSE online[w]]
    /\ sweep' = [sweep EXCEPT ![s] = "idle"]
    /\ UNCHANGED <<jobTables, paused, fresh, budget>>

\* Step c fails, or the scheduler dies before it.
SweepCutShort(s) ==
    /\ \E kind \in {"dbError", "crash"} : Disturb(kind)
    /\ sweep[s] = "marking"
    /\ sweep' = [sweep EXCEPT ![s] = "idle"]
    /\ UNCHANGED <<jobTables, paused, workerTable>>

SchedulerStep ==
    \/ PromoteScheduledJobs
    \/ \E s \in Schedulers : RecoverJobs(s) \/ MarkOffline(s) \/ SweepCutShort(s)

=============================================================================
