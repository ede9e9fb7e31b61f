------------------------------ MODULE NebulaDb ------------------------------
(***************************************************************************)
(* The MySQL tables that every Nebula process reads and writes, and the    *)
(* budget of disturbances a behaviour may contain.  The services share no  *)
(* memory: workers, schedulers and the API meet only in these tables, so   *)
(* every component module EXTENDS this one, and each SQL statement or      *)
(* transaction of the code is one step on these variables.                 *)
(*                                                                         *)
(* A row's scheduled_at is kept as "null", "future" or "past", the three   *)
(* things a WHERE clause can tell apart; a worker's last_heartbeat_at as   *)
(* `fresh', that is, less than DEAD_WORKER_TTL_S old; IDLE and BUSY, which *)
(* no statement of the worker or the scheduler distinguishes, as ONLINE.   *)
(***************************************************************************)
EXTENDS Naturals, Sequences, FiniteSetsExt

CONSTANTS
    Jobs,             \* ids of jobs, inserted or not yet
    Queues,           \* rows of `queues'
    Workers,          \* hostnames, each with at most one row of `workers'
    QueueOf,          \* queue_id of each job
    Limit,            \* concurrency_limit of each queue
    MaxRetries,       \* max_retries of each job
    Disturbances,     \* the kinds of disturbance a behaviour may contain
    MaxDisturbances   \* how many disturbances a behaviour may contain

NoJob == "no job"
NoWorker == "no worker"

(***************************************************************************)
(* crash: a worker process dies.  stop: it receives SIGTERM.               *)
(* drainTimeout: the 30 s drain window ends before the execution does.     *)
(* quickRestart: a process registers under a hostname whose row is still   *)
(* online.  suspect: a live worker writes no heartbeat for                 *)
(* DEAD_WORKER_TTL_S.  sweepGap: a dead worker's heartbeat expires between *)
(* the two statements of a recovery.  dbError: a statement fails and       *)
(* nothing is written.  lostAck: a transaction commits and its caller sees *)
(* an error.  pause: an operator pauses a queue.  manualRetry: an operator *)
(* asks for the retry of a job.                                            *)
(***************************************************************************)
DisturbanceKinds ==
    { "crash", "stop", "drainTimeout", "quickRestart", "suspect",
      "sweepGap", "dbError", "lostAck", "pause", "manualRetry" }

\* The tables are finite, ids are not the null values, limits are numbers.
ASSUME NebulaAssumption ==
    /\ IsFiniteSet(Jobs) /\ IsFiniteSet(Workers)
    /\ NoJob \notin Jobs
    /\ NoWorker \notin Workers
    /\ QueueOf \in [Jobs -> Queues]
    /\ Limit \in [Queues -> Nat]
    /\ MaxRetries \in [Jobs -> Nat]
    /\ Disturbances \subseteq DisturbanceKinds
    /\ MaxDisturbances \in Nat

VARIABLES
    status,       \* jobs.status, "ABSENT" before the row is inserted
    workerOf,     \* jobs.worker_id
    retries,      \* jobs.retry_count
    scheduledAt,  \* jobs.scheduled_at
    execs,        \* rows of job_executions of each job, by attempt_number
    dlq,          \* dead_letter_queue.total_attempts by original_job_id, 0: no row
    paused,       \* queues.is_paused
    online,       \* workers.status: "ABSENT", "ONLINE" or "OFFLINE"
    fresh,        \* workers.last_heartbeat_at is not older than the dead-worker TTL
    budget        \* disturbances still to come

jobRow == <<status, workerOf, retries, scheduledAt>>
jobTables == <<status, workerOf, retries, scheduledAt, execs, dlq>>
workerTable == <<online, fresh>>
dbVars == <<jobTables, paused, workerTable, budget>>

\* PENDING and DEAD are values of the column that no statement ever writes.
JobStatus ==
    {"ABSENT", "SCHEDULED", "QUEUED", "RUNNING", "SUCCEEDED", "FAILED", "CANCELLED"}

Execution == [worker : Workers, status : {"RUNNING", "SUCCEEDED", "FAILED"}]

DbTypeOK ==
    /\ status \in [Jobs -> JobStatus]
    /\ workerOf \in [Jobs -> Workers \cup {NoWorker}]
    /\ retries \in [Jobs -> Nat]
    /\ scheduledAt \in [Jobs -> {"null", "future", "past"}]
    /\ execs \in [Jobs -> Seq(Execution)]
    /\ dlq \in [Jobs -> Nat]
    /\ paused \in [Queues -> BOOLEAN]
    /\ online \in [Workers -> {"ABSENT", "ONLINE", "OFFLINE"}]
    /\ fresh \in [Workers -> BOOLEAN]
    /\ budget \in 0 .. MaxDisturbances

DbInit ==
    /\ status = [j \in Jobs |-> "ABSENT"]
    /\ workerOf = [j \in Jobs |-> NoWorker]
    /\ retries = [j \in Jobs |-> 0]
    /\ scheduledAt = [j \in Jobs |-> "null"]
    /\ execs = [j \in Jobs |-> << >>]
    /\ dlq = [j \in Jobs |-> 0]
    /\ paused = [q \in Queues |-> FALSE]
    /\ online = [w \in Workers |-> "ABSENT"]
    /\ fresh = [w \in Workers |-> FALSE]
    /\ budget = MaxDisturbances

\* A disturbance of this kind is allowed and happens now.
Disturb(kind) ==
    /\ kind \in Disturbances
    /\ budget > 0
    /\ budget' = budget - 1

Running(q) == {j \in Jobs : QueueOf[j] = q /\ status[j] = "RUNNING"}

\* The open rows of job_executions of j: WHERE job_id = j AND status = 'RUNNING'.
OpenExecs(j) == {i \in DOMAIN execs[j] : execs[j][i].status = "RUNNING"}

\* UPDATE job_executions ... WHERE job_id = j AND status = 'RUNNING'
\* ORDER BY started_at DESC LIMIT 1: the newest open row, if there is one.
CloseExec(j, outcome) ==
    IF OpenExecs(j) = {}
    THEN execs
    ELSE [execs EXCEPT ![j][Max(OpenExecs(j))].status = outcome]

\* scheduled_at elapses.
ComesDue(j) ==
    /\ scheduledAt[j] = "future"
    /\ scheduledAt' = [scheduledAt EXCEPT ![j] = "past"]
    /\ UNCHANGED <<status, workerOf, retries, execs, dlq, paused, workerTable, budget>>

=============================================================================
