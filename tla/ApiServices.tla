---------------------------- MODULE ApiServices -----------------------------
(***************************************************************************)
(* What the API services write to the tables the workers and the scheduler *)
(* use: enqueueJob and cancelJob of JobApiService.js, retryJob of          *)
(* OpsService.js, pauseQueue of ProjectQueueService.js.  Requests run      *)
(* concurrently with everything; retryJob reads the job in one statement   *)
(* and writes it in another.                                               *)
(***************************************************************************)
EXTENDS NebulaDb

CONSTANTS
    JobKinds,   \* the kinds of job clients enqueue
    Requests    \* retry requests that may be in flight at the same time

ASSUME KindAssumption == JobKinds \subseteq {"immediate", "deferred", "cron"}

\* What each in-flight retryJob has read and accepted: the job, and whether its
\* row named a worker.
VARIABLE retrying

ApiTypeOK == retrying \in [Requests -> [job : Jobs \cup {NoJob}, owned : BOOLEAN]]

NoRetry == [job |-> NoJob, owned |-> FALSE]

ApiInit == retrying = [r \in Requests |-> NoRetry]

\* Mutant: a cron job is left to the column default.
InitialRowPending(kind) ==
    IF kind = "immediate"
    THEN [status |-> "QUEUED", at |-> "past"]
    ELSE [status |-> "PENDING", at |-> "null"]

\* Status and scheduled_at of the inserted row.  A cron expression without a
\* scheduled_at makes the job SCHEDULED with scheduled_at NULL.
InitialRow(kind) ==
    CASE kind = "immediate" -> [status |-> "QUEUED", at |-> "past"]
      [] kind = "deferred"  -> [status |-> "SCHEDULED", at |-> "future"]
      [] kind = "cron"      -> [status |-> "SCHEDULED", at |-> "null"]

\* The INSERT of enqueueJob.  Its check that the queue is not paused read an
\* earlier state, so it does not constrain this one.
InsertJob(j, kind) ==
    /\ status[j] = "ABSENT"
    /\ status' = [status EXCEPT ![j] = InitialRow(kind).status]
    /\ scheduledAt' = [scheduledAt EXCEPT ![j] = InitialRow(kind).at]
    /\ UNCHANGED <<workerOf, retries, execs, dlq, paused, workerTable, budget, retrying>>

\* Mutant: the UPDATE names the id only.
CancelJobUnconditionally(j) ==
    /\ status[j] \in {"QUEUED", "SCHEDULED", "RUNNING"}
    /\ status' = [status EXCEPT ![j] = "CANCELLED"]
    /\ UNCHANGED <<workerOf, retries, scheduledAt, execs, dlq>>
    /\ UNCHANGED <<paused, workerTable, budget, retrying>>

\* The conditional UPDATE of cancelJob; in every other case it affects no row
\* and the request ends with 409, as it does when its earlier read saw one.
CancelJob(j) ==
    /\ status[j] \in {"QUEUED", "SCHEDULED"}
    /\ status' = [status EXCEPT ![j] = "CANCELLED"]
    /\ UNCHANGED <<workerOf, retries, scheduledAt, execs, dlq>>
    /\ UNCHANGED <<paused, workerTable, budget, retrying>>

\* retryJob loads the job and accepts its status.
RetryRead(r, j) ==
    /\ Disturb("manualRetry")
    /\ retrying[r] = NoRetry
    /\ status[j] \in {"FAILED", "CANCELLED"}
    /\ retrying' = [retrying EXCEPT ![r] = [job |-> j, owned |-> workerOf[j] # NoWorker]]
    /\ UNCHANGED <<jobTables, paused, workerTable>>

\* retryJob updates the row by id, whatever its status has become.  The UPDATE of
\* an instance names the columns that differ from the row as it was read: status
\* and scheduled_at always, worker_id only when that row had one.
RetryWrite(r) ==
    LET j == retrying[r].job IN
    /\ j # NoJob
    /\ status' = [status EXCEPT ![j] = "QUEUED"]
    /\ scheduledAt' = [scheduledAt EXCEPT ![j] = "past"]
    /\ workerOf' = [workerOf EXCEPT ![j] = IF retrying[r].owned THEN NoWorker ELSE @]
    /\ retrying' = [retrying EXCEPT ![r] = NoRetry]
    /\ UNCHANGED <<retries, execs, dlq, paused, workerTable, budget>>

\* pauseQueue with paused = true, and with paused = false.
PauseQueue(q) ==
    /\ Disturb("pause")
    /\ ~ paused[q]
    /\ paused' = [paused EXCEPT ![q] = TRUE]
    /\ UNCHANGED <<jobTables, workerTable, retrying>>

ResumeQueue(q) ==
    /\ paused[q]
    /\ paused' = [paused EXCEPT ![q] = FALSE]
    /\ UNCHANGED <<jobTables, workerTable, budget, retrying>>

ApiStep ==
    \/ \E j \in Jobs : CancelJob(j) \/ \E kind \in JobKinds : InsertJob(j, kind)
    \/ \E r \in Requests : RetryWrite(r) \/ \E j \in Jobs : RetryRead(r, j)
    \/ \E q \in Queues : PauseQueue(q) \/ ResumeQueue(q)

=============================================================================
