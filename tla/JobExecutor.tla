---------------------------- MODULE JobExecutor -----------------------------
(***************************************************************************)
(* services/worker/src/executor/JobExecutor.js: a worker process claims a  *)
(* queued job in one transaction, runs it outside any transaction, and     *)
(* writes the outcome in a second one.  Neither outcome statement names    *)
(* the worker or the status it expects: both are UPDATE ... WHERE id.      *)
(*                                                                         *)
(* pc[w] is where the poll loop of the process on host w stands between    *)
(* two awaits:                                                             *)
(*   down        no process                                                *)
(*   polling     between iterations (sleeping, or about to claim)          *)
(*   claiming    claimNextJob is in flight                                 *)
(*   executing   the payload is dispatched                                 *)
(*   completing  dispatch succeeded, #markCompleted is in flight           *)
(*   failing     an error was caught, #handleFailure is in flight          *)
(*   promoting   retries exhausted and committed, moveToDLQ is called      *)
(*   analyzing   moveToDLQ has read the job and awaits the AI analysis     *)
(***************************************************************************)
EXTENDS NebulaDb

CONSTANT Subscribed   \* the queues whose slugs each worker polls

ASSUME SubscribedAssumption == Subscribed \in [Workers -> SUBSET Queues]

VARIABLES
    pc,        \* where the process stands
    held,      \* the job record claimNextJob returned
    snapshot,  \* retry_count in that record
    stopping,  \* #shuttingDown
    ownsRow    \* #workerId is the id of a row of `workers'

procVars == <<pc, held, snapshot, stopping, ownsRow>>

Places ==
    { "down", "polling", "claiming", "executing", "completing", "failing",
      "promoting", "analyzing" }

ProcTypeOK ==
    /\ pc \in [Workers -> Places]
    /\ held \in [Workers -> Jobs \cup {NoJob}]
    /\ snapshot \in [Workers -> Nat]
    /\ stopping \in [Workers -> BOOLEAN]
    /\ ownsRow \in [Workers -> BOOLEAN]

ProcInit ==
    /\ pc = [w \in Workers |-> "down"]
    /\ held = [w \in Workers |-> NoJob]
    /\ snapshot = [w \in Workers |-> 0]
    /\ stopping = [w \in Workers |-> FALSE]
    /\ ownsRow = [w \in Workers |-> FALSE]

\* The process goes on to p with the job it holds, writing nothing of its own.
Goto(w, p) ==
    /\ pc' = [pc EXCEPT ![w] = p]
    /\ UNCHANGED <<held, snapshot, stopping, ownsRow>>

\* The process is done with its job and back in the poll loop.
BackToLoop(w) ==
    /\ pc' = [pc EXCEPT ![w] = "polling"]
    /\ held' = [held EXCEPT ![w] = NoJob]
    /\ snapshot' = [snapshot EXCEPT ![w] = 0]
    /\ UNCHANGED <<stopping, ownsRow>>

\* w runs the job: claimed, and its outcome not yet written.
Executes(w, j) ==
    /\ held[w] = j
    /\ pc[w] \in {"executing", "completing", "failing"}

-----------------------------------------------------------------------------
(* claimNextJob *)

\* Mutant: the count is compared with <=.
HasCapacityOffByOne(q) == Cardinality(Running(q)) <= Limit[q]

\* COUNT(*) of RUNNING jobs of the queue < concurrency_limit.
HasCapacity(q) == Cardinality(Running(q)) < Limit[q]

\* The rows the SELECT may return.  ORDER BY decides between them only among
\* rows no other transaction has locked (SKIP LOCKED), so any may come first.
Claimable(w) ==
    {j \in Jobs :
        /\ status[j] = "QUEUED"
        /\ scheduledAt[j] # "future"
        /\ QueueOf[j] \in Subscribed[w]
        /\ ~ paused[QueueOf[j]]
        /\ HasCapacity(QueueOf[j])}

\* Mutant: the loop does not look at the flag.
BeginPollIgnoringStop(w) ==
    /\ pc[w] = "polling"
    /\ Goto(w, "claiming")
    /\ UNCHANGED dbVars

\* An iteration of the poll loop starts; the flag is tested only here.
BeginPoll(w) ==
    /\ pc[w] = "polling"
    /\ ~ stopping[w]
    /\ Goto(w, "claiming")
    /\ UNCHANGED dbVars

\* The two writes of the claim transaction.
WriteClaim(w, j) ==
    /\ status' = [status EXCEPT ![j] = "RUNNING"]
    /\ workerOf' = [workerOf EXCEPT ![j] = w]
    /\ execs' = [execs EXCEPT ![j] = Append(@, [worker |-> w, status |-> "RUNNING"])]
    /\ UNCHANGED <<retries, scheduledAt, dlq, paused, workerTable>>

\* jobs.worker_id and job_executions.worker_id reference workers.id: under an id
\* without a row the transaction fails and is rolled back.
ClaimNextJob(w) ==
    /\ pc[w] = "claiming"
    /\ ownsRow[w]
    /\ \E j \in Claimable(w) :
          /\ WriteClaim(w, j)
          /\ held' = [held EXCEPT ![w] = j]
          /\ snapshot' = [snapshot EXCEPT ![w] = retries[j]]
    /\ pc' = [pc EXCEPT ![w] = "executing"]
    /\ UNCHANGED <<stopping, ownsRow, budget>>

\* No row, every row locked by somebody else, or an error, that of a foreign key
\* included, caught by the loop.
ClaimNothing(w) ==
    /\ pc[w] = "claiming"
    /\ Goto(w, "polling")
    /\ UNCHANGED dbVars

\* The claim commits, its caller sees an error and goes back to the loop.
ClaimLost(w) ==
    /\ Disturb("lostAck")
    /\ pc[w] = "claiming"
    /\ ownsRow[w]
    /\ \E j \in Claimable(w) : WriteClaim(w, j)
    /\ Goto(w, "polling")

-----------------------------------------------------------------------------
(* execute, #dispatch, #markCompleted *)

\* Promise.race settles: the payload succeeded, or it failed or timed out.
Dispatch(w) ==
    /\ pc[w] = "executing"
    /\ \E p \in {"completing", "failing"} : Goto(w, p)
    /\ UNCHANGED dbVars

WriteCompleted(j) ==
    /\ status' = [status EXCEPT ![j] = "SUCCEEDED"]
    /\ execs' = CloseExec(j, "SUCCEEDED")
    /\ UNCHANGED <<workerOf, retries, scheduledAt, dlq, paused, workerTable>>

MarkCompleted(w) ==
    /\ pc[w] = "completing"
    /\ WriteCompleted(held[w])
    /\ BackToLoop(w)
    /\ UNCHANGED budget

\* #markCompleted is awaited inside the try block: its error, too, is caught
\* there and handled as a failure of the job, committed or not.
MarkCompletedFails(w) ==
    /\ pc[w] = "completing"
    /\ \/ /\ Disturb("dbError")
          /\ UNCHANGED <<jobTables, paused, workerTable>>
       \/ /\ Disturb("lostAck")
          /\ WriteCompleted(held[w])
    /\ Goto(w, "failing")

-----------------------------------------------------------------------------
(* #handleFailure *)

NewRetryCount(w) == snapshot[w] + 1

\* Mutant: max_retries counts attempts instead of retries.
ExhaustedOffByOne(w) == NewRetryCount(w) >= MaxRetries[held[w]]

Exhausted(w) == NewRetryCount(w) > MaxRetries[held[w]]

\* Mutant: the job row is fenced by worker_id, the attempt is not.
WriteFailureHalfFenced(w) ==
    LET j == held[w] IN
    /\ execs' = CloseExec(j, "FAILED")
    /\ IF workerOf[j] = w
       THEN /\ retries' = [retries EXCEPT ![j] = NewRetryCount(w)]
            /\ status' = [status EXCEPT ![j] = "FAILED"]
       ELSE UNCHANGED <<retries, status>>
    /\ UNCHANGED <<workerOf, scheduledAt, dlq, paused, workerTable>>

WriteFailure(w) ==
    LET j == held[w] IN
    /\ execs' = CloseExec(j, "FAILED")
    /\ retries' = [retries EXCEPT ![j] = NewRetryCount(w)]
    /\ \/ /\ Exhausted(w)
          /\ status' = [status EXCEPT ![j] = "FAILED"]
          /\ UNCHANGED <<workerOf, scheduledAt>>
       \/ /\ ~ Exhausted(w)
          /\ status' = [status EXCEPT ![j] = "SCHEDULED"]
          /\ scheduledAt' = [scheduledAt EXCEPT ![j] = "future"]
          /\ workerOf' = [workerOf EXCEPT ![j] = NoWorker]
    /\ UNCHANGED <<dlq, paused, workerTable>>

HandleFailure(w) ==
    /\ pc[w] = "failing"
    /\ WriteFailure(w)
    /\ IF Exhausted(w) THEN Goto(w, "promoting") ELSE BackToLoop(w)
    /\ UNCHANGED budget

\* An error of #handleFailure escapes execute; the poll loop logs it and goes on.
HandleFailureFails(w) ==
    /\ pc[w] = "failing"
    /\ \/ /\ Disturb("dbError")
          /\ UNCHANGED <<jobTables, paused, workerTable>>
       \/ /\ Disturb("lostAck")
          /\ WriteFailure(w)
    /\ BackToLoop(w)

ExecutorStep(w) ==
    \/ BeginPoll(w) \/ ClaimNextJob(w) \/ ClaimNothing(w) \/ ClaimLost(w)
    \/ Dispatch(w)
    \/ MarkCompleted(w) \/ MarkCompletedFails(w)
    \/ HandleFailure(w) \/ HandleFailureFails(w)

=============================================================================
