----------------------------- MODULE DLQHandler -----------------------------
(***************************************************************************)
(* services/worker/src/core/DLQHandler.js: the promotion of an exhausted   *)
(* job to the dead letter queue.  It starts after #handleFailure has       *)
(* committed FAILED, reads the job, awaits the AI analysis (a network call *)
(* outside any transaction), and only then opens the transaction that      *)
(* writes the DLQ row and the job row.                                     *)
(***************************************************************************)
EXTENDS JobExecutor

\* Mutant: only a RUNNING job is promoted.
EligibleWhileRunning(j) == status[j] = "RUNNING"

\* Both the guard before the analysis and the WHERE clause after it.
Eligible(j) == status[j] \in {"RUNNING", "FAILED"}

\* Steps 0 and 1: load the job, skip it when it is not eligible any more.
LoadForDLQ(w) ==
    /\ pc[w] = "promoting"
    /\ IF Eligible(held[w]) THEN Goto(w, "analyzing") ELSE BackToLoop(w)
    /\ UNCHANGED dbVars

\* Step 3: a row for this job, read FOR UPDATE.
InDLQ(j) == dlq[j] # 0

\* Steps 4 and 5: insert the DLQ row, fail and release the job row.
WriteDLQ(w) ==
    LET j == held[w] IN
    /\ dlq' = [dlq EXCEPT ![j] = NewRetryCount(w)]
    /\ IF Eligible(j)
       THEN /\ status' = [status EXCEPT ![j] = "FAILED"]
            /\ workerOf' = [workerOf EXCEPT ![j] = NoWorker]
       ELSE UNCHANGED <<status, workerOf>>
    /\ UNCHANGED <<retries, scheduledAt, execs, paused, workerTable>>

\* Mutant: no look at the existing row.
MoveToDLQBlindly(w) ==
    /\ pc[w] = "analyzing"
    /\ WriteDLQ(w)
    /\ BackToLoop(w)
    /\ UNCHANGED budget

\* Steps 2 to 6, one transaction; the caller learns of an existing row as of
\* a new one.
MoveToDLQ(w) ==
    /\ pc[w] = "analyzing"
    /\ IF InDLQ(held[w])
       THEN UNCHANGED <<jobTables, paused, workerTable>>
       ELSE WriteDLQ(w)
    /\ BackToLoop(w)
    /\ UNCHANGED budget

\* The read or the transaction fails; the error escapes to the poll loop.
MoveToDLQFails(w) ==
    /\ Disturb("dbError")
    /\ pc[w] \in {"promoting", "analyzing"}
    /\ BackToLoop(w)
    /\ UNCHANGED <<jobTables, paused, workerTable>>

DLQStep(w) == LoadForDLQ(w) \/ MoveToDLQ(w) \/ MoveToDLQFails(w)

=============================================================================
