---------------------------- MODULE NebulaProofs ----------------------------
(***************************************************************************)
(* Theorems about Nebula for every set of jobs, queues, workers,           *)
(* schedulers and requests and every budget of disturbances.               *)
(*                                                                         *)
(* The argument has two layers.  Lemma StepWritesTables reduces a step of  *)
(* the system to one of the few writes it can make to the job tables, so   *)
(* that an invariant of those tables is shown against eleven writes and    *)
(* not against every action; what a process holds is shown per action.     *)
(* First what holds under every disturbance, then under some: promotion,   *)
(* exclusion and recovery.                                                 *)
(***************************************************************************)
EXTENDS Nebula, FiniteSetTheorems, SequenceTheorems, TLAPS

\* Between a claim and the end of its handling a process holds a job, and works
\* under the id of its row: without one the claim would have failed.
Busy(w) == pc[w] \in {"executing", "completing", "failing", "promoting", "analyzing"}

HoldingOK == \A w \in Workers : Busy(w) => held[w] \in Jobs /\ ownsRow[w]

TypeInv == TypeOK /\ HoldingOK

\* What a step can write to the job tables.
TableStep ==
    \/ UNCHANGED jobTables
    \/ \E w \in Workers : \E j \in Claimable(w) : WriteClaim(w, j)
    \/ \E w \in Workers : /\ MarkCompleted(w) \/ MarkCompletedFails(w)
                          /\ held[w] \in Jobs
                          /\ WriteCompleted(held[w])
    \/ \E w \in Workers : /\ HandleFailure(w) \/ HandleFailureFails(w)
                          /\ held[w] \in Jobs
                          /\ WriteFailure(w)
    \/ \E w \in Workers : /\ pc[w] = "analyzing"
                          /\ held[w] \in Jobs
                          /\ ~ InDLQ(held[w])
                          /\ WriteDLQ(w)
    \/ PromoteScheduledJobs
    \/ \E s \in Schedulers : RecoverJobs(s)
    \/ \E j \in Jobs, kind \in JobKinds : InsertJob(j, kind)
    \/ \E j \in Jobs : CancelJob(j)
    \/ \E r \in Requests : RetryWrite(r)
    \/ \E j \in Jobs : ComesDue(j)

\* Every step writes the job tables in one of these ways.
LEMMA StepWritesTables ==
    ASSUME HoldingOK, [Next]_vars
    PROVE  TableStep
<1>1. CASE UNCHANGED vars
  BY <1>1 DEF vars, dbVars, TableStep
<1>2. CASE \E w \in Workers : WorkerStep(w)
  <2>1. PICK w \in Workers : WorkerStep(w)
    BY <1>2
  <2>2. CASE ExecutorStep(w)
    <3>1. CASE ClaimNextJob(w) \/ ClaimLost(w)
      BY <3>1 DEF ClaimNextJob, ClaimLost, TableStep
    <3>2. CASE MarkCompleted(w) \/ MarkCompletedFails(w)
      <4>1. held[w] \in Jobs
        BY <3>2 DEF MarkCompleted, MarkCompletedFails, HoldingOK, Busy
      <4>2. WriteCompleted(held[w]) \/ UNCHANGED jobTables
        BY <3>2 DEF MarkCompleted, MarkCompletedFails
      <4>3. QED
        BY <3>2, <4>1, <4>2 DEF TableStep
    <3>3. CASE HandleFailure(w) \/ HandleFailureFails(w)
      <4>1. held[w] \in Jobs
        BY <3>3 DEF HandleFailure, HandleFailureFails, HoldingOK, Busy
      <4>2. WriteFailure(w) \/ UNCHANGED jobTables
        BY <3>3 DEF HandleFailure, HandleFailureFails
      <4>3. QED
        BY <3>3, <4>1, <4>2 DEF TableStep
    <3>4. CASE BeginPoll(w) \/ ClaimNothing(w) \/ Dispatch(w)
      BY <3>4 DEF BeginPoll, ClaimNothing, Dispatch, dbVars, TableStep
    <3>5. QED
      BY <2>2, <3>1, <3>2, <3>3, <3>4 DEF ExecutorStep
  <2>3. CASE DLQStep(w)
    <3>1. CASE MoveToDLQ(w)
      <4>1. pc[w] = "analyzing" /\ held[w] \in Jobs
        BY <3>1 DEF MoveToDLQ, HoldingOK, Busy
      <4>2. UNCHANGED jobTables \/ (~ InDLQ(held[w]) /\ WriteDLQ(w))
        BY <3>1 DEF MoveToDLQ
      <4>3. QED
        BY <4>1, <4>2 DEF TableStep
    <3>2. CASE LoadForDLQ(w) \/ MoveToDLQFails(w)
      BY <3>2 DEF LoadForDLQ, MoveToDLQFails, dbVars, TableStep
    <3>3. QED
      BY <2>3, <3>1, <3>2 DEF DLQStep
  <2>4. CASE LifeStep(w)
    BY <2>4 DEF LifeStep, Register, Heartbeat, Stop, Deregister, DrainTimeout, WriteOffline, Crash, TableStep
  <2>5. QED
    BY <2>1, <2>2, <2>3, <2>4 DEF WorkerStep
<1>3. CASE SchedulerStep
  <2>1. CASE \E s \in Schedulers : MarkOffline(s) \/ SweepCutShort(s)
    BY <2>1 DEF MarkOffline, SweepCutShort, TableStep
  <2>2. QED
    BY <1>3, <2>1 DEF SchedulerStep, TableStep
<1>4. CASE ApiStep
  <2>1. CASE \/ \E r \in Requests, j \in Jobs : RetryRead(r, j)
             \/ \E q \in Queues : PauseQueue(q) \/ ResumeQueue(q)
    BY <2>1 DEF RetryRead, PauseQueue, ResumeQueue, TableStep
  <2>2. QED
    BY <1>4, <2>1 DEF ApiStep, TableStep
<1>5. CASE TimeStep
  <2>1. CASE \E w \in Workers : Expire(w) \/ ExpireInSweep(w) \/ Suspect(w)
    BY <2>1 DEF Expire, ExpireInSweep, Suspect, HeartbeatExpires, TableStep
  <2>2. QED
    BY <1>5, <2>1 DEF TimeStep, TableStep
<1>6. QED
  BY <1>1, <1>2, <1>3, <1>4, <1>5 DEF Next

-----------------------------------------------------------------------------
(* Type correctness *)

JobTablesTyped ==
    /\ status \in [Jobs -> JobStatus]
    /\ workerOf \in [Jobs -> Workers \cup {NoWorker}]
    /\ retries \in [Jobs -> Nat]
    /\ scheduledAt \in [Jobs -> {"null", "future", "past"}]
    /\ execs \in [Jobs -> Seq(Execution)]
    /\ dlq \in [Jobs -> Nat]

\* Closing an attempt leaves every other job's attempts alone, and its own well-formed.
LEMMA CloseExecEffect ==
    ASSUME execs \in [Jobs -> Seq(Execution)],
           NEW j \in Jobs, NEW outcome \in {"SUCCEEDED", "FAILED"}
    PROVE  /\ CloseExec(j, outcome) \in [Jobs -> Seq(Execution)]
           /\ \A k \in Jobs \ {j} : CloseExec(j, outcome)[k] = execs[k]
<1>1. CASE OpenExecs(j) = {}
  BY <1>1 DEF CloseExec
<1>2. CASE OpenExecs(j) # {}
  <2> DEFINE i == Max(OpenExecs(j))
             e == [execs[j][i] EXCEPT !.status = outcome]
             closed == [execs[j] EXCEPT ![i] = e]
  <2>1. CloseExec(j, outcome) = [execs EXCEPT ![j] = closed]
    BY <1>2 DEF CloseExec
  <2>2. closed \in Seq(Execution)
    <3>1. execs[j] \in Seq(Execution)
      OBVIOUS
    <3>2. CASE i \in 1 .. Len(execs[j])
      <4>1. execs[j][i] \in Execution
        BY <3>1, <3>2, ElementOfSeq
      <4>2. e \in Execution
        BY <4>1 DEF Execution
      <4>3. QED
        BY <3>1, <3>2, <4>2, ExceptSeq
    <3>3. CASE i \notin 1 .. Len(execs[j])
      <4>1. DOMAIN execs[j] = 1 .. Len(execs[j])
        BY <3>1
      <4>2. closed = execs[j]
        BY <3>1, <3>3, <4>1
      <4>3. QED
        BY <3>1, <4>2
    <3>4. QED
      BY <3>2, <3>3
  <2>3. QED
    BY <2>1, <2>2
<1>3. QED
  BY <1>1, <1>2

\* What a step writes to the job tables is well-typed.
LEMMA TablesStayTyped ==
    ASSUME TypeInv, TableStep
    PROVE  JobTablesTyped'
<1> USE NebulaAssumption
<1> SUFFICES ASSUME JobTablesTyped
             PROVE  JobTablesTyped'
  BY DEF TypeInv, TypeOK, DbTypeOK, JobTablesTyped
<1>1. CASE UNCHANGED jobTables
  BY <1>1 DEF jobTables, JobTablesTyped
<1>2. ASSUME NEW w \in Workers, NEW j \in Claimable(w), WriteClaim(w, j)
      PROVE  JobTablesTyped'
  <2>1. j \in Jobs
    BY DEF Claimable
  <2>2. [worker |-> w, status |-> "RUNNING"] \in Execution
    BY DEF Execution
  <2>3. Append(execs[j], [worker |-> w, status |-> "RUNNING"]) \in Seq(Execution)
    BY <2>1, <2>2, AppendProperties DEF JobTablesTyped
  <2>4. QED
    BY <1>2, <2>1, <2>3 DEF WriteClaim, JobTablesTyped, JobStatus
<1>3. ASSUME NEW j \in Jobs, WriteCompleted(j)
      PROVE  JobTablesTyped'
  <2>1. CloseExec(j, "SUCCEEDED") \in [Jobs -> Seq(Execution)]
    BY CloseExecEffect DEF JobTablesTyped
  <2>2. QED
    BY <1>3, <2>1 DEF WriteCompleted, JobTablesTyped, JobStatus
<1>4. ASSUME NEW w \in Workers, held[w] \in Jobs, WriteFailure(w)
      PROVE  JobTablesTyped'
  <2>1. CloseExec(held[w], "FAILED") \in [Jobs -> Seq(Execution)]
    BY <1>4, CloseExecEffect DEF JobTablesTyped
  <2>2. NewRetryCount(w) \in Nat
    BY DEF NewRetryCount, TypeInv, TypeOK, ProcTypeOK
  <2>3. QED
    BY <1>4, <2>1, <2>2 DEF WriteFailure, JobTablesTyped, JobStatus
<1>5. ASSUME NEW w \in Workers, held[w] \in Jobs, WriteDLQ(w)
      PROVE  JobTablesTyped'
  <2>1. NewRetryCount(w) \in Nat
    BY DEF NewRetryCount, TypeInv, TypeOK, ProcTypeOK
  <2>2. QED
    BY <1>5, <2>1 DEF WriteDLQ, JobTablesTyped, JobStatus
<1>6. CASE PromoteScheduledJobs
  BY <1>6 DEF PromoteScheduledJobs, JobTablesTyped, JobStatus
<1>7. ASSUME NEW s \in Schedulers, RecoverJobs(s)
      PROVE  JobTablesTyped'
  BY <1>7 DEF RecoverJobs, JobTablesTyped, JobStatus
<1>8. ASSUME NEW j \in Jobs, NEW kind \in JobKinds, InsertJob(j, kind)
      PROVE  JobTablesTyped'
  <2>1. kind \in {"immediate", "deferred", "cron"}
    BY KindAssumption
  <2>2. QED
    BY <1>8, <2>1 DEF InsertJob, InitialRow, JobTablesTyped, JobStatus
<1>9. ASSUME NEW j \in Jobs, CancelJob(j)
      PROVE  JobTablesTyped'
  BY <1>9 DEF CancelJob, JobTablesTyped, JobStatus
<1>10. ASSUME NEW r \in Requests, RetryWrite(r)
       PROVE  JobTablesTyped'
  BY <1>10 DEF RetryWrite, JobTablesTyped, JobStatus
<1>11. ASSUME NEW j \in Jobs, ComesDue(j)
       PROVE  JobTablesTyped'
  BY <1>11 DEF ComesDue, JobTablesTyped
<1>12. QED
  BY <1>1, <1>2, <1>3, <1>4, <1>5, <1>6, <1>7, <1>8, <1>9, <1>10, <1>11 DEF TableStep

OtherTablesTyped ==
    /\ paused \in [Queues -> BOOLEAN]
    /\ online \in [Workers -> {"ABSENT", "ONLINE", "OFFLINE"}]
    /\ fresh \in [Workers -> BOOLEAN]
    /\ budget \in 0 .. MaxDisturbances

\* A disturbance uses up one unit of a budget that is never negative.
LEMMA DisturbSpends ==
    ASSUME budget \in 0 .. MaxDisturbances, NEW kind, Disturb(kind)
    PROVE  budget' \in 0 .. MaxDisturbances
BY NebulaAssumption DEF Disturb

\* The remaining variables, and what a process holds, stay well-typed.
LEMMA ProcessesStayTyped ==
    ASSUME TypeInv, [Next]_vars
    PROVE  /\ OtherTablesTyped'
           /\ ProcTypeOK' /\ HoldingOK'
           /\ SweepTypeOK' /\ ApiTypeOK'
<1> USE NebulaAssumption
<1> DEFINE Goal == /\ OtherTablesTyped'
                   /\ ProcTypeOK' /\ HoldingOK'
                   /\ SweepTypeOK' /\ ApiTypeOK'
<1>0. OtherTablesTyped /\ ProcTypeOK /\ HoldingOK /\ SweepTypeOK /\ ApiTypeOK
  BY DEF TypeInv, TypeOK, DbTypeOK, OtherTablesTyped
<1>1. CASE UNCHANGED vars
  BY <1>0, <1>1 DEF vars, dbVars, workerTable, procVars, OtherTablesTyped, ProcTypeOK,
                    HoldingOK, Busy, SweepTypeOK, ApiTypeOK
<1>2. ASSUME NEW w \in Workers, WorkerStep(w)
      PROVE  Goal
  <2>0. SweepTypeOK' /\ ApiTypeOK'
    BY <1>0, <1>2 DEF WorkerStep, SweepTypeOK, ApiTypeOK
  <2>1. CASE BeginPoll(w) \/ ClaimNothing(w) \/ Dispatch(w)
    BY <1>0, <2>0, <2>1 DEF BeginPoll, ClaimNothing, Dispatch, Goto, dbVars, workerTable,
                            OtherTablesTyped, ProcTypeOK, HoldingOK, Busy, Places
  <2>2. CASE ClaimNextJob(w)
    <3>1. PICK j \in Claimable(w) : /\ WriteClaim(w, j)
                                    /\ held' = [held EXCEPT ![w] = j]
                                    /\ snapshot' = [snapshot EXCEPT ![w] = retries[j]]
      BY <2>2 DEF ClaimNextJob
    <3>2. j \in Jobs /\ retries[j] \in Nat
      BY DEF Claimable, TypeInv, TypeOK, DbTypeOK
    <3>3. QED
      BY <1>0, <2>0, <2>2, <3>1, <3>2 DEF ClaimNextJob, WriteClaim, workerTable,
            OtherTablesTyped, ProcTypeOK, HoldingOK, Busy, Places
  <2>3. CASE ClaimLost(w)
    BY <1>0, <2>0, <2>3 DEF ClaimLost, WriteClaim, Disturb, Goto, workerTable,
            OtherTablesTyped, ProcTypeOK, HoldingOK, Busy, Places
  <2>4. CASE MarkCompleted(w) \/ HandleFailure(w)
    BY <1>0, <2>0, <2>4 DEF MarkCompleted, WriteCompleted, HandleFailure, WriteFailure,
            BackToLoop, Goto, workerTable,
            OtherTablesTyped, ProcTypeOK, HoldingOK, Busy, Places
  <2>5. CASE MarkCompletedFails(w) \/ HandleFailureFails(w)
    BY <1>0, <2>0, <2>5 DEF MarkCompletedFails, WriteCompleted, HandleFailureFails,
            WriteFailure, Disturb, BackToLoop, Goto, workerTable,
            OtherTablesTyped, ProcTypeOK, HoldingOK, Busy, Places
  <2>6. CASE DLQStep(w)
    BY <1>0, <2>0, <2>6 DEF DLQStep, LoadForDLQ, MoveToDLQ, MoveToDLQFails, WriteDLQ,
            Disturb, BackToLoop, Goto, dbVars, workerTable,
            OtherTablesTyped, ProcTypeOK, HoldingOK, Busy, Places
  <2>7. CASE Register(w) \/ Heartbeat(w) \/ Stop(w)
    <3>0. budget' \in 0 .. MaxDisturbances
      BY <1>0, <2>7, DisturbSpends DEF Register, Heartbeat, Stop, OtherTablesTyped
    <3>1. OtherTablesTyped'
      BY <1>0, <2>7, <3>0 DEF Register, Heartbeat, Stop, workerTable, OtherTablesTyped
    <3>2. ProcTypeOK' /\ HoldingOK'
      BY <1>0, <2>7 DEF Register, Heartbeat, Stop, Goto, procVars, ProcTypeOK, HoldingOK,
                        Busy, Places
    <3>3. QED
      BY <2>0, <3>1, <3>2
  <2>8. CASE Deregister(w) \/ DrainTimeout(w) \/ Crash(w)
    <3>0. budget' \in 0 .. MaxDisturbances
      BY <1>0, <2>8, DisturbSpends DEF Deregister, DrainTimeout, WriteOffline, Crash, OtherTablesTyped
    <3>1. OtherTablesTyped'
      BY <1>0, <2>8, <3>0 DEF Deregister, DrainTimeout, WriteOffline, Crash, workerTable,
                        OtherTablesTyped
    <3>2. Gone(w)
      BY <2>8 DEF Deregister, DrainTimeout, WriteOffline, Crash
    <3>3. ProcTypeOK' /\ HoldingOK'
      BY <1>0, <3>2 DEF Gone, ProcTypeOK, HoldingOK, Busy, Places
    <3>4. QED
      BY <2>0, <3>1, <3>3
  <2>9. QED
    BY <1>2, <2>1, <2>2, <2>3, <2>4, <2>5, <2>6, <2>7, <2>8
    DEF WorkerStep, ExecutorStep, LifeStep
<1>3. CASE SchedulerStep /\ UNCHANGED <<procVars, retrying>>
  BY <1>0, <1>3 DEF SchedulerStep, PromoteScheduledJobs, RecoverJobs, MarkOffline,
        SweepCutShort, Stale, Disturb, procVars, workerTable,
        OtherTablesTyped, ProcTypeOK, HoldingOK, Busy, SweepTypeOK, ApiTypeOK
<1>4. CASE ApiStep /\ UNCHANGED <<procVars, sweep>>
  <2>0. budget' \in 0 .. MaxDisturbances
    BY <1>0, <1>4, DisturbSpends DEF ApiStep, CancelJob, InsertJob, RetryWrite, RetryRead,
                      PauseQueue, ResumeQueue, OtherTablesTyped
  <2>1. OtherTablesTyped'
    BY <1>0, <1>4, <2>0 DEF ApiStep, CancelJob, InsertJob, RetryWrite, RetryRead, PauseQueue,
                      ResumeQueue, workerTable, OtherTablesTyped
  <2>2. ProcTypeOK' /\ HoldingOK' /\ SweepTypeOK'
    BY <1>0, <1>4 DEF procVars, ProcTypeOK, HoldingOK, Busy, SweepTypeOK
  <2>3. ApiTypeOK'
    <3>1. NoRetry \in [job : Jobs \cup {NoJob}, owned : BOOLEAN]
      BY DEF NoRetry
    <3>2. ASSUME NEW r \in Requests, NEW j \in Jobs, RetryRead(r, j)
          PROVE  ApiTypeOK'
      <4>1. [job |-> j, owned |-> workerOf[j] # NoWorker] \in [job : Jobs \cup {NoJob}, owned : BOOLEAN]
        OBVIOUS
      <4>2. QED
        BY <1>0, <3>2, <4>1 DEF RetryRead, ApiTypeOK
    <3>3. ASSUME NEW r \in Requests, RetryWrite(r)
          PROVE  ApiTypeOK'
      BY <1>0, <3>1, <3>3 DEF RetryWrite, ApiTypeOK
    <3>4. QED
      BY <1>0, <1>4, <3>2, <3>3 DEF ApiStep, CancelJob, InsertJob, PauseQueue, ResumeQueue, ApiTypeOK
  <2>4. QED
    BY <2>1, <2>2, <2>3
<1>5. CASE TimeStep
  <2>0. budget' \in 0 .. MaxDisturbances
    BY <1>0, <1>5, DisturbSpends DEF TimeStep, Expire, ExpireInSweep, Suspect, ComesDue,
                      OtherTablesTyped
  <2>1. OtherTablesTyped'
    BY <1>0, <1>5, <2>0 DEF TimeStep, Expire, ExpireInSweep, Suspect, HeartbeatExpires,
                      ComesDue, workerTable, OtherTablesTyped
  <2>2. UNCHANGED <<procVars, sweep, retrying>>
    BY <1>5 DEF TimeStep, Expire, ExpireInSweep, Suspect, HeartbeatExpires
  <2>3. QED
    BY <1>0, <2>1, <2>2 DEF procVars, ProcTypeOK, HoldingOK, Busy, SweepTypeOK, ApiTypeOK
<1>6. QED
  BY <1>1, <1>2, <1>3, <1>4, <1>5 DEF Next

\* TypeInv holds initially.
LEMMA TypeInvInit == Init => TypeInv
BY NebulaAssumption DEF Init, DbInit, ProcInit, SweepInit, ApiInit, NoRetry, TypeInv, TypeOK, DbTypeOK, ProcTypeOK,
   SweepTypeOK, ApiTypeOK, HoldingOK, Busy, Places, JobStatus

\* TypeInv is inductive.
LEMMA TypeInvStep == TypeInv /\ [Next]_vars => TypeInv'
<1> SUFFICES ASSUME TypeInv, [Next]_vars
             PROVE  TypeInv'
  OBVIOUS
<1>1. TableStep
  BY StepWritesTables DEF TypeInv
<1>2. JobTablesTyped'
  BY <1>1, TablesStayTyped
<1>3. QED
  BY <1>2, ProcessesStayTyped
  DEF TypeInv, TypeOK, DbTypeOK, JobTablesTyped, OtherTablesTyped

\* TypeInv holds in every state.
LEMMA TypeInvAlways == Spec => []TypeInv
BY TypeInvInit, TypeInvStep, PTL DEF Spec

\* Every variable keeps its type under every disturbance.
THEOREM TypeCorrect == Spec => []TypeOK
<1>1. TypeInv => TypeOK
  BY DEF TypeInv
<1>2. QED
  BY <1>1, TypeInvAlways, PTL

-----------------------------------------------------------------------------
(* The safety invariants that hold under every disturbance. *)

\* A job that is RUNNING after a step was RUNNING before it, with the same
\* worker and the same attempts, or has just been claimed.
LEMMA RunningIsKeptOrClaimed ==
    ASSUME TypeInv, TableStep,
           NEW k \in Jobs, status'[k] = "RUNNING"
    PROVE  \/ /\ status[k] = "RUNNING"
              /\ workerOf'[k] = workerOf[k]
              /\ execs'[k] = execs[k]
           \/ \E w \in Workers : k \in Claimable(w) /\ WriteClaim(w, k)
<1> DEFINE Kept == /\ status[k] = "RUNNING"
                   /\ workerOf'[k] = workerOf[k]
                   /\ execs'[k] = execs[k]
<1>0. JobTablesTyped
  BY DEF TypeInv, TypeOK, DbTypeOK, JobTablesTyped
<1>1. CASE UNCHANGED jobTables
  BY <1>1 DEF jobTables
<1>2. ASSUME NEW w \in Workers, NEW j \in Claimable(w), WriteClaim(w, j)
      PROVE  Kept \/ \E v \in Workers : k \in Claimable(v) /\ WriteClaim(v, k)
  <2>1. CASE j = k
    BY <1>2, <2>1
  <2>2. CASE j # k
    BY <1>0, <1>2, <2>2 DEF WriteClaim, JobTablesTyped, Claimable
  <2>3. QED
    BY <2>1, <2>2
<1>3. ASSUME NEW j \in Jobs, WriteCompleted(j)
      PROVE  Kept
  <2>1. k # j
    BY <1>0, <1>3 DEF WriteCompleted, JobTablesTyped
  <2>2. CloseExec(j, "SUCCEEDED")[k] = execs[k]
    BY <1>0, <2>1, CloseExecEffect DEF JobTablesTyped
  <2>3. QED
    BY <1>0, <1>3, <2>1, <2>2 DEF WriteCompleted, JobTablesTyped
<1>4. ASSUME NEW w \in Workers, held[w] \in Jobs, WriteFailure(w)
      PROVE  Kept
  <2>1. k # held[w]
    BY <1>0, <1>4 DEF WriteFailure, JobTablesTyped
  <2>2. CloseExec(held[w], "FAILED")[k] = execs[k]
    BY <1>0, <1>4, <2>1, CloseExecEffect DEF JobTablesTyped
  <2>3. QED
    BY <1>0, <1>4, <2>1, <2>2 DEF WriteFailure, JobTablesTyped
<1>5. ASSUME NEW w \in Workers, held[w] \in Jobs, WriteDLQ(w)
      PROVE  Kept
  BY <1>0, <1>5 DEF WriteDLQ, Eligible, JobTablesTyped
<1>6. CASE PromoteScheduledJobs
  BY <1>0, <1>6 DEF PromoteScheduledJobs, JobTablesTyped
<1>7. ASSUME NEW s \in Schedulers, RecoverJobs(s)
      PROVE  Kept
  BY <1>0, <1>7 DEF RecoverJobs, JobTablesTyped
<1>8. ASSUME NEW j \in Jobs, NEW kind \in JobKinds, InsertJob(j, kind)
      PROVE  Kept
  BY <1>0, <1>8, KindAssumption DEF InsertJob, InitialRow, JobTablesTyped
<1>9. ASSUME NEW j \in Jobs, CancelJob(j)
      PROVE  Kept
  BY <1>0, <1>9 DEF CancelJob, JobTablesTyped
<1>10. ASSUME NEW r \in Requests, RetryWrite(r)
       PROVE  Kept
  BY <1>0, <1>10 DEF RetryWrite, JobTablesTyped
<1>11. ASSUME NEW j \in Jobs, ComesDue(j)
       PROVE  Kept
  BY <1>0, <1>11 DEF ComesDue, JobTablesTyped
<1>12. QED
  BY <1>1, <1>2, <1>3, <1>4, <1>5, <1>6, <1>7, <1>8, <1>9, <1>10, <1>11 DEF TableStep

-----------------------------------------------------------------------------
(* The ledger of attempts *)

\* A step keeps jobs and job_executions in agreement.
LEMMA LedgerStep ==
    ASSUME TypeInv, [Next]_vars, LedgerMatchesJobs
    PROVE  LedgerMatchesJobs'
<1>1. TableStep
  BY StepWritesTables DEF TypeInv
<1>2. SUFFICES ASSUME NEW j \in Jobs, status'[j] = "RUNNING"
               PROVE  /\ workerOf'[j] \in Workers
                      /\ execs'[j] # << >>
                      /\ execs'[j][Len(execs'[j])]
                            = [worker |-> workerOf'[j], status |-> "RUNNING"]
  BY DEF LedgerMatchesJobs
<1>3. ASSUME NEW w \in Workers, j \in Claimable(w), WriteClaim(w, j)
      PROVE  /\ workerOf'[j] = w
             /\ execs'[j] = Append(execs[j], [worker |-> w, status |-> "RUNNING"])
  BY <1>3 DEF WriteClaim, TypeInv, TypeOK, DbTypeOK
<1>4. CASE \E w \in Workers : j \in Claimable(w) /\ WriteClaim(w, j)
  <2>1. PICK w \in Workers : j \in Claimable(w) /\ WriteClaim(w, j)
    BY <1>4
  <2> DEFINE e == [worker |-> w, status |-> "RUNNING"]
  <2>2. execs[j] \in Seq(Execution) /\ e \in Execution
    BY DEF TypeInv, TypeOK, DbTypeOK, Execution
  <2>3. /\ Append(execs[j], e) # << >>
        /\ Append(execs[j], e)[Len(Append(execs[j], e))] = e
    BY <2>2, AppendProperties
  <2>4. workerOf'[j] = w /\ execs'[j] = Append(execs[j], e)
    BY <1>3, <2>1
  <2>5. QED
    BY <2>3, <2>4
<1>5. QED
  BY <1>1, <1>2, <1>4, RunningIsKeptOrClaimed DEF LedgerMatchesJobs

\* Under every disturbance the newest attempt of a RUNNING job is open and
\* belongs to the worker named in the job's row.
THEOREM LedgerCorrect == Spec => []LedgerMatchesJobs
<1>1. Init => LedgerMatchesJobs
  BY DEF Init, DbInit, LedgerMatchesJobs
<1>2. TypeInv /\ [Next]_vars /\ LedgerMatchesJobs => LedgerMatchesJobs'
  BY LedgerStep
<1>3. QED
  BY <1>1, <1>2, TypeInvAlways, PTL DEF Spec

-----------------------------------------------------------------------------
(* The concurrency limit *)

\* A step never takes a queue over its limit.
LEMMA LimitStep ==
    ASSUME TypeInv, [Next]_vars, ConcurrencyLimitHolds
    PROVE  ConcurrencyLimitHolds'
<1>1. TableStep
  BY StepWritesTables DEF TypeInv
<1>2. SUFFICES ASSUME NEW q \in Queues
               PROVE  Cardinality(Running(q)') <= Limit[q]
  BY DEF ConcurrencyLimitHolds, Running
<1>3. IsFiniteSet(Running(q)) /\ Limit[q] \in Nat
  BY NebulaAssumption, FS_Subset DEF Running
<1>4. Cardinality(Running(q)) \in Nat /\ Cardinality(Running(q)) <= Limit[q]
  BY <1>3, FS_CardinalityType DEF ConcurrencyLimitHolds
<1>5. CASE Running(q)' \subseteq Running(q)
  <2>1. Cardinality(Running(q)') <= Cardinality(Running(q))
    BY <1>3, <1>5, FS_Subset
  <2>2. Cardinality(Running(q)') \in Nat
    BY <1>3, <1>5, FS_Subset, FS_CardinalityType
  <2>3. QED
    BY <1>3, <1>4, <2>1, <2>2
<1>6. ASSUME NEW j \in Running(q)', j \notin Running(q)
      PROVE  Cardinality(Running(q)') <= Limit[q]
  <2>1. j \in Jobs /\ QueueOf[j] = q /\ status'[j] = "RUNNING" /\ status[j] # "RUNNING"
    BY <1>6 DEF Running
  <2>2. PICK w \in Workers : j \in Claimable(w) /\ WriteClaim(w, j)
    BY <1>1, <2>1, RunningIsKeptOrClaimed
  <2>3. Cardinality(Running(q)) < Limit[q]
    BY <2>1, <2>2 DEF Claimable, HasCapacity
  <2>4. Running(q)' \subseteq Running(q) \cup {j}
    BY <2>2 DEF Running, WriteClaim, TypeInv, TypeOK, DbTypeOK
  <2>5. /\ IsFiniteSet(Running(q) \cup {j})
        /\ Cardinality(Running(q) \cup {j}) = Cardinality(Running(q)) + 1
    BY <1>3, <1>6, FS_AddElement
  <2>6. /\ IsFiniteSet(Running(q)')
        /\ Cardinality(Running(q)') <= Cardinality(Running(q) \cup {j})
    BY <2>4, <2>5, FS_Subset
  <2>7. QED
    BY <1>3, <1>4, <2>3, <2>5, <2>6, FS_CardinalityType
<1>7. QED
  BY <1>5, <1>6

\* No disturbance makes a queue run more jobs than its concurrency_limit.
THEOREM LimitCorrect == Spec => []ConcurrencyLimitHolds
<1>1. Init => ConcurrencyLimitHolds
  <2> SUFFICES ASSUME Init, NEW q \in Queues
               PROVE  Cardinality(Running(q)) <= Limit[q]
    BY DEF ConcurrencyLimitHolds
  <2>1. Running(q) = {}
    BY DEF Init, DbInit, Running
  <2>2. QED
    BY <2>1, FS_EmptySet, NebulaAssumption
<1>2. TypeInv /\ [Next]_vars /\ ConcurrencyLimitHolds => ConcurrencyLimitHolds'
  BY LimitStep
<1>3. QED
  BY <1>1, <1>2, TypeInvAlways, PTL DEF Spec

-----------------------------------------------------------------------------
(* Waiting rows *)

\* No request has read a job to retry it.
NobodyRetries == \A r \in Requests : retrying[r] = NoRetry

\* Without manual retries no request ever does.
LEMMA NobodyStarts ==
    ASSUME NobodyRetries, "manualRetry" \notin Disturbances, [Next]_vars
    PROVE  NobodyRetries'
<1>1. \A r \in Requests : ~ RetryWrite(r) /\ \A j \in Jobs : ~ RetryRead(r, j)
  BY NebulaAssumption DEF NobodyRetries, NoRetry, RetryWrite, RetryRead, Disturb
<1>2. UNCHANGED retrying
  BY <1>1 DEF vars, Next, WorkerStep, SchedulerStep, ApiStep, InsertJob, CancelJob, PauseQueue,
        ResumeQueue, TimeStep, Expire, ExpireInSweep, Suspect
<1>3. QED
  BY <1>2 DEF NobodyRetries

\* A row not inserted yet is clean as well, and a RUNNING job is not scheduled
\* for later: whoever puts one of them back finds it fit to wait.
RowsCanWait ==
    \A j \in Jobs :
        /\ status[j] = "ABSENT" => workerOf[j] = NoWorker
        /\ status[j] = "RUNNING" => scheduledAt[j] = "past"

WaitingInv == WaitingRowsAreClean /\ RowsCanWait /\ NobodyRetries

\* WaitingInv is inductive.
LEMMA WaitingStep ==
    ASSUME TypeInv, "manualRetry" \notin Disturbances, [Next]_vars, WaitingInv
    PROVE  WaitingInv'
<1> DEFINE Clean == WaitingRowsAreClean /\ RowsCanWait
<1>1. TableStep
  BY StepWritesTables DEF TypeInv
<1>0. JobTablesTyped
  BY DEF TypeInv, TypeOK, DbTypeOK, JobTablesTyped
<1> USE DEF WaitingInv, WaitingRowsAreClean, RowsCanWait, JobTablesTyped
<1>2. ASSUME UNCHANGED jobTables
      PROVE  Clean'
  BY <1>2 DEF jobTables
<1>3. ASSUME NEW w \in Workers, NEW j \in Claimable(w), WriteClaim(w, j)
      PROVE  Clean'
  BY <1>0, <1>3 DEF WriteClaim, Claimable
<1>4. ASSUME NEW j \in Jobs, WriteCompleted(j)
      PROVE  Clean'
  BY <1>0, <1>4 DEF WriteCompleted
<1>5. ASSUME NEW w \in Workers, held[w] \in Jobs, WriteFailure(w)
      PROVE  Clean'
  BY <1>0, <1>5 DEF WriteFailure
<1>6. ASSUME NEW w \in Workers, held[w] \in Jobs, WriteDLQ(w)
      PROVE  Clean'
  BY <1>0, <1>6 DEF WriteDLQ
<1>7. ASSUME PromoteScheduledJobs
      PROVE  Clean'
  BY <1>0, <1>7 DEF PromoteScheduledJobs, Due
<1>8. ASSUME NEW s \in Schedulers, RecoverJobs(s)
      PROVE  Clean'
  BY <1>0, <1>8 DEF RecoverJobs, HeldByStale
<1>9. ASSUME NEW j \in Jobs, NEW kind \in JobKinds, InsertJob(j, kind)
      PROVE  Clean'
  BY <1>0, <1>9, KindAssumption DEF InsertJob, InitialRow
<1>10. ASSUME NEW j \in Jobs, CancelJob(j)
       PROVE  Clean'
  BY <1>0, <1>10 DEF CancelJob
<1>11. \A r \in Requests : ~ RetryWrite(r)
  BY DEF NobodyRetries, NoRetry, RetryWrite
<1>12. ASSUME NEW j \in Jobs, ComesDue(j)
       PROVE  Clean'
  BY <1>0, <1>12 DEF ComesDue
<1>13. NobodyRetries'
  BY NobodyStarts
<1>14. Clean'
  BY <1>1, <1>2, <1>3, <1>4, <1>5, <1>6, <1>7, <1>8, <1>9, <1>10, <1>11, <1>12 DEF TableStep
<1>15. QED
  BY <1>13, <1>14

\* Whoever puts a job back, under every disturbance but a retry by hand it waits
\* with a clean row that a claim, or the next promotion, can pick up.
THEOREM WaitingCorrect ==
    ASSUME "manualRetry" \notin Disturbances
    PROVE  Spec => []WaitingRowsAreClean
<1>1. Init => WaitingInv
  BY DEF Init, DbInit, ApiInit, WaitingInv, WaitingRowsAreClean, RowsCanWait, NobodyRetries
<1>2. TypeInv /\ [Next]_vars /\ WaitingInv => WaitingInv'
  BY WaitingStep
<1>3. WaitingInv => WaitingRowsAreClean
  BY DEF WaitingInv
<1>4. QED
  BY <1>1, <1>2, <1>3, TypeInvAlways, PTL DEF Spec

-----------------------------------------------------------------------------
(* The dead letter queue *)

\* A process on its way to the dead letter queue has used up the retries of the
\* job it holds, on its own snapshot.
PromotionsAreExhausted ==
    \A w \in Workers : pc[w] \in {"promoting", "analyzing"} => Exhausted(w)

DeadLetterInv == DeadLettersAreExhausted /\ PromotionsAreExhausted

\* The dead letter queue changes only where an exhausted job had no row in it.
LEMMA DLQWrites ==
    ASSUME TypeInv, TableStep, NEW j \in Jobs, dlq'[j] # dlq[j]
    PROVE  /\ ~ InDLQ(j)
           /\ \E w \in Workers : /\ pc[w] = "analyzing"
                                 /\ held[w] = j
                                 /\ dlq'[j] = NewRetryCount(w)
<1>1. PICK w \in Workers : /\ pc[w] = "analyzing"
                           /\ held[w] \in Jobs
                           /\ ~ InDLQ(held[w])
                           /\ WriteDLQ(w)
  BY DEF TableStep, jobTables, WriteClaim, WriteCompleted, WriteFailure,
         PromoteScheduledJobs, RecoverJobs, InsertJob, CancelJob, RetryWrite, ComesDue
<1>2. QED
  BY <1>1 DEF WriteDLQ, TypeInv, TypeOK, DbTypeOK

\* DeadLetterInv is inductive.
LEMMA DeadLetterStep ==
    ASSUME TypeInv, [Next]_vars, DeadLetterInv
    PROVE  DeadLetterInv'
<1>1. DeadLettersAreExhausted'
  <2> SUFFICES ASSUME NEW j \in Jobs, InDLQ(j)'
               PROVE  dlq'[j] > MaxRetries[j]
    BY DEF DeadLettersAreExhausted, InDLQ
  <2>1. TableStep
    BY StepWritesTables DEF TypeInv
  <2>2. CASE dlq'[j] = dlq[j]
    BY <2>2 DEF DeadLetterInv, DeadLettersAreExhausted, InDLQ
  <2>3. CASE dlq'[j] # dlq[j]
    BY <2>1, <2>3, DLQWrites DEF DeadLetterInv, PromotionsAreExhausted, Exhausted
  <2>4. QED
    BY <2>2, <2>3
<1>2. PromotionsAreExhausted'
  <2> SUFFICES ASSUME NEW w \in Workers, pc'[w] \in {"promoting", "analyzing"}
               PROVE  Exhausted(w)'
    BY DEF PromotionsAreExhausted
  <2> DEFINE Kept == Exhausted(w) /\ held'[w] = held[w] /\ snapshot'[w] = snapshot[w]
  <2>1. Kept
    <3>0. ProcTypeOK
      BY DEF TypeInv, TypeOK
    <3>1. CASE UNCHANGED procVars
      BY <3>1 DEF procVars, DeadLetterInv, PromotionsAreExhausted
    <3>2. ASSUME NEW v \in Workers, ExecutorStep(v)
          PROVE  Kept
      BY <3>0, <3>2 DEF ExecutorStep, BeginPoll, ClaimNextJob, ClaimNothing, ClaimLost,
            Dispatch, MarkCompleted, MarkCompletedFails, HandleFailure, HandleFailureFails,
            Goto, BackToLoop, ProcTypeOK, DeadLetterInv, PromotionsAreExhausted
    <3>3. ASSUME NEW v \in Workers, DLQStep(v)
          PROVE  Kept
      BY <3>0, <3>3 DEF DLQStep, LoadForDLQ, MoveToDLQ, MoveToDLQFails, Goto, BackToLoop,
            ProcTypeOK, DeadLetterInv, PromotionsAreExhausted
    <3>4. ASSUME NEW v \in Workers, LifeStep(v)
          PROVE  Kept
      BY <3>0, <3>4 DEF LifeStep, Register, Heartbeat, Stop, Deregister, DrainTimeout, WriteOffline, Crash,
            Goto, Gone, procVars, ProcTypeOK, DeadLetterInv, PromotionsAreExhausted
    <3>5. \/ UNCHANGED procVars
          \/ \E v \in Workers : ExecutorStep(v) \/ DLQStep(v) \/ LifeStep(v)
      BY DEF vars, Next, WorkerStep, TimeStep, Expire, ExpireInSweep, Suspect, HeartbeatExpires
    <3>6. QED
      BY <3>1, <3>2, <3>3, <3>4, <3>5
  <2>2. QED
    BY <2>1 DEF Exhausted, NewRetryCount
<1>3. QED
  BY <1>1, <1>2 DEF DeadLetterInv

\* Nothing reaches the dead letter queue with retries left.
THEOREM DeadLettersCorrect == Spec => []DeadLettersAreExhausted
<1>1. Init => DeadLetterInv
  BY DEF Init, DbInit, ProcInit, DeadLetterInv, DeadLettersAreExhausted,
         PromotionsAreExhausted, InDLQ
<1>2. TypeInv /\ [Next]_vars /\ DeadLetterInv => DeadLetterInv'
  BY DeadLetterStep
<1>3. DeadLetterInv => DeadLettersAreExhausted
  BY DEF DeadLetterInv
<1>4. QED
  BY <1>1, <1>2, <1>3, TypeInvAlways, PTL DEF Spec

\* No step changes a row of the dead letter queue.
THEOREM DeadLettersStay == Spec => DeadLettersArePermanent
<1>1. TypeInv /\ [Next]_vars => [\A j \in Jobs : InDLQ(j) => dlq'[j] = dlq[j]]_vars
  <2> SUFFICES ASSUME TypeInv, [Next]_vars, NEW j \in Jobs, InDLQ(j)
               PROVE  dlq'[j] = dlq[j]
    OBVIOUS
  <2>1. TableStep
    BY StepWritesTables DEF TypeInv
  <2>2. QED
    BY <2>1, DLQWrites
<1>2. QED
  BY <1>1, TypeInvAlways, PTL DEF Spec, DeadLettersArePermanent

-----------------------------------------------------------------------------
(* From FAILED to the dead letter queue *)

\* No process is cut short and no statement fails.
NothingIsCut ==
    \A kind \in {"crash", "drainTimeout", "dbError", "lostAck"} : kind \notin Disturbances

Promotes(w, j) == held[w] = j /\ pc[w] \in {"promoting", "analyzing"}

\* A process that promotes a FAILED job goes on until the job has its row.
LEMMA PromotersGoOn ==
    ASSUME TypeInv, NothingIsCut, [Next]_vars, NEW w \in Workers, NEW j \in Jobs,
           Promotes(w, j), status[j] = "FAILED"
    PROVE  Promotes(w, j)' \/ InDLQ(j)'
<1>0. ProcTypeOK /\ dlq \in [Jobs -> Nat]
  BY DEF TypeInv, TypeOK, DbTypeOK
<1>1. CASE UNCHANGED procVars
  BY <1>1 DEF procVars, Promotes
<1>2. ASSUME NEW v \in Workers, ExecutorStep(v)
      PROVE  Promotes(w, j)'
  BY <1>0, <1>2 DEF ExecutorStep, BeginPoll, ClaimNextJob, ClaimNothing, ClaimLost, Dispatch,
        MarkCompleted, MarkCompletedFails, HandleFailure, HandleFailureFails, Goto, BackToLoop,
        ProcTypeOK, Promotes
<1>3. ASSUME NEW v \in Workers, v # w, DLQStep(v)
      PROVE  Promotes(w, j)'
  BY <1>0, <1>3 DEF DLQStep, LoadForDLQ, MoveToDLQ, MoveToDLQFails, Goto, BackToLoop,
        ProcTypeOK, Promotes
<1>4. CASE LoadForDLQ(w)
  BY <1>0, <1>4 DEF LoadForDLQ, Eligible, Goto, ProcTypeOK, Promotes
<1>5. CASE MoveToDLQ(w)
  <2>1. CASE InDLQ(j)
    BY <1>5, <2>1 DEF MoveToDLQ, jobTables, InDLQ, Promotes
  <2>2. CASE ~ InDLQ(j)
    <3>1. dlq'[j] = snapshot[w] + 1 /\ snapshot[w] \in Nat
      BY <1>0, <1>5, <2>2 DEF MoveToDLQ, WriteDLQ, NewRetryCount, Promotes, ProcTypeOK
    <3>2. QED
      BY <3>1 DEF InDLQ
  <2>3. QED
    BY <2>1, <2>2
<1>6. ASSUME NEW v \in Workers, LifeStep(v)
      PROVE  Promotes(w, j)'
  <2>1. ~ DrainTimeout(v) /\ ~ Crash(v)
    BY DEF DrainTimeout, Crash, Disturb, NothingIsCut
  <2>2. QED
    BY <1>0, <1>6, <2>1 DEF LifeStep, Register, Heartbeat, Stop, Deregister, WriteOffline, Goto, Gone, Alive,
          procVars, ProcTypeOK, Promotes
<1>7. ~ MoveToDLQFails(w)
  BY DEF MoveToDLQFails, Disturb, NothingIsCut
<1>8. \/ UNCHANGED procVars
      \/ \E v \in Workers : ExecutorStep(v) \/ DLQStep(v) \/ LifeStep(v)
  BY DEF vars, Next, WorkerStep, TimeStep, Expire, ExpireInSweep, Suspect, HeartbeatExpires
<1>9. QED
  BY <1>1, <1>2, <1>3, <1>4, <1>5, <1>6, <1>7, <1>8 DEF DLQStep

\* Whoever fails a job promotes it or has just done so.
LEMMA FailuresArePromoted ==
    ASSUME TypeInv, NothingIsCut, [Next]_vars, NEW j \in Jobs,
           status[j] # "FAILED", status'[j] = "FAILED"
    PROVE  InDLQ(j)' \/ \E w \in Workers : Promotes(w, j)'
<1>0. JobTablesTyped /\ ProcTypeOK /\ dlq \in [Jobs -> Nat]
  BY DEF TypeInv, TypeOK, DbTypeOK, JobTablesTyped
<1>1. TableStep
  BY StepWritesTables DEF TypeInv
<1>2. ASSUME NEW w \in Workers, HandleFailure(w) \/ HandleFailureFails(w), held[w] \in Jobs,
             WriteFailure(w)
      PROVE  Promotes(w, j)'
  <2>1. HandleFailure(w)
    <3>1. CASE HandleFailureFails(w)
      <4>1. UNCHANGED jobTables
        BY <3>1 DEF HandleFailureFails, Disturb, NothingIsCut
      <4>2. QED
        BY <4>1 DEF jobTables
    <3>2. QED
      BY <1>2, <3>1
  <2>2. held[w] = j /\ Exhausted(w)
    BY <1>0, <1>2 DEF WriteFailure, JobTablesTyped
  <2>3. QED
    BY <1>0, <2>1, <2>2 DEF HandleFailure, Goto, Promotes, ProcTypeOK
<1>3. ASSUME NEW w \in Workers, held[w] \in Jobs, ~ InDLQ(held[w]), WriteDLQ(w)
      PROVE  InDLQ(j)'
  <2>1. held[w] = j
    BY <1>0, <1>3 DEF WriteDLQ, JobTablesTyped
  <2>2. dlq'[j] = snapshot[w] + 1 /\ snapshot[w] \in Nat
    BY <1>0, <1>3, <2>1 DEF WriteDLQ, NewRetryCount, ProcTypeOK
  <2>3. QED
    BY <2>2 DEF InDLQ
\* No other write fails a job.
<1>4. ~ UNCHANGED jobTables
  BY DEF jobTables
<1>5. ASSUME NEW w \in Workers, NEW k \in Claimable(w), WriteClaim(w, k)
      PROVE  FALSE
  BY <1>0, <1>5 DEF WriteClaim, Claimable, JobTablesTyped
<1>6. ASSUME NEW k \in Jobs, WriteCompleted(k)
      PROVE  FALSE
  BY <1>0, <1>6 DEF WriteCompleted, JobTablesTyped
<1>7. ~ PromoteScheduledJobs /\ \A s \in Schedulers : ~ RecoverJobs(s)
  BY <1>0 DEF PromoteScheduledJobs, RecoverJobs, JobTablesTyped
<1>8. ASSUME NEW k \in Jobs, NEW kind \in JobKinds, InsertJob(k, kind)
      PROVE  FALSE
  BY <1>0, <1>8, KindAssumption DEF InsertJob, InitialRow, JobTablesTyped
<1>9. \A k \in Jobs : ~ CancelJob(k) /\ ~ ComesDue(k)
  BY <1>0 DEF CancelJob, ComesDue, JobTablesTyped
<1>10. \A r \in Requests : ~ RetryWrite(r)
  BY <1>0 DEF RetryWrite, JobTablesTyped
<1>11. QED
  BY <1>1, <1>2, <1>3, <1>4, <1>5, <1>6, <1>7, <1>8, <1>9, <1>10 DEF TableStep

\* As long as no process is cut short and no statement fails, a FAILED job is a
\* dead letter or in the hands of a process that makes it one (moveToDLQ).
THEOREM PromotionCorrect ==
    ASSUME NothingIsCut
    PROVE  Spec => []FailedArePromoted
<1>1. Init => FailedArePromoted
  BY DEF Init, DbInit, FailedArePromoted
<1>2. TypeInv /\ [Next]_vars /\ FailedArePromoted => FailedArePromoted'
  <2> SUFFICES ASSUME TypeInv, [Next]_vars, FailedArePromoted, NEW j \in Jobs, status'[j] = "FAILED"
               PROVE  InDLQ(j)' \/ \E w \in Workers : Promotes(w, j)'
    BY DEF FailedArePromoted, Promotes
  <2>1. CASE status[j] # "FAILED"
    BY <2>1, FailuresArePromoted
  <2>2. CASE InDLQ(j)
    <3>1. TableStep
      BY StepWritesTables DEF TypeInv
    <3>2. QED
      BY <2>2, <3>1, DLQWrites DEF InDLQ
  <2>3. ASSUME NEW w \in Workers, Promotes(w, j), status[j] = "FAILED"
        PROVE  InDLQ(j)' \/ Promotes(w, j)'
    BY <2>3, PromotersGoOn
  <2>4. QED
    BY <2>1, <2>2, <2>3 DEF FailedArePromoted, Promotes
<1>3. QED
  BY <1>1, <1>2, TypeInvAlways, PTL DEF Spec

-----------------------------------------------------------------------------
(***************************************************************************)
(* Who has a RUNNING job, proved for every instance in which no live       *)
(* worker is suspected and no job is retried by hand.  No two processes    *)
(* execute a job, although processes crash, drain or are cut short and     *)
(* restart, statements fail and acknowledgements are lost.                 *)
(***************************************************************************)

\* The two disturbances that can give a job to a second worker.
NoHandover == "suspect" \notin Disturbances /\ "manualRetry" \notin Disturbances

\* The row of a job that w executes names w; it may be SUCCEEDED already, when
\* the acknowledgement of the outcome was lost.
ExecutorsOwn ==
    \A w \in Workers : \A j \in Jobs :
        Executes(w, j) => status[j] \in {"RUNNING", "SUCCEEDED"} /\ workerOf[j] = w

\* The job a process promotes to the dead letter queue is FAILED, and nobody's
\* to run any more.
PromotedAreFailed ==
    \A w \in Workers : pc[w] \in {"promoting", "analyzing"} => status[held[w]] = "FAILED"

\* The recovery sees no row as stale whose process is alive to refresh it.
OwnedAreFresh == \A w \in Workers : ownsRow[w] => fresh[w]

ExclusionInv == ExecutorsOwn /\ PromotedAreFailed /\ OwnedAreFresh /\ NobodyRetries

\* A step that moves only rows nobody executes or promotes, and no process into
\* executing or promoting, keeps executors and rows in agreement.
LEMMA RowsMoveApart ==
    ASSUME TypeInv, ExclusionInv,
           \A w \in Workers :
              \/ pc'[w] \in {"down", "polling", "claiming"}
              \/ /\ held'[w] = held[w]
                 /\ \/ pc'[w] \in {"executing", "completing", "failing"} /\ Executes(w, held[w])
                    \/ /\ pc'[w] \in {"promoting", "analyzing"}
                       /\ pc[w] \in {"promoting", "analyzing"},
           \A j \in Jobs :
              \/ status'[j] = status[j] /\ workerOf'[j] = workerOf[j]
              \/ status[j] = "FAILED" /\ status'[j] = "FAILED"
              \/ status[j] # "FAILED" /\ \A w \in Workers : ~ Executes(w, j)
    PROVE  ExecutorsOwn' /\ PromotedAreFailed'
<1>1. ExecutorsOwn'
  <2> SUFFICES ASSUME NEW w \in Workers, NEW j \in Jobs, Executes(w, j)'
               PROVE  status'[j] \in {"RUNNING", "SUCCEEDED"} /\ workerOf'[j] = w
    BY DEF ExecutorsOwn
  <2>1. Executes(w, j)
    BY DEF Executes
  <2>2. status[j] \in {"RUNNING", "SUCCEEDED"} /\ workerOf[j] = w
    BY <2>1 DEF ExclusionInv, ExecutorsOwn
  <2>3. QED
    BY <2>1, <2>2
<1>2. PromotedAreFailed'
  <2> SUFFICES ASSUME NEW w \in Workers, pc'[w] \in {"promoting", "analyzing"}
               PROVE  status'[held'[w]] = "FAILED"
    BY DEF PromotedAreFailed
  <2>1. held'[w] = held[w] /\ pc[w] \in {"promoting", "analyzing"}
    OBVIOUS
  <2>2. held[w] \in Jobs /\ status[held[w]] = "FAILED"
    BY <2>1 DEF TypeInv, HoldingOK, Busy, ExclusionInv, PromotedAreFailed
  <2>3. QED
    BY <2>1, <2>2
<1>3. QED
  BY <1>1, <1>2

\* Unless a live worker is suspected, the heartbeat of its row does not run out.
LEMMA OwnedStayFresh ==
    ASSUME TypeInv, OwnedAreFresh, "suspect" \notin Disturbances, [Next]_vars
    PROVE  OwnedAreFresh'
<1>0. ProcTypeOK /\ fresh \in [Workers -> BOOLEAN]
  BY DEF TypeInv, TypeOK, DbTypeOK
<1>1. CASE UNCHANGED <<ownsRow, fresh>>
  BY <1>1 DEF OwnedAreFresh
<1>2. ASSUME NEW v \in Workers, WorkerStep(v)
      PROVE  OwnedAreFresh'
  <2>1. CASE ExecutorStep(v) \/ DLQStep(v)
    <3>1. UNCHANGED <<ownsRow, fresh>>
      BY <2>1 DEF ExecutorStep, BeginPoll, ClaimNextJob, ClaimNothing, ClaimLost, Dispatch,
            MarkCompleted, MarkCompletedFails, HandleFailure, HandleFailureFails, WriteClaim,
            WriteCompleted, WriteFailure, DLQStep, LoadForDLQ, MoveToDLQ, MoveToDLQFails,
            WriteDLQ, dbVars, workerTable, Goto, BackToLoop
    <3>2. QED
      BY <1>1, <3>1
  <2>2. CASE LifeStep(v)
    BY <1>0, <2>2 DEF LifeStep, Register, Heartbeat, Stop, Deregister, DrainTimeout, Crash,
            Gone, procVars, workerTable, ProcTypeOK, OwnedAreFresh
  <2>3. QED
    BY <1>2, <2>1, <2>2 DEF WorkerStep
<1>3. CASE \/ UNCHANGED vars
           \/ SchedulerStep /\ UNCHANGED <<procVars, retrying>>
           \/ ApiStep /\ UNCHANGED <<procVars, sweep>>
  BY <1>1, <1>3 DEF vars, dbVars, procVars, SchedulerStep, PromoteScheduledJobs, RecoverJobs,
        MarkOffline, SweepCutShort, ApiStep, InsertJob, CancelJob, RetryRead, RetryWrite,
        PauseQueue, ResumeQueue, workerTable
<1>4. CASE TimeStep
  <2>1. UNCHANGED ownsRow /\ \A w \in Workers : ownsRow[w] => fresh'[w] = fresh[w]
    BY <1>0, <1>4 DEF TimeStep, Expire, ExpireInSweep, Suspect, HeartbeatExpires, ComesDue,
                Disturb, procVars, workerTable
  <2>2. QED
    BY <2>1 DEF OwnedAreFresh
<1>5. QED
  BY <1>2, <1>3, <1>4 DEF Next

\* A step of a worker process preserves ExclusionInv.
LEMMA WorkerWrites ==
    ASSUME TypeInv, ExclusionInv, NoHandover, NEW v \in Workers, WorkerStep(v)
    PROVE  ExclusionInv'
<1> USE DEF NoHandover
<1>0. /\ JobTablesTyped /\ ProcTypeOK /\ HoldingOK
      /\ fresh \in [Workers -> BOOLEAN]
  BY DEF TypeInv, TypeOK, DbTypeOK, JobTablesTyped
<1>1. NobodyRetries'
  BY NobodyStarts DEF ExclusionInv, Next
<1>2. OwnedAreFresh'
  BY OwnedStayFresh DEF ExclusionInv, NoHandover, Next
<1> DEFINE Inv == ExecutorsOwn /\ PromotedAreFailed
<1>3. \A w \in Workers : \/ pc[w] \in {"down", "polling", "claiming"}
                         \/ pc[w] \in {"promoting", "analyzing"}
                         \/ Executes(w, held[w]) /\ held[w] \in Jobs
  BY <1>0 DEF ProcTypeOK, Places, Executes, HoldingOK, Busy
<1>4. \A w \in Workers \ {v} : pc'[w] = pc[w] /\ held'[w] = held[w]
  BY <1>0 DEF WorkerStep, ExecutorStep, BeginPoll, ClaimNextJob, ClaimNothing, ClaimLost, Dispatch,
            MarkCompleted, MarkCompletedFails, HandleFailure, HandleFailureFails,
            DLQStep, LoadForDLQ, MoveToDLQ, MoveToDLQFails, LifeStep, Register, Heartbeat, Stop,
            Deregister, DrainTimeout, WriteOffline, Crash, Gone, Goto, BackToLoop, procVars, ProcTypeOK
<1>5. CASE ClaimNextJob(v)
  <2>1. PICK j \in Claimable(v) : WriteClaim(v, j) /\ held' = [held EXCEPT ![v] = j]
    BY <1>5 DEF ClaimNextJob
  <2>2. j \in Jobs /\ status[j] = "QUEUED"
    BY DEF Claimable
  <2>3. /\ pc'[v] = "executing" /\ held'[v] = j
        /\ status'[j] = "RUNNING" /\ workerOf'[j] = v
        /\ \A k \in Jobs \ {j} : status'[k] = status[k] /\ workerOf'[k] = workerOf[k]
    BY <1>0, <1>5, <2>1, <2>2 DEF ClaimNextJob, WriteClaim, ProcTypeOK, JobTablesTyped
  <2>4. \A w \in Workers : ~ Executes(w, j)
    BY <2>2 DEF ExclusionInv, ExecutorsOwn
  <2>5. ExecutorsOwn'
    BY <1>4, <2>3, <2>4 DEF ExclusionInv, ExecutorsOwn, Executes
  <2>6. PromotedAreFailed'
    <3> SUFFICES ASSUME NEW w \in Workers, pc'[w] \in {"promoting", "analyzing"}
                 PROVE  status'[held'[w]] = "FAILED"
      BY DEF PromotedAreFailed
    <3>1. held'[w] = held[w] /\ pc'[w] = pc[w]
      BY <1>4, <2>3
    <3>2. held[w] \in Jobs /\ status[held[w]] = "FAILED"
      BY <1>0, <3>1 DEF HoldingOK, Busy, ExclusionInv, PromotedAreFailed
    <3>3. QED
      BY <2>2, <2>3, <3>1, <3>2
  <2>7. QED
    BY <1>1, <1>2, <2>5, <2>6 DEF ExclusionInv
<1>6. CASE ClaimLost(v)
  <2>1. PICK j \in Claimable(v) : WriteClaim(v, j)
    BY <1>6 DEF ClaimLost
  <2>2. j \in Jobs /\ status[j] = "QUEUED"
    BY DEF Claimable
  <2>3. /\ pc'[v] = "polling"
        /\ \A k \in Jobs \ {j} : status'[k] = status[k] /\ workerOf'[k] = workerOf[k]
    BY <1>0, <1>6, <2>1, <2>2 DEF ClaimLost, Goto, WriteClaim, ProcTypeOK, JobTablesTyped
  <2>4. \A w \in Workers : ~ Executes(w, j)
    BY <2>2 DEF ExclusionInv, ExecutorsOwn
  <2>5. Inv'
    <3>1. \A w \in Workers :
             \/ pc'[w] \in {"down", "polling", "claiming"}
             \/ /\ held'[w] = held[w]
                /\ \/ pc'[w] \in {"executing", "completing", "failing"} /\ Executes(w, held[w])
                   \/ /\ pc'[w] \in {"promoting", "analyzing"}
                      /\ pc[w] \in {"promoting", "analyzing"}
      BY <1>3, <1>4, <2>3 DEF Executes
    <3>2. QED
      BY <2>2, <2>3, <2>4, <3>1, RowsMoveApart
  <2>6. QED
    BY <1>1, <1>2, <2>5 DEF ExclusionInv
<1>7. CASE BeginPoll(v) \/ ClaimNothing(v) \/ Dispatch(v) \/ LifeStep(v)
  <2>1. UNCHANGED <<status, workerOf>>
    BY <1>7 DEF BeginPoll, ClaimNothing, Dispatch, dbVars, jobTables, LifeStep, Register,
            Heartbeat, Stop, Deregister, DrainTimeout, WriteOffline, Crash
  <2>2. \/ pc'[v] \in {"down", "polling", "claiming"}
        \/ pc'[v] = pc[v] /\ held'[v] = held[v]
        \/ /\ pc[v] = "executing" /\ pc'[v] \in {"completing", "failing"}
           /\ held'[v] = held[v]
    BY <1>0, <1>7 DEF BeginPoll, ClaimNothing, Dispatch, LifeStep, Register, Heartbeat, Stop,
            Deregister, DrainTimeout, WriteOffline, Crash, Gone, Goto, procVars, ProcTypeOK
  <2>3. Inv'
    <3>1. \A w \in Workers :
             \/ pc'[w] \in {"down", "polling", "claiming"}
             \/ /\ held'[w] = held[w]
                /\ \/ pc'[w] \in {"executing", "completing", "failing"} /\ Executes(w, held[w])
                   \/ /\ pc'[w] \in {"promoting", "analyzing"}
                      /\ pc[w] \in {"promoting", "analyzing"}
      BY <1>3, <1>4, <2>2 DEF Executes
    <3>2. QED
      BY <2>1, <3>1, RowsMoveApart
  <2>4. QED
    BY <1>1, <1>2, <2>3 DEF ExclusionInv
<1>8. CASE MarkCompleted(v) \/ MarkCompletedFails(v)
  <2>1. Executes(v, held[v]) /\ held[v] \in Jobs
    BY <1>0, <1>8 DEF MarkCompleted, MarkCompletedFails, HoldingOK, Busy, Executes
  <2>2. status[held[v]] # "FAILED" /\ workerOf[held[v]] = v
    BY <2>1 DEF ExclusionInv, ExecutorsOwn
  <2>3. /\ status' \in {status, [status EXCEPT ![held[v]] = "SUCCEEDED"]}
        /\ UNCHANGED workerOf
    BY <1>8 DEF MarkCompleted, MarkCompletedFails, WriteCompleted, jobTables
  <2>4. \/ pc'[v] = "polling"
        \/ pc'[v] = "failing" /\ held'[v] = held[v]
    BY <1>0, <1>8 DEF MarkCompleted, MarkCompletedFails, BackToLoop, Goto, ProcTypeOK
  <2>5. ExecutorsOwn'
    <3> SUFFICES ASSUME NEW w \in Workers, NEW j \in Jobs, Executes(w, j)'
                 PROVE  status'[j] \in {"RUNNING", "SUCCEEDED"} /\ workerOf'[j] = w
      BY DEF ExecutorsOwn
    <3>1. Executes(w, j)
      BY <1>4, <2>1, <2>4 DEF Executes
    <3>2. QED
      BY <1>0, <2>3, <3>1 DEF ExclusionInv, ExecutorsOwn, JobTablesTyped
  <2>6. PromotedAreFailed'
    <3> SUFFICES ASSUME NEW w \in Workers, pc'[w] \in {"promoting", "analyzing"}
                 PROVE  status'[held'[w]] = "FAILED"
      BY DEF PromotedAreFailed
    <3>1. held'[w] = held[w] /\ pc'[w] = pc[w]
      BY <1>4, <2>4
    <3>2. held[w] \in Jobs /\ status[held[w]] = "FAILED"
      BY <1>0, <3>1 DEF HoldingOK, Busy, ExclusionInv, PromotedAreFailed
    <3>3. QED
      BY <1>0, <2>2, <2>3, <3>1, <3>2 DEF JobTablesTyped
  <2>7. QED
    BY <1>1, <1>2, <2>5, <2>6 DEF ExclusionInv
<1>9. CASE HandleFailure(v) \/ HandleFailureFails(v)
  <2>1. Executes(v, held[v]) /\ held[v] \in Jobs
    BY <1>0, <1>9 DEF HandleFailure, HandleFailureFails, HoldingOK, Busy, Executes
  <2>2. status[held[v]] # "FAILED" /\ workerOf[held[v]] = v
    BY <2>1 DEF ExclusionInv, ExecutorsOwn
  <2>3. \A j \in Jobs \ {held[v]} : status'[j] = status[j] /\ workerOf'[j] = workerOf[j]
    BY <1>0, <1>9 DEF HandleFailure, HandleFailureFails, WriteFailure, jobTables, JobTablesTyped
  <2>4. \/ pc'[v] = "polling"
        \/ pc'[v] = "promoting" /\ held'[v] = held[v] /\ status'[held[v]] = "FAILED"
    BY <1>0, <1>9, <2>1 DEF HandleFailure, HandleFailureFails, WriteFailure, BackToLoop, Goto,
            ProcTypeOK, JobTablesTyped
  <2>5. ExecutorsOwn'
    BY <1>4, <2>2, <2>3, <2>4 DEF ExclusionInv, ExecutorsOwn, Executes
  <2>6. PromotedAreFailed'
    <3> SUFFICES ASSUME NEW w \in Workers, pc'[w] \in {"promoting", "analyzing"}
                 PROVE  status'[held'[w]] = "FAILED"
      BY DEF PromotedAreFailed
    <3>1. CASE w = v
      BY <2>4, <3>1
    <3>2. CASE w # v
      <4>1. held[w] \in Jobs /\ status[held[w]] = "FAILED" /\ held'[w] = held[w]
        BY <1>0, <1>4, <3>2 DEF HoldingOK, Busy, ExclusionInv, PromotedAreFailed
      <4>2. QED
        BY <2>2, <2>3, <4>1
    <3>3. QED
      BY <3>1, <3>2
  <2>7. QED
    BY <1>1, <1>2, <2>5, <2>6 DEF ExclusionInv
<1>10. CASE DLQStep(v)
  <2>1. pc[v] \in {"promoting", "analyzing"} => status[held[v]] = "FAILED" /\ held[v] \in Jobs
    BY <1>0 DEF ExclusionInv, PromotedAreFailed, HoldingOK, Busy
  <2>2. \A j \in Jobs : \/ status'[j] = status[j] /\ workerOf'[j] = workerOf[j]
                        \/ status[j] = "FAILED" /\ status'[j] = "FAILED"
    BY <1>0, <1>10, <2>1 DEF DLQStep, LoadForDLQ, MoveToDLQ, MoveToDLQFails, WriteDLQ,
            dbVars, jobTables, JobTablesTyped
  <2>3. \/ pc'[v] = "polling"
        \/ pc[v] = "promoting" /\ pc'[v] = "analyzing" /\ held'[v] = held[v]
    BY <1>0, <1>10 DEF DLQStep, LoadForDLQ, MoveToDLQ, MoveToDLQFails, BackToLoop, Goto,
            ProcTypeOK
  <2>4. Inv'
    <3>1. \A w \in Workers :
             \/ pc'[w] \in {"down", "polling", "claiming"}
             \/ /\ held'[w] = held[w]
                /\ \/ pc'[w] \in {"executing", "completing", "failing"} /\ Executes(w, held[w])
                   \/ /\ pc'[w] \in {"promoting", "analyzing"}
                      /\ pc[w] \in {"promoting", "analyzing"}
      BY <1>3, <1>4, <2>3 DEF Executes
    <3>2. QED
      BY <2>2, <3>1, RowsMoveApart
  <2>5. QED
    BY <1>1, <1>2, <2>4 DEF ExclusionInv
<1>11. QED
  BY <1>5, <1>6, <1>7, <1>8, <1>9, <1>10 DEF WorkerStep, ExecutorStep

\* ExclusionInv is inductive.
LEMMA ExclusionStep ==
    ASSUME TypeInv, ExclusionInv, NoHandover, [Next]_vars
    PROVE  ExclusionInv'
<1>0. /\ JobTablesTyped /\ ProcTypeOK /\ HoldingOK
      /\ fresh \in [Workers -> BOOLEAN]
  BY DEF TypeInv, TypeOK, DbTypeOK, JobTablesTyped
<1>1. CASE UNCHANGED vars
  BY <1>1 DEF vars, dbVars, jobTables, workerTable, procVars, ExclusionInv, ExecutorsOwn,
        PromotedAreFailed, OwnedAreFresh, NobodyRetries, Executes
<1>2. CASE \E w \in Workers : WorkerStep(w)
  BY <1>2, WorkerWrites
\* The other steps leave the processes alone; it remains to see which rows move.
<1>3. ASSUME UNCHANGED <<pc, held, ownsRow, retrying>>,
             \A w \in Workers : ownsRow[w] => fresh'[w] = fresh[w],
             \A j \in Jobs :
                \/ status'[j] = status[j] /\ workerOf'[j] = workerOf[j]
                \/ status[j] \in {"ABSENT", "QUEUED", "SCHEDULED"}
                \/ j \in HeldByStale
      PROVE  ExclusionInv'
  <2>1. OwnedAreFresh' /\ NobodyRetries'
    BY <1>3 DEF ExclusionInv, OwnedAreFresh, NobodyRetries
  <2>2. \A j \in Jobs :
            \/ status'[j] = status[j] /\ workerOf'[j] = workerOf[j]
            \/ status[j] # "FAILED" /\ \A w \in Workers : ~ Executes(w, j)
    BY <1>0, <1>3 DEF HeldByStale, Stale, ExclusionInv, ExecutorsOwn, OwnedAreFresh, Executes,
          HoldingOK, Busy
  <2>3. \A w \in Workers : \/ pc[w] \in {"down", "polling", "claiming"}
                           \/ pc[w] \in {"promoting", "analyzing"}
                           \/ Executes(w, held[w])
    BY <1>0 DEF ProcTypeOK, Places, Executes
  <2>4. ExecutorsOwn' /\ PromotedAreFailed'
    <3>1. \A w \in Workers :
             \/ pc'[w] \in {"down", "polling", "claiming"}
             \/ /\ held'[w] = held[w]
                /\ \/ pc'[w] \in {"executing", "completing", "failing"} /\ Executes(w, held[w])
                   \/ /\ pc'[w] \in {"promoting", "analyzing"}
                      /\ pc[w] \in {"promoting", "analyzing"}
      BY <1>3, <2>3 DEF Executes
    <3>2. QED
      BY <2>2, <3>1, RowsMoveApart
  <2>5. QED
    BY <2>1, <2>4 DEF ExclusionInv
<1>4. CASE SchedulerStep /\ UNCHANGED <<procVars, retrying>>
  <2>1. UNCHANGED <<pc, held, ownsRow, retrying, fresh>>
    BY <1>4 DEF procVars, SchedulerStep, PromoteScheduledJobs, RecoverJobs, MarkOffline,
                SweepCutShort, workerTable
  <2>2. \A j \in Jobs : \/ status'[j] = status[j] /\ workerOf'[j] = workerOf[j]
                        \/ status[j] = "SCHEDULED"
                        \/ j \in HeldByStale
    BY <1>0, <1>4 DEF SchedulerStep, PromoteScheduledJobs, Due, RecoverJobs, MarkOffline,
                SweepCutShort, jobTables, JobTablesTyped
  <2>3. QED
    BY <1>3, <2>1, <2>2
<1>5. CASE ApiStep /\ UNCHANGED <<procVars, sweep>>
  <2>1. UNCHANGED <<pc, held, ownsRow, fresh>>
    BY <1>5 DEF procVars, ApiStep, InsertJob, CancelJob, RetryRead, RetryWrite, PauseQueue,
                ResumeQueue, workerTable
  <2>2. \A r \in Requests : ~ RetryWrite(r) /\ \A j \in Jobs : ~ RetryRead(r, j)
    BY DEF ExclusionInv, NobodyRetries, NoRetry, RetryWrite, RetryRead, Disturb, NoHandover
  <2>3. /\ UNCHANGED retrying
        /\ \A j \in Jobs : \/ status'[j] = status[j] /\ workerOf'[j] = workerOf[j]
                           \/ status[j] \in {"ABSENT", "QUEUED", "SCHEDULED"}
    BY <1>0, <1>5, <2>2 DEF ApiStep, InsertJob, CancelJob, PauseQueue, ResumeQueue, jobTables,
                JobTablesTyped
  <2>4. QED
    BY <1>3, <2>1, <2>3
<1>6. CASE TimeStep
  <2>1. UNCHANGED <<pc, held, ownsRow, status, workerOf, retrying>>
    BY <1>6 DEF TimeStep, Expire, ExpireInSweep, Suspect, HeartbeatExpires, ComesDue,
                jobTables, procVars
  <2>2. \A w \in Workers : ownsRow[w] => fresh'[w] = fresh[w]
    BY <1>0, <1>6 DEF TimeStep, Expire, ExpireInSweep, Suspect, HeartbeatExpires, ComesDue,
                Disturb, NoHandover, workerTable
  <2>3. QED
    BY <1>3, <2>1, <2>2
<1>7. QED
  BY <1>1, <1>2, <1>4, <1>5, <1>6 DEF Next

\* No two worker processes execute the same job, as Worker.js:19-20 has it,
\* as long as no live worker is suspected and no job is retried by hand.
THEOREM ExclusionCorrect ==
    ASSUME NoHandover
    PROVE  Spec => []ExclusiveExecution
<1>1. Init => ExclusionInv
  BY DEF Init, DbInit, ProcInit, ApiInit, ExclusionInv, ExecutorsOwn, PromotedAreFailed,
         OwnedAreFresh, NobodyRetries, Executes
<1>2. TypeInv /\ [Next]_vars /\ ExclusionInv => ExclusionInv'
  BY ExclusionStep
<1>3. ExclusionInv => ExclusiveExecution
  BY DEF ExclusionInv, ExecutorsOwn, ExclusiveExecution
<1>4. QED
  BY <1>1, <1>2, <1>3, TypeInvAlways, PTL DEF Spec

-----------------------------------------------------------------------------
(* No RUNNING job is lost *)

\* The disturbances under which the recovery finds every job whose worker died.
RecoverableOnly ==
    Disturbances \subseteq {"crash", "stop", "quickRestart", "pause", "manualRetry"}

\* The recovery looks at the row of every process that has one.
OwnedAreOnline == \A w \in Workers : ownsRow[w] => online[w] = "ONLINE"

\* Between its two statements a recovery has left no job to a stale worker, so
\* that marking those workers OFFLINE hides nothing.
RecoveryIsThorough == (\E s \in Schedulers : sweep[s] = "marking") => HeldByStale = {}

RecoveryInv == OwnedAreFresh /\ NoStrandedJob /\ OwnedAreOnline /\ RecoveryIsThorough

\* A step of one process that leaves each RUNNING job of its own either in its
\* hands or, with its row still online, to the recovery.
LEMMA OwnJobsAreTended ==
    ASSUME TypeInv, RecoveryInv, NEW v \in Workers,
           UNCHANGED sweep,
           \/ fresh'[v]
           \/ /\ online'[v] = online[v] /\ fresh'[v] = fresh[v]
              /\ \A j \in Jobs : status'[j] = "RUNNING" /\ workerOf'[j] = v =>
                                    status[j] = "RUNNING" /\ workerOf[j] = v,
           \A w \in Workers \ {v} : /\ pc'[w] = pc[w] /\ held'[w] = held[w]
                                    /\ ownsRow'[w] = ownsRow[w]
                                    /\ online'[w] = online[w] /\ fresh'[w] = fresh[w],
           \A j \in Jobs : status'[j] = "RUNNING" =>
                \/ status[j] = "RUNNING" /\ workerOf'[j] = workerOf[j]
                \/ workerOf'[j] = v,
           \A j \in Jobs : status'[j] = "RUNNING" /\ workerOf'[j] = v =>
                Executes(v, j)' \/ (~ ownsRow'[v] /\ online'[v] = "ONLINE")
    PROVE  NoStrandedJob' /\ RecoveryIsThorough'
<1>1. NoStrandedJob'
  <2> SUFFICES ASSUME NEW j \in Jobs, status'[j] = "RUNNING"
               PROVE  \E w \in Workers :
                         /\ workerOf'[j] = w
                         /\ Executes(w, j)' \/ (~ ownsRow'[w] /\ online'[w] = "ONLINE")
    BY DEF NoStrandedJob
  <2>1. CASE workerOf'[j] = v
    BY <2>1
  <2>2. CASE workerOf'[j] # v
    <3>1. PICK w \in Workers : /\ workerOf[j] = w /\ workerOf'[j] = w
                               /\ Executes(w, j) \/ (~ ownsRow[w] /\ online[w] = "ONLINE")
      BY <2>2 DEF RecoveryInv, NoStrandedJob
    <3>2. Executes(w, j)' \/ (~ ownsRow'[w] /\ online'[w] = "ONLINE")
      BY <2>2, <3>1 DEF Executes
    <3>3. QED
      BY <3>1, <3>2
  <2>3. QED
    BY <2>1, <2>2
<1>2. RecoveryIsThorough'
  BY DEF RecoveryInv, RecoveryIsThorough, HeldByStale, Stale
<1>3. QED
  BY <1>1, <1>2

\* A step of a worker process preserves RecoveryInv.
LEMMA WorkersAreTended ==
    ASSUME TypeInv, RecoveryInv, RecoverableOnly, NEW v \in Workers, WorkerStep(v)
    PROVE  NoStrandedJob' /\ OwnedAreOnline' /\ RecoveryIsThorough'
<1>0. /\ JobTablesTyped /\ ProcTypeOK /\ HoldingOK
      /\ fresh \in [Workers -> BOOLEAN]
      /\ online \in [Workers -> {"ABSENT", "ONLINE", "OFFLINE"}]
  BY DEF TypeInv, TypeOK, DbTypeOK, JobTablesTyped
<1>1. /\ UNCHANGED sweep
      /\ \A w \in Workers \ {v} :
            pc'[w] = pc[w] /\ held'[w] = held[w] /\ ownsRow'[w] = ownsRow[w]
  BY <1>0 DEF WorkerStep, ExecutorStep, BeginPoll, ClaimNextJob, ClaimNothing, ClaimLost, Dispatch,
            MarkCompleted, MarkCompletedFails, HandleFailure, HandleFailureFails,
            DLQStep, LoadForDLQ, MoveToDLQ, MoveToDLQFails, LifeStep, Register, Heartbeat, Stop,
            Deregister, DrainTimeout, WriteOffline, Crash, Gone, Goto, BackToLoop, procVars, ProcTypeOK
<1>2. \A kind \in {"dbError", "lostAck", "drainTimeout"} : ~ Disturb(kind)
  BY DEF Disturb, RecoverableOnly
<1>3. ~ ClaimLost(v) /\ ~ MarkCompletedFails(v) /\ ~ HandleFailureFails(v) /\ ~ MoveToDLQFails(v)
      /\ ~ DrainTimeout(v)
  BY <1>2 DEF ClaimLost, MarkCompletedFails, HandleFailureFails, MoveToDLQFails, DrainTimeout
<1>4. CASE (ExecutorStep(v) \/ DLQStep(v)) /\ ownsRow[v]
  <2>1. /\ fresh[v] /\ online[v] = "ONLINE"
        /\ UNCHANGED <<online, fresh, ownsRow>>
    <3>1. UNCHANGED <<online, fresh, ownsRow>>
      BY <1>4 DEF ExecutorStep, BeginPoll, ClaimNextJob, ClaimNothing, ClaimLost, Dispatch,
            MarkCompleted, MarkCompletedFails, HandleFailure, HandleFailureFails, WriteClaim,
            WriteCompleted, WriteFailure, DLQStep, LoadForDLQ, MoveToDLQ, MoveToDLQFails,
            WriteDLQ, dbVars, workerTable, Goto, BackToLoop
    <3>2. QED
      BY <1>4, <3>1 DEF RecoveryInv, OwnedAreFresh, OwnedAreOnline
  <2>2. OwnedAreOnline'
    BY <2>1 DEF RecoveryInv, OwnedAreOnline
  <2>3. \A j \in Jobs : status[j] = "RUNNING" /\ workerOf[j] = v => Executes(v, j)
    BY <1>4 DEF RecoveryInv, NoStrandedJob
  <2>4. /\ \A j \in Jobs : status'[j] = "RUNNING" =>
                \/ status[j] = "RUNNING" /\ workerOf'[j] = workerOf[j]
                \/ workerOf'[j] = v
        /\ \A j \in Jobs : status'[j] = "RUNNING" /\ workerOf'[j] = v => Executes(v, j)'
    <3>1. CASE ClaimNextJob(v)
      <4>1. PICK k \in Claimable(v) : WriteClaim(v, k) /\ held' = [held EXCEPT ![v] = k]
        BY <3>1 DEF ClaimNextJob
      <4>2. k \in Jobs /\ Executes(v, k)' /\ \A j \in Jobs : ~ Executes(v, j)
        BY <1>0, <3>1, <4>1 DEF ClaimNextJob, Claimable, Executes, ProcTypeOK
      <4>3. \A j \in Jobs \ {k} : status'[j] = status[j] /\ workerOf'[j] = workerOf[j]
        BY <1>0, <4>1 DEF WriteClaim, JobTablesTyped
      <4>4. workerOf'[k] = v
        BY <1>0, <4>1, <4>2 DEF WriteClaim, JobTablesTyped
      <4>5. QED
        BY <2>3, <4>2, <4>3, <4>4
    <3>2. CASE BeginPoll(v) \/ ClaimNothing(v) \/ Dispatch(v)
      <4>1. UNCHANGED <<status, workerOf>>
        BY <3>2 DEF BeginPoll, ClaimNothing, Dispatch, dbVars, jobTables
      <4>2. \A j \in Jobs : Executes(v, j) => Executes(v, j)'
        BY <1>0, <3>2 DEF BeginPoll, ClaimNothing, Dispatch, Goto, Executes, ProcTypeOK
      <4>3. QED
        BY <2>3, <4>1, <4>2
    <3>3. CASE MarkCompleted(v) \/ HandleFailure(v)
      <4>1. /\ held[v] \in Jobs
            /\ status'[held[v]] # "RUNNING"
            /\ \A j \in Jobs \ {held[v]} : status'[j] = status[j] /\ workerOf'[j] = workerOf[j]
        BY <1>0, <3>3 DEF MarkCompleted, HandleFailure, WriteCompleted, WriteFailure, HoldingOK, Busy,
              JobTablesTyped
      <4>2. \A j \in Jobs : Executes(v, j) => j = held[v]
        BY DEF Executes
      <4>3. QED
        BY <2>3, <4>1, <4>2
    <3>4. CASE DLQStep(v)
      <4>1. pc[v] \in {"promoting", "analyzing"}
        BY <3>4 DEF DLQStep, LoadForDLQ, MoveToDLQ, MoveToDLQFails
      <4>2. held[v] \in Jobs /\ \A j \in Jobs : ~ Executes(v, j)
        BY <1>0, <4>1 DEF HoldingOK, Busy, Executes
      <4>3. \A j \in Jobs : \/ status'[j] = status[j] /\ workerOf'[j] = workerOf[j]
                            \/ status'[j] = "FAILED"
        BY <1>0, <3>4, <4>2 DEF DLQStep, LoadForDLQ, MoveToDLQ, MoveToDLQFails, WriteDLQ,
              dbVars, jobTables, JobTablesTyped
      <4>4. QED
        BY <2>3, <4>2, <4>3
    <3>5. QED
      BY <1>3, <1>4, <3>1, <3>2, <3>3, <3>4 DEF ExecutorStep
  <2>5. QED
    BY <1>1, <2>1, <2>2, <2>4, OwnJobsAreTended
\* Under an id without a row a process polls in vain.
<1>5. CASE (ExecutorStep(v) \/ DLQStep(v)) /\ ~ ownsRow[v]
  <2>1. ~ Busy(v) /\ (BeginPoll(v) \/ ClaimNothing(v))
    BY <1>0, <1>3, <1>5 DEF HoldingOK, Busy, ExecutorStep, ClaimNextJob, Dispatch, MarkCompleted,
          HandleFailure, DLQStep, LoadForDLQ, MoveToDLQ
  <2>2. UNCHANGED <<status, workerOf, online, fresh, ownsRow>>
    BY <2>1 DEF BeginPoll, ClaimNothing, Goto, dbVars, jobTables, workerTable
  <2>3. \A j \in Jobs : ~ Executes(v, j)
    BY <2>1 DEF Executes, Busy
  <2>4. OwnedAreOnline'
    BY <2>2 DEF RecoveryInv, OwnedAreOnline
  <2>5. \A j \in Jobs : status'[j] = "RUNNING" /\ workerOf'[j] = v =>
                ~ ownsRow'[v] /\ online'[v] = "ONLINE"
    BY <2>2, <2>3 DEF RecoveryInv, NoStrandedJob
  <2>6. QED
    BY <1>1, <2>2, <2>4, <2>5, OwnJobsAreTended
<1>6. CASE LifeStep(v)
  <2>1. UNCHANGED <<status, workerOf>>
    BY <1>6 DEF LifeStep, Register, Heartbeat, Stop, Deregister, DrainTimeout, Crash, jobTables
  <2>2. \A w \in Workers \ {v} : online'[w] = online[w] /\ fresh'[w] = fresh[w]
    BY <1>0, <1>6 DEF LifeStep, Register, Heartbeat, Stop, Deregister, DrainTimeout, WriteOffline,
          Crash, workerTable
  <2>3. /\ fresh'[v] \/ (online'[v] = online[v] /\ fresh'[v] = fresh[v])
        /\ ownsRow'[v] => online'[v] = "ONLINE"
        /\ \A j \in Jobs : status[j] = "RUNNING" /\ workerOf[j] = v =>
              Executes(v, j)' \/ (~ ownsRow'[v] /\ online'[v] = "ONLINE")
    <3>0. \A j \in Jobs : status[j] = "RUNNING" /\ workerOf[j] = v =>
              Executes(v, j) \/ (~ ownsRow[v] /\ online[v] = "ONLINE")
      BY DEF RecoveryInv, NoStrandedJob
    <3>1. /\ ownsRow[v] => fresh[v] /\ online[v] = "ONLINE"
          /\ \A j \in Jobs : Executes(v, j) => ownsRow[v]
      BY <1>0 DEF RecoveryInv, OwnedAreFresh, OwnedAreOnline, HoldingOK, Busy, Executes
    <3>2. CASE Register(v)
      <4>1. \A j \in Jobs : ~ Executes(v, j)
        BY <3>2 DEF Register, Executes, Alive
      <4>2. /\ fresh'[v] /\ online'[v] = "ONLINE"
            /\ ownsRow'[v] = (online[v] = "ABSENT")
        BY <1>0, <3>2 DEF Register, ProcTypeOK
      <4>3. QED
        BY <3>0, <4>1, <4>2
    <3>3. CASE Heartbeat(v)
      <4>1. /\ fresh'[v] /\ online'[v] = "ONLINE"
            /\ pc' = pc /\ held' = held /\ ownsRow' = ownsRow
        BY <1>0, <3>3 DEF Heartbeat, procVars
      <4>2. QED
        BY <3>0, <4>1 DEF Executes
    <3>4. CASE Stop(v)
      <4>1. UNCHANGED <<online, fresh, pc, held, ownsRow>>
        BY <3>4 DEF Stop, workerTable
      <4>2. QED
        BY <3>0, <3>1, <4>1 DEF Executes
    <3>5. CASE Crash(v)
      <4>1. ~ ownsRow'[v] /\ UNCHANGED <<online, fresh>>
        BY <1>0, <3>5 DEF Crash, Gone, workerTable, ProcTypeOK
      <4>2. QED
        BY <3>0, <3>1, <4>1
    <3>6. CASE Deregister(v)
      <4>1. \A j \in Jobs : ~ Executes(v, j)
        BY <3>6 DEF Deregister, Executes
      <4>2. ~ ownsRow'[v] /\ fresh' = fresh /\ (~ ownsRow[v] => online' = online)
        BY <1>0, <3>6 DEF Deregister, WriteOffline, Gone, ProcTypeOK
      <4>3. QED
        BY <3>0, <3>1, <4>1, <4>2
    <3>7. QED
      BY <1>3, <1>6, <3>2, <3>3, <3>4, <3>5, <3>6 DEF LifeStep
  <2>4. OwnedAreOnline'
    BY <1>1, <2>2, <2>3 DEF RecoveryInv, OwnedAreOnline
  <2>5. QED
    BY <1>1, <2>1, <2>2, <2>3, <2>4, OwnJobsAreTended
<1>7. QED
  BY <1>4, <1>5, <1>6 DEF WorkerStep

\* RecoveryInv is inductive.
LEMMA RecoveryStep ==
    ASSUME TypeInv, RecoveryInv, RecoverableOnly, [Next]_vars
    PROVE  RecoveryInv'
<1> DEFINE Goal == NoStrandedJob' /\ OwnedAreOnline' /\ RecoveryIsThorough'
<1>0. /\ JobTablesTyped /\ ProcTypeOK /\ SweepTypeOK
      /\ fresh \in [Workers -> BOOLEAN]
      /\ online \in [Workers -> {"ABSENT", "ONLINE", "OFFLINE"}]
  BY DEF TypeInv, TypeOK, DbTypeOK, JobTablesTyped
<1>2. OwnedAreFresh'
  BY OwnedStayFresh DEF RecoveryInv, RecoverableOnly
<1>3. ASSUME NEW v \in Workers, WorkerStep(v)
      PROVE  Goal
  BY <1>3, WorkersAreTended
\* The other steps leave the processes alone, and start no job.
<1>4. ASSUME UNCHANGED <<pc, held, ownsRow>>,
             \A j \in Jobs : status'[j] = "RUNNING" =>
                status[j] = "RUNNING" /\ workerOf'[j] = workerOf[j],
             \A j \in Jobs : \A w \in Workers :
                status'[j] = "RUNNING" /\ workerOf[j] = w => online'[w] = online[w],
             \A w \in Workers : ownsRow[w] => online'[w] = online[w]
      PROVE  NoStrandedJob' /\ OwnedAreOnline'
  <2>1. NoStrandedJob'
    <3> SUFFICES ASSUME NEW j \in Jobs, status'[j] = "RUNNING"
                 PROVE  \E w \in Workers :
                           /\ workerOf'[j] = w
                           /\ Executes(w, j)' \/ (~ ownsRow'[w] /\ online'[w] = "ONLINE")
      BY DEF NoStrandedJob
    <3>1. PICK w \in Workers : /\ workerOf[j] = w /\ workerOf'[j] = w
                               /\ Executes(w, j) \/ (~ ownsRow[w] /\ online[w] = "ONLINE")
      BY <1>4 DEF RecoveryInv, NoStrandedJob
    <3>2. online'[w] = online[w]
      BY <1>4, <3>1
    <3>3. Executes(w, j)' \/ (~ ownsRow'[w] /\ online'[w] = "ONLINE")
      BY <1>4, <3>1, <3>2 DEF Executes
    <3>4. QED
      BY <3>1, <3>3
  <2>2. OwnedAreOnline'
    BY <1>4 DEF RecoveryInv, OwnedAreOnline
  <2>3. QED
    BY <2>1, <2>2
<1>5. ASSUME UNCHANGED vars
      PROVE  Goal
  BY <1>5 DEF vars, dbVars, jobTables, workerTable, procVars, RecoveryInv, NoStrandedJob,
        OwnedAreOnline, RecoveryIsThorough, HeldByStale, Stale, Executes
<1>6. ASSUME PromoteScheduledJobs /\ UNCHANGED procVars
      PROVE  Goal
  <2>1. /\ UNCHANGED <<pc, held, ownsRow, online, fresh, workerOf, sweep>>
        /\ \A j \in Jobs : status'[j] = "RUNNING" => status[j] = "RUNNING"
    BY <1>0, <1>6 DEF PromoteScheduledJobs, procVars, workerTable, JobTablesTyped
  <2>2. RecoveryIsThorough'
    BY <2>1 DEF RecoveryInv, RecoveryIsThorough, HeldByStale, Stale
  <2>3. QED
    BY <1>4, <2>1, <2>2
<1>7. ASSUME NEW s \in Schedulers, RecoverJobs(s), UNCHANGED procVars
      PROVE  Goal
  <2>1. /\ UNCHANGED <<pc, held, ownsRow, online, fresh>>
        /\ \A j \in Jobs : status'[j] = "RUNNING" =>
              /\ status[j] = "RUNNING" /\ workerOf'[j] = workerOf[j]
              /\ j \notin HeldByStale
    BY <1>0, <1>7 DEF RecoverJobs, procVars, workerTable, JobTablesTyped
  <2>2. RecoveryIsThorough'
    BY <2>1 DEF RecoveryIsThorough, HeldByStale, Stale
  <2>3. QED
    BY <1>4, <2>1, <2>2
<1>8. ASSUME NEW s \in Schedulers, MarkOffline(s), UNCHANGED procVars
      PROVE  Goal
  <2>1. HeldByStale = {}
    BY <1>8 DEF MarkOffline, RecoveryInv, RecoveryIsThorough
  <2>2. /\ UNCHANGED <<pc, held, ownsRow, status, workerOf, fresh>>
        /\ \A w \in Workers : ~ Stale(w) => online'[w] = online[w]
        /\ \A w \in Workers : ~ Stale(w)'
    BY <1>0, <1>8 DEF MarkOffline, Stale, procVars, jobTables
  <2>3. \A j \in Jobs : \A w \in Workers : status[j] = "RUNNING" /\ workerOf[j] = w => ~ Stale(w)
    BY <2>1 DEF HeldByStale
  <2>4. \A w \in Workers : ownsRow[w] => ~ Stale(w)
    BY DEF RecoveryInv, OwnedAreFresh, Stale
  <2>5. RecoveryIsThorough'
    BY <2>2 DEF RecoveryIsThorough, HeldByStale
  <2>6. QED
    BY <1>4, <2>2, <2>3, <2>4, <2>5
<1>9. ASSUME NEW s \in Schedulers, SweepCutShort(s), UNCHANGED procVars
      PROVE  Goal
  <2>1. /\ UNCHANGED <<pc, held, ownsRow, status, workerOf, online, fresh>>
        /\ \A r \in Schedulers : sweep'[r] = "marking" => sweep[r] = "marking"
    BY <1>0, <1>9 DEF SweepCutShort, procVars, jobTables, workerTable, SweepTypeOK
  <2>2. RecoveryIsThorough'
    BY <2>1 DEF RecoveryInv, RecoveryIsThorough, HeldByStale, Stale
  <2>3. QED
    BY <1>4, <2>1, <2>2
<1>10. ASSUME ApiStep /\ UNCHANGED <<procVars, sweep>>
       PROVE  Goal
  <2>1. /\ UNCHANGED <<pc, held, ownsRow, sweep, online, fresh>>
        /\ \A j \in Jobs : status'[j] = "RUNNING" => status[j] = "RUNNING" /\ workerOf'[j] = workerOf[j]
    BY <1>0, <1>10, KindAssumption DEF ApiStep, InsertJob, InitialRow, CancelJob, RetryRead,
          RetryWrite, PauseQueue, ResumeQueue, jobTables, procVars, workerTable, JobTablesTyped
  <2>2. RecoveryIsThorough'
    BY <2>1 DEF RecoveryInv, RecoveryIsThorough, HeldByStale, Stale
  <2>3. QED
    BY <1>4, <2>1, <2>2
<1>11. ASSUME TimeStep
       PROVE  Goal
  <2>1. /\ UNCHANGED <<pc, held, ownsRow, sweep, online, status, workerOf>>
        /\ UNCHANGED fresh \/ \A s \in Schedulers : sweep[s] = "idle"
    BY <1>11 DEF TimeStep, Expire, ExpireInSweep, Suspect, HeartbeatExpires, ComesDue, Disturb,
          RecoverableOnly, jobTables, procVars, workerTable
  <2>2. RecoveryIsThorough'
    BY <2>1 DEF RecoveryInv, RecoveryIsThorough, HeldByStale, Stale
  <2>3. QED
    BY <1>4, <2>1, <2>2
<1>12. Goal
  BY <1>3, <1>5, <1>6, <1>7, <1>8, <1>9, <1>10, <1>11 DEF Next, SchedulerStep
<1>13. QED
  BY <1>2, <1>12 DEF RecoveryInv

\* As long as processes only crash, restart and stop in an orderly way, no RUNNING
\* job is lost, whatever is paused or retried by hand: its worker has it, or nobody
\* refreshes that worker's row and the recovery will find it.
THEOREM RecoveryCorrect ==
    ASSUME RecoverableOnly
    PROVE  Spec => []NoStrandedJob
<1>1. Init => RecoveryInv
  <2> SUFFICES ASSUME Init
               PROVE  RecoveryInv
    OBVIOUS
  <2>1. OwnedAreFresh
    BY DEF Init, ProcInit, OwnedAreFresh
  <2>2. NoStrandedJob /\ OwnedAreOnline /\ RecoveryIsThorough
    BY DEF Init, DbInit, ProcInit, SweepInit, NoStrandedJob, OwnedAreOnline, RecoveryIsThorough
  <2>3. QED
    BY <2>1, <2>2 DEF RecoveryInv
<1>2. TypeInv /\ [Next]_vars /\ RecoveryInv => RecoveryInv'
  BY RecoveryStep
<1>3. RecoveryInv => NoStrandedJob
  BY DEF RecoveryInv
<1>4. QED
  BY <1>1, <1>2, <1>3, TypeInvAlways, PTL DEF Spec

=============================================================================
