--------------------------- MODULE NebulaAttempts ---------------------------
(***************************************************************************)
(* What job_executions and retry_count say of the executions there have    *)
(* been, proved for every instance in which no acknowledgement is lost:    *)
(* AttemptsCoverExecutions even under suspicions and manual retries,       *)
(* RetriesCountFailures without them.  With both, the pipeline implements  *)
(* JobContract: a write to the job tables is a step of the contract or     *)
(* leaves what the owner of a job sees unchanged.  From the contract       *)
(* follow the exact retry budget and that a job that has ended stays so.   *)
(***************************************************************************)
EXTENDS NebulaProofs, WellFoundedInduction

\* An outcome closes the newest open attempt, so there has to be one.
LEMMA LargestExists ==
    ASSUME NEW n \in Nat, NEW S \in SUBSET (1 .. n), S # {}
    PROVE  Max(S) \in S /\ \A x \in S : x <= Max(S)
<1> DEFINE R == {p \in Nat \X Nat : p[1] < p[2]}
           T == {n - x : x \in S}
<1>1. IsWellFoundedOn(R, Nat)
  BY NatLessThanWellFounded DEF OpToRel
<1>2. T \subseteq Nat /\ T # {}
  <2>1. \A x \in S : x \in Nat /\ n - x \in Nat
    OBVIOUS
  <2>2. QED
    BY <2>1
<1>3. \E m \in T : \A y \in T : ~ (<<y, m>> \in R)
  <2> HIDE DEF R, T
  <2> QED
    BY <1>1, <1>2, WFMin
<1>4. PICK m \in T : \A y \in T : ~ (<<y, m>> \in R)
  BY <1>3
<1>5. n - m \in S /\ \A x \in S : n - m >= x
  <2>1. PICK x \in S : m = n - x
    BY <1>4
  <2>2. ASSUME NEW y \in S
        PROVE  n - y >= n - x
    <3>1. n - y \in T /\ <<n - y, m>> \notin R
      BY <1>4
    <3>2. n - y \in Nat /\ n - x \in Nat
      BY <1>2
    <3>3. QED
      BY <2>1, <3>1, <3>2
  <2>3. QED
    BY <2>1, <2>2
<1>6. QED
  BY <1>5 DEF Max

LEMMA OpenAttempts ==
    ASSUME execs \in [Jobs -> Seq(Execution)], NEW j \in Jobs
    PROVE  /\ OpenExecs(j) \subseteq 1 .. Len(execs[j])
           /\ IsFiniteSet(OpenExecs(j)) /\ Cardinality(OpenExecs(j)) \in Nat
           /\ IsFiniteSet(FailedExecs(j)) /\ Cardinality(FailedExecs(j)) \in Nat
<1>1. execs[j] \in Seq(Execution)
  OBVIOUS
<1>2. Len(execs[j]) \in Nat /\ DOMAIN execs[j] = 1 .. Len(execs[j])
  BY <1>1
<1>3. OpenExecs(j) \subseteq 1 .. Len(execs[j]) /\ FailedExecs(j) \subseteq 1 .. Len(execs[j])
  BY <1>2 DEF OpenExecs, FailedExecs
<1>4. IsFiniteSet(1 .. Len(execs[j]))
  BY <1>2, FS_Interval
<1>5. QED
  BY <1>3, <1>4, FS_Subset, FS_CardinalityType

\* Closing an attempt takes one from the open ones, and adds it to the failed ones
\* if the outcome is a failure.
LEMMA ClosingMovesOne ==
    ASSUME execs \in [Jobs -> Seq(Execution)],
           NEW j \in Jobs, NEW outcome \in {"SUCCEEDED", "FAILED"},
           OpenExecs(j) # {}, execs' = CloseExec(j, outcome)
    PROVE  \E i \in OpenExecs(j) :
              /\ OpenExecs(j)' = OpenExecs(j) \ {i}
              /\ FailedExecs(j)' = IF outcome = "FAILED" THEN FailedExecs(j) \cup {i}
                                   ELSE FailedExecs(j)
<1> DEFINE i == Max(OpenExecs(j))
<1>1. execs[j] \in Seq(Execution)
  OBVIOUS
<1>2. OpenExecs(j) \subseteq 1 .. Len(execs[j]) /\ Len(execs[j]) \in Nat
  BY <1>1, OpenAttempts
<1>3. i \in OpenExecs(j)
  BY <1>2, LargestExists
<1> HIDE DEF i
<1>4. execs'[j] = [execs[j] EXCEPT ![i].status = outcome]
  BY DEF CloseExec, i
<1>5. i \in 1 .. Len(execs[j]) /\ DOMAIN execs[j] = 1 .. Len(execs[j])
  BY <1>1, <1>2, <1>3
<1>6. execs[j][i] \in Execution /\ execs[j][i].status = "RUNNING"
  BY <1>1, <1>3, <1>5, ElementOfSeq DEF OpenExecs
<1>7. /\ DOMAIN execs'[j] = DOMAIN execs[j]
      /\ execs'[j][i].status = outcome
      /\ \A k \in DOMAIN execs[j] \ {i} : execs'[j][k] = execs[j][k]
  BY <1>4, <1>5, <1>6 DEF Execution
<1>8. OpenExecs(j)' = OpenExecs(j) \ {i}
  BY <1>5, <1>7 DEF OpenExecs
<1>9. FailedExecs(j)' = IF outcome = "FAILED" THEN FailedExecs(j) \cup {i} ELSE FailedExecs(j)
  BY <1>5, <1>6, <1>7 DEF FailedExecs
<1>10. QED
  BY <1>3, <1>8, <1>9

\* A claim opens one attempt and leaves the failed ones.
LEMMA ClaimingAddsOne ==
    ASSUME execs \in [Jobs -> Seq(Execution)],
           NEW w \in Workers, NEW j \in Jobs,
           execs' = [execs EXCEPT ![j] = Append(@, [worker |-> w, status |-> "RUNNING"])]
    PROVE  /\ OpenExecs(j)' = OpenExecs(j) \cup {Len(execs[j]) + 1}
           /\ Len(execs[j]) + 1 \notin OpenExecs(j)
           /\ FailedExecs(j)' = FailedExecs(j)
<1> DEFINE e == [worker |-> w, status |-> "RUNNING"]
           n == Len(execs[j])
<1>1. execs[j] \in Seq(Execution) /\ e \in Execution
  BY DEF Execution
<1>2. execs'[j] = Append(execs[j], e)
  OBVIOUS
<1>3. /\ n \in Nat /\ DOMAIN execs[j] = 1 .. n
      /\ Len(execs'[j]) = n + 1 /\ DOMAIN execs'[j] = 1 .. n + 1
      /\ execs'[j][n + 1] = e
      /\ \A k \in 1 .. n : execs'[j][k] = execs[j][k]
  BY <1>1, <1>2, AppendProperties
<1>4. DOMAIN execs'[j] = DOMAIN execs[j] \cup {n + 1} /\ n + 1 \notin DOMAIN execs[j]
  BY <1>3
<1>5. e.status = "RUNNING"
  OBVIOUS
<1> HIDE DEF e, n
<1>6. OpenExecs(j)' = OpenExecs(j) \cup {n + 1} /\ n + 1 \notin OpenExecs(j)
  BY <1>3, <1>4, <1>5 DEF OpenExecs
<1>7. FailedExecs(j)' = FailedExecs(j)
  BY <1>3, <1>4, <1>5 DEF FailedExecs
<1>8. QED
  BY <1>6, <1>7 DEF n
-----------------------------------------------------------------------------
(* Executions and open attempts *)

Executors(j) == {w \in Workers : Executes(w, j)}

\* What a step can do to the executors and the attempts of a job: a claim adds
\* one of each, an outcome takes one of each away, anything else can only end
\* executions.
LEMMA ExecutorsMove ==
    ASSUME TypeInv, [Next]_vars, "lostAck" \notin Disturbances, NEW j \in Jobs
    PROVE  \/ /\ Executors(j)' \subseteq Executors(j)
              /\ execs'[j] = execs[j]
           \/ \E w \in Workers :
                 /\ Executors(j)' \subseteq Executors(j) \cup {w}
                 /\ execs' = [execs EXCEPT ![j] = Append(@, [worker |-> w, status |-> "RUNNING"])]
           \/ \E w \in Executors(j), outcome \in {"SUCCEEDED", "FAILED"} :
                 /\ Executors(j)' \subseteq Executors(j) \ {w}
                 /\ execs' = CloseExec(j, outcome)
<1> DEFINE Fewer == Executors(j)' \subseteq Executors(j) /\ execs'[j] = execs[j]
           Claims(w) == /\ Executors(j)' \subseteq Executors(j) \cup {w}
                        /\ execs' = [execs EXCEPT ![j] = Append(@, [worker |-> w, status |-> "RUNNING"])]
           Ends(w) == /\ w \in Executors(j)
                      /\ Executors(j)' \subseteq Executors(j) \ {w}
                      /\ \E outcome \in {"SUCCEEDED", "FAILED"} : execs' = CloseExec(j, outcome)
<1>0. /\ execs \in [Jobs -> Seq(Execution)]
      /\ pc \in [Workers -> Places] /\ held \in [Workers -> Jobs \cup {NoJob}]
      /\ HoldingOK
  BY DEF TypeInv, TypeOK, DbTypeOK, ProcTypeOK
<1>1. CASE UNCHANGED <<pc, held>> /\ UNCHANGED execs
  BY <1>1 DEF Executors, Executes
<1>2. ASSUME NEW v \in Workers, ExecutorStep(v) \/ DLQStep(v) \/ LifeStep(v)
      PROVE  Fewer \/ \E w \in Workers : Claims(w) \/ Ends(w)
  <2>1. \A w \in Workers \ {v} : pc'[w] = pc[w] /\ held'[w] = held[w]
    BY <1>0, <1>2 DEF ExecutorStep, BeginPoll, ClaimNextJob, ClaimNothing, ClaimLost, Dispatch,
            MarkCompleted, MarkCompletedFails, HandleFailure, HandleFailureFails,
            DLQStep, LoadForDLQ, MoveToDLQ, MoveToDLQFails, LifeStep, Register, Heartbeat, Stop,
            Deregister, DrainTimeout, WriteOffline, Crash, Gone, Goto, BackToLoop, procVars
  <2>2. \A w \in Workers \ {v} : w \in Executors(j)' <=> w \in Executors(j)
    BY <2>1 DEF Executors, Executes
  <2>3. ~ ClaimLost(v) /\ ~ Disturb("lostAck")
    BY DEF ClaimLost, Disturb
  <2>4. CASE ClaimNextJob(v)
    <3>1. PICK k \in Claimable(v) : WriteClaim(v, k) /\ held' = [held EXCEPT ![v] = k]
      BY <2>4 DEF ClaimNextJob
    <3>2. k \in Jobs /\ held'[v] = k
      BY <1>0, <3>1 DEF Claimable
    <3>3. CASE k = j
      BY <2>2, <3>1, <3>3 DEF WriteClaim, Executors
    <3>4. CASE k # j
      <4>1. v \notin Executors(j)' /\ execs'[j] = execs[j]
        BY <1>0, <3>1, <3>2, <3>4 DEF WriteClaim, Executors, Executes
      <4>2. QED
        BY <2>2, <4>1 DEF Executors
    <3>5. QED
      BY <3>3, <3>4
  <2>5. CASE MarkCompleted(v) \/ HandleFailure(v)
    <3>1. /\ held[v] \in Jobs /\ Executes(v, held[v])
          /\ \E outcome \in {"SUCCEEDED", "FAILED"} : execs' = CloseExec(held[v], outcome)
          /\ pc'[v] \in {"polling", "promoting"}
      BY <1>0, <2>5 DEF MarkCompleted, HandleFailure, WriteCompleted, WriteFailure, HoldingOK,
            Busy, Executes, Goto, BackToLoop
    <3>2. v \notin Executors(j)'
      BY <3>1 DEF Executors, Executes
    <3>3. CASE held[v] = j
      <4>1. v \in Executors(j)
        BY <3>1, <3>3 DEF Executors
      <4>2. Executors(j)' \subseteq Executors(j) \ {v}
        BY <2>2, <3>2 DEF Executors
      <4>3. QED
        BY <3>1, <3>3, <4>1, <4>2
    <3>4. CASE held[v] # j
      <4>1. execs'[j] = execs[j]
        BY <1>0, <3>1, <3>4, CloseExecEffect
      <4>2. QED
        BY <2>2, <3>2, <4>1 DEF Executors
    <3>5. QED
      BY <3>3, <3>4
  <2>6. CASE MarkCompletedFails(v) \/ HandleFailureFails(v)
    <3>1. /\ UNCHANGED execs
          /\ \/ pc'[v] = "polling"
             \/ pc[v] = "completing" /\ pc'[v] = "failing" /\ held'[v] = held[v]
      BY <1>0, <2>3, <2>6 DEF MarkCompletedFails, HandleFailureFails, jobTables, Goto, BackToLoop
    <3>2. v \in Executors(j)' => v \in Executors(j)
      BY <3>1 DEF Executors, Executes
    <3>3. QED
      BY <2>2, <3>1, <3>2 DEF Executors
  <2>7. CASE BeginPoll(v) \/ ClaimNothing(v) \/ Dispatch(v) \/ DLQStep(v) \/ LifeStep(v)
    <3>1. UNCHANGED execs
      BY <2>7 DEF BeginPoll, ClaimNothing, Dispatch, dbVars, jobTables, DLQStep, LoadForDLQ,
            MoveToDLQ, MoveToDLQFails, WriteDLQ, LifeStep, Register, Heartbeat, Stop, Deregister,
            DrainTimeout, Crash
    <3>2. \/ pc'[v] \in {"down", "polling", "claiming", "analyzing"}
          \/ held'[v] = held[v] /\ pc'[v] = pc[v]
          \/ held'[v] = held[v] /\ pc[v] = "executing"
      BY <1>0, <2>7 DEF BeginPoll, ClaimNothing, Dispatch, DLQStep, LoadForDLQ, MoveToDLQ,
            MoveToDLQFails, LifeStep, Register, Heartbeat, Stop, Deregister, DrainTimeout, WriteOffline, Crash,
            Gone, Goto, BackToLoop, procVars
    <3>3. v \in Executors(j)' => v \in Executors(j)
      BY <3>2 DEF Executors, Executes
    <3>4. QED
      BY <2>2, <3>1, <3>3 DEF Executors
  <2>8. QED
    BY <1>2, <2>3, <2>4, <2>5, <2>6, <2>7 DEF ExecutorStep
<1>7. CASE UNCHANGED vars
  BY <1>1, <1>7 DEF vars, dbVars, jobTables, procVars
<1>3. CASE SchedulerStep /\ UNCHANGED <<procVars, retrying>>
  BY <1>1, <1>3 DEF jobTables, procVars, SchedulerStep, PromoteScheduledJobs,
            RecoverJobs, MarkOffline, SweepCutShort
<1>4. CASE ApiStep /\ UNCHANGED <<procVars, sweep>>
  BY <1>1, <1>4 DEF procVars, ApiStep, InsertJob, CancelJob, RetryRead, RetryWrite, PauseQueue,
            ResumeQueue, jobTables
<1>5. CASE TimeStep
  BY <1>1, <1>5 DEF TimeStep, Expire, ExpireInSweep, Suspect, HeartbeatExpires, ComesDue,
            jobTables, procVars
<1>6. CASE \E v \in Workers : WorkerStep(v)
  <2>1. Fewer \/ \E w \in Workers : Claims(w) \/ Ends(w)
    BY <1>2, <1>6 DEF WorkerStep
  <2>2. QED
    BY <2>1
<1>8. QED
  BY <1>7, <1>3, <1>4, <1>5, <1>6 DEF Next

\* As long as no acknowledgement is lost, each process that executes a job finds
\* an open attempt of its own to close, even while several processes execute it.
THEOREM AttemptsCorrect ==
    ASSUME "lostAck" \notin Disturbances
    PROVE  Spec => []AttemptsCoverExecutions
<1>1. Init => AttemptsCoverExecutions
  <2> SUFFICES ASSUME Init, NEW j \in Jobs
               PROVE  Cardinality({w \in Workers : Executes(w, j)}) <= Cardinality(OpenExecs(j))
    BY DEF AttemptsCoverExecutions
  <2>1. {w \in Workers : Executes(w, j)} = {}
    BY DEF Init, ProcInit, Executes
  <2>2. execs \in [Jobs -> Seq(Execution)]
    BY TypeInvInit DEF TypeInv, TypeOK, DbTypeOK
  <2>3. Cardinality({w \in Workers : Executes(w, j)}) = 0
    BY <2>1, FS_EmptySet
  <2>4. Cardinality(OpenExecs(j)) \in Nat
    BY <2>2, OpenAttempts
  <2>5. QED
    BY <2>3, <2>4
<1>2. TypeInv /\ [Next]_vars /\ AttemptsCoverExecutions => AttemptsCoverExecutions'
  <2> SUFFICES ASSUME TypeInv, [Next]_vars, AttemptsCoverExecutions, NEW j \in Jobs
               PROVE  Cardinality(Executors(j)') <= Cardinality(OpenExecs(j)')
    BY DEF AttemptsCoverExecutions, Executors
  <2> DEFINE E == Executors(j)
             O == OpenExecs(j)
  <2>1. execs \in [Jobs -> Seq(Execution)] /\ IsFiniteSet(Workers)
    BY NebulaAssumption DEF TypeInv, TypeOK, DbTypeOK
  <2>2. /\ IsFiniteSet(E) /\ Cardinality(E) \in Nat
        /\ IsFiniteSet(O) /\ Cardinality(O) \in Nat
    BY <2>1, OpenAttempts, FS_Subset, FS_CardinalityType DEF Executors
  <2>3. Cardinality(E) <= Cardinality(O)
    BY DEF AttemptsCoverExecutions, Executors
  <2>4. CASE Executors(j)' \subseteq E /\ execs'[j] = execs[j]
    <3>1. OpenExecs(j)' = O
      BY <2>4 DEF OpenExecs
    <3>2. Cardinality(Executors(j)') <= Cardinality(E) /\ Cardinality(Executors(j)') \in Nat
      BY <2>2, <2>4, FS_Subset, FS_CardinalityType
    <3>3. QED
      BY <2>2, <2>3, <3>1, <3>2
  <2>5. ASSUME NEW w \in Workers, Executors(j)' \subseteq E \cup {w},
               execs' = [execs EXCEPT ![j] = Append(@, [worker |-> w, status |-> "RUNNING"])]
        PROVE  Cardinality(Executors(j)') <= Cardinality(OpenExecs(j)')
    <3>0. OpenExecs(j)' = O \cup {Len(execs[j]) + 1} /\ Len(execs[j]) + 1 \notin O
      BY <2>1, <2>5, ClaimingAddsOne
    <3>1. Cardinality(OpenExecs(j)') = Cardinality(O) + 1
      BY <2>2, <3>0, FS_AddElement
    <3>2. /\ IsFiniteSet(E \cup {w})
          /\ Cardinality(E \cup {w}) \in Nat
          /\ Cardinality(E \cup {w}) <= Cardinality(E) + 1
      <4>1. CASE w \in E
        <5>1. E \cup {w} = E
          BY <4>1
        <5>2. Cardinality(E) <= Cardinality(E) + 1
          BY <2>2
        <5>3. QED
          BY <2>2, <5>1, <5>2
      <4>2. CASE w \notin E
        <5>1. IsFiniteSet(E \cup {w}) /\ Cardinality(E \cup {w}) = Cardinality(E) + 1
          BY <2>2, <4>2, FS_AddElement
        <5>2. QED
          BY <2>2, <5>1
      <4>3. QED
        BY <4>1, <4>2
    <3>3. /\ Cardinality(Executors(j)') <= Cardinality(E \cup {w})
          /\ Cardinality(Executors(j)') \in Nat
      BY <2>5, <3>2, FS_Subset, FS_CardinalityType
    <3>4. QED
      BY <2>2, <2>3, <3>1, <3>2, <3>3
  <2>6. ASSUME NEW w \in E, NEW outcome \in {"SUCCEEDED", "FAILED"},
               Executors(j)' \subseteq E \ {w}, execs' = CloseExec(j, outcome)
        PROVE  Cardinality(Executors(j)') <= Cardinality(OpenExecs(j)')
    <3>1. IsFiniteSet(E \ {w}) /\ Cardinality(E \ {w}) = Cardinality(E) - 1
      BY <2>2, FS_RemoveElement
    <3>2. /\ Cardinality(Executors(j)') <= Cardinality(E \ {w})
          /\ Cardinality(Executors(j)') \in Nat /\ Cardinality(E \ {w}) \in Nat
      BY <2>6, <3>1, FS_Subset, FS_CardinalityType
    <3>3. Cardinality(O) >= 1
      BY <2>2, <2>3, <3>1, <3>2
    <3>4. O # {}
      BY <3>3, FS_EmptySet
    <3>5. PICK i \in O : OpenExecs(j)' = O \ {i}
      BY <2>1, <2>6, <3>4, ClosingMovesOne
    <3>6. Cardinality(OpenExecs(j)') = Cardinality(O) - 1
      BY <2>2, <3>5, FS_RemoveElement
    <3>7. QED
      BY <2>2, <2>3, <3>1, <3>2, <3>6
  <2>7. QED
    BY <2>4, <2>5, <2>6, ExecutorsMove
<1>3. QED
  BY <1>1, <1>2, TypeInvAlways, PTL DEF Spec

-----------------------------------------------------------------------------
(* Retries and failed attempts *)

\* A process executes a RUNNING job, and knows its retry_count.
SnapshotsAreCurrent ==
    \A w \in Workers : \A j \in Jobs :
        Executes(w, j) => status[j] = "RUNNING" /\ snapshot[w] = retries[j]

RetryInv ==
    ExclusionInv /\ LedgerMatchesJobs /\ SnapshotsAreCurrent /\ RetriesCountFailures

\* A process that executes a job after a step has just claimed it, or executed
\* it before and has not settled it.
LEMMA ExecutesSince ==
    ASSUME TypeInv, [Next]_vars, "lostAck" \notin Disturbances,
           NEW w \in Workers, NEW j \in Jobs, Executes(w, j)'
    PROVE  \/ /\ j \in Claimable(w) /\ WriteClaim(w, j)
              /\ snapshot'[w] = retries[j]
           \/ /\ Executes(w, j) /\ snapshot'[w] = snapshot[w]
              /\ ~ MarkCompleted(w) /\ ~ HandleFailure(w)
<1> DEFINE Goal == \/ /\ j \in Claimable(w) /\ WriteClaim(w, j)
                      /\ snapshot'[w] = retries[j]
                   \/ /\ Executes(w, j) /\ snapshot'[w] = snapshot[w]
                      /\ ~ MarkCompleted(w) /\ ~ HandleFailure(w)
<1>0. ProcTypeOK
  BY DEF TypeInv, TypeOK
<1>1. ~ MarkCompleted(w) /\ ~ HandleFailure(w)
  BY <1>0 DEF MarkCompleted, HandleFailure, Executes, Goto, BackToLoop, ProcTypeOK
<1>2. CASE UNCHANGED procVars
  BY <1>1, <1>2 DEF procVars, Executes
<1>3. ASSUME NEW v \in Workers, ExecutorStep(v) \/ DLQStep(v) \/ LifeStep(v), v # w
      PROVE  Goal
  <2>1. pc'[w] = pc[w] /\ held'[w] = held[w] /\ snapshot'[w] = snapshot[w]
    BY <1>0, <1>3 DEF ExecutorStep, BeginPoll, ClaimNextJob, ClaimNothing, ClaimLost, Dispatch,
            MarkCompleted, MarkCompletedFails, HandleFailure, HandleFailureFails,
            DLQStep, LoadForDLQ, MoveToDLQ, MoveToDLQFails, LifeStep, Register, Heartbeat, Stop,
            Deregister, DrainTimeout, WriteOffline, Crash, Gone, Goto, BackToLoop, procVars, ProcTypeOK
  <2>2. QED
    BY <1>1, <2>1 DEF Executes
<1>4. CASE ClaimNextJob(w)
  <2>1. PICK k \in Claimable(w) : /\ WriteClaim(w, k)
                                  /\ held' = [held EXCEPT ![w] = k]
                                  /\ snapshot' = [snapshot EXCEPT ![w] = retries[k]]
    BY <1>4 DEF ClaimNextJob
  <2>2. k = j
    BY <1>0, <2>1 DEF Executes, ProcTypeOK
  <2>3. QED
    BY <1>0, <2>1, <2>2 DEF ProcTypeOK
<1>5. CASE \/ BeginPoll(w) \/ ClaimNothing(w) \/ ClaimLost(w) \/ Dispatch(w)
           \/ MarkCompletedFails(w) \/ HandleFailureFails(w) \/ DLQStep(w) \/ LifeStep(w)
  <2>1. Executes(w, j) /\ snapshot'[w] = snapshot[w]
    BY <1>0, <1>5 DEF BeginPoll, ClaimNothing, ClaimLost, Dispatch, MarkCompletedFails,
            HandleFailureFails, DLQStep, LoadForDLQ, MoveToDLQ, MoveToDLQFails, LifeStep, Register,
            Heartbeat, Stop, Deregister, DrainTimeout, WriteOffline, Crash, Gone, Goto, BackToLoop, procVars,
            ProcTypeOK, Executes
  <2>2. QED
    BY <1>1, <2>1
<1>6. CASE \E v \in Workers : WorkerStep(v)
  BY <1>1, <1>3, <1>4, <1>5, <1>6 DEF WorkerStep, ExecutorStep
<1>7. QED
  <2>1. CASE UNCHANGED vars
    BY <1>2, <2>1 DEF vars
  <2>2. CASE TimeStep
    BY <1>2, <2>2 DEF TimeStep, Expire, ExpireInSweep, Suspect, HeartbeatExpires
  <2>3. QED
    BY <1>2, <1>6, <2>1, <2>2 DEF Next

\* What a step writes, once no acknowledgement is lost and nobody retries: an
\* outcome is written by the one process that executes the job.
LEMMA OutcomesAreOwn ==
    ASSUME TypeInv, RetryInv, NoHandover, "lostAck" \notin Disturbances, [Next]_vars,
           NEW j \in Jobs
    PROVE  \/ /\ retries'[j] = retries[j] /\ execs'[j] = execs[j]
              /\ status[j] = "RUNNING" =>
                    \/ status'[j] = "RUNNING"
                    \/ j \in HeldByStale
           \/ \E w \in Workers : /\ j \in Claimable(w) /\ WriteClaim(w, j)
           \/ /\ \E w \in Workers : MarkCompleted(w) /\ Executes(w, j)
              /\ WriteCompleted(j)
           \/ \E w \in Workers : HandleFailure(w) /\ Executes(w, j) /\ WriteFailure(w)
<1> DEFINE Kept == /\ retries'[j] = retries[j] /\ execs'[j] = execs[j]
                   /\ status[j] = "RUNNING" => status'[j] = "RUNNING" \/ j \in HeldByStale
<1>0. JobTablesTyped /\ ProcTypeOK /\ HoldingOK /\ execs \in [Jobs -> Seq(Execution)]
  BY DEF TypeInv, TypeOK, DbTypeOK, JobTablesTyped
<1>1. TableStep
  BY StepWritesTables DEF TypeInv
<1>2. CASE UNCHANGED jobTables
  BY <1>2 DEF jobTables
<1>3. ASSUME NEW w \in Workers, NEW k \in Claimable(w), WriteClaim(w, k), k # j
      PROVE  Kept
  BY <1>0, <1>3 DEF WriteClaim, JobTablesTyped
<1>4. ASSUME NEW w \in Workers, MarkCompleted(w) \/ MarkCompletedFails(w), held[w] \in Jobs,
             WriteCompleted(held[w])
      PROVE  Kept \/ (WriteCompleted(j) /\ MarkCompleted(w) /\ Executes(w, j))
  <2>1. CASE held[w] # j
    <3>1. CloseExec(held[w], "SUCCEEDED")[j] = execs[j]
      BY <1>0, <1>4, <2>1, CloseExecEffect
    <3>2. Kept
      BY <1>0, <1>4, <2>1, <3>1 DEF WriteCompleted, JobTablesTyped
    <3>3. QED
      BY <3>2
  <2>2. CASE held[w] = j /\ MarkCompleted(w)
    BY <1>4, <2>2 DEF MarkCompleted, Executes
  <2>3. CASE MarkCompletedFails(w)
    <3>1. UNCHANGED jobTables
      BY <2>3 DEF MarkCompletedFails, Disturb
    <3>2. Kept
      BY <3>1 DEF jobTables
    <3>3. QED
      BY <3>2
  <2>4. QED
    BY <1>4, <2>1, <2>2, <2>3
<1>5. ASSUME NEW w \in Workers, HandleFailure(w) \/ HandleFailureFails(w), held[w] \in Jobs,
             WriteFailure(w)
      PROVE  Kept \/ (WriteFailure(w) /\ HandleFailure(w) /\ Executes(w, j))
  <2>1. CASE held[w] # j
    <3>1. CloseExec(held[w], "FAILED")[j] = execs[j]
      BY <1>0, <1>5, <2>1, CloseExecEffect
    <3>2. Kept
      BY <1>0, <1>5, <2>1, <3>1 DEF WriteFailure, JobTablesTyped
    <3>3. QED
      BY <3>2
  <2>2. CASE held[w] = j /\ HandleFailure(w)
    BY <1>5, <2>2 DEF HandleFailure, Executes
  <2>3. CASE HandleFailureFails(w)
    <3>1. UNCHANGED jobTables
      BY <2>3 DEF HandleFailureFails, Disturb
    <3>2. Kept
      BY <3>1 DEF jobTables
    <3>3. QED
      BY <3>2
  <2>4. QED
    BY <1>5, <2>1, <2>2, <2>3
<1>6. ASSUME NEW w \in Workers, pc[w] = "analyzing", held[w] \in Jobs, WriteDLQ(w)
      PROVE  Kept
  BY <1>0, <1>6 DEF WriteDLQ, JobTablesTyped, RetryInv, ExclusionInv, PromotedAreFailed
<1>7. CASE PromoteScheduledJobs
  BY <1>0, <1>7 DEF PromoteScheduledJobs, Due, JobTablesTyped
<1>8. ASSUME NEW s \in Schedulers, RecoverJobs(s)
      PROVE  Kept
  BY <1>0, <1>8 DEF RecoverJobs, JobTablesTyped
<1>9. ASSUME NEW k \in Jobs, CancelJob(k) \/ ComesDue(k) \/ \E kind \in JobKinds : InsertJob(k, kind)
      PROVE  Kept
  BY <1>0, <1>9 DEF CancelJob, ComesDue, InsertJob, JobTablesTyped
<1>10. \A r \in Requests : ~ RetryWrite(r)
  BY DEF RetryInv, ExclusionInv, NobodyRetries, NoRetry, RetryWrite
<1>11. QED
  BY <1>1, <1>2, <1>3, <1>4, <1>5, <1>6, <1>7, <1>8, <1>9, <1>10 DEF TableStep

\* A RUNNING job has an open attempt.
LEMMA RunningHasAttempt ==
    ASSUME TypeInv, LedgerMatchesJobs, NEW j \in Jobs, status[j] = "RUNNING"
    PROVE  OpenExecs(j) # {}
<1>1. execs[j] \in Seq(Execution) /\ execs[j] # << >>
  BY DEF TypeInv, TypeOK, DbTypeOK, LedgerMatchesJobs
<1>2. Len(execs[j]) \in DOMAIN execs[j]
  BY <1>1
<1>3. execs[j][Len(execs[j])].status = "RUNNING"
  <2>1. execs[j][Len(execs[j])] = [worker |-> workerOf[j], status |-> "RUNNING"]
    BY DEF LedgerMatchesJobs
  <2>2. QED
    BY <2>1
<1>4. QED
  BY <1>2, <1>3 DEF OpenExecs

\* RetryInv is inductive.
LEMMA RetryStep ==
    ASSUME TypeInv, RetryInv, NoHandover, "lostAck" \notin Disturbances, [Next]_vars
    PROVE  RetryInv'
<1>0. JobTablesTyped /\ ProcTypeOK /\ execs \in [Jobs -> Seq(Execution)]
  BY DEF TypeInv, TypeOK, DbTypeOK, JobTablesTyped
<1>1. ExclusionInv' /\ LedgerMatchesJobs'
  BY ExclusionStep, LedgerStep DEF RetryInv
<1>2. SnapshotsAreCurrent'
  <2> SUFFICES ASSUME NEW w \in Workers, NEW j \in Jobs, Executes(w, j)'
               PROVE  status'[j] = "RUNNING" /\ snapshot'[w] = retries'[j]
    BY DEF SnapshotsAreCurrent
  <2>1. CASE WriteClaim(w, j) /\ snapshot'[w] = retries[j]
    BY <1>0, <2>1 DEF WriteClaim, JobTablesTyped
  <2>2. CASE /\ Executes(w, j) /\ snapshot'[w] = snapshot[w]
             /\ ~ MarkCompleted(w) /\ ~ HandleFailure(w)
    <3>1. status[j] = "RUNNING" /\ workerOf[j] = w /\ snapshot[w] = retries[j]
      BY <2>2 DEF RetryInv, SnapshotsAreCurrent, ExclusionInv, ExecutorsOwn
    <3>2. j \notin HeldByStale
      BY <2>2, <3>1 DEF HeldByStale, Stale, RetryInv, ExclusionInv, OwnedAreFresh, Executes,
            TypeInv, HoldingOK, Busy
    <3>3. \A v \in Workers : j \notin Claimable(v)
      BY <3>1 DEF Claimable
    <3>4. \A v \in Workers : Executes(v, j) => v = w
      BY <3>1 DEF RetryInv, ExclusionInv, ExecutorsOwn
    <3>5. retries'[j] = retries[j] /\ status'[j] = "RUNNING"
      BY <2>2, <3>1, <3>2, <3>3, <3>4, OutcomesAreOwn
    <3>6. QED
      BY <2>2, <3>1, <3>5
  <2>3. QED
    BY <2>1, <2>2, ExecutesSince
<1>3. RetriesCountFailures'
  <2> SUFFICES ASSUME NEW j \in Jobs
               PROVE  retries'[j] = Cardinality(FailedExecs(j)')
    BY DEF RetriesCountFailures
  <2>1. /\ retries[j] = Cardinality(FailedExecs(j))
        /\ IsFiniteSet(FailedExecs(j)) /\ Cardinality(FailedExecs(j)) \in Nat
    BY <1>0, OpenAttempts DEF RetryInv, RetriesCountFailures
  <2>2. CASE retries'[j] = retries[j] /\ execs'[j] = execs[j]
    <3>1. FailedExecs(j)' = FailedExecs(j)
      BY <2>2 DEF FailedExecs
    <3>2. QED
      BY <2>1, <2>2, <3>1
  <2>3. ASSUME NEW w \in Workers, WriteClaim(w, j)
        PROVE  retries'[j] = Cardinality(FailedExecs(j)')
    <3>1. /\ execs' = [execs EXCEPT ![j] = Append(@, [worker |-> w, status |-> "RUNNING"])]
          /\ retries' = retries
      BY <2>3 DEF WriteClaim
    <3>2. FailedExecs(j)' = FailedExecs(j)
      BY <1>0, <3>1, ClaimingAddsOne
    <3>3. QED
      BY <2>1, <3>1, <3>2
  <2>4. ASSUME NEW w \in Workers, Executes(w, j)
        PROVE  OpenExecs(j) # {} /\ snapshot[w] = retries[j]
    BY <2>4, RunningHasAttempt DEF RetryInv, SnapshotsAreCurrent
  <2>5. ASSUME NEW w \in Workers, Executes(w, j), WriteCompleted(j)
        PROVE  retries'[j] = Cardinality(FailedExecs(j)')
    <3>1. execs' = CloseExec(j, "SUCCEEDED") /\ retries' = retries
      BY <2>5 DEF WriteCompleted
    <3>2. FailedExecs(j)' = FailedExecs(j)
      BY <1>0, <2>4, <2>5, <3>1, ClosingMovesOne
    <3>3. QED
      BY <2>1, <3>1, <3>2
  <2>6. ASSUME NEW w \in Workers, Executes(w, j), WriteFailure(w)
        PROVE  retries'[j] = Cardinality(FailedExecs(j)')
    <3>1. execs' = CloseExec(j, "FAILED") /\ retries'[j] = snapshot[w] + 1
      BY <1>0, <2>6 DEF WriteFailure, NewRetryCount, Executes, JobTablesTyped
    <3>2. PICK i \in OpenExecs(j) : FailedExecs(j)' = FailedExecs(j) \cup {i}
      BY <1>0, <2>4, <2>6, <3>1, ClosingMovesOne
    <3>3. i \notin FailedExecs(j)
      BY DEF OpenExecs, FailedExecs
    <3>4. Cardinality(FailedExecs(j)') = Cardinality(FailedExecs(j)) + 1
      BY <2>1, <3>2, <3>3, FS_AddElement
    <3>5. QED
      BY <2>1, <2>4, <2>6, <3>1, <3>4
  <2>7. QED
    BY <2>2, <2>3, <2>5, <2>6, OutcomesAreOwn
<1>4. QED
  BY <1>1, <1>2, <1>3 DEF RetryInv

\* RetryInv holds in every state.
LEMMA RetryInvAlways ==
    ASSUME NoHandover, "lostAck" \notin Disturbances
    PROVE  Spec => []RetryInv
<1>1. Init => RetryInv
  <2> SUFFICES ASSUME Init
               PROVE  RetryInv
    OBVIOUS
  <2>1. /\ ExclusionInv /\ LedgerMatchesJobs /\ SnapshotsAreCurrent
    BY DEF Init, DbInit, ProcInit, ApiInit, ExclusionInv, ExecutorsOwn, PromotedAreFailed,
           OwnedAreFresh, NobodyRetries, LedgerMatchesJobs, SnapshotsAreCurrent, Executes
  <2>2. RetriesCountFailures
    <3>1. ASSUME NEW j \in Jobs
          PROVE  FailedExecs(j) = {} /\ retries[j] = 0
      BY DEF Init, DbInit, FailedExecs
    <3>2. QED
      BY <3>1, FS_EmptySet DEF RetriesCountFailures
  <2>3. QED
    BY <2>1, <2>2 DEF RetryInv
<1>2. TypeInv /\ [Next]_vars /\ RetryInv => RetryInv'
  BY RetryStep
<1>3. QED
  BY <1>1, <1>2, TypeInvAlways, PTL DEF Spec

\* retry_count is the number of attempts recorded as FAILED, whatever crashes,
\* drains, restarts and failed statements do to executions meanwhile.
THEOREM RetriesCorrect ==
    ASSUME NoHandover, "lostAck" \notin Disturbances
    PROVE  Spec => []RetriesCountFailures
<1>1. RetryInv => RetriesCountFailures
  BY DEF RetryInv
<1>2. QED
  BY <1>1, RetryInvAlways, PTL

-----------------------------------------------------------------------------
(* The refinement of JobContract, for every instance in which no live     *)
(* worker is suspected, no job is retried by hand and no acknowledgement  *)
(* is lost.                                                               *)

\* What the owner of a job sees of the tables.
Phase == [j \in Jobs |-> PhaseOf(status[j])]
Runner == [j \in Jobs |-> IF status[j] = "RUNNING" THEN workerOf[j] ELSE NoWorker]

\* The values of the status column and what the owner sees of each.
LEMMA Phases ==
    ASSUME NEW s \in JobStatus
    PROVE  /\ s = "ABSENT" => PhaseOf(s) = "absent"
           /\ s \in {"SCHEDULED", "QUEUED"} => PhaseOf(s) = "waiting"
           /\ s = "RUNNING" <=> PhaseOf(s) = "running"
           /\ s = "SUCCEEDED" => PhaseOf(s) = "succeeded"
           /\ s = "FAILED" => PhaseOf(s) = "failed"
           /\ s = "CANCELLED" => PhaseOf(s) = "cancelled"
BY DEF JobStatus, PhaseOf

\* A step in which one job's status, worker and retries move is seen as a step
\* of that job.
LEMMA OneJobIsSeen ==
    ASSUME JobTablesTyped, JobTablesTyped', NEW j \in Jobs,
           \A k \in Jobs \ {j} : /\ status'[k] = status[k]
                                 /\ workerOf'[k] = workerOf[k]
                                 /\ retries'[k] = retries[k]
    PROVE  /\ Phase' = [Phase EXCEPT ![j] = PhaseOf(status'[j])]
           /\ Runner' = [Runner EXCEPT ![j] = IF status'[j] = "RUNNING" THEN workerOf'[j]
                                              ELSE NoWorker]
           /\ retries' = [retries EXCEPT ![j] = retries'[j]]
<1>1. Phase' = [Phase EXCEPT ![j] = PhaseOf(status'[j])]
  BY DEF Phase
<1>2. Runner' = [Runner EXCEPT ![j] = IF status'[j] = "RUNNING" THEN workerOf'[j]
                                      ELSE NoWorker]
  BY DEF Runner
<1>3. retries' = [retries EXCEPT ![j] = retries'[j]]
  BY DEF JobTablesTyped
<1>4. QED
  BY <1>1, <1>2, <1>3

\* A step of Nebula is a step of the contract, or changes nothing it speaks of.
LEMMA ContractStep ==
    ASSUME TypeInv, TypeInv', RetryInv, NoHandover, "lostAck" \notin Disturbances, [Next]_vars
    PROVE  Contract!ContractNext \/ UNCHANGED Contract!contractVars
<1> DEFINE Stutter == UNCHANGED Contract!contractVars
           Step == Contract!ContractNext
<1>0. JobTablesTyped /\ JobTablesTyped'
  BY DEF TypeInv, TypeOK, DbTypeOK, JobTablesTyped
<1>s. ASSUME UNCHANGED <<Phase, Runner, retries>>
      PROVE  Stutter
  BY <1>s DEF Contract!contractVars, Phase, Runner
<1>1. TableStep
  BY StepWritesTables DEF TypeInv
<1>2. CASE UNCHANGED jobTables
  BY <1>s, <1>2 DEF jobTables, Phase, Runner
<1>3. ASSUME NEW w \in Workers, NEW j \in Claimable(w), WriteClaim(w, j)
      PROVE  Step
  <2>1. j \in Jobs /\ status[j] = "QUEUED" /\ Cardinality(Running(QueueOf[j])) < Limit[QueueOf[j]]
    BY DEF Claimable, HasCapacity
  <2>2. Contract!RunningIn(QueueOf[j]) = Running(QueueOf[j])
    BY <1>0, Phases DEF Contract!RunningIn, Running, JobTablesTyped
  <2>3. /\ status'[j] = "RUNNING" /\ workerOf'[j] = w /\ retries' = retries
        /\ \A k \in Jobs \ {j} : status'[k] = status[k] /\ workerOf'[k] = workerOf[k]
    BY <1>0, <1>3, <2>1 DEF WriteClaim, JobTablesTyped
  <2>4. Phase[j] = "waiting" /\ Phase' = [Phase EXCEPT ![j] = "running"]
    BY <1>0, <2>1, <2>3, Phases, OneJobIsSeen DEF Phase, JobTablesTyped
  <2>5. Runner' = [Runner EXCEPT ![j] = w]
    BY <1>0, <2>1, <2>3, OneJobIsSeen
  <2>6. Contract!Start(j, w)
    <3>0. Contract!Cardinality(Running(QueueOf[j])) = Cardinality(Running(QueueOf[j]))
      BY DEF Cardinality, Contract!Cardinality
    <3>1. Contract!Cardinality(Contract!RunningIn(QueueOf[j])) < Limit[QueueOf[j]]
      BY <2>1, <2>2, <3>0
    <3>2. Contract!Move(j, "running")
      BY <2>4 DEF Contract!Move, Phase
    <3>3. Phase[j] = "waiting" /\ Runner' = [Runner EXCEPT ![j] = w] /\ retries' = retries
      BY <2>3, <2>4, <2>5
    <3>4. QED
      BY <3>1, <3>2, <3>3 DEF Contract!Start, Phase, Runner
  <2>7. QED
    BY <2>1, <2>6 DEF Contract!ContractNext
\* A row that goes on to one other status, with no worker, is seen as one move.
<1>4. ASSUME NEW j \in Jobs, NEW p, PhaseOf(status'[j]) = p, status'[j] # "RUNNING",
             \A k \in Jobs \ {j} : /\ status'[k] = status[k]
                                   /\ workerOf'[k] = workerOf[k]
                                   /\ retries'[k] = retries[k]
      PROVE  /\ Contract!Move(j, p)
             /\ Runner' = [Runner EXCEPT ![j] = NoWorker]
             /\ retries' = [retries EXCEPT ![j] = retries'[j]]
  BY <1>0, <1>4, OneJobIsSeen DEF Contract!Move, Phase
<1>5. ASSUME NEW w \in Workers, MarkCompleted(w) \/ MarkCompletedFails(w), held[w] \in Jobs,
             WriteCompleted(held[w])
      PROVE  Step \/ Stutter
  <2>0. PICK j \in Jobs : j = held[w]
    BY <1>5
  <2>1. CASE MarkCompleted(w)
    <3>1. status[j] = "RUNNING"
      BY <1>5, <2>0, <2>1 DEF MarkCompleted, Executes, RetryInv, SnapshotsAreCurrent
    <3>2. /\ status'[j] = "SUCCEEDED" /\ retries' = retries
          /\ \A k \in Jobs \ {j} : status'[k] = status[k] /\ workerOf'[k] = workerOf[k]
      BY <1>0, <1>5, <2>0 DEF WriteCompleted, JobTablesTyped
    <3>3. PhaseOf(status[j]) = "running" /\ PhaseOf(status'[j]) = "succeeded"
      BY <3>1, <3>2, Phases DEF JobStatus
    <3>4. Contract!Succeed(j)
      BY <1>4, <1>5, <3>2, <3>3 DEF Contract!Succeed, Runner
    <3>5. QED
      BY <3>4 DEF Contract!ContractNext
  <2>2. CASE MarkCompletedFails(w)
    <3>1. UNCHANGED jobTables
      BY <2>2 DEF MarkCompletedFails, Disturb
    <3>2. QED
      BY <1>s, <3>1 DEF jobTables, Phase, Runner
  <2>3. QED
    BY <1>5, <2>1, <2>2
<1>6. ASSUME NEW w \in Workers, HandleFailure(w) \/ HandleFailureFails(w), held[w] \in Jobs,
             WriteFailure(w)
      PROVE  Step \/ Stutter
  <2>0. PICK j \in Jobs : j = held[w]
    BY <1>6
  <2>1. CASE HandleFailure(w)
    <3>1. status[j] = "RUNNING" /\ snapshot[w] = retries[j]
      BY <1>6, <2>0, <2>1 DEF HandleFailure, Executes, RetryInv, SnapshotsAreCurrent
    <3>2. /\ status'[j] = IF Exhausted(w) THEN "FAILED" ELSE "SCHEDULED"
          /\ retries' = [retries EXCEPT ![j] = retries[j] + 1]
          /\ \A k \in Jobs \ {j} : status'[k] = status[k] /\ workerOf'[k] = workerOf[k]
      BY <1>0, <1>6, <2>0, <3>1 DEF WriteFailure, NewRetryCount, JobTablesTyped
    <3>3. Exhausted(w) <=> ~ (retries[j] < MaxRetries[j])
      BY <1>0, <1>6, <2>0, <3>1, NebulaAssumption DEF Exhausted, NewRetryCount, JobTablesTyped
    <3>4. /\ PhaseOf(status[j]) = "running"
          /\ PhaseOf(status'[j]) = IF retries[j] < MaxRetries[j] THEN "waiting" ELSE "failed"
      BY <3>1, <3>2, <3>3, Phases DEF JobStatus
    <3>5. \A k \in Jobs \ {j} : retries'[k] = retries[k]
      BY <1>0, <3>2 DEF JobTablesTyped
    <3>6. Contract!Fail(j)
      BY <1>4, <1>6, <3>2, <3>4, <3>5 DEF Contract!Fail, Runner
    <3>7. QED
      BY <3>6 DEF Contract!ContractNext
  <2>2. CASE HandleFailureFails(w)
    <3>1. UNCHANGED jobTables
      BY <2>2 DEF HandleFailureFails, Disturb
    <3>2. QED
      BY <1>s, <3>1 DEF jobTables, Phase, Runner
  <2>3. QED
    BY <1>6, <2>1, <2>2
\* The dead letter queue releases a job that has failed already.
<1>7. ASSUME NEW w \in Workers, pc[w] = "analyzing", held[w] \in Jobs, WriteDLQ(w)
      PROVE  Stutter
  <2>1. status[held[w]] = "FAILED"
    BY <1>7 DEF RetryInv, ExclusionInv, PromotedAreFailed
  <2>2. /\ status' = status /\ retries' = retries
        /\ \A k \in Jobs \ {held[w]} : workerOf'[k] = workerOf[k]
    BY <1>0, <1>7, <2>1 DEF WriteDLQ, Eligible, JobTablesTyped
  <2>3. QED
    BY <1>s, <2>1, <2>2 DEF Phase, Runner
<1>8. CASE PromoteScheduledJobs
  <2>1. /\ UNCHANGED <<workerOf, retries>>
        /\ \A j \in Jobs : \/ status'[j] = status[j]
                           \/ status[j] = "SCHEDULED" /\ status'[j] = "QUEUED"
    BY <1>0, <1>8 DEF PromoteScheduledJobs, Due, JobTablesTyped
  <2>2. \A j \in Jobs : /\ PhaseOf(status'[j]) = PhaseOf(status[j])
                        /\ status'[j] = "RUNNING" <=> status[j] = "RUNNING"
    BY <2>1, Phases DEF JobStatus
  <2>3. QED
    BY <1>s, <2>1, <2>2 DEF Phase, Runner
<1>9. ASSUME NEW s \in Schedulers, RecoverJobs(s)
      PROVE  Step
  <2>1. PICK S \in SUBSET Jobs : S = HeldByStale
    BY DEF HeldByStale
  <2>2. /\ \A j \in S : status[j] = "RUNNING" /\ status'[j] = "QUEUED"
        /\ \A j \in S : workerOf'[j] = NoWorker
        /\ \A j \in Jobs \ S : status'[j] = status[j] /\ workerOf'[j] = workerOf[j]
        /\ retries' = retries
    BY <1>9, <2>1 DEF RecoverJobs, HeldByStale
  <2>3. \A j \in S : PhaseOf(status[j]) = "running" /\ PhaseOf(status'[j]) = "waiting"
    BY <2>2, Phases DEF JobStatus
  <2>4. Phase' = [j \in Jobs |-> IF j \in S THEN "waiting" ELSE Phase[j]]
    BY <2>2, <2>3 DEF Phase
  <2>5. Runner' = [j \in Jobs |-> IF j \in S THEN NoWorker ELSE Runner[j]]
    BY <2>2 DEF Runner
  <2>6. Contract!Lose(S)
    BY <2>2, <2>3, <2>4, <2>5 DEF Contract!Lose, Phase, Runner
  <2>7. QED
    BY <2>6 DEF Contract!ContractNext
<1>10. ASSUME NEW j \in Jobs, NEW kind \in JobKinds, InsertJob(j, kind)
       PROVE  Step
  <2>1. /\ status[j] = "ABSENT" /\ status'[j] \in {"QUEUED", "SCHEDULED"}
        /\ UNCHANGED <<workerOf, retries>>
        /\ \A k \in Jobs \ {j} : status'[k] = status[k]
    BY <1>0, <1>10, KindAssumption DEF InsertJob, InitialRow, JobTablesTyped
  <2>2. PhaseOf(status[j]) = "absent" /\ PhaseOf(status'[j]) = "waiting"
    BY <2>1, Phases DEF JobStatus
  <2>3. Contract!Submit(j)
    BY <1>4, <2>1, <2>2 DEF Contract!Submit, Runner
  <2>4. QED
    BY <2>3 DEF Contract!ContractNext
<1>11. ASSUME NEW j \in Jobs, CancelJob(j)
       PROVE  Step
  <2>1. /\ status[j] \in {"QUEUED", "SCHEDULED"} /\ status'[j] = "CANCELLED"
        /\ UNCHANGED <<workerOf, retries>>
        /\ \A k \in Jobs \ {j} : status'[k] = status[k]
    BY <1>0, <1>11 DEF CancelJob, JobTablesTyped
  <2>2. PhaseOf(status[j]) = "waiting" /\ PhaseOf(status'[j]) = "cancelled"
    BY <2>1, Phases DEF JobStatus
  <2>3. Contract!Cancel(j)
    BY <1>4, <2>1, <2>2 DEF Contract!Cancel, Runner
  <2>4. QED
    BY <2>3 DEF Contract!ContractNext
<1>12. ASSUME NEW j \in Jobs, ComesDue(j)
       PROVE  Stutter
  BY <1>s, <1>12 DEF ComesDue, Phase, Runner
<1>13. \A r \in Requests : ~ RetryWrite(r)
  BY DEF RetryInv, ExclusionInv, NobodyRetries, NoRetry, RetryWrite
<1>14. QED
  BY <1>1, <1>2, <1>3, <1>5, <1>6, <1>7, <1>8, <1>9, <1>10, <1>11, <1>12, <1>13 DEF TableStep

\* What the owner of a job was promised is what the tables do: a job waits, is
\* run by one worker at a time, is started again when its run is lost or fails
\* with retries left, and once it has ended stays ended.
THEOREM ContractCorrect ==
    ASSUME NoHandover, "lostAck" \notin Disturbances
    PROVE  Spec => ImplementsContract
<1>1. Init => Contract!ContractInit
  BY DEF Init, DbInit, Contract!ContractInit, PhaseOf
<1>2. TypeInv /\ TypeInv' /\ RetryInv /\ [Next]_vars => [Contract!ContractNext]_(Contract!contractVars)
  BY ContractStep
<1>3. QED
  BY <1>1, <1>2, TypeInvAlways, RetryInvAlways, PTL DEF Spec, ImplementsContract, Contract!ContractSpec

-----------------------------------------------------------------------------
(* What follows from the contract *)

PhaseTyped == Phase \in [Jobs -> {"absent", "waiting", "running", "succeeded", "failed", "cancelled"}]

LEMMA PhasesAreTyped ==
    ASSUME JobTablesTyped
    PROVE  PhaseTyped
<1> DEFINE p(j) == PhaseOf(status[j])
<1>1. \A j \in Jobs : status[j] \in JobStatus
  BY DEF JobTablesTyped
<1>2. \A j \in Jobs : p(j) \in {"absent", "waiting", "running", "succeeded", "failed", "cancelled"}
  BY <1>1 DEF JobStatus, PhaseOf
<1> HIDE DEF p
<1>3. [j \in Jobs |-> p(j)] \in
         [Jobs -> {"absent", "waiting", "running", "succeeded", "failed", "cancelled"}]
  BY <1>2
<1>4. QED
  BY <1>3 DEF PhaseTyped, Phase, p

\* A step of the contract moves a job that waits, one that runs, or none.
LEMMA EndedIsLeftAlone ==
    ASSUME JobTablesTyped, PhaseTyped, Contract!ContractNext, NEW k \in Jobs,
           Phase[k] \in {"succeeded", "failed", "cancelled"}
    PROVE  Phase'[k] = Phase[k] /\ retries'[k] = retries[k]
<1>1. ASSUME NEW j \in Jobs, NEW p, Contract!Move(j, p), j # k
      PROVE  Phase'[k] = Phase[k]
  BY <1>1 DEF Contract!Move, Phase, PhaseTyped
<1>2. ASSUME NEW j \in Jobs,
             Contract!Submit(j) \/ Contract!Cancel(j) \/ Contract!Succeed(j) \/ Contract!Fail(j)
             \/ \E w \in Workers : Contract!Start(j, w)
      PROVE  Phase'[k] = Phase[k] /\ retries'[k] = retries[k]
  <2>1. Phase[j] \in {"absent", "waiting", "running"}
    BY <1>2 DEF Contract!Submit, Contract!Cancel, Contract!Succeed, Contract!Fail, Contract!Start, Phase
  <2>2. j # k
    BY <2>1
  <2>3. \E p : Contract!Move(j, p)
    <3>1. CASE Contract!Fail(j)
      BY <3>1 DEF Contract!Fail
    <3>2. CASE ~ Contract!Fail(j)
      <4>1. \E p \in {"waiting", "cancelled", "succeeded", "running"} : Contract!Move(j, p)
        BY <1>2, <3>2 DEF Contract!Submit, Contract!Cancel, Contract!Succeed, Contract!Start
      <4>2. QED
        BY <4>1
    <3>3. QED
      BY <3>1, <3>2
  <2>4. retries' = retries \/ retries' = [retries EXCEPT ![j] = @ + 1]
    BY <1>2 DEF Contract!Submit, Contract!Cancel, Contract!Succeed, Contract!Fail, Contract!Start
  <2>5. QED
    BY <1>1, <2>2, <2>3, <2>4 DEF JobTablesTyped
<1>3. ASSUME NEW S \in SUBSET Jobs, Contract!Lose(S)
      PROVE  Phase'[k] = Phase[k] /\ retries'[k] = retries[k]
  BY <1>3 DEF Contract!Lose, Phase
<1>4. QED
  BY <1>1, <1>2, <1>3 DEF Contract!ContractNext

\* The retry budget, as the contract counts it.
Budget ==
    \A j \in Jobs : /\ retries[j] <= MaxRetries[j] + 1
                    /\ Phase[j] = "failed" <=> retries[j] = MaxRetries[j] + 1

LEMMA ContractKeepsBudget ==
    ASSUME PhaseTyped, JobTablesTyped, Budget, Contract!ContractNext
    PROVE  Budget'
<1> SUFFICES ASSUME NEW k \in Jobs
             PROVE  /\ retries'[k] <= MaxRetries[k] + 1
                    /\ Phase'[k] = "failed" <=> retries'[k] = MaxRetries[k] + 1
  BY DEF Budget
<1>0. /\ retries[k] \in Nat /\ MaxRetries[k] \in Nat
      /\ retries[k] <= MaxRetries[k] + 1
      /\ Phase[k] = "failed" <=> retries[k] = MaxRetries[k] + 1
  BY NebulaAssumption DEF Budget, JobTablesTyped
<1>1. ASSUME NEW j \in Jobs, NEW p, Contract!Move(j, p)
      PROVE  Phase'[k] = IF j = k THEN p ELSE Phase[k]
  BY <1>1 DEF Contract!Move, Phase, PhaseTyped
<1>2. ASSUME NEW j \in Jobs, NEW p, Contract!Move(j, p), p # "failed", Phase[j] # "failed",
             retries' = retries
      PROVE  retries'[k] = retries[k] /\ (Phase'[k] = "failed" <=> Phase[k] = "failed")
  BY <1>1, <1>2
<1>3. ASSUME NEW j \in Jobs,
             Contract!Submit(j) \/ Contract!Cancel(j) \/ Contract!Succeed(j)
             \/ \E w \in Workers : Contract!Start(j, w)
      PROVE  retries'[k] = retries[k] /\ (Phase'[k] = "failed" <=> Phase[k] = "failed")
  <2>1. /\ Phase[j] # "failed" /\ retries' = retries
        /\ \E p \in {"waiting", "cancelled", "succeeded", "running"} : Contract!Move(j, p)
    BY <1>3 DEF Contract!Submit, Contract!Cancel, Contract!Succeed, Contract!Start, Phase
  <2>2. QED
    BY <1>2, <2>1
<1>4. ASSUME NEW S \in SUBSET Jobs, Contract!Lose(S)
      PROVE  retries'[k] = retries[k] /\ (Phase'[k] = "failed" <=> Phase[k] = "failed")
  BY <1>4 DEF Contract!Lose, Phase
<1>5. ASSUME NEW j \in Jobs, Contract!Fail(j), j # k
      PROVE  retries'[k] = retries[k] /\ Phase'[k] = Phase[k]
  BY <1>1, <1>5 DEF Contract!Fail, Phase
<1>6. CASE Contract!Fail(k)
  <2>1. /\ Phase[k] = "running"
        /\ retries'[k] = retries[k] + 1
        /\ Contract!Move(k, IF retries[k] < MaxRetries[k] THEN "waiting" ELSE "failed")
    BY <1>6 DEF Contract!Fail, Phase, JobTablesTyped
  <2>2. Phase'[k] = IF retries[k] < MaxRetries[k] THEN "waiting" ELSE "failed"
    BY <1>1, <2>1
  <2>3. QED
    BY <1>0, <2>1, <2>2
<1>7. CASE retries'[k] = retries[k] /\ (Phase'[k] = "failed" <=> Phase[k] = "failed")
  BY <1>0, <1>7
<1>8. QED
  BY <1>3, <1>4, <1>5, <1>6, <1>7 DEF Contract!ContractNext

\* Where the contract holds, a job is FAILED when its retry budget is spent and
\* not before, and it fails no more often (JobExecutor.js:156-208).
THEOREM BudgetCorrect ==
    ASSUME NoHandover, "lostAck" \notin Disturbances
    PROVE  Spec => []RetryBudgetIsExact
<1>1. Init => Budget
  BY NebulaAssumption, Phases DEF Init, DbInit, Budget, Phase, PhaseOf
<1>2. TypeInv /\ TypeInv' /\ RetryInv /\ [Next]_vars /\ Budget => Budget'
  <2> SUFFICES ASSUME TypeInv, TypeInv', RetryInv, [Next]_vars, Budget
               PROVE  Budget'
    OBVIOUS
  <2>1. JobTablesTyped
    BY DEF TypeInv, TypeOK, DbTypeOK, JobTablesTyped
  <2>2. CASE Contract!ContractNext
    BY <2>1, <2>2, PhasesAreTyped, ContractKeepsBudget
  <2>3. CASE UNCHANGED Contract!contractVars
    <3>1. UNCHANGED <<Phase, retries>>
      BY <2>3 DEF Contract!contractVars, Phase
    <3>2. QED
      BY <3>1 DEF Budget
  <2>4. QED
    BY <2>2, <2>3, ContractStep
<1>3. TypeInv /\ RetryInv /\ Budget => RetryBudgetIsExact
  <2> SUFFICES ASSUME TypeInv, RetryInv, Budget, NEW j \in Jobs
               PROVE  /\ Cardinality(FailedExecs(j)) <= MaxRetries[j] + 1
                      /\ status[j] = "FAILED" <=> Cardinality(FailedExecs(j)) = MaxRetries[j] + 1
    BY DEF RetryBudgetIsExact, RetryInv
  <2>1. Cardinality(FailedExecs(j)) = retries[j]
    BY DEF RetryInv, RetriesCountFailures
  <2>2. status[j] \in JobStatus
    BY DEF TypeInv, TypeOK, DbTypeOK
  <2>3. status[j] = "FAILED" <=> Phase[j] = "failed"
    BY <2>2 DEF Phase, PhaseOf, JobStatus
  <2>4. QED
    BY <2>1, <2>3 DEF Budget
<1>4. QED
  BY <1>1, <1>2, <1>3, TypeInvAlways, RetryInvAlways, PTL DEF Spec

\* A job that has ended stays as it ended.
EndedIsFinal ==
    [][\A j \in Jobs : status[j] \in {"SUCCEEDED", "FAILED", "CANCELLED"} => status'[j] = status[j]]_vars

\* Where the contract holds no stale outcome, promotion or recovery writes to a
\* job that has ended; double_retry shows what manual retries do to one.
THEOREM EndIsFinal ==
    ASSUME NoHandover, "lostAck" \notin Disturbances
    PROVE  Spec => EndedIsFinal /\ SucceededIsFinal
<1>1. ASSUME TypeInv, TypeInv', RetryInv, [Next]_vars, NEW j \in Jobs,
             status[j] \in {"SUCCEEDED", "FAILED", "CANCELLED"}
      PROVE  status'[j] = status[j]
  <2>1. JobTablesTyped /\ status[j] \in JobStatus /\ status'[j] \in JobStatus
    BY <1>1 DEF TypeInv, TypeOK, DbTypeOK, JobTablesTyped
  <2>2. Phase[j] \in {"succeeded", "failed", "cancelled"}
    BY <1>1 DEF Phase, PhaseOf
  <2>3. Phase'[j] = Phase[j]
    <3>1. CASE Contract!ContractNext
      BY <2>1, <2>2, <3>1, PhasesAreTyped, EndedIsLeftAlone
    <3>2. CASE UNCHANGED Contract!contractVars
      BY <3>2 DEF Contract!contractVars, Phase
    <3>3. QED
      BY <1>1, <3>1, <3>2, ContractStep
  <2>4. QED
    BY <1>1, <2>1, <2>3 DEF Phase, PhaseOf, JobStatus
<1>2. TypeInv /\ TypeInv' /\ RetryInv /\ [Next]_vars =>
         /\ [\A j \in Jobs : status[j] \in {"SUCCEEDED", "FAILED", "CANCELLED"}
                                => status'[j] = status[j]]_vars
         /\ [\A j \in Jobs : status[j] = "SUCCEEDED" => status'[j] = "SUCCEEDED"]_vars
  BY <1>1
<1>3. QED
  BY <1>2, TypeInvAlways, RetryInvAlways, PTL DEF Spec, EndedIsFinal, SucceededIsFinal

=============================================================================
