------------------------- MODULE SchedulerLockProofs -------------------------
(***************************************************************************)
(* The leader lock, for every set of replicas and every number of faults.  *)
(***************************************************************************)
EXTENDS SchedulerLock, TLAPS

\* TypeOK is inductive.
LEMMA TypeStep == TypeOK /\ [Next]_vars => TypeOK'
<1> SUFFICES ASSUME TypeOK, [Next]_vars
             PROVE  TypeOK'
  OBVIOUS
<1> USE LockAssumption DEF TypeOK
<1>0. ASSUME NEW kind, Fault(kind)
      PROVE  faults' \in 0 .. MaxFaults
  BY <1>0 DEF Fault
<1>1. CASE UNCHANGED vars
  BY <1>1 DEF vars
<1>2. ASSUME NEW s \in Schedulers, LoopStep(s)
      PROVE  TypeOK'
  <2>1. CASE Wake(s) \/ NotAcquired(s) \/ FinishSweep(s)
    BY <2>1 DEF Wake, NotAcquired, FinishSweep, Goto
  <2>2. CASE Acquire(s) \/ AcquireFails(s)
    BY <1>0, <2>2 DEF Acquire, AcquireFails, SetNX, Goto
  <2>3. CASE Release(s) \/ ReleaseFails(s)
    BY <1>0, <2>3 DEF Release, ReleaseFails, DeleteOwn, Goto
  <2>4. QED
    BY <1>2, <2>1, <2>2, <2>3 DEF LoopStep
<1>3. ASSUME NEW s \in Schedulers, Start(s) \/ Stop(s) \/ Exit(s) \/ Crash(s)
      PROVE  TypeOK'
  BY <1>0, <1>3 DEF Start, Stop, Exit, Crash, Dies, SetNX, DeleteOwn, Goto
<1>4. CASE ExpireIdle \/ ExpireSweeping
  BY <1>0, <1>4 DEF ExpireIdle, ExpireSweeping
<1>5. QED
  BY <1>1, <1>2, <1>3, <1>4 DEF Next

\* Every variable of the lock keeps its type.
THEOREM LockTypeCorrect == Spec => []TypeOK
<1>1. Init => TypeOK
  <2> SUFFICES ASSUME Init
               PROVE  TypeOK
    OBVIOUS
  <2>1. faults \in 0 .. MaxFaults
    BY LockAssumption DEF Init
  <2>2. QED
    BY <2>1 DEF Init, TypeOK
<1>2. QED
  BY <1>1, TypeStep, PTL DEF Spec

\* A step keeps the lock with those who lead.
LEMMA LeaderStep == TypeOK /\ LeadersHoldTheLock /\ [Next]_vars => LeadersHoldTheLock'
<1> SUFFICES ASSUME TypeOK, LeadersHoldTheLock, [Next]_vars
             PROVE  LeadersHoldTheLock'
  OBVIOUS
<1> USE DEF TypeOK, LeadersHoldTheLock, Leads
<1>1. CASE UNCHANGED vars
  BY <1>1 DEF vars
<1>2. ASSUME NEW s \in Schedulers, LoopStep(s)
      PROVE  LeadersHoldTheLock'
  <2>1. CASE Wake(s) \/ NotAcquired(s) \/ FinishSweep(s)
    BY <2>1 DEF Wake, NotAcquired, FinishSweep, Goto
  <2>2. CASE Acquire(s) \/ AcquireFails(s)
    BY <2>2, LockAssumption DEF Acquire, AcquireFails, SetNX, Goto
  <2>3. CASE Release(s) \/ ReleaseFails(s)
    BY <2>3, LockAssumption DEF Release, ReleaseFails, DeleteOwn, Goto
  <2>4. QED
    BY <1>2, <2>1, <2>2, <2>3 DEF LoopStep
<1>3. ASSUME NEW s \in Schedulers, Start(s) \/ Stop(s) \/ Exit(s) \/ Crash(s)
      PROVE  LeadersHoldTheLock'
  BY <1>3, LockAssumption DEF Start, Stop, Exit, Crash, Dies, SetNX, DeleteOwn, Goto
<1>4. CASE ExpireIdle \/ ExpireSweeping
  BY <1>4 DEF ExpireIdle, ExpireSweeping
<1>5. QED
  BY <1>1, <1>2, <1>3, <1>4 DEF Next

\* Crashes, stops, errors and lost replies never take the lock from a replica
\* that leads; only its own slow sweep does.
THEOREM LeadershipCorrect == Spec => []LeadersHoldTheLock
<1>1. Init => LeadersHoldTheLock
  BY DEF Init, LeadersHoldTheLock, Leads
<1>2. QED
  BY <1>1, LeaderStep, LockTypeCorrect, PTL DEF Spec

NobodyIsOverdue == overdue = {}

\* If no sweep ever outlasts the TTL, only one replica sweeps at any time, as
\* PromotionService.js:5-6 demands.
THEOREM OneSweepCorrect ==
    ASSUME "slowSweep" \notin Faults
    PROVE  Spec => []OneSweepAtATime
<1>1. Init => NobodyIsOverdue
  BY DEF Init, NobodyIsOverdue
<1>2. NobodyIsOverdue /\ [Next]_vars => NobodyIsOverdue'
  BY DEF NobodyIsOverdue, vars, Next, LoopStep, Wake, Acquire, NotAcquired, AcquireFails, FinishSweep, Release,
         ReleaseFails, Start, Stop, Exit, Crash, Dies, ExpireIdle, ExpireSweeping, Fault
<1>3. LeadersHoldTheLock /\ NobodyIsOverdue => OneSweepAtATime
  BY DEF NobodyIsOverdue, LeadersHoldTheLock, Leads, OneSweepAtATime
<1>4. QED
  BY <1>1, <1>2, <1>3, LeadershipCorrect, PTL DEF Spec

=============================================================================
