---------------------------- MODULE JobContract -----------------------------
(***************************************************************************)
(* What the pipeline promises the owner of a job, with no queue tables, no *)
(* heartbeats and no sweeps: a submitted job waits, one worker at a time   *)
(* runs it, a run that is lost is started again at no cost to the retry    *)
(* budget, a run that fails is started again until the budget is spent,    *)
(* and a job that has ended stays ended.  Nebula implements this contract  *)
(* as long as no live worker is suspected, no acknowledgement is lost and  *)
(* no operator retries a job by hand.                                      *)
(***************************************************************************)
EXTENDS Naturals, FiniteSets

CONSTANTS Jobs, Workers, Queues, QueueOf, Limit, MaxRetries, Nobody

VARIABLES
    phase,     \* what the owner sees
    runner,    \* the worker that runs the job
    failures   \* runs that failed

contractVars == <<phase, runner, failures>>

ContractInit ==
    /\ phase = [j \in Jobs |-> "absent"]
    /\ runner = [j \in Jobs |-> Nobody]
    /\ failures = [j \in Jobs |-> 0]

Move(j, p) == phase' = [phase EXCEPT ![j] = p]

RunningIn(q) == {j \in Jobs : QueueOf[j] = q /\ phase[j] = "running"}

Submit(j) ==
    /\ phase[j] = "absent"
    /\ Move(j, "waiting")
    /\ UNCHANGED <<runner, failures>>

Cancel(j) ==
    /\ phase[j] = "waiting"
    /\ Move(j, "cancelled")
    /\ UNCHANGED <<runner, failures>>

Start(j, w) ==
    /\ phase[j] = "waiting"
    /\ Cardinality(RunningIn(QueueOf[j])) < Limit[QueueOf[j]]
    /\ Move(j, "running")
    /\ runner' = [runner EXCEPT ![j] = w]
    /\ UNCHANGED failures

Succeed(j) ==
    /\ phase[j] = "running"
    /\ Move(j, "succeeded")
    /\ runner' = [runner EXCEPT ![j] = Nobody]
    /\ UNCHANGED failures

\* A failed run: back to waiting while the retry budget lasts, then the end.
Fail(j) ==
    /\ phase[j] = "running"
    /\ failures' = [failures EXCEPT ![j] = @ + 1]
    /\ Move(j, IF failures[j] < MaxRetries[j] THEN "waiting" ELSE "failed")
    /\ runner' = [runner EXCEPT ![j] = Nobody]

\* Runs lost with their workers; one sweep may find several.
Lose(S) ==
    /\ \A j \in S : phase[j] = "running"
    /\ phase' = [j \in Jobs |-> IF j \in S THEN "waiting" ELSE phase[j]]
    /\ runner' = [j \in Jobs |-> IF j \in S THEN Nobody ELSE runner[j]]
    /\ UNCHANGED failures

ContractNext ==
    \/ \E j \in Jobs :
          \/ Submit(j) \/ Cancel(j) \/ Succeed(j) \/ Fail(j)
          \/ \E w \in Workers : Start(j, w)
    \/ \E S \in SUBSET Jobs : Lose(S)

ContractSpec == ContractInit /\ [][ContractNext]_contractVars

=============================================================================
