---------------------------- MODULE SchedulerLock ----------------------------
(***************************************************************************)
(* The leader lock of the scheduler replicas: runSweep with its Redis lock *)
(* (services/scheduler/src/promoter/PromotionService.js) and the loop and  *)
(* shutdown around it (services/scheduler/src/index.js).  Only who is      *)
(* inside a sweep matters here; what a sweep does is PromotionService.     *)
(*                                                                         *)
(* pc[s] is where the loop of replica s stands:                            *)
(*   down        no process                                                *)
(*   sleeping    between two sweeps                                        *)
(*   acquiring   SET NX PX is in flight                                    *)
(*   sweeping    Promise.all of the two sweeps is in flight                *)
(*   releasing   the release script is in flight                           *)
(*   done        the loop has seen `running' unset                         *)
(***************************************************************************)
EXTENDS Naturals, FiniteSets

CONSTANTS
    Schedulers,   \* replicas; the name is the INSTANCE_ID, the lock's token
    Faults,       \* the kinds of fault a behaviour may contain
    MaxFaults     \* how many faults a behaviour may contain

NoOwner == "no owner"

(***************************************************************************)
(* crash: a replica dies.  stop: it receives SIGTERM.  slowSweep: a sweep  *)
(* outlasts LOCK_TTL_MS.  redisError: a command fails and nothing is done. *)
(* lostReply: a command is done and its caller sees an error.              *)
(***************************************************************************)
ASSUME LockAssumption ==
    /\ NoOwner \notin Schedulers
    /\ Faults \subseteq {"crash", "stop", "slowSweep", "redisError", "lostReply"}
    /\ MaxFaults \in Nat

VARIABLES
    lock,      \* value of LOCK_KEY
    timed,     \* the key has a TTL
    pc,        \* where the loop stands
    running,   \* the flag the signal handler clears
    overdue,   \* replicas whose key has expired during their present sweep
    faults     \* faults still to come

vars == <<lock, timed, pc, running, overdue, faults>>

TypeOK ==
    /\ lock \in Schedulers \cup {NoOwner}
    /\ timed \in BOOLEAN
    /\ pc \in [Schedulers ->
                 {"down", "sleeping", "acquiring", "sweeping", "releasing", "done"}]
    /\ running \in [Schedulers -> BOOLEAN]
    /\ overdue \subseteq Schedulers
    /\ faults \in 0 .. MaxFaults

Init ==
    /\ lock = NoOwner
    /\ timed = FALSE
    /\ pc = [s \in Schedulers |-> "down"]
    /\ running = [s \in Schedulers |-> FALSE]
    /\ overdue = {}
    /\ faults = MaxFaults

Fault(kind) ==
    /\ kind \in Faults
    /\ faults > 0
    /\ faults' = faults - 1

Goto(s, p) == pc' = [pc EXCEPT ![s] = p]

\* s is between winning the lock and giving it up, as far as it knows.
Leads(s) == pc[s] \in {"sweeping", "releasing"}

-----------------------------------------------------------------------------
(* The two Redis commands *)

\* Mutant: no PX, the key never expires.
SetNXForEver(s) == lock' = s /\ timed' = FALSE

\* Mutant: the value is a constant and not the instance's token.
SetNXWithoutToken(s) == lock' = "1" /\ timed' = TRUE

\* SET LOCK_KEY instanceId NX PX LOCK_TTL_MS, on a free key.
SetNX(s) == lock' = s /\ timed' = TRUE

\* Mutant: plain DEL.
DeleteAny(s) == lock' = NoOwner /\ timed' = FALSE

\* RELEASE_LOCK_LUA: delete the key if its value is our token.
DeleteOwn(s) ==
    IF lock = s
    THEN lock' = NoOwner /\ timed' = FALSE
    ELSE UNCHANGED <<lock, timed>>

-----------------------------------------------------------------------------
(* runSweep *)

\* The loop wakes up, tests the flag and calls runSweep.
Wake(s) ==
    /\ pc[s] = "sleeping"
    /\ IF running[s] THEN Goto(s, "acquiring") ELSE Goto(s, "done")
    /\ UNCHANGED <<lock, timed, running, overdue, faults>>

\* The key was free: this replica leads.
Acquire(s) ==
    /\ pc[s] = "acquiring"
    /\ lock = NoOwner
    /\ SetNX(s)
    /\ Goto(s, "sweeping")
    /\ UNCHANGED <<running, overdue, faults>>

\* The key was taken, by this replica's own earlier value as by another's.
NotAcquired(s) ==
    /\ pc[s] = "acquiring"
    /\ lock # NoOwner
    /\ Goto(s, "sleeping")
    /\ UNCHANGED <<lock, timed, running, overdue, faults>>

\* An error of SET counts as "not acquired", whether or not the key was set.
AcquireFails(s) ==
    /\ pc[s] = "acquiring"
    /\ \/ Fault("redisError") /\ UNCHANGED <<lock, timed>>
       \/ Fault("lostReply") /\ lock = NoOwner /\ SetNX(s)
    /\ Goto(s, "sleeping")
    /\ UNCHANGED <<running, overdue>>

\* Both sweeps settle; each catches its errors, so the finally block is next.
FinishSweep(s) ==
    /\ pc[s] = "sweeping"
    /\ Goto(s, "releasing")
    /\ UNCHANGED <<lock, timed, running, overdue, faults>>

Release(s) ==
    /\ pc[s] = "releasing"
    /\ DeleteOwn(s)
    /\ Goto(s, "sleeping")
    /\ overdue' = overdue \ {s}
    /\ UNCHANGED <<running, faults>>

\* An error of the script is logged, and the key left to its TTL if it is there.
ReleaseFails(s) ==
    /\ pc[s] = "releasing"
    /\ \/ Fault("redisError") /\ UNCHANGED <<lock, timed>>
       \/ Fault("lostReply") /\ DeleteOwn(s)
    /\ Goto(s, "sleeping")
    /\ overdue' = overdue \ {s}
    /\ UNCHANGED running

-----------------------------------------------------------------------------
(* The process, and the clock of Redis *)

\* bootstrap: a new process enters the loop.
Start(s) ==
    /\ pc[s] = "down"
    /\ Goto(s, "sleeping")
    /\ running' = [running EXCEPT ![s] = TRUE]
    /\ UNCHANGED <<lock, timed, overdue, faults>>

\* The signal handler clears the flag and starts its timer.
Stop(s) ==
    /\ Fault("stop")
    /\ running[s]
    /\ running' = [running EXCEPT ![s] = FALSE]
    /\ UNCHANGED <<lock, timed, pc, overdue>>

\* The process is gone; a command it has sent may be done all the same.
Dies(s) ==
    /\ Goto(s, "down")
    /\ running' = [running EXCEPT ![s] = FALSE]
    /\ overdue' = overdue \ {s}
    /\ \/ UNCHANGED <<lock, timed>>
       \/ pc[s] = "acquiring" /\ lock = NoOwner /\ SetNX(s)
       \/ pc[s] = "releasing" /\ DeleteOwn(s)

\* The timer of the handler fires: connections are closed and the process exits,
\* wherever the loop is.
Exit(s) ==
    /\ pc[s] # "down"
    /\ ~ running[s]
    /\ Dies(s)
    /\ UNCHANGED faults

Crash(s) ==
    /\ Fault("crash")
    /\ pc[s] # "down"
    /\ Dies(s)

\* The TTL of a key nobody leads with runs out.
ExpireIdle ==
    /\ lock # NoOwner
    /\ timed
    /\ ~ Leads(lock)
    /\ lock' = NoOwner
    /\ timed' = FALSE
    /\ UNCHANGED <<pc, running, overdue, faults>>

\* The TTL runs out while its owner still sweeps.
ExpireSweeping ==
    /\ Fault("slowSweep")
    /\ lock # NoOwner
    /\ timed
    /\ Leads(lock)
    /\ overdue' = overdue \cup {lock}
    /\ lock' = NoOwner
    /\ timed' = FALSE
    /\ UNCHANGED <<pc, running>>

LoopStep(s) ==
    \/ Wake(s) \/ Acquire(s) \/ NotAcquired(s) \/ AcquireFails(s)
    \/ FinishSweep(s) \/ Release(s) \/ ReleaseFails(s)

Next ==
    \/ \E s \in Schedulers : LoopStep(s) \/ Start(s) \/ Stop(s) \/ Exit(s) \/ Crash(s)
    \/ ExpireIdle
    \/ ExpireSweeping

Spec == Init /\ [][Next]_vars

(***************************************************************************)
(* Commands are answered, sweeps settle, timers fire, keys expire and a    *)
(* process is started again.                                               *)
(***************************************************************************)
FairSpec ==
    /\ Spec
    /\ WF_vars(ExpireIdle)
    /\ \A s \in Schedulers :
          /\ WF_vars(Wake(s) \/ Acquire(s) \/ NotAcquired(s) \/ FinishSweep(s) \/ Release(s))
          /\ WF_vars(Start(s))
          /\ WF_vars(Exit(s))

-----------------------------------------------------------------------------
(* Properties *)

\* A replica that leads still has the lock, unless its own sweep outlasted the
\* TTL: no other replica, late release or lost reply ever takes it away.
LeadersHoldTheLock == \A s \in Schedulers : Leads(s) => lock = s \/ s \in overdue

\* "only ONE instance must run the promotion sweep at any given time"
\* (PromotionService.js:5-6).
OneSweepAtATime ==
    \A s, t \in Schedulers : pc[s] = "sweeping" /\ pc[t] = "sweeping" => s = t

\* A key whose owner crashed, or never learnt that it owns it, is freed again:
\* the replicas are not locked out.
LockIsReturned == (lock # NoOwner) ~> (lock = NoOwner)

=============================================================================
