--------------------------- MODULE WorkerService ----------------------------
(***************************************************************************)
(* services/worker/src/core/Worker.js: the life of a worker process around *)
(* its poll loop.  A process registers under its hostname, writes a        *)
(* heartbeat every 15 s, and on SIGTERM stops the heartbeat, drains, marks *)
(* its row OFFLINE and exits.                                              *)
(*                                                                         *)
(* The registration is an upsert.  On MySQL it returns the instance the    *)
(* process has built, with the UUID drawn for it, and the ON DUPLICATE KEY *)
(* part leaves the id of an existing row alone.  So the first process of a *)
(* host works under the id of the row, and every later one refreshes that  *)
(* row once and then works under an id that no row has: its heartbeats and *)
(* its deregistration match nothing, and its claims violate a foreign key. *)
(***************************************************************************)
EXTENDS DLQHandler

Alive(w) == pc[w] # "down"

\* The process on host w is gone, and with it everything it held.
Gone(w) ==
    /\ pc' = [pc EXCEPT ![w] = "down"]
    /\ held' = [held EXCEPT ![w] = NoJob]
    /\ snapshot' = [snapshot EXCEPT ![w] = 0]
    /\ stopping' = [stopping EXCEPT ![w] = FALSE]
    /\ ownsRow' = [ownsRow EXCEPT ![w] = FALSE]

\* start(): #register, #startHeartbeat, then the poll loop.
Register(w) ==
    /\ ~ Alive(w)
    /\ IF online[w] = "ONLINE" THEN Disturb("quickRestart") ELSE UNCHANGED budget
    /\ online' = [online EXCEPT ![w] = "ONLINE"]
    /\ fresh' = [fresh EXCEPT ![w] = TRUE]
    /\ pc' = [pc EXCEPT ![w] = "polling"]
    /\ ownsRow' = [ownsRow EXCEPT ![w] = (online[w] = "ABSENT")]
    /\ UNCHANGED <<jobTables, paused, held, snapshot, stopping>>

\* The interval timer fires and its UPDATE succeeds; a failed one is tolerated,
\* and so is one whose id no row has.
Heartbeat(w) ==
    /\ ownsRow[w]
    /\ ~ stopping[w]
    /\ online' = [online EXCEPT ![w] = "ONLINE"]
    /\ fresh' = [fresh EXCEPT ![w] = TRUE]
    /\ UNCHANGED <<jobTables, paused, budget, procVars>>

\* DEAD_WORKER_TTL_S pass without a heartbeat in the row of w.
HeartbeatExpires(w) ==
    /\ fresh[w]
    /\ fresh' = [fresh EXCEPT ![w] = FALSE]
    /\ UNCHANGED <<jobTables, paused, online, procVars>>

\* SIGTERM or SIGINT: #shutdown sets the flag and clears the heartbeat timer.
Stop(w) ==
    /\ Disturb("stop")
    /\ Alive(w)
    /\ ~ stopping[w]
    /\ stopping' = [stopping EXCEPT ![w] = TRUE]
    /\ UNCHANGED <<jobTables, paused, workerTable, pc, held, snapshot, ownsRow>>

\* UPDATE workers SET status = 'OFFLINE' WHERE id = #workerId.
WriteOffline(w) ==
    online' = [online EXCEPT ![w] = IF ownsRow[w] THEN "OFFLINE" ELSE @]

\* Mutant: shutdown does not wait for the execution.
DeregisterWithoutDrain(w) ==
    /\ stopping[w]
    /\ WriteOffline(w)
    /\ Gone(w)
    /\ UNCHANGED <<jobTables, paused, fresh, budget>>

\* #executing is false, so the drain ends: the row goes OFFLINE, the process exits.
Deregister(w) ==
    /\ stopping[w]
    /\ pc[w] = "polling"
    /\ WriteOffline(w)
    /\ Gone(w)
    /\ UNCHANGED <<jobTables, paused, fresh, budget>>

\* The drain window ends first: the same, with a claim or a job in flight.
DrainTimeout(w) ==
    /\ Disturb("drainTimeout")
    /\ stopping[w]
    /\ pc[w] # "polling"
    /\ WriteOffline(w)
    /\ Gone(w)
    /\ UNCHANGED <<jobTables, paused, fresh>>

\* The process dies, or the UPDATE of a shutdown fails and it exits all the same.
Crash(w) ==
    /\ Disturb("crash")
    /\ Alive(w)
    /\ Gone(w)
    /\ UNCHANGED <<jobTables, paused, workerTable>>

LifeStep(w) ==
    \/ Register(w) \/ Heartbeat(w)
    \/ Stop(w) \/ Deregister(w) \/ DrainTimeout(w) \/ Crash(w)

=============================================================================
