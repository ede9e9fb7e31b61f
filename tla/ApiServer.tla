------------------------------ MODULE ApiServer ------------------------------
(***************************************************************************)
(* The process of the API (services/api/server.js): connecting with a      *)
(* retry budget, listening, the graceful shutdown that each of the two     *)
(* signals starts, and every way out.  The orchestrator starts the process *)
(* again.  The connections the shutdown waits for belong to ApiHandlers.   *)
(***************************************************************************)
EXTENDS Naturals, FiniteSets

CONSTANTS
    Attempts,    \* DB_RETRY_ATTEMPTS
    ApiFaults,   \* the kinds of fault a behaviour may contain
    MaxFaults    \* how many faults a behaviour may contain

(***************************************************************************)
(* dbDown: a connection attempt fails.  signal: SIGTERM or SIGINT arrives. *)
(* crash: the process dies, also through its handlers for uncaught errors. *)
(* dbError: a statement fails and nothing is written.  lostAck: it is done *)
(* and its caller sees an error.  hangUp: a client leaves before it is     *)
(* answered.                                                               *)
(***************************************************************************)
ASSUME ApiServerAssumption ==
    /\ Attempts \in Nat \ {0}
    /\ ApiFaults \subseteq {"dbDown", "signal", "crash", "dbError", "lostAck", "hangUp"}
    /\ MaxFaults \in Nat

Signals == {"SIGTERM", "SIGINT"}

VARIABLES
    phase,     \* "down", "connecting" or "listening"
    attempt,   \* of connectWithRetry, 0 when it does not run
    isReady,   \* app.locals.isReady
    signals,   \* signals whose gracefulShutdown is under way
    pool,      \* the Sequelize pool: "none", "open" or "closing"
    exit,      \* how a process that is down ended: an exit code, or "killed"
    faults     \* faults still to come

serverVars == <<phase, attempt, isReady, signals, pool, exit, faults>>

ServerTypeOK ==
    /\ phase \in {"down", "connecting", "listening"}
    /\ attempt \in 0 .. Attempts
    /\ isReady \in BOOLEAN
    /\ signals \subseteq Signals
    /\ pool \in {"none", "open", "closing"}
    /\ exit \in {"none", "0", "1", "killed"}
    /\ faults \in 0 .. MaxFaults

ServerInit ==
    /\ phase = "down"
    /\ attempt = 0
    /\ isReady = FALSE
    /\ signals = {}
    /\ pool = "none"
    /\ exit = "none"
    /\ faults = MaxFaults

Fault(kind) ==
    /\ kind \in ApiFaults
    /\ faults > 0
    /\ faults' = faults - 1

\* The process ends, and with it the pool and every connection.
Exits(code) ==
    /\ exit' = code
    /\ phase' = "down"
    /\ attempt' = 0
    /\ isReady' = FALSE
    /\ signals' = {}
    /\ pool' = "none"

\* bootstrap, up to its first await.
Start ==
    /\ phase = "down"
    /\ phase' = "connecting"
    /\ attempt' = 1
    /\ exit' = "none"
    /\ UNCHANGED <<isReady, signals, pool, faults>>

\* connectDB: a connection is authenticated and the pool is there.
ConnectDb == phase = "connecting" /\ pool' = "open"

\* It succeeds, and bootstrap runs on to the listening socket.
Connect ==
    /\ ConnectDb
    /\ phase' = "listening"
    /\ isReady' = TRUE
    /\ attempt' = 0
    /\ UNCHANGED <<signals, exit, faults>>

\* connectDB throws: another attempt after a delay, or none is left.
ConnectFails ==
    /\ Fault("dbDown")
    /\ phase = "connecting"
    /\ IF attempt < Attempts
       THEN attempt' = attempt + 1 /\ UNCHANGED <<phase, isReady, signals, pool, exit>>
       ELSE Exits("1")

\* A signal before the handlers are registered has its default effect.
SignalConnecting ==
    /\ Fault("signal")
    /\ phase = "connecting"
    /\ Exits("killed")

\* The first of its kind starts a gracefulShutdown: no new connections.
SignalListening(sig) ==
    /\ Fault("signal")
    /\ phase = "listening"
    /\ sig \notin signals
    /\ pool = "open"
    /\ signals' = signals \cup {sig}
    /\ UNCHANGED <<phase, attempt, isReady, pool, exit>>

\* It is registered with `once', so a second of its kind kills; and one that comes
\* while the pool closes finds its server.close() rejected at once.
SignalAgain(sig) ==
    /\ Fault("signal")
    /\ phase = "listening"
    /\ \/ sig \in signals /\ Exits("killed")
       \/ sig \notin signals /\ pool = "closing" /\ Exits("1")

\* The last connection is gone: the close() of the first signal resolves and the
\* pool is closed; that of a second is rejected, and its catch exits at once.
Drained ==
    /\ phase = "listening"
    /\ signals # {}
    /\ pool = "open"
    /\ IF Cardinality(signals) = 1
       THEN pool' = "closing" /\ UNCHANGED <<phase, attempt, isReady, signals, exit>>
       ELSE Exits("1")
    /\ UNCHANGED faults

\* sequelize.close() resolves.
PoolClosed ==
    /\ pool = "closing"
    /\ Exits("0")
    /\ UNCHANGED faults

\* Mutant: the timer is started when the last connection is gone.
HardKillAfterDrain ==
    /\ signals # {}
    /\ pool = "closing"
    /\ Exits("1")
    /\ UNCHANGED faults

\* hardKillTimer fires, wherever the shutdown stands, or close() rejects.
HardKill ==
    /\ signals # {}
    /\ Exits("1")
    /\ UNCHANGED faults

Crash ==
    /\ Fault("crash")
    /\ phase # "down"
    /\ Exits("killed")

=============================================================================
