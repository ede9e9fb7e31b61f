------------------------------ MODULE NebulaApi ------------------------------
(***************************************************************************)
(* The API service: its process (ApiServer) and what it serves             *)
(* (ApiHandlers), and what its clients and operators may rely on.          *)
(***************************************************************************)
EXTENDS ApiHandlers

Init == ServerInit /\ HandlersInit

\* No connection keeps server.close() waiting: a client that has hung up does not.
NoConnections == \A c \in Conns : stage[c] = "away" \/ gone[c]

\* The end of the process breaks every connection and drops every handler.
EndsWithProcess ==
    IF phase' = "down"
    THEN /\ stage' = [c \in Conns |-> "away"]
         /\ req' = [c \in Conns |-> NoRequest]
         /\ gone' = [c \in Conns |-> FALSE]
    ELSE UNCHANGED connVars

ServerStep ==
    /\ \/ Start \/ Connect \/ ConnectFails \/ SignalConnecting
       \/ \E sig \in Signals : SignalListening(sig) \/ SignalAgain(sig)
       \/ NoConnections /\ Drained
       \/ PoolClosed \/ HardKill \/ Crash
    /\ EndsWithProcess
    /\ UNCHANGED tables

Next == ServerStep \/ \E c \in Conns : ConnStep(c)

Spec == Init /\ [][Next]_apiVars

(***************************************************************************)
(* Statements end, the timer of a shutdown fires, the orchestrator starts  *)
(* the process again and it connects.  A client with a key sends its       *)
(* request again and again; it needs a free connection and a listening     *)
(* server, which come back again and again.                                *)
(***************************************************************************)
Resend(k) == \E c \in Conns : \E r \in {s \in Shapes : s.key = k} : Arrive(c, r)

FairSpec ==
    /\ Spec
    /\ WF_apiVars(Start /\ ServerStep)
    /\ WF_apiVars(Connect /\ ServerStep)
    /\ WF_apiVars(HardKill /\ ServerStep)
    /\ \A c \in Conns : WF_apiVars(HandlerStep(c))
    /\ \A k \in Keys : SF_apiVars(Resend(k))

-----------------------------------------------------------------------------
(* Properties *)

\* Every variable has its type; in particular two requests that both found a slug
\* or an email unused make one row (AuthService.js:54-65).
TypeOK == ServerTypeOK /\ HandlersTypeOK

\* "returns the existing job rather than inserting a duplicate"
\* (JobApiService.js:117-120): whatever is sent twice, raced, cut off by a crash or
\* answered with an error, a key has one job, and every answer names that one.
OneJobPerKey ==
    \A k \in Keys : Cardinality(Holders(k)) <= 1 /\ told[k] \subseteq Holders(k)

\* The pool closes last: while it is closing, nobody is left who waits for an
\* answer (server.js:112-122).
PoolClosesLast ==
    pool # "open" => \A c \in Conns : Serving(c) => gone[c]

\* What a request may not do is not done by the time it is refused: every row and
\* every pause was written for a valid token of the organisation that owns the
\* row, and for a role that may.
Vouched(r, row) ==
    /\ r.token = "valid"
    /\ r.org = Owner[row]
    /\ r.route = "enqueue" \/ r.role # "VIEWER"

WritesAreVouched ==
    /\ \A i \in DOMAIN jobs : Vouched(jobs[i].by, jobs[i].by.on)
    /\ \A q \in Rows : pausedBy[q] # NoRequest => Vouched(pausedBy[q], q)

\* A dead letter row that was replayed names a job, and the job is its replay; of
\* several replays it names one (OpsService.js:36-49).
Replays(d) == {i \in DOMAIN jobs : jobs[i].of = d}

ReplaysAreRecorded ==
    \A d \in Dead : IF Replays(d) = {} THEN replayJob[d] = NoJob ELSE replayJob[d] \in Replays(d)

\* A process that was told to stop stops, whoever keeps a connection open.
ShutdownEnds == (signals # {}) ~> (phase = "down")

\* A client that sends its request with a key until it is answered gets its job,
\* through restarts, lost acknowledgements and its own earlier attempts, if the
\* queue does not go on being paused.
KeyedEnqueueArrives ==
    <>[](\A q \in Rows : pausedBy[q] = NoRequest) => \A k \in Keys : <>(told[k] # {})

=============================================================================
