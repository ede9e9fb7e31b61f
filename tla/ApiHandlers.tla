----------------------------- MODULE ApiHandlers -----------------------------
(***************************************************************************)
(* The connections of the API and the handlers that change tables:         *)
(* enqueueJob, replayDlq, pauseQueue, updateQueue, createProject,          *)
(* createQueue and register.  (cancelJob and retryJob meet the workers and *)
(* are in ApiServices.)  A handler is a walk from await to await; stage[c] *)
(* is the statement it waits for.  A client that hangs up does not stop    *)
(* its handler.                                                            *)
(***************************************************************************)
EXTENDS ApiServer, ApiRoutes

CONSTANTS
    Conns,     \* connections open at the same time
    Shapes,    \* the requests clients send
    Rows,      \* queues and projects
    Dead,      \* rows of dead_letter_queue
    Owner,     \* organisation each of these rows belongs to, through its project
    MaxJobs    \* jobs after which no more are asked for without a key

NoJob == 0
NoKey == "no key"
NoRow == "no row"
NoRequest == [route |-> "none"]

VARIABLES
    stage,      \* of each connection: "away", "idle", or the statement in flight
    req,        \* the request being served
    gone,       \* its client has hung up
    jobs,       \* rows of `jobs', in the order of insertion
    told,       \* jobs named in the answers to each idempotency key
    pausedBy,   \* the request that paused each queue, NoRequest: not paused
    made,       \* rows by unique name: projects, queues and users
    replayJob   \* replay_job_id of each dead letter row

connVars == <<stage, req, gone>>
tables == <<jobs, told, pausedBy, made, replayJob>>
apiVars == <<serverVars, connVars, tables>>

Names == {s.on : s \in {x \in Shapes : x.route \in {"register", "createProject", "createQueue"}}}
Keys == {s.key : s \in Shapes} \ {NoKey}
\* What the handlers take for granted of a request.
ASSUME HandlersAssumption ==
    /\ \A s \in Shapes :
          /\ s.route = "replay" => s.on \in Dead /\ s.key = NoKey
          /\ s.route \in {"enqueue", "pause", "resume", "updateQueue"} => s.on \in Rows
    /\ NoRow \notin Dead
    /\ MaxJobs \in Nat

Stages == {"away", "idle", "queue", "key", "insert", "update", "email",
           "project", "create", "dlq", "replay", "read"}

HandlersTypeOK ==
    /\ stage \in [Conns -> Stages]
    /\ req \in [Conns -> Shapes \cup {NoRequest}]
    /\ gone \in [Conns -> BOOLEAN]
    /\ jobs \in Seq([key : Keys \cup {NoKey}, of : Dead \cup {NoRow}, by : Shapes])
    /\ told \in [Keys -> SUBSET (DOMAIN jobs)]
    /\ pausedBy \in [Rows -> Shapes \cup {NoRequest}]
    /\ made \in [Names -> 0 .. 1]
    /\ replayJob \in [Dead -> {NoJob} \cup DOMAIN jobs]

HandlersInit ==
    /\ stage = [c \in Conns |-> "away"]
    /\ req = [c \in Conns |-> NoRequest]
    /\ gone = [c \in Conns |-> FALSE]
    /\ jobs = << >>
    /\ told = [k \in Keys |-> {}]
    /\ pausedBy = [q \in Rows |-> NoRequest]
    /\ made = [n \in Names |-> 0]
    /\ replayJob = [d \in Dead |-> NoJob]

Serving(c) == stage[c] \notin {"away", "idle"}

\* The first statement of each handler.
Entry(r) ==
    CASE r.route \in {"enqueue", "pause", "resume", "updateQueue"} -> "queue"
      [] r.route = "register"      -> "email"
      [] r.route = "createQueue"   -> "project"
      [] r.route = "createProject" -> "create"
      [] r.route = "replay"        -> "dlq"
      [] OTHER                     -> "read"

-----------------------------------------------------------------------------
(* Connections *)

\* Mutant: a closing server takes new connections.
ReachesClosing(c) == phase = "listening" /\ stage[c] \in {"idle", "away"}

\* A connection is free for a request.  A closing server takes no new ones, but
\* serves those that are open.
Reaches(c) ==
    /\ phase = "listening"
    /\ stage[c] = "idle" \/ (stage[c] = "away" /\ signals = {})

\* A request arrives and runs through its chain.
Arrive(c, r) ==
    /\ Reaches(c)
    /\ r.route \in {"enqueue", "replay"} /\ r.key = NoKey => Len(jobs) < MaxJobs
    /\ IF Refusal(r) = Passed
       THEN stage' = [stage EXCEPT ![c] = Entry(r)] /\ req' = [req EXCEPT ![c] = r]
       ELSE stage' = [stage EXCEPT ![c] = "idle"] /\ UNCHANGED req
    /\ UNCHANGED <<gone, serverVars, tables>>

\* An idle connection ends, by either side.
Disconnect(c) ==
    /\ stage[c] = "idle"
    /\ stage' = [stage EXCEPT ![c] = "away"]
    /\ UNCHANGED <<req, gone, serverVars, tables>>

HangUp(c) ==
    /\ Fault("hangUp")
    /\ Serving(c)
    /\ ~ gone[c]
    /\ gone' = [gone EXCEPT ![c] = TRUE]
    /\ UNCHANGED <<stage, req, phase, attempt, isReady, signals, pool, exit, tables>>

Continue(c, next) ==
    /\ stage' = [stage EXCEPT ![c] = next]
    /\ UNCHANGED <<req, gone>>

\* The handler answers, or next(err) reaches the error boundary.
Answer(c) ==
    /\ stage' = [stage EXCEPT ![c] = IF gone[c] THEN "away" ELSE "idle"]
    /\ req' = [req EXCEPT ![c] = NoRequest]
    /\ gone' = [gone EXCEPT ![c] = FALSE]

\* An answer that made job i, if anybody is there to read it.
Tell(c, i) ==
    told' = IF gone[c] \/ req[c].key = NoKey THEN told
            ELSE [told EXCEPT ![req[c].key] = @ \cup {i}]

\* The statement of c runs; nothing runs on a closed pool.
Awaits(c, s) == stage[c] = s /\ pool = "open"

-----------------------------------------------------------------------------
(* enqueueJob *)

Holders(k) == {i \in DOMAIN jobs : jobs[i].key = k}

NewJob(r) == [key |-> r.key, of |-> IF r.route = "replay" THEN r.on ELSE NoRow, by |-> r]

\* The row the request names belongs to a project of its organisation.
Owns(r) == Owner[r.on] = r.org

\* The queue of the request, if its organisation owns it: 404 and 409 otherwise.
\* A pause is no obstacle to the handlers of the queue itself.
FindQueue(c) ==
    /\ Awaits(c, "queue")
    /\ LET r == req[c]
           refused == ~ Owns(r) \/ (r.route = "enqueue" /\ pausedBy[r.on] # NoRequest)
       IN IF refused THEN Answer(c)
          ELSE Continue(c, IF r.route # "enqueue" THEN "update"
                           ELSE IF r.key = NoKey THEN "insert" ELSE "key")
    /\ UNCHANGED <<serverVars, tables>>

\* Mutant: a job that is found is not named in the answer.
FindKeySilently(c) ==
    /\ Awaits(c, "key")
    /\ IF Holders(req[c].key) = {} THEN Continue(c, "insert") ELSE Answer(c)
    /\ UNCHANGED <<serverVars, tables>>

\* The idempotency check.
FindKey(c) ==
    /\ Awaits(c, "key")
    /\ IF Holders(req[c].key) = {}
       THEN Continue(c, "insert") /\ UNCHANGED told
       ELSE Answer(c) /\ Tell(c, Min(Holders(req[c].key)))
    /\ UNCHANGED <<serverVars, jobs, pausedBy, made, replayJob>>

\* Mutant: no unique index.
InsertableWithoutIndex(r) == TRUE

\* uq_jobs_idempotency_key: the loser of a race is answered 500.
Insertable(r) == r.key = NoKey \/ Holders(r.key) = {}

InsertJob(c) ==
    /\ Awaits(c, "insert")
    /\ IF Insertable(req[c])
       THEN jobs' = Append(jobs, NewJob(req[c])) /\ Tell(c, Len(jobs) + 1)
       ELSE UNCHANGED <<jobs, told>>
    /\ Answer(c)
    /\ UNCHANGED <<serverVars, pausedBy, made, replayJob>>

-----------------------------------------------------------------------------
(* replayDlq *)

\* The row is read outside the transaction; whether it was replayed is not asked.
FindDead(c) ==
    /\ Awaits(c, "dlq")
    /\ IF Owns(req[c]) THEN Continue(c, "replay") ELSE Answer(c)
    /\ UNCHANGED <<serverVars, tables>>

\* Mutant: the id of the replay is one too high.
WriteReplayAhead(r) ==
    /\ jobs' = Append(jobs, NewJob(r))
    /\ replayJob' = [replayJob EXCEPT ![r.on] = Len(jobs) + 2]

\* Mutant: the row is not updated by the transaction.
WriteReplayOnly(r) == jobs' = Append(jobs, NewJob(r)) /\ UNCHANGED replayJob

\* The transaction: the new job and its id in the dead letter row.
WriteReplay(r) ==
    /\ jobs' = Append(jobs, NewJob(r))
    /\ replayJob' = [replayJob EXCEPT ![r.on] = Len(jobs) + 1]

Replay(c) ==
    /\ Awaits(c, "replay")
    /\ WriteReplay(req[c])
    /\ Answer(c)
    /\ UNCHANGED <<serverVars, told, pausedBy, made>>

-----------------------------------------------------------------------------
(* Queues, projects and users *)

\* is_paused as the request writes it; a PATCH of the queue may name it or not.
\* (The limits a PATCH sets are not read here.)
Pauses(r) == r.route = "pause" \/ (r.route = "updateQueue" /\ r.kind = "pausing")
Resumes(r) == r.route = "resume" \/ (r.route = "updateQueue" /\ r.kind = "resuming")

\* The UPDATE of pauseQueue or updateQueue.
UpdateQueue(c) ==
    /\ Awaits(c, "update")
    /\ LET r == req[c] IN
       pausedBy' = CASE Pauses(r)  -> [pausedBy EXCEPT ![r.on] = r]
                     [] Resumes(r) -> [pausedBy EXCEPT ![r.on] = NoRequest]
                     [] OTHER      -> pausedBy
    /\ Answer(c)
    /\ UNCHANGED <<serverVars, jobs, told, made, replayJob>>

\* register looks for the email: 409.
FindEmail(c) ==
    /\ Awaits(c, "email")
    /\ IF made[req[c].on] > 0 THEN Answer(c) ELSE Continue(c, "create")
    /\ UNCHANGED <<serverVars, tables>>

\* createQueue looks for the project: 404.
FindProject(c) ==
    /\ Awaits(c, "project")
    /\ IF Owns(req[c]) THEN Continue(c, "create") ELSE Answer(c)
    /\ UNCHANGED <<serverVars, tables>>

\* The INSERT of a project or queue with its slug, or the rest of register's
\* transaction: a unique index stands behind each name, its error is a 500.
Nameable(n) == made[n] = 0

Create(c) ==
    /\ Awaits(c, "create")
    /\ made' = IF Nameable(req[c].on) THEN [made EXCEPT ![req[c].on] = @ + 1] ELSE made
    /\ Answer(c)
    /\ UNCHANGED <<serverVars, jobs, told, pausedBy, replayJob>>

\* The handlers that change nothing.
Read(c) ==
    /\ Awaits(c, "read")
    /\ Answer(c)
    /\ UNCHANGED <<serverVars, tables>>

-----------------------------------------------------------------------------
(* Statements that fail: the handler ends with a 500 *)

StatementFails(c) ==
    /\ Fault("dbError")
    /\ Serving(c)
    /\ Answer(c)
    /\ UNCHANGED <<phase, attempt, isReady, signals, pool, exit, tables>>

\* The write is committed, and its acknowledgement lost.
AckLost(c) ==
    /\ Fault("lostAck")
    /\ \/ Awaits(c, "insert") /\ Insertable(req[c])
          /\ jobs' = Append(jobs, NewJob(req[c])) /\ UNCHANGED replayJob
       \/ Awaits(c, "replay") /\ WriteReplay(req[c])
    /\ Answer(c)
    /\ UNCHANGED <<phase, attempt, isReady, signals, pool, exit, told, pausedBy, made>>

HandlerStep(c) ==
    \/ FindQueue(c) \/ FindKey(c) \/ InsertJob(c) \/ FindDead(c) \/ Replay(c)
    \/ UpdateQueue(c) \/ FindEmail(c) \/ FindProject(c) \/ Create(c) \/ Read(c)

ConnStep(c) ==
    \/ \E r \in Shapes : Arrive(c, r)
    \/ Disconnect(c) \/ HangUp(c) \/ HandlerStep(c) \/ StatementFails(c) \/ AckLost(c)

=============================================================================
