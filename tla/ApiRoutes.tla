------------------------------ MODULE ApiRoutes ------------------------------
(***************************************************************************)
(* What happens to a request of the API before its handler runs: the chain *)
(* of middlewares of app.js and of the route files, each of which passes   *)
(* the request on or answers it.  Nothing in a chain waits once the body   *)
(* has been read, so a chain is a function of the request.                 *)
(*                                                                         *)
(* A request is a record: the route it names, the state of its token, the  *)
(* role and the organisation the token carries, the parts of it that are   *)
(* broken ("origin", "json", "body", "params", "query"), and what its      *)
(* handler reads of it.                                                    *)
(***************************************************************************)
EXTENDS Naturals, Sequences, FiniteSetsExt

Passed == 0   \* not a status: the middleware called next()

Roles == {"OWNER", "ADMIN", "DEVELOPER", "VIEWER"}

-----------------------------------------------------------------------------
(* The chain of each route, in the order of registration *)

AuthRoutes == [ register |-> <<"body">>, login |-> <<"body">>, me |-> <<"token">> ]

JobRoutes ==
    [ enqueue    |-> <<"token", "body">>,
      listJobs   |-> <<"token", "query">>,
      cancel     |-> <<"token", "params">>,
      retry      |-> <<"token", "params">>,
      executions |-> <<"token", "params">> ]

\* Mutant: a pause needs no token.
QueueRoutesOpenPause ==
    [ listQueues  |-> <<"token">>,
      createQueue |-> <<"token", "role", "body">>,
      updateQueue |-> <<"token", "role", "params", "body">>,
      pause       |-> <<"params">>,
      resume      |-> <<"token", "role", "params">>,
      queueStats  |-> <<"token", "params">> ]

QueueRoutes ==
    [ listQueues  |-> <<"token">>,
      createQueue |-> <<"token", "role", "body">>,
      updateQueue |-> <<"token", "role", "params", "body">>,
      pause       |-> <<"token", "role", "params">>,
      resume      |-> <<"token", "role", "params">>,
      queueStats  |-> <<"token", "params">> ]

ProjectRoutes ==
    [ listProjects  |-> <<"token">>,
      createProject |-> <<"token", "role", "body">>,
      projectQueues |-> <<"token", "params">> ]

DlqRoutes == [ listDlq |-> <<"token">>, replay |-> <<"token", "role", "params">> ]

WorkerRoutes == [ listWorkers |-> <<"token">> ]

MetricsRoutes == [ health |-> <<"token">>, throughput |-> <<"token">> ]

\* The routers in the order createApp mounts them, its own probes, and what is left.
Chain(route) ==
    CASE route \in {"alive", "ready"}      -> << >>
      [] route \in DOMAIN AuthRoutes       -> AuthRoutes[route]
      [] route \in DOMAIN ProjectRoutes    -> ProjectRoutes[route]
      [] route \in DOMAIN QueueRoutes      -> QueueRoutes[route]
      [] route \in DOMAIN JobRoutes        -> JobRoutes[route]
      [] route \in DOMAIN WorkerRoutes     -> WorkerRoutes[route]
      [] route \in DOMAIN DlqRoutes        -> DlqRoutes[route]
      [] route \in DOMAIN MetricsRoutes    -> MetricsRoutes[route]
      [] OTHER                             -> <<"unknown">>

-----------------------------------------------------------------------------
(* The middlewares *)

\* Signature, expiry and the two required claims; every failure is a 401.
Authenticate(r) == IF r.token = "valid" THEN Passed ELSE 401

RequireRole(r) == IF r.role \in Roles \ {"VIEWER"} THEN Passed ELSE 403

\* createJobSchema across fields: "past" stands for a scheduled_at that is not in
\* the future, "both" for a body with scheduled_at and cron_expression.
CreateJobSchema(r) == r.kind \notin {"past", "both"}

\* One schema, one part of the request; every failure is a 422.
Validate(part, r) ==
    IF part \notin r.broken /\ (part = "body" /\ r.route = "enqueue" => CreateJobSchema(r))
    THEN Passed
    ELSE 422

\* corsOptions, in production: an Origin that is not on the list.
ForeignOrigin(r) == "origin" \in r.broken

\* A foreign Origin is an error without a status, a malformed body one with 400.
BeforeRouting(r) ==
    IF ForeignOrigin(r) THEN 500 ELSE IF "json" \in r.broken THEN 400 ELSE Passed

Verdict(stage, r) ==
    CASE stage = "token"   -> Authenticate(r)
      [] stage = "role"    -> RequireRole(r)
      [] stage = "unknown" -> 404
      [] OTHER             -> Validate(stage, r)

\* The status that ends the chain of r, Passed if its handler runs.
Refusal(r) ==
    IF BeforeRouting(r) # Passed THEN BeforeRouting(r)
    ELSE LET chain == Chain(r.route)
             ends  == {i \in DOMAIN chain : Verdict(chain[i], r) # Passed}
         IN IF ends = {} THEN Passed ELSE Verdict(chain[Min(ends)], r)

=============================================================================
