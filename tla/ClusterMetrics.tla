---------------------------- MODULE ClusterMetrics ----------------------------
(***************************************************************************)
(* The figures of the Overview page (MetricsService.js): queries that run   *)
(* side by side, each at its own moment and each answering with no rows    *)
(* when it fails, and the throughput series, whose rows come from one      *)
(* clock and whose labels from a later reading of it. The durations of     *)
(* #queryExecutionPerf are left out. Requests share nothing but the tables *)
(* they read, so the model serves one at a time.                           *)
(***************************************************************************)
EXTENDS Integers, FiniteSets

CONSTANTS
    Jobs,         \* jobs
    Workers,      \* rows of workers
    NoOrg,        \* the organisation of a worker without a project
    OrgOf,        \* organisation of each job and worker, through queue and project
    Callers,      \* who asks: records of org, role and scope
    NumPoints,    \* numPoints
    Ttl,          \* DEAD_WORKER_TTL_S, in steps of the series
    MaxDelay,     \* bound of the steps between the series query and its labels
    Cycle,        \* steps after which a label comes again
    HostOffsets,  \* what the clocks of the API's hosts may be ahead of UTC
    Start,        \* first and last reading of the clock, in steps of the series
    MaxNow

Everybody == "ALL"

\* The id of an organisation is a UUID.
ASSUME MetricsAssumption ==
    /\ IsFiniteSet(Jobs) /\ IsFiniteSet(Workers)
    /\ \A c \in Callers : {"org", "role", "scope"} \subseteq DOMAIN c /\ c.org # Everybody
    /\ DOMAIN OrgOf = Jobs \cup Workers
    /\ NumPoints \in Nat \ {0} /\ Cycle \in Nat /\ MaxDelay \in Nat
    /\ NumPoints + MaxDelay < Cycle
    /\ HostOffsets \subseteq 0 .. Cycle - 1
    /\ Ttl \in Nat
    /\ MaxNow \in Nat /\ Start \in 0 .. MaxNow

VARIABLES
    now,        \* the clock, in steps of the series
    status,     \* jobs.status, "ABSENT" before the INSERT
    doneAt,     \* jobs.completed_at
    dead,       \* the dead letter of a job: "none", "unresolved" or "resolved"
    seen,       \* workers.last_heartbeat_at
    caller,     \* whose request is served
    answers,    \* rows of the queries that are back
    reply,      \* the figures of the last answer
    rows,       \* rows of the series query
    series      \* the series of the last answer

table == <<now, status, doneAt, dead, seen>>
metricsVars == <<answers, reply>>
seriesVars == <<rows, series>>
vars == <<table, caller, metricsVars, seriesVars>>

Statuses == {"QUEUED", "RUNNING", "SUCCEEDED", "FAILED"}
Queries == {"jobs", "workers", "dlq", "throughput"}
NoRate == -1
NoReply == [asked |-> FALSE]
NoRows == [read |-> FALSE]

Init ==
    /\ now = Start
    /\ status = [j \in Jobs |-> "ABSENT"]
    /\ doneAt = [j \in Jobs |-> 0]
    /\ dead = [j \in Jobs |-> "none"]
    /\ seen = [w \in Workers |-> Start]
    /\ caller \in Callers
    /\ answers = << >>
    /\ reply = NoReply
    /\ rows = NoRows
    /\ series = << >>

-----------------------------------------------------------------------------
(* The queries *)

\* getHealth: an OWNER may ask for every organisation, the OWNER of any of them.
Scope == IF caller.role = "OWNER" /\ caller.scope = "global" THEN Everybody ELSE caller.org

\* Mutant: the filter is dropped with the role alone.
InScopeOfOwner(x) == caller.role = "OWNER" \/ OrgOf[x] = caller.org

\* The joins to organizations.
InScope(x) == Scope = Everybody \/ OrgOf[x] = Scope

Selected(test(_)) == Cardinality({j \in Jobs : InScope(j) /\ test(j)})

QueryJobStats == [s \in Statuses |-> Selected(LAMBDA j : status[j] = s)]

QueryWorkerStats ==
    LET mine == {w \in Workers : InScope(w)}
        active == {w \in mine : seen[w] >= now - Ttl}
    IN [active |-> Cardinality(active), offline |-> Cardinality(mine \ active)]

QueryDlqStats ==
    [ total      |-> Selected(LAMBDA j : dead[j] # "none"),
      unresolved |-> Selected(LAMBDA j : dead[j] = "unresolved") ]

Finished(j) == status[j] \in {"SUCCEEDED", "FAILED"}

QueryThroughput == Selected(LAMBDA j : Finished(j) /\ doneAt[j] >= now - NumPoints)

Query(q) ==
    CASE q = "jobs"    -> QueryJobStats
      [] q = "workers" -> QueryWorkerStats
      [] q = "dlq"     -> QueryDlqStats
      [] OTHER         -> QueryThroughput

\* Mutant: the two counts are queried one by one, so that the first alone may fail.
DlqAfterFailureHalf == [QueryDlqStats EXCEPT !.total = 0]

DlqAfterFailure == [total |-> 0, unresolved |-> 0]

\* A query that fails has no rows, and every figure taken from them is 0.
AfterFailure(q) ==
    CASE q = "jobs"    -> [s \in Statuses |-> 0]
      [] q = "workers" -> [active |-> 0, offline |-> 0]
      [] q = "dlq"     -> DlqAfterFailure
      [] OTHER         -> 0

\* No other request is served.
Idle == answers = << >> /\ reply = NoReply /\ rows = NoRows /\ series = << >>

Answered(q) ==
    /\ Idle \/ answers # << >>
    /\ q \notin DOMAIN answers
    /\ \E a \in {Query(q), AfterFailure(q)} :
          answers' = [p \in DOMAIN answers \cup {q} |-> IF p = q THEN a ELSE answers[p]]
    /\ UNCHANGED <<table, caller, reply, seriesVars>>

\* Mutant: the share of all jobs.
RateOfAll(n) ==
    LET all == n["QUEUED"] + n["RUNNING"] + n["SUCCEEDED"] + n["FAILED"]
    IN IF n["SUCCEEDED"] + n["FAILED"] = 0 THEN NoRate
       ELSE (n["SUCCEEDED"] * 20000 + all) \div (2 * all)

\* toFixed(2): hundredths of a percent, the nearest number of them.
SuccessRate(n) ==
    LET terminal == n["SUCCEEDED"] + n["FAILED"]
    IN IF terminal = 0 THEN NoRate
       ELSE (n["SUCCEEDED"] * 20000 + terminal) \div (2 * terminal)

\* The assembly of getClusterMetrics, after Promise.all.
Assemble ==
    /\ DOMAIN answers = Queries
    /\ LET n == answers["jobs"]
           d == answers["dlq"]
       IN reply' = [ asked |-> TRUE, byStatus |-> n, rate |-> SuccessRate(n),
                     workers |-> answers["workers"], unresolved |-> d.unresolved, resolved |-> d.total - d.unresolved,
                     lastHour |-> answers["throughput"] ]
    /\ answers' = << >>
    /\ UNCHANGED <<table, caller, seriesVars>>

-----------------------------------------------------------------------------
(* getThroughputSeries *)

\* DATE_FORMAT, in a session that is pinned to UTC.
Label(t) == t % Cycle

\* formatTime, by getHours and its like: the zone of the host.
FormatTime(t, offset) == Label(t + offset)

\* The rows of the query: by label, the jobs completed within numPoints steps,
\* each with the moment of its completion.
ReadSeries ==
    /\ Idle
    /\ rows' = [ read |-> TRUE, at |-> now,
                 jobs |-> [l \in 0 .. Cycle - 1 |->
                             {<<j, doneAt[j]>> : j \in {k \in Jobs :
                                 /\ InScope(k) /\ Finished(k)
                                 /\ doneAt[k] >= now - NumPoints
                                 /\ Label(doneAt[k]) = l}}] ]
    /\ UNCHANGED <<table, caller, metricsVars, series>>

\* Mutant: the points end one step before the present.
AgeEarly(i) == NumPoints - i + 1

\* The steps between point i and the present.
Age(i) == NumPoints - i

\* One point for each of the last numPoints steps, the oldest first; a row goes to
\* the point of the same label.
FillSeries(offset) ==
    /\ rows # NoRows
    /\ series' = [i \in 1 .. NumPoints |->
                    LET l == FormatTime(now - Age(i), offset)
                    IN [label |-> l, jobs |-> rows.jobs[l]]]
    /\ rows' = NoRows
    /\ UNCHANGED <<table, caller, metricsVars>>

\* The answer leaves, and the next request may have another caller. A series
\* query that failed answers [] and leaves nothing.
Respond ==
    /\ reply # NoReply \/ series # << >>
    /\ reply' = NoReply
    /\ series' = << >>
    /\ caller' \in Callers
    /\ UNCHANGED <<table, answers, rows>>

-----------------------------------------------------------------------------
(* What the pipeline does meanwhile *)

Move(j, from, to) == status[j] = from /\ status' = [status EXCEPT ![j] = to]

Progress(j) ==
    /\ \/ Move(j, "ABSENT", "QUEUED") /\ UNCHANGED doneAt
       \/ Move(j, "QUEUED", "RUNNING") /\ UNCHANGED doneAt
       \/ /\ Move(j, "RUNNING", "SUCCEEDED") \/ Move(j, "RUNNING", "FAILED")
          /\ doneAt' = [doneAt EXCEPT ![j] = now]
       \/ /\ Move(j, "FAILED", "QUEUED")
          /\ doneAt' = [doneAt EXCEPT ![j] = 0]
    /\ UNCHANGED <<now, dead, seen, caller, metricsVars, seriesVars>>

DeadLetter(j) ==
    /\ status[j] = "FAILED"
    /\ \/ dead[j] = "none" /\ dead' = [dead EXCEPT ![j] = "unresolved"]
       \/ dead[j] = "unresolved" /\ dead' = [dead EXCEPT ![j] = "resolved"]
    /\ UNCHANGED <<now, status, doneAt, seen, caller, metricsVars, seriesVars>>

Beat(w) ==
    /\ seen[w] < now
    /\ seen' = [seen EXCEPT ![w] = now]
    /\ UNCHANGED <<now, status, doneAt, dead, caller, metricsVars, seriesVars>>

Tick ==
    /\ now < MaxNow
    /\ rows.read => now < rows.at + MaxDelay
    /\ now' = now + 1
    /\ UNCHANGED <<status, doneAt, dead, seen, caller, metricsVars, seriesVars>>

Next ==
    \/ \E q \in Queries : Answered(q)
    \/ Assemble \/ ReadSeries \/ Respond
    \/ \E offset \in HostOffsets : FillSeries(offset)
    \/ \E j \in Jobs : Progress(j) \/ DeadLetter(j)
    \/ \E w \in Workers : Beat(w)
    \/ Tick

Spec == Init /\ [][Next]_vars

-----------------------------------------------------------------------------
(* Properties *)

(* Every variable keeps its type: in particular no figure of an answer is  *)
(* negative, although answers are taken at four moments and any may be     *)
(* missing (MetricsService.js:111-177).                                    *)
Counts(set) == 0 .. Cardinality(set)
Full == 10000
Total(n) == n["QUEUED"] + n["RUNNING"] + n["SUCCEEDED"] + n["FAILED"]

TypeOK ==
    /\ now \in 0 .. MaxNow
    /\ status \in [Jobs -> Statuses \cup {"ABSENT"}]
    /\ doneAt \in [Jobs -> 0 .. MaxNow]
    /\ dead \in [Jobs -> {"none", "unresolved", "resolved"}]
    /\ seen \in [Workers -> 0 .. MaxNow]
    /\ caller \in Callers
    /\ DOMAIN answers \subseteq Queries
    /\ reply = NoReply \/ reply \in
          [ asked : {TRUE}, byStatus : [Statuses -> Counts(Jobs)],
            rate : 0 .. Full \cup {NoRate}, unresolved : Counts(Jobs),
            resolved : Counts(Jobs), lastHour : Counts(Jobs),
            workers : [active : Counts(Workers), offline : Counts(Workers)] ]
    /\ DOMAIN series \in {1 .. NumPoints, {}}

(* The figures of one answer fit together although their queries ran at    *)
(* different moments and some failed: the rate is missing exactly when no  *)
(* finished job is counted beside it, full when none of them failed, and   *)
(* rounded up to full for one failure in 20000 at most; each job has one   *)
(* status, and no more dead letters are shown than there are               *)
(* (MetricsService.js:117-123, 161-165).                                   *)
FiguresBelongTogether ==
    reply.asked =>
      LET n == reply.byStatus
      IN /\ (reply.rate = NoRate) <=> (n["SUCCEEDED"] + n["FAILED"] = 0)
         /\ n["SUCCEEDED"] > 0 /\ n["FAILED"] = 0 => reply.rate = Full
         /\ reply.rate = Full => 20000 * n["FAILED"] <= n["SUCCEEDED"] + n["FAILED"]
         /\ Total(n) <= Cardinality({j \in Jobs : status[j] # "ABSENT"})
         /\ reply.unresolved + reply.resolved
              <= Cardinality({j \in Jobs : dead[j] # "none"})

(* No figure and no point counts a job or a worker of another              *)
(* organisation, for anybody but an OWNER who asks for all of them: he is   *)
(* shown everything, with the workers that have no project.  The comment   *)
(* (MetricsController.js:11-14) means a platform-level owner; the code     *)
(* (37-41) takes the OWNER of any organisation for one.                     *)
FiguresAreScoped ==
    LET mine(set) == IF caller.role = "OWNER" /\ caller.scope = "global" THEN set
                     ELSE {x \in set : OrgOf[x] = caller.org}
    IN /\ reply.asked =>
            /\ Total(reply.byStatus) <= Cardinality(mine(Jobs))
            /\ reply.workers.active + reply.workers.offline \in {0, Cardinality(mine(Workers))}
            /\ reply.unresolved + reply.resolved <= Cardinality(mine(Jobs))
            /\ reply.lastHour <= Cardinality(mine(Jobs))
       /\ \A i \in DOMAIN series : {p[1] : p \in series[i].jobs} \subseteq mine(Jobs)

(* A job that the series query found is never in two points of the chart,   *)
(* whatever the zone of the host: a label says nothing of the hour or the   *)
(* year, but does not come again while the chart lasts and is late.  When   *)
(* the host's clock is at UTC it is in one point if it finished in one of   *)
(* the steps the chart covers, and in none if not; an offset makes it       *)
(* appear at a wrong time or not at all (MetricsService.js:204-267).        *)
SeriesShowsEachJobOnce ==
    [][ \A offset \in HostOffsets : FillSeries(offset) =>
          \A p \in UNION {rows.jobs[l] : l \in DOMAIN rows.jobs} :
             LET points == Cardinality({i \in DOMAIN series' : p \in series'[i].jobs})
             IN /\ points <= 1
                /\ offset = 0 => points = IF p[2] > now - NumPoints THEN 1 ELSE 0 ]_vars

=============================================================================
