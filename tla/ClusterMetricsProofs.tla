------------------------- MODULE ClusterMetricsProofs -------------------------
(***************************************************************************)
(* The figures of the Overview page, proved for every number of jobs and   *)
(* workers and every moment the queries may run at: they fit each other,   *)
(* they are those of the caller, and the chart shows no job twice.         *)
(***************************************************************************)
EXTENDS ClusterMetrics, FiniteSetTheorems, TLAPS

-----------------------------------------------------------------------------
(* Numbers *)

LEMMA Bounds ==
    /\ NumPoints \in Nat \ {0} /\ Cycle \in Nat \ {0} /\ MaxDelay \in Nat /\ MaxNow \in Nat /\ Ttl \in Nat
    /\ NumPoints + MaxDelay < Cycle /\ HostOffsets \subseteq 0 .. Cycle - 1 /\ Start \in 0 .. MaxNow
    /\ IsFiniteSet(Jobs) /\ IsFiniteSet(Workers)
    /\ Cardinality(Jobs) \in Nat /\ Cardinality(Workers) \in Nat
  BY MetricsAssumption, FS_CardinalityType

LEMMA PartIsSmaller ==
    ASSUME NEW S, IsFiniteSet(S), NEW A \in SUBSET S
    PROVE  /\ IsFiniteSet(A) /\ Cardinality(A) \in Nat /\ Cardinality(S) \in Nat
           /\ Cardinality(A) <= Cardinality(S)
  BY FS_Subset, FS_CardinalityType

\* Disjoint parts of a finite set.
LEMMA TwoParts ==
    ASSUME NEW S, IsFiniteSet(S), NEW A \in SUBSET S, NEW B \in SUBSET S, A \cap B = {}
    PROVE  Cardinality(A \cup B) = Cardinality(A) + Cardinality(B)
<1>1. Cardinality(A \cap B) = 0
  BY FS_EmptySet
<1>2. IsFiniteSet(A) /\ IsFiniteSet(B) /\ Cardinality(A) \in Nat /\ Cardinality(B) \in Nat
  BY PartIsSmaller
<1>3. Cardinality(A \cup B) = Cardinality(A) + Cardinality(B) - Cardinality(A \cap B)
  BY <1>2, FS_Union
<1>4. QED
  BY <1>1, <1>2, <1>3

LEMMA FourParts ==
    ASSUME NEW S, IsFiniteSet(S),
           NEW A \in SUBSET S, NEW B \in SUBSET S, NEW C \in SUBSET S, NEW D \in SUBSET S,
           A \cap B = {}, (A \cup B) \cap C = {}, (A \cup B \cup C) \cap D = {}
    PROVE  Cardinality(A) + Cardinality(B) + Cardinality(C) + Cardinality(D) <= Cardinality(S)
<1>1. Cardinality(A \cup B) = Cardinality(A) + Cardinality(B)
  BY TwoParts
<1>2. Cardinality((A \cup B) \cup C) = Cardinality(A \cup B) + Cardinality(C)
  <2>1. A \cup B \in SUBSET S
    OBVIOUS
  <2>2. QED
    BY <2>1, TwoParts
<1>3. Cardinality((A \cup B \cup C) \cup D) = Cardinality(A \cup B \cup C) + Cardinality(D)
  <2>1. A \cup B \cup C \in SUBSET S
    OBVIOUS
  <2>2. QED
    BY <2>1, TwoParts
<1>4. Cardinality((A \cup B \cup C) \cup D) <= Cardinality(S)
  <2>1. (A \cup B \cup C) \cup D \in SUBSET S
    OBVIOUS
  <2>2. QED
    BY <2>1, PartIsSmaller
<1>5. Cardinality(A) \in Nat /\ Cardinality(B) \in Nat /\ Cardinality(C) \in Nat /\ Cardinality(D) \in Nat
  BY PartIsSmaller
<1>6. QED
  BY <1>1, <1>2, <1>3, <1>4, <1>5

LEMMA Quotient ==
    ASSUME NEW x \in Nat, NEW m \in Nat \ {0}
    PROVE  LET q == x \div m IN q \in Nat /\ m * q <= x /\ x < m * q + m
  OBVIOUS

\* A share in hundredths of a percent, as toFixed(2) rounds it.
Share(s, f) == (s * 20000 + (s + f)) \div (2 * (s + f))

LEMMA ShareIsShare ==
    ASSUME NEW s \in Nat, NEW f \in Nat, s + f # 0
    PROVE  /\ Share(s, f) \in 0 .. Full
           /\ f = 0 => Share(s, f) = Full
           /\ Share(s, f) = Full => 20000 * f <= s + f
<1> DEFINE t == s + f
           x == s * 20000 + t
           m == 2 * t
           share == x \div m
<1>1. t \in Nat \ {0} /\ m \in Nat \ {0} /\ x \in Nat /\ Share(s, f) = share
  BY DEF Share
<1>2. share \in Nat /\ m * share <= x /\ x < m * share + m
  <2> HIDE DEF x, m
  <2> QED
    BY <1>1, Quotient
<1> HIDE DEF share
<1>3. ASSUME 10001 <= share
      PROVE  FALSE
  <2>1. m * 10001 <= m * share
    <3> HIDE DEF m
    <3> QED
      BY <1>1, <1>2, <1>3
  <2>2. x <= 20001 * t
    OBVIOUS
  <2> HIDE DEF x, t
  <2>3. m * share \in Nat
    <3> HIDE DEF m
    <3> QED
      BY <1>1, <1>2
  <2>4. QED
    BY <1>1, <1>2, <2>1, <2>2, <2>3
<1>4. ASSUME f = 0, share + 1 <= 10000
      PROVE  FALSE
  <2>1. m * (share + 1) <= m * 10000 /\ m * (share + 1) = m * share + m
    <3> HIDE DEF m
    <3> QED
      BY <1>1, <1>2, <1>4
  <2>2. x = 20001 * t
    BY <1>4
  <2> HIDE DEF x, t
  <2>3. m * share \in Nat
    <3> HIDE DEF m
    <3> QED
      BY <1>1, <1>2
  <2>4. QED
    BY <1>1, <1>2, <2>1, <2>2, <2>3
<1>5. ASSUME share = 10000
      PROVE  20000 * f <= s + f
  <2>1. m * 10000 <= x
    BY <1>2, <1>5
  <2>2. QED
    BY <2>1
<1>6. share \in Nat
  BY <1>2
<1>7. QED
  BY <1>1, <1>3, <1>4, <1>5, <1>6 DEF Full

\* Times that are less than a cycle apart have different labels.
LEMMA LabelsDiffer ==
    ASSUME NEW a \in Int, NEW b \in Int, a - b < Cycle, b - a < Cycle
    PROVE  /\ Label(a) \in 0 .. Cycle - 1
           /\ Label(a) = Label(b) <=> a = b
<1> DEFINE qa == a \div Cycle
           qb == b \div Cycle
<1>1. /\ qa \in Int /\ qb \in Int
      /\ Label(a) \in 0 .. Cycle - 1 /\ Label(b) \in 0 .. Cycle - 1
      /\ a = Cycle * qa + Label(a) /\ b = Cycle * qb + Label(b)
  BY Bounds DEF Label
<1> HIDE DEF qa, qb
<1>2. ASSUME Label(a) = Label(b)
      PROVE  a = b
  <2>1. a - b = Cycle * (qa - qb)
    BY <1>1, <1>2, Bounds
  <2>2. CASE qa = qb
    BY <1>1, <1>2, <2>2
  <2>3. CASE qa - qb >= 1
    <3>1. Cycle * (qa - qb) >= Cycle
      BY <1>1, <2>3, Bounds
    <3>2. QED
      BY <2>1, <3>1, Bounds
  <2>4. CASE qb - qa >= 1
    <3>1. Cycle * (qb - qa) >= Cycle
      BY <1>1, <2>4, Bounds
    <3>2. b - a = Cycle * (qb - qa)
      BY <1>1, <1>2, Bounds
    <3>3. QED
      BY <3>1, <3>2, Bounds
  <2>5. QED
    BY <1>1, <2>2, <2>3, <2>4
<1>3. QED
  BY <1>1, <1>2

-----------------------------------------------------------------------------
(* The inductive invariant *)

TableOK ==
    /\ now \in 0 .. MaxNow
    /\ status \in [Jobs -> Statuses \cup {"ABSENT"}]
    /\ doneAt \in [Jobs -> 0 .. MaxNow] /\ \A j \in Jobs : doneAt[j] <= now
    /\ dead \in [Jobs -> {"none", "unresolved", "resolved"}]
    /\ seen \in [Workers -> 0 .. MaxNow]

\* What the request may see.
Mine(set) == {x \in set : InScope(x)}
Present == {j \in Jobs : status[j] # "ABSENT"}
DeadOnes == {j \in Jobs : dead[j] # "none"}

\* What the figures may be, the queries having run at any moment up to now.
JobFigures(n) ==
    /\ n \in [Statuses -> Counts(Jobs)]
    /\ Total(n) <= Cardinality(Present) /\ Total(n) <= Cardinality(Mine(Jobs))

WorkerFigures(n) ==
    /\ n \in [active : Counts(Workers), offline : Counts(Workers)]
    /\ n.active + n.offline \in {0, Cardinality(Mine(Workers))}

DlqFigures(total, unresolved) ==
    /\ total \in Nat /\ unresolved \in Nat /\ unresolved <= total
    /\ total <= Cardinality(DeadOnes) /\ total <= Cardinality(Mine(Jobs))

LastHourFigure(n) == n \in Nat /\ n <= Cardinality(Mine(Jobs))

Figures(q, a) ==
    /\ q = "jobs" => JobFigures(a)
    /\ q = "workers" => WorkerFigures(a)
    /\ q = "dlq" => DlqFigures(a.total, a.unresolved)
    /\ q = "throughput" => LastHourFigure(a)

AnswersOK == DOMAIN answers \subseteq Queries /\ \A q \in DOMAIN answers : Figures(q, answers[q])

Replies ==
    [ asked : {TRUE}, byStatus : [Statuses -> Counts(Jobs)],
      rate : 0 .. Full \cup {NoRate}, unresolved : Counts(Jobs),
      resolved : Counts(Jobs), lastHour : Counts(Jobs),
      workers : [active : Counts(Workers), offline : Counts(Workers)] ]

ReplyFigures(r) ==
    /\ r \in Replies
    /\ JobFigures(r.byStatus) /\ r.rate = SuccessRate(r.byStatus)
    /\ WorkerFigures(r.workers)
    /\ DlqFigures(r.unresolved + r.resolved, r.unresolved)
    /\ LastHourFigure(r.lastHour)

ReplyOK == reply # NoReply => ReplyFigures(reply)

\* What the series query found: by label, what was finished not too long ago.
RowsOK ==
    rows # NoRows =>
        /\ rows.read /\ rows.at \in Nat /\ rows.at <= now /\ now <= rows.at + MaxDelay
        /\ DOMAIN rows.jobs = 0 .. Cycle - 1
        /\ \A l \in 0 .. Cycle - 1 : \A p \in rows.jobs[l] :
              /\ p[1] \in Mine(Jobs)
              /\ p[2] \in Nat /\ rows.at - NumPoints <= p[2] /\ p[2] <= rows.at
              /\ Label(p[2]) = l

SeriesOK ==
    series # << >> =>
        /\ DOMAIN series = 1 .. NumPoints
        /\ \A i \in 1 .. NumPoints : \A p \in series[i].jobs : p[1] \in Mine(Jobs)

\* One request is served at a time, so its caller does not change meanwhile.
OneRequest ==
    /\ answers # << >> => reply = NoReply /\ rows = NoRows /\ series = << >>
    /\ reply # NoReply => answers = << >> /\ rows = NoRows /\ series = << >>
    /\ rows # NoRows => answers = << >> /\ reply = NoReply /\ series = << >>
    /\ series # << >> => answers = << >> /\ reply = NoReply /\ rows = NoRows

MetricsInv == TableOK /\ AnswersOK /\ ReplyOK /\ RowsOK /\ SeriesOK /\ OneRequest

\* An OWNER who asks for everything sees it; others see their organisation.
LEMMA MineIsScoped ==
    ASSUME caller \in Callers, NEW set
    PROVE  Mine(set) = IF caller.role = "OWNER" /\ caller.scope = "global" THEN set
                       ELSE {x \in set : OrgOf[x] = caller.org}
  BY MetricsAssumption DEF Mine, InScope, Scope

LEMMA SameCaller ==
    ASSUME caller' = caller, NEW set
    PROVE  Mine(set)' = Mine(set)
  BY DEF Mine, InScope, Scope

LEMMA Sets ==
    /\ Mine(Jobs) \in SUBSET Jobs /\ Present \in SUBSET Jobs /\ DeadOnes \in SUBSET Jobs
    /\ Mine(Workers) \in SUBSET Workers
    /\ IsFiniteSet(Mine(Jobs)) /\ IsFiniteSet(Mine(Workers)) /\ IsFiniteSet(Present) /\ IsFiniteSet(DeadOnes)
    /\ Cardinality(Mine(Jobs)) \in Counts(Jobs) /\ Cardinality(Mine(Workers)) \in Counts(Workers)
    /\ Cardinality(Present) \in Counts(Jobs) /\ Cardinality(DeadOnes) \in Counts(Jobs)
<1>1. /\ Mine(Jobs) \in SUBSET Jobs /\ Present \in SUBSET Jobs /\ DeadOnes \in SUBSET Jobs
      /\ Mine(Workers) \in SUBSET Workers
  BY DEF Mine, Present, DeadOnes
<1>2. QED
  BY <1>1, Bounds, PartIsSmaller DEF Counts

\* Jobs and dead letters are never deleted: what was not too much is not too much now.
LEMMA FiguresStay ==
    ASSUME caller' = caller, Present \subseteq Present', DeadOnes \subseteq DeadOnes'
    PROVE  /\ \A n : JobFigures(n) => JobFigures(n)'
           /\ \A n : WorkerFigures(n) => WorkerFigures(n)'
           /\ \A t, u : DlqFigures(t, u) => DlqFigures(t, u)'
           /\ \A n : LastHourFigure(n) => LastHourFigure(n)'
           /\ \A q, x : Figures(q, x) => Figures(q, x)'
           /\ \A r : ReplyFigures(r) => ReplyFigures(r)'
<1>1. Cardinality(Present) <= Cardinality(Present') /\ Cardinality(DeadOnes) <= Cardinality(DeadOnes')
  <2>1. Present' \in SUBSET Jobs /\ DeadOnes' \in SUBSET Jobs
    BY DEF Present, DeadOnes
  <2>2. IsFiniteSet(Present') /\ IsFiniteSet(DeadOnes')
    BY <2>1, Bounds, PartIsSmaller
  <2>3. QED
    BY <2>2, PartIsSmaller
<1>2. /\ Cardinality(Present) \in Nat /\ Cardinality(Present') \in Nat
      /\ Cardinality(DeadOnes) \in Nat /\ Cardinality(DeadOnes') \in Nat
  <2>1. Present' \in SUBSET Jobs /\ DeadOnes' \in SUBSET Jobs
    BY DEF Present, DeadOnes
  <2>2. QED
    BY <2>1, Sets, Bounds, PartIsSmaller
<1>3. Mine(Jobs)' = Mine(Jobs) /\ Mine(Workers)' = Mine(Workers)
  BY SameCaller
<1>4. ASSUME NEW n, JobFigures(n)
      PROVE  JobFigures(n)'
  <2>1. n \in [Statuses -> Counts(Jobs)] /\ Total(n) <= Cardinality(Present) /\ Total(n) <= Cardinality(Mine(Jobs))
    BY <1>4 DEF JobFigures
  <2>2. Total(n) \in Nat
    BY <2>1, Bounds DEF Total, Statuses, Counts
  <2>3. Total(n) <= Cardinality(Present')
    BY <1>1, <1>2, <2>1, <2>2
  <2>4. QED
    BY <1>3, <2>1, <2>3 DEF JobFigures, Statuses, Counts, Total
<1>5. \A n : WorkerFigures(n) => WorkerFigures(n)'
  BY <1>3 DEF WorkerFigures, Counts
<1>6. \A t, u : DlqFigures(t, u) => DlqFigures(t, u)'
  BY <1>1, <1>2, <1>3 DEF DlqFigures
<1>7. \A n : LastHourFigure(n) => LastHourFigure(n)'
  BY <1>3 DEF LastHourFigure
<1>8. \A q, x : Figures(q, x) => Figures(q, x)'
  BY <1>4, <1>5, <1>6, <1>7 DEF Figures
<1>9. ASSUME NEW r, ReplyFigures(r)
      PROVE  ReplyFigures(r)'
  <2>1. /\ r \in Replies /\ r.rate = SuccessRate(r.byStatus)
        /\ JobFigures(r.byStatus) /\ WorkerFigures(r.workers)
        /\ DlqFigures(r.unresolved + r.resolved, r.unresolved) /\ LastHourFigure(r.lastHour)
    BY <1>9 DEF ReplyFigures
  <2>2. /\ JobFigures(r.byStatus)' /\ WorkerFigures(r.workers)'
        /\ DlqFigures(r.unresolved + r.resolved, r.unresolved)' /\ LastHourFigure(r.lastHour)'
    BY <1>4, <1>5, <1>6, <1>7, <2>1
  <2>3. (r \in Replies)' /\ (r.rate = SuccessRate(r.byStatus))'
    BY <2>1
  <2>4. QED
    BY <2>2, <2>3 DEF ReplyFigures
<1>10. QED
  BY <1>4, <1>5, <1>6, <1>7, <1>8, <1>9

-----------------------------------------------------------------------------
(* The queries *)

\* Each job has one status at a time.
LEMMA JobStatsFit == TableOK => JobFigures(QueryJobStats)
<1> SUFFICES ASSUME TableOK
             PROVE  JobFigures(QueryJobStats)
  OBVIOUS
<1> DEFINE with(s) == {j \in Jobs : InScope(j) /\ status[j] = s}
           n == QueryJobStats
<1>1. n = [s \in Statuses |-> Cardinality(with(s))]
  BY DEF QueryJobStats, Selected
<1>2. \A s \in Statuses : with(s) \in SUBSET Mine(Jobs) /\ with(s) \in SUBSET Present /\ with(s) \in SUBSET Jobs
  BY DEF Mine, Present, Statuses
<1>3. n \in [Statuses -> Counts(Jobs)]
  <2>1. \A s \in Statuses : Cardinality(with(s)) \in Counts(Jobs)
    BY <1>2, Bounds, PartIsSmaller DEF Counts
  <2> HIDE DEF with, n
  <2>2. QED
    BY <1>1, <2>1
<1>4. /\ with("QUEUED") \cap with("RUNNING") = {}
      /\ (with("QUEUED") \cup with("RUNNING")) \cap with("SUCCEEDED") = {}
      /\ (with("QUEUED") \cup with("RUNNING") \cup with("SUCCEEDED")) \cap with("FAILED") = {}
  OBVIOUS
<1>5. Total(n) = Cardinality(with("QUEUED")) + Cardinality(with("RUNNING"))
                 + Cardinality(with("SUCCEEDED")) + Cardinality(with("FAILED"))
  <2> HIDE DEF with, n
  <2> QED
    BY <1>1 DEF Total, Statuses
<1> HIDE DEF with, n
<1>6. \A S : IsFiniteSet(S) /\ (\A s \in Statuses : with(s) \in SUBSET S) => Total(n) <= Cardinality(S)
  BY <1>4, <1>5, FourParts DEF Statuses
<1>7. Total(n) <= Cardinality(Present) /\ Total(n) <= Cardinality(Mine(Jobs))
  BY <1>2, <1>6, Sets
<1>8. QED
  BY <1>3, <1>7 DEF JobFigures, n

LEMMA WorkerStatsFit == WorkerFigures(QueryWorkerStats)
<1> DEFINE mine == {w \in Workers : InScope(w)}
           active == {w \in mine : seen[w] >= now - Ttl}
           offline == mine \ active
<1>1. QueryWorkerStats = [active |-> Cardinality(active), offline |-> Cardinality(offline)]
  BY DEF QueryWorkerStats
<1>2. mine = Mine(Workers) /\ active \cup offline = mine /\ active \cap offline = {}
  BY DEF Mine
<1>3. active \in SUBSET mine /\ offline \in SUBSET mine
  OBVIOUS
<1> HIDE DEF mine, active, offline
<1>4. Cardinality(active) + Cardinality(offline) = Cardinality(Mine(Workers))
  BY <1>2, <1>3, Sets, TwoParts
<1>5. Cardinality(active) \in Counts(Workers) /\ Cardinality(offline) \in Counts(Workers)
  BY <1>2, <1>3, Sets, Bounds, PartIsSmaller DEF Counts
<1>6. QED
  BY <1>1, <1>4, <1>5 DEF WorkerFigures

LEMMA DlqStatsFit == DlqFigures(QueryDlqStats.total, QueryDlqStats.unresolved)
<1> DEFINE all == {j \in Jobs : InScope(j) /\ dead[j] # "none"}
           open == {j \in Jobs : InScope(j) /\ dead[j] = "unresolved"}
<1>1. QueryDlqStats = [total |-> Cardinality(all), unresolved |-> Cardinality(open)]
  BY DEF QueryDlqStats, Selected
<1>2. open \in SUBSET all /\ all \in SUBSET DeadOnes /\ all \in SUBSET Mine(Jobs)
  BY DEF DeadOnes, Mine
<1> HIDE DEF all, open
<1>3. IsFiniteSet(all)
  BY <1>2, Sets, PartIsSmaller
<1>4. /\ Cardinality(all) \in Nat /\ Cardinality(open) \in Nat /\ Cardinality(open) <= Cardinality(all)
      /\ Cardinality(all) <= Cardinality(DeadOnes) /\ Cardinality(all) <= Cardinality(Mine(Jobs))
  BY <1>2, <1>3, Sets, PartIsSmaller
<1>5. QED
  BY <1>1, <1>4 DEF DlqFigures

LEMMA ThroughputFits == LastHourFigure(QueryThroughput)
<1> DEFINE some == {j \in Jobs : InScope(j) /\ (Finished(j) /\ doneAt[j] >= now - NumPoints)}
<1>1. QueryThroughput = Cardinality(some)
  BY DEF QueryThroughput, Selected
<1>2. some \in SUBSET Mine(Jobs)
  BY DEF Mine
<1>3. QED
  BY <1>1, <1>2, Sets, PartIsSmaller DEF LastHourFigure

\* Whether a query answers or fails, its figures are possible ones.
LEMMA AnswersFit ==
    ASSUME TableOK, NEW q \in Queries, NEW x \in {Query(q), AfterFailure(q)}
    PROVE  Figures(q, x)
<1>1. CASE q = "jobs"
  <2>1. x = QueryJobStats \/ x = [s \in Statuses |-> 0]
    BY <1>1 DEF Query, AfterFailure
  <2>2. JobFigures([s \in Statuses |-> 0])
    <3> DEFINE z == [s \in Statuses |-> 0]
    <3>1. z \in [Statuses -> Counts(Jobs)]
      BY Bounds DEF Counts
    <3>2. Total(z) = 0
      BY DEF Total, Statuses
    <3>3. 0 <= Cardinality(Present) /\ 0 <= Cardinality(Mine(Jobs))
      BY Sets DEF Counts
    <3> HIDE DEF z
    <3>4. JobFigures(z)
      BY <3>1, <3>2, <3>3 DEF JobFigures
    <3>5. QED
      BY <3>4 DEF z
  <2>3. JobFigures(x)
    BY <2>1, <2>2, JobStatsFit
  <2>4. QED
    BY <1>1, <2>3 DEF Figures
<1>2. CASE q = "workers"
  <2>1. x = QueryWorkerStats \/ x = [active |-> 0, offline |-> 0]
    BY <1>2 DEF Query, AfterFailure
  <2>2. WorkerFigures([active |-> 0, offline |-> 0])
    BY Bounds DEF WorkerFigures, Counts
  <2>3. WorkerFigures(x)
    BY <2>1, <2>2, WorkerStatsFit
  <2>4. QED
    BY <1>2, <2>3 DEF Figures
<1>3. CASE q = "dlq"
  <2>1. x = QueryDlqStats \/ x = [total |-> 0, unresolved |-> 0]
    BY <1>3 DEF Query, AfterFailure, DlqAfterFailure
  <2>2. DlqFigures(0, 0)
    BY Sets DEF DlqFigures, Counts
  <2>3. DlqFigures(x.total, x.unresolved)
    BY <2>1, <2>2, DlqStatsFit
  <2>4. QED
    BY <1>3, <2>3 DEF Figures
<1>4. CASE q = "throughput"
  <2>1. x = QueryThroughput \/ x = 0
    BY <1>4 DEF Query, AfterFailure
  <2>2. LastHourFigure(0)
    BY Sets DEF LastHourFigure, Counts
  <2>3. LastHourFigure(x)
    BY <2>1, <2>2, ThroughputFits
  <2>4. QED
    BY <1>4, <2>3 DEF Figures
<1>5. QED
  BY <1>1, <1>2, <1>3, <1>4 DEF Queries

-----------------------------------------------------------------------------
(* The steps *)

LEMMA MetricsInvInit == Init => MetricsInv
<1> SUFFICES ASSUME Init
             PROVE  MetricsInv
  OBVIOUS
<1>1. TableOK
  BY Bounds DEF Init, TableOK
<1>2. DOMAIN answers = {}
  BY DEF Init
<1>3. AnswersOK
  BY <1>2 DEF AnswersOK
<1>4. ReplyOK /\ RowsOK /\ SeriesOK /\ OneRequest
  BY DEF Init, ReplyOK, RowsOK, SeriesOK, OneRequest
<1>5. QED
  BY <1>1, <1>3, <1>4 DEF MetricsInv

\* What the pipeline does leaves the request alone; it only adds jobs and dead letters.
LEMMA TableSteps ==
    ASSUME MetricsInv, TableOK', UNCHANGED <<caller, metricsVars, seriesVars>>,
           Present \subseteq Present', DeadOnes \subseteq DeadOnes',
           now <= now', rows # NoRows => now' <= rows.at + MaxDelay
    PROVE  MetricsInv'
<1>1. UNCHANGED <<caller, answers, reply, rows, series>>
  BY DEF metricsVars, seriesVars
<1>2. AnswersOK /\ ReplyOK /\ RowsOK /\ SeriesOK /\ OneRequest
  BY DEF MetricsInv
<1>3. /\ \A q, x : Figures(q, x) => Figures(q, x)'
      /\ \A r : ReplyFigures(r) => ReplyFigures(r)'
  BY <1>1, FiguresStay
<1>4. Mine(Jobs)' = Mine(Jobs)
  BY <1>1, SameCaller
<1>5. AnswersOK'
  BY <1>1, <1>2, <1>3 DEF AnswersOK
<1>6. ReplyOK'
  BY <1>1, <1>2, <1>3 DEF ReplyOK
<1>7. RowsOK'
  <2> SUFFICES ASSUME rows # NoRows
               PROVE  RowsOK'
    BY <1>1 DEF RowsOK
  <2>1. rows.at <= now'
    BY <1>2, MetricsInv DEF RowsOK, MetricsInv, TableOK
  <2>2. QED
    BY <1>1, <1>2, <1>4, <2>1 DEF RowsOK, Label
<1>8. SeriesOK' /\ OneRequest'
  BY <1>1, <1>2, <1>4 DEF SeriesOK, OneRequest
<1>9. QED
  BY <1>5, <1>6, <1>7, <1>8 DEF MetricsInv

LEMMA ProgressSteps ==
    ASSUME NEW j \in Jobs
    PROVE  MetricsInv /\ Progress(j) => MetricsInv'
<1> SUFFICES ASSUME MetricsInv, Progress(j)
             PROVE  MetricsInv'
  OBVIOUS
<1>1. UNCHANGED <<now, dead, seen, caller, metricsVars, seriesVars>>
  BY DEF Progress
<1>2. PICK s \in Statuses : status' = [status EXCEPT ![j] = s]
  BY DEF Progress, Move, Statuses
<1>3. doneAt' = doneAt \/ \E t \in {0, now} : doneAt' = [doneAt EXCEPT ![j] = t]
  BY DEF Progress
<1>4. TableOK'
  BY <1>1, <1>2, <1>3, Bounds DEF MetricsInv, TableOK
<1>5. Present \subseteq Present'
  BY <1>2 DEF MetricsInv, TableOK, Present, Statuses
<1>6. DeadOnes' = DeadOnes /\ now' = now /\ now \in Nat
  BY <1>1, Bounds DEF DeadOnes, MetricsInv, TableOK
<1>7. rows # NoRows => now' <= rows.at + MaxDelay
  BY <1>6 DEF MetricsInv, RowsOK
<1>8. QED
  BY <1>1, <1>4, <1>5, <1>6, <1>7, TableSteps

LEMMA DeadLetterSteps ==
    ASSUME NEW j \in Jobs
    PROVE  MetricsInv /\ DeadLetter(j) => MetricsInv'
<1> SUFFICES ASSUME MetricsInv, DeadLetter(j)
             PROVE  MetricsInv'
  OBVIOUS
<1>1. UNCHANGED <<now, status, doneAt, seen, caller, metricsVars, seriesVars>>
  BY DEF DeadLetter
<1>2. PICK d \in {"unresolved", "resolved"} : dead' = [dead EXCEPT ![j] = d]
  BY DEF DeadLetter
<1>3. TableOK'
  BY <1>1, <1>2, Bounds DEF MetricsInv, TableOK
<1>4. DeadOnes \subseteq DeadOnes'
  BY <1>2 DEF MetricsInv, TableOK, DeadOnes
<1>5. Present' = Present /\ now' = now /\ now \in Nat
  BY <1>1, Bounds DEF Present, MetricsInv, TableOK
<1>6. rows # NoRows => now' <= rows.at + MaxDelay
  BY <1>5 DEF MetricsInv, RowsOK
<1>7. QED
  BY <1>1, <1>3, <1>4, <1>5, <1>6, TableSteps

LEMMA BeatSteps ==
    ASSUME NEW w \in Workers
    PROVE  MetricsInv /\ Beat(w) => MetricsInv'
<1> SUFFICES ASSUME MetricsInv, Beat(w)
             PROVE  MetricsInv'
  OBVIOUS
<1>1. /\ UNCHANGED <<now, status, doneAt, dead, caller, metricsVars, seriesVars>>
      /\ seen' = [seen EXCEPT ![w] = now]
  BY DEF Beat
<1>2. TableOK'
  BY <1>1, Bounds DEF MetricsInv, TableOK
<1>3. Present' = Present /\ DeadOnes' = DeadOnes /\ now' = now /\ now \in Nat
  BY <1>1, Bounds DEF Present, DeadOnes, MetricsInv, TableOK
<1>4. rows # NoRows => now' <= rows.at + MaxDelay
  BY <1>3 DEF MetricsInv, RowsOK
<1>5. QED
  BY <1>1, <1>2, <1>3, <1>4, TableSteps

LEMMA TickSteps == MetricsInv /\ Tick => MetricsInv'
<1> SUFFICES ASSUME MetricsInv, Tick
             PROVE  MetricsInv'
  OBVIOUS
<1>1. /\ UNCHANGED <<status, doneAt, dead, seen, caller, metricsVars, seriesVars>>
      /\ now < MaxNow /\ now' = now + 1
  BY DEF Tick
<1>2. TableOK'
  BY <1>1, Bounds DEF MetricsInv, TableOK
<1>3. Present' = Present /\ DeadOnes' = DeadOnes /\ now <= now'
  BY <1>1, Bounds DEF Present, DeadOnes, MetricsInv, TableOK
<1>4. rows # NoRows => now' <= rows.at + MaxDelay
  BY <1>1, Bounds DEF Tick, MetricsInv, TableOK, RowsOK
<1>5. QED
  BY <1>1, <1>2, <1>3, <1>4, TableSteps

\* What is the same to a step of a request.
LEMMA SameTable ==
    ASSUME UNCHANGED table, TableOK
    PROVE  TableOK' /\ Present' = Present /\ DeadOnes' = DeadOnes
  BY DEF table, TableOK, Present, DeadOnes

LEMMA AnsweredSteps ==
    ASSUME NEW q \in Queries
    PROVE  MetricsInv /\ Answered(q) => MetricsInv'
<1> SUFFICES ASSUME MetricsInv, Answered(q)
             PROVE  MetricsInv'
  OBVIOUS
<1>1. /\ UNCHANGED <<table, caller, reply, rows, series>>
      /\ Idle \/ answers # << >>
  BY DEF Answered, seriesVars
<1>2. PICK x \in {Query(q), AfterFailure(q)} :
        answers' = [p \in DOMAIN answers \cup {q} |-> IF p = q THEN x ELSE answers[p]]
  BY DEF Answered
<1>3. TableOK /\ AnswersOK /\ OneRequest
  BY DEF MetricsInv
<1>4. TableOK' /\ Present' = Present /\ DeadOnes' = DeadOnes
  BY <1>1, <1>3, SameTable
<1>5. \A p, y : Figures(p, y) => Figures(p, y)'
  BY <1>1, <1>4, FiguresStay
<1>6. Figures(q, x)
  BY <1>3, AnswersFit
<1>7. AnswersOK'
  BY <1>2, <1>3, <1>5, <1>6 DEF AnswersOK
<1>8. reply' = NoReply /\ rows' = NoRows /\ series' = << >>
  BY <1>1, <1>3 DEF Idle, OneRequest
<1>9. ReplyOK' /\ RowsOK' /\ SeriesOK' /\ OneRequest'
  BY <1>8 DEF ReplyOK, RowsOK, SeriesOK, OneRequest
<1>10. QED
  BY <1>4, <1>7, <1>9 DEF MetricsInv

LEMMA AssembleSteps == MetricsInv /\ Assemble => MetricsInv'
<1> SUFFICES ASSUME MetricsInv, Assemble
             PROVE  MetricsInv'
  OBVIOUS
<1> DEFINE n == answers["jobs"]
           d == answers["dlq"]
           v == answers["workers"]
           h == answers["throughput"]
<1>1. /\ UNCHANGED <<table, caller, rows, series>>
      /\ DOMAIN answers = Queries /\ answers' = << >>
      /\ reply' = [ asked |-> TRUE, byStatus |-> n, rate |-> SuccessRate(n), workers |-> v,
                    unresolved |-> d.unresolved, resolved |-> d.total - d.unresolved, lastHour |-> h ]
  BY DEF Assemble, seriesVars
<1>2. TableOK /\ AnswersOK /\ OneRequest
  BY DEF MetricsInv
<1>3. TableOK' /\ Present' = Present /\ DeadOnes' = DeadOnes
  BY <1>1, <1>2, SameTable
<1>4. JobFigures(n) /\ WorkerFigures(v) /\ DlqFigures(d.total, d.unresolved) /\ LastHourFigure(h)
  <2>1. \A q \in Queries : Figures(q, answers[q])
    BY <1>1, <1>2 DEF AnswersOK
  <2>2. QED
    BY <2>1 DEF Figures, Queries
<1> DEFINE u == d.unresolved
           r == d.total - d.unresolved
<1>5. u + r = d.total /\ DlqFigures(u + r, u) /\ u \in Counts(Jobs) /\ r \in Counts(Jobs)
  <2>1. d.total \in Nat /\ d.unresolved \in Nat /\ d.unresolved <= d.total /\ d.total <= Cardinality(Mine(Jobs))
    BY <1>4 DEF DlqFigures
  <2>2. u + r = d.total
    BY <2>1
  <2>3. u \in Counts(Jobs) /\ r \in Counts(Jobs)
    BY <2>1, Sets, Bounds DEF Counts
  <2>4. QED
    BY <1>4, <2>2, <2>3
<1>6. SuccessRate(n) \in 0 .. Full \cup {NoRate}
  <2>1. n["SUCCEEDED"] \in Nat /\ n["FAILED"] \in Nat
    BY <1>4, Bounds DEF JobFigures, Counts, Statuses
  <2>2. CASE n["SUCCEEDED"] + n["FAILED"] = 0
    BY <2>2 DEF SuccessRate
  <2>3. CASE n["SUCCEEDED"] + n["FAILED"] # 0
    <3>1. SuccessRate(n) = Share(n["SUCCEEDED"], n["FAILED"])
      BY <2>3 DEF SuccessRate, Share
    <3>2. QED
      BY <2>1, <2>3, <3>1, ShareIsShare
  <2>4. QED
    BY <2>2, <2>3
<1>7. n \in [Statuses -> Counts(Jobs)] /\ h \in Counts(Jobs)
      /\ v \in [active : Counts(Workers), offline : Counts(Workers)]
  BY <1>4, Sets, Bounds DEF JobFigures, WorkerFigures, LastHourFigure, Counts
<1> DEFINE made == [ asked |-> TRUE, byStatus |-> n, rate |-> SuccessRate(n), workers |-> v,
                     unresolved |-> u, resolved |-> r, lastHour |-> h ]
<1>8. reply' = made
  BY <1>1
<1> HIDE DEF n, d, v, h, u, r
<1>9. made \in Replies
  BY <1>5, <1>6, <1>7 DEF Replies
<1>10. ReplyFigures(made)
  BY <1>4, <1>5, <1>9 DEF ReplyFigures
<1> HIDE DEF made
<1>11. ReplyOK'
  <2>1. PICK x : reply' = x /\ ReplyFigures(x)
    BY <1>8, <1>10
  <2>2. ReplyFigures(x)'
    BY <1>1, <1>3, <2>1, FiguresStay
  <2>3. ReplyFigures(reply)'
    BY <2>1, <2>2
  <2>4. QED
    BY <2>3 DEF ReplyOK
<1>12. rows' = NoRows /\ series' = << >> /\ answers' = << >>
  <2>1. answers # << >>
    BY <1>1 DEF Queries
  <2>2. QED
    BY <1>1, <1>2, <2>1 DEF OneRequest
<1>13. AnswersOK'
  BY <1>12 DEF AnswersOK
<1>14. RowsOK' /\ SeriesOK' /\ OneRequest'
  BY <1>12 DEF RowsOK, SeriesOK, OneRequest
<1>15. QED
  BY <1>3, <1>11, <1>13, <1>14 DEF MetricsInv

LEMMA ReadSeriesSteps == MetricsInv /\ ReadSeries => MetricsInv'
<1> SUFFICES ASSUME MetricsInv, ReadSeries
             PROVE  MetricsInv'
  OBVIOUS
<1> DEFINE chosen(l) == {k \in Jobs : /\ InScope(k) /\ Finished(k)
                                      /\ doneAt[k] >= now - NumPoints /\ Label(doneAt[k]) = l}
           found == [l \in 0 .. Cycle - 1 |-> {<<j, doneAt[j]>> : j \in chosen(l)}]
<1>1. /\ UNCHANGED <<table, caller, answers, reply, series>>
      /\ Idle /\ rows' = [read |-> TRUE, at |-> now, jobs |-> found]
  BY DEF ReadSeries, metricsVars
<1>2. TableOK /\ TableOK' /\ now' = now /\ now \in Nat
  BY <1>1, Bounds, SameTable DEF MetricsInv, TableOK, table
<1>3. answers' = << >> /\ reply' = NoReply /\ series' = << >>
  BY <1>1 DEF Idle
<1>4. Mine(Jobs)' = Mine(Jobs)
  BY <1>1, SameCaller
<1>5. ASSUME NEW l \in 0 .. Cycle - 1, NEW p \in found[l]
      PROVE  /\ p[1] \in Mine(Jobs)
             /\ p[2] \in Nat /\ now - NumPoints <= p[2] /\ p[2] <= now
             /\ Label(p[2]) = l
  <2>1. PICK j \in chosen(l) : p = <<j, doneAt[j]>>
    BY <1>5
  <2>2. /\ j \in Mine(Jobs) /\ doneAt[j] >= now - NumPoints /\ Label(doneAt[j]) = l
    BY DEF Mine
  <2>3. doneAt[j] \in Nat /\ doneAt[j] <= now
    BY <1>2, Bounds DEF TableOK
  <2> HIDE DEF chosen, found
  <2>4. now - NumPoints <= doneAt[j]
    BY <1>2, <2>2, <2>3, Bounds
  <2>5. QED
    BY <2>1, <2>2, <2>3, <2>4
<1>6. DOMAIN found = 0 .. Cycle - 1
  OBVIOUS
<1> HIDE DEF found
<1>7. RowsOK'
  <2>1. rows'.read /\ rows'.at = now /\ rows'.jobs = found
    BY <1>1
  <2>2. now <= now + MaxDelay
    BY <1>2, Bounds
  <2>3. QED
    BY <1>2, <1>4, <1>5, <1>6, <2>1, <2>2 DEF RowsOK, Label
<1>8. AnswersOK' /\ ReplyOK' /\ SeriesOK' /\ OneRequest'
  BY <1>3 DEF AnswersOK, ReplyOK, SeriesOK, OneRequest
<1>9. QED
  BY <1>2, <1>7, <1>8 DEF MetricsInv

\* The label of a point is one of those that the rows have.
LEMMA PointLabels ==
    ASSUME NEW t \in Int
    PROVE  Label(t) \in 0 .. Cycle - 1
  BY Bounds DEF Label

LEMMA FillSeriesSteps ==
    ASSUME NEW offset \in HostOffsets
    PROVE  MetricsInv /\ FillSeries(offset) => MetricsInv'
<1> SUFFICES ASSUME MetricsInv, FillSeries(offset)
             PROVE  MetricsInv'
  OBVIOUS
<1> DEFINE l(i) == FormatTime(now - Age(i), offset)
<1>1. /\ UNCHANGED <<table, caller, answers, reply>>
      /\ rows # NoRows /\ rows' = NoRows
      /\ series' = [i \in 1 .. NumPoints |-> [label |-> l(i), jobs |-> rows.jobs[l(i)]]]
  BY DEF FillSeries, metricsVars
<1>2. TableOK /\ TableOK' /\ RowsOK /\ OneRequest
  BY <1>1, SameTable DEF MetricsInv
<1>3. answers' = << >> /\ reply' = NoReply
  BY <1>1, <1>2 DEF OneRequest
<1>4. Mine(Jobs)' = Mine(Jobs)
  BY <1>1, SameCaller
<1>5. \A i \in 1 .. NumPoints : l(i) \in 0 .. Cycle - 1
  <2>1. \A i \in 1 .. NumPoints : now - Age(i) + offset \in Int
    BY <1>2, Bounds DEF TableOK, Age
  <2>2. QED
    BY <2>1, PointLabels DEF FormatTime
<1> HIDE DEF l
<1>6. \A i \in 1 .. NumPoints : \A p \in series'[i].jobs : p[1] \in Mine(Jobs)
  BY <1>1, <1>2, <1>5 DEF RowsOK
<1>7. DOMAIN series' = 1 .. NumPoints
  BY <1>1
<1>8. SeriesOK'
  BY <1>4, <1>6, <1>7 DEF SeriesOK
<1>9. AnswersOK' /\ ReplyOK' /\ RowsOK' /\ OneRequest'
  BY <1>1, <1>3 DEF AnswersOK, ReplyOK, RowsOK, OneRequest
<1>10. QED
  BY <1>2, <1>8, <1>9 DEF MetricsInv

LEMMA RespondSteps == MetricsInv /\ Respond => MetricsInv'
<1> SUFFICES ASSUME MetricsInv, Respond
             PROVE  MetricsInv'
  OBVIOUS
<1>1. /\ UNCHANGED <<table, answers, rows>>
      /\ reply # NoReply \/ series # << >>
      /\ reply' = NoReply /\ series' = << >>
  BY DEF Respond
<1>2. TableOK' /\ OneRequest
  BY <1>1, SameTable DEF MetricsInv
<1>3. answers' = << >> /\ rows' = NoRows
  BY <1>1, <1>2 DEF OneRequest
<1>4. AnswersOK' /\ ReplyOK' /\ RowsOK' /\ SeriesOK' /\ OneRequest'
  BY <1>1, <1>3 DEF AnswersOK, ReplyOK, RowsOK, SeriesOK, OneRequest
<1>5. QED
  BY <1>2, <1>4 DEF MetricsInv

LEMMA MetricsInvSteps == MetricsInv /\ caller \in Callers /\ [Next]_vars => MetricsInv' /\ (caller \in Callers)'
<1> SUFFICES ASSUME MetricsInv, caller \in Callers, [Next]_vars
             PROVE  MetricsInv' /\ caller' \in Callers
  OBVIOUS
<1>1. CASE \E q \in Queries : Answered(q)
  BY <1>1, AnsweredSteps DEF Answered
<1>2. CASE Assemble
  BY <1>2, AssembleSteps DEF Assemble
<1>3. CASE ReadSeries
  BY <1>3, ReadSeriesSteps DEF ReadSeries
<1>4. CASE \E offset \in HostOffsets : FillSeries(offset)
  BY <1>4, FillSeriesSteps DEF FillSeries
<1>5. CASE Respond
  BY <1>5, RespondSteps DEF Respond
<1>6. CASE \E j \in Jobs : Progress(j)
  BY <1>6, ProgressSteps DEF Progress
<1>7. CASE \E j \in Jobs : DeadLetter(j)
  BY <1>7, DeadLetterSteps DEF DeadLetter
<1>8. CASE \E w \in Workers : Beat(w)
  BY <1>8, BeatSteps DEF Beat
<1>9. CASE Tick
  BY <1>9, TickSteps DEF Tick
<1>10. CASE UNCHANGED vars
  <2>1. UNCHANGED <<now, status, doneAt, dead, seen, caller, metricsVars, seriesVars>>
    BY <1>10 DEF vars, table
  <2>2. TableOK' /\ Present' = Present /\ DeadOnes' = DeadOnes
    BY <2>1, SameTable DEF MetricsInv, table
  <2>3. now' = now /\ now \in Nat /\ (rows # NoRows => now' <= rows.at + MaxDelay)
    BY <2>1, Bounds DEF MetricsInv, TableOK, RowsOK
  <2>4. QED
    BY <2>1, <2>2, <2>3, TableSteps
<1>11. QED
  BY <1>1, <1>2, <1>3, <1>4, <1>5, <1>6, <1>7, <1>8, <1>9, <1>10 DEF Next

LEMMA MetricsInvariant == Spec => [](MetricsInv /\ caller \in Callers)
<1>1. Init => MetricsInv /\ caller \in Callers
  BY MetricsInvInit DEF Init
<1>2. QED
  BY <1>1, MetricsInvSteps, PTL DEF Spec

-----------------------------------------------------------------------------
(* Theorems *)

\* The type invariant: no figure of an answer is negative or more than there is,
\* although its queries ran at different moments and any of them may have failed.
THEOREM MetricsTypeCorrect == Spec => []TypeOK
<1>1. MetricsInv /\ caller \in Callers => TypeOK
  <2> SUFFICES ASSUME MetricsInv, caller \in Callers
               PROVE  TypeOK
    OBVIOUS
  <2>1. reply = NoReply \/ reply \in Replies
    BY DEF MetricsInv, ReplyOK, ReplyFigures
  <2>2. DOMAIN series \in {1 .. NumPoints, {}}
    BY DEF MetricsInv, SeriesOK
  <2>3. QED
    BY <2>1, <2>2 DEF MetricsInv, TableOK, AnswersOK, TypeOK, Replies
<1>2. QED
  BY <1>1, MetricsInvariant, PTL

\* The figures of one answer fit together (getClusterMetrics).
THEOREM FiguresFit == Spec => []FiguresBelongTogether
<1>1. MetricsInv => FiguresBelongTogether
  <2> SUFFICES ASSUME MetricsInv, reply.asked
               PROVE  FiguresBelongTogether
    BY DEF FiguresBelongTogether
  <2> DEFINE n == reply.byStatus
             s == n["SUCCEEDED"]
             f == n["FAILED"]
  <2>1. reply # NoReply
    BY DEF NoReply
  <2>2. ReplyFigures(reply)
    BY <2>1 DEF MetricsInv, ReplyOK
  <2>3. s \in Nat /\ f \in Nat /\ reply.rate = SuccessRate(n)
    BY <2>2, Bounds DEF ReplyFigures, JobFigures, Counts, Statuses
  <2>4. /\ (reply.rate = NoRate) <=> (s + f = 0)
        /\ s > 0 /\ f = 0 => reply.rate = Full
        /\ reply.rate = Full => 20000 * f <= s + f
    <3>1. CASE s + f = 0
      <4>1. reply.rate = NoRate
        BY <2>3, <3>1 DEF SuccessRate
      <4>2. QED
        BY <2>3, <3>1, <4>1 DEF NoRate, Full
    <3>2. CASE s + f # 0
      <4>1. reply.rate = Share(s, f)
        BY <2>3, <3>2 DEF SuccessRate, Share
      <4> HIDE DEF s, f
      <4>2. /\ Share(s, f) \in 0 .. Full
            /\ f = 0 => Share(s, f) = Full
            /\ Share(s, f) = Full => 20000 * f <= s + f
        BY <2>3, <3>2, ShareIsShare
      <4>3. NoRate \notin 0 .. Full
        BY DEF NoRate, Full
      <4>4. QED
        BY <2>3, <3>2, <4>1, <4>2, <4>3
    <3>3. QED
      BY <3>1, <3>2
  <2>5. Total(n) <= Cardinality(Present) /\ reply.unresolved + reply.resolved <= Cardinality(DeadOnes)
    BY <2>2 DEF ReplyFigures, JobFigures, DlqFigures
  <2>6. QED
    BY <2>4, <2>5 DEF FiguresBelongTogether, Present, DeadOnes
<1>2. QED
  BY <1>1, MetricsInvariant, PTL

\* Nobody is shown a job or a worker of another organisation (getHealth and the
\* joins of the queries).
THEOREM FiguresAreTheCallers == Spec => []FiguresAreScoped
<1>1. MetricsInv /\ caller \in Callers => FiguresAreScoped
  <2> SUFFICES ASSUME MetricsInv, caller \in Callers
               PROVE  FiguresAreScoped
    OBVIOUS
  <2> DEFINE mine(set) == IF caller.role = "OWNER" /\ caller.scope = "global" THEN set
                          ELSE {x \in set : OrgOf[x] = caller.org}
  <2>1. mine(Jobs) = Mine(Jobs) /\ mine(Workers) = Mine(Workers)
    BY MineIsScoped
  <2> HIDE DEF mine
  <2>2. ASSUME reply.asked
        PROVE  /\ Total(reply.byStatus) <= Cardinality(mine(Jobs))
               /\ reply.workers.active + reply.workers.offline \in {0, Cardinality(mine(Workers))}
               /\ reply.unresolved + reply.resolved <= Cardinality(mine(Jobs))
               /\ reply.lastHour <= Cardinality(mine(Jobs))
    <3>1. reply # NoReply
      BY <2>2 DEF NoReply
    <3>2. ReplyFigures(reply)
      BY <3>1 DEF MetricsInv, ReplyOK
    <3>3. QED
      BY <2>1, <3>2 DEF ReplyFigures, JobFigures, WorkerFigures, DlqFigures, LastHourFigure
  <2>3. ASSUME NEW i \in DOMAIN series
        PROVE  {p[1] : p \in series[i].jobs} \subseteq mine(Jobs)
    <3>1. series # << >>
      BY <2>3
    <3>2. QED
      BY <2>1, <2>3, <3>1 DEF MetricsInv, SeriesOK
  <2>4. QED
    BY <2>2, <2>3 DEF FiguresAreScoped, mine
<1>2. QED
  BY <1>1, MetricsInvariant, PTL

\* A job that the series query found is in no two points of the chart, whatever the
\* clock of the host; with the clock at UTC it is in one, or in none if it finished
\* before the first (getThroughputSeries): its label comes again, but not within the
\* time that a chart and a late labelling cover.
THEOREM ChartShowsEachJobOnce == Spec => SeriesShowsEachJobOnce
<1> DEFINE Shown ==
      \A offset \in HostOffsets : FillSeries(offset) =>
          \A p \in UNION {rows.jobs[l] : l \in DOMAIN rows.jobs} :
             LET points == Cardinality({i \in DOMAIN series' : p \in series'[i].jobs})
             IN /\ points <= 1
                /\ offset = 0 => points = IF p[2] > now - NumPoints THEN 1 ELSE 0
<1>1. MetricsInv => Shown
  <2> SUFFICES ASSUME MetricsInv, NEW offset \in HostOffsets, FillSeries(offset),
                      NEW p \in UNION {rows.jobs[l] : l \in DOMAIN rows.jobs}
               PROVE  LET points == Cardinality({i \in DOMAIN series' : p \in series'[i].jobs})
                      IN /\ points <= 1
                         /\ offset = 0 => points = IF p[2] > now - NumPoints THEN 1 ELSE 0
    OBVIOUS
  <2> DEFINE t(i) == now - Age(i) + offset
             points == {i \in DOMAIN series' : p \in series'[i].jobs}
  <2>1. /\ rows # NoRows
        /\ series' = [i \in 1 .. NumPoints |-> [label |-> Label(t(i)), jobs |-> rows.jobs[Label(t(i))]]]
    BY DEF FillSeries, FormatTime
  <2>2. /\ rows.at \in Nat /\ rows.at <= now /\ now <= rows.at + MaxDelay /\ now \in Nat
        /\ DOMAIN rows.jobs = 0 .. Cycle - 1
        /\ \A k \in 0 .. Cycle - 1 : \A q \in rows.jobs[k] :
              /\ q[2] \in Nat /\ rows.at - NumPoints <= q[2] /\ q[2] <= rows.at
              /\ Label(q[2]) = k
    BY <2>1, Bounds DEF MetricsInv, RowsOK, TableOK
  <2>3. PICK k \in 0 .. Cycle - 1 : p \in rows.jobs[k]
    BY <2>2
  <2>4. p[2] \in Nat /\ rows.at - NumPoints <= p[2] /\ p[2] <= rows.at /\ Label(p[2]) = k
    BY <2>2, <2>3
  <2>5. offset \in Int /\ \A i \in 1 .. NumPoints : t(i) \in Int /\ t(i) = now - (NumPoints - i) + offset
    BY <2>2, Bounds DEF Age
  <2> HIDE DEF t
  <2>6. points \subseteq 1 .. NumPoints /\ \A i \in 1 .. NumPoints : i \in points <=> Label(t(i)) = k
    <3>1. \A i \in 1 .. NumPoints : Label(t(i)) \in 0 .. Cycle - 1
      BY <2>5, PointLabels
    <3>2. \A i \in 1 .. NumPoints : p \in rows.jobs[Label(t(i))] <=> Label(t(i)) = k
      BY <2>2, <2>3, <2>4, <3>1
    <3>3. QED
      BY <2>1, <3>2
  <2> HIDE DEF points
  <2>7. Cardinality(points) <= 1
    <3>1. ASSUME NEW i \in points, NEW m \in points
          PROVE  i = m
      <4>1. i \in 1 .. NumPoints /\ m \in 1 .. NumPoints /\ Label(t(i)) = Label(t(m))
        BY <2>6
      <4>2. t(i) \in Int /\ t(m) \in Int /\ t(i) - t(m) = i - m /\ t(m) - t(i) = m - i
        <5>1. now \in Int /\ NumPoints \in Int /\ offset \in Int /\ i \in Int /\ m \in Int
          BY <2>2, <2>5, <4>1, Bounds
        <5>2. t(i) = now - (NumPoints - i) + offset /\ t(m) = now - (NumPoints - m) + offset
          BY <2>5, <4>1
        <5>3. QED
          BY <5>1, <5>2
      <4>3. i - m < Cycle /\ m - i < Cycle
        BY <4>1, Bounds
      <4>4. t(i) = t(m)
        BY <4>1, <4>2, <4>3, LabelsDiffer
      <4>5. QED
        BY <4>1, <4>2, <4>4
    <3>2. CASE points = {}
      BY <3>2, FS_EmptySet
    <3>3. CASE points # {}
      <4>1. PICK i : i \in points
        BY <3>3
      <4>2. points = {i}
        BY <3>1, <4>1
      <4>3. Cardinality(points) = 1
        BY <4>2, FS_Singleton
      <4>4. QED
        BY <4>3
    <3>4. QED
      BY <3>2, <3>3
  <2>8. ASSUME offset = 0
        PROVE  Cardinality(points) = IF p[2] > now - NumPoints THEN 1 ELSE 0
    <3> DEFINE only == p[2] - now + NumPoints
    <3>1. \A i \in 1 .. NumPoints : i \in points <=> i = only
      <4> SUFFICES ASSUME NEW i \in 1 .. NumPoints
                   PROVE  i \in points <=> i = only
        OBVIOUS
      <4>1. t(i) - p[2] < Cycle /\ p[2] - t(i) < Cycle
        <5>1. /\ rows.at \in Int /\ now \in Int /\ p[2] \in Int /\ i \in Int
              /\ rows.at <= now /\ now <= rows.at + MaxDelay
              /\ rows.at - NumPoints <= p[2] /\ p[2] <= rows.at
              /\ 1 <= i /\ i <= NumPoints
          BY <2>2, <2>4, Bounds
        <5>2. t(i) = now - (NumPoints - i) + 0
          BY <2>5, <2>8
        <5>3. QED
          BY <5>1, <5>2, Bounds
      <4>2. Label(t(i)) = k <=> t(i) = p[2]
        <5>1. t(i) \in Int /\ p[2] \in Int
          BY <2>4, <2>5
        <5>2. QED
          BY <2>4, <4>1, <5>1, LabelsDiffer
      <4>3. t(i) = p[2] <=> i = only
        <5>1. p[2] \in Int /\ now \in Int /\ NumPoints \in Int /\ i \in Int
          BY <2>2, <2>4, Bounds
        <5>2. t(i) = now - (NumPoints - i) + 0
          BY <2>5, <2>8
        <5>3. QED
          BY <5>1, <5>2
      <4>4. QED
        BY <2>6, <4>2, <4>3
    <3>2. only \in Int /\ only <= NumPoints /\ (only >= 1 <=> p[2] > now - NumPoints)
      <4>1. p[2] \in Int /\ p[2] <= now /\ now \in Int /\ NumPoints \in Int
        BY <2>2, <2>4, Bounds
      <4>2. QED
        BY <4>1
    <3> HIDE DEF only
    <3>3. CASE only >= 1
      <4>1. only \in 1 .. NumPoints
        BY <3>2, <3>3, Bounds
      <4>2. points = {only}
        BY <2>6, <3>1, <4>1
      <4>3. QED
        BY <3>2, <3>3, <4>2, FS_Singleton
    <3>4. CASE ~ (only >= 1)
      <4>1. points = {}
        BY <2>6, <3>1, <3>2, <3>4
      <4>2. QED
        BY <3>2, <3>4, <4>1, FS_EmptySet
    <3>5. QED
      BY <3>3, <3>4
  <2>9. QED
    BY <2>7, <2>8 DEF points
<1>2. MetricsInv => [Shown]_vars
  BY <1>1
<1>3. QED
  BY <1>2, MetricsInvariant, PTL DEF SeriesShowsEachJobOnce

=============================================================================
