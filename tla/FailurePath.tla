------------------------------ MODULE FailurePath ------------------------------
(***************************************************************************)
(* One job that keeps failing, on a clock: the backoff between its retries *)
(* (JobExecutor.js), the sweeps that promote it (scheduler/src/index.js),  *)
(* the backoff of a worker that finds nothing (Worker.js), and the         *)
(* analysis before it becomes a dead letter (AIFailureAnalyzer.js).  All   *)
(* times are in one unit; statements take no time, and no timer is late.   *)
(***************************************************************************)
EXTENDS Integers, FiniteSetsExt

CONSTANTS
    Second,          \* the units of a second: scheduled_at and NOW() have no fraction
    Strategies,      \* the retry_strategy of the job is one of these
    Base,            \* retry_backoff_base_ms
    MaxRetryDelay,   \* MAX_RETRY_DELAY_MS
    MaxRetries,      \* max_retries
    ExecTimeout,     \* timeout_seconds or EXECUTOR_TIMEOUT_MS, the lower
    SweepInterval, IdleDelay,    \* SCHEDULER_SWEEP_INTERVAL_MS, SCHEDULER_IDLE_DELAY_MS
    PollInterval, BackoffMax,    \* POLL_INTERVAL_MS, BACKOFF_MAX_MS
    AiTimeout,       \* AI_TIMEOUT_MS
    BodyTimeout,     \* how long fetch() waits for the next piece of a body
    MaxPieces,       \* bound of the pieces, the headers among them: the code has none
    MaxNow           \* bound of the clock

Times == {Second, Base, MaxRetryDelay, ExecTimeout, SweepInterval, IdleDelay,
          PollInterval, BackoffMax, AiTimeout, BodyTimeout}

ASSUME FailurePathAssumption ==
    /\ Times \subseteq Nat \ {0}
    /\ MaxRetries \in Nat /\ MaxPieces \in Nat \ {0} /\ MaxNow \in Nat /\ Second <= MaxNow
    /\ Strategies \subseteq {"FIXED", "LINEAR", "EXPONENTIAL"}
    /\ SweepInterval <= IdleDelay /\ PollInterval <= BackoffMax

VARIABLES
    now,           \* the clock
    strategy,      \* jobs.retry_strategy
    status,        \* jobs.status
    retries,       \* jobs.retry_count
    scheduledAt,   \* jobs.scheduled_at
    failedAt,      \* when the last attempt failed
    waited,        \* how long the present retry waited for its start
    sweepAt,       \* when the next sweep begins
    worker,        \* "polling", "asleep", "executing", "fetching" or "reading"
    until,         \* when the timer of the worker fires
    streak,        \* emptyStreak
    pieces,        \* what the hub has sent: the headers, and pieces of the body
    notes          \* ai_analysis in the dead letter row

jobVars == <<strategy, status, retries, scheduledAt, failedAt, waited>>
workerVars == <<worker, until, streak>>
vars == <<now, jobVars, sweepAt, workerVars, pieces, notes>>

NoRow == [text |-> "none", score |-> 0, by |-> "nobody"]
Least(a, b) == Min({a, b})
Most(a, b) == Max({a, b})

Init ==
    /\ now \in 0 .. Second - 1
    /\ strategy \in Strategies
    /\ status = "QUEUED"
    /\ retries = 0
    /\ scheduledAt = 0
    /\ failedAt = 0
    /\ waited = 0
    /\ sweepAt = now
    /\ worker = "polling"
    /\ until = 0
    /\ streak = 0
    /\ pieces = 0
    /\ notes = NoRow

-----------------------------------------------------------------------------
(* Delays *)

\* What a DATETIME keeps of a time.
Seconds(t) == (t \div Second) * Second

\* Math.pow(2, n).
PowerOfTwo[n \in Nat] == IF n = 0 THEN 1 ELSE 2 * PowerOfTwo[n - 1]

\* Mutant: an exponential backoff is a linear one.
ComputeDelayLinear(attempt) ==
    Least(IF strategy = "FIXED" THEN Base ELSE Base * (attempt + 1), MaxRetryDelay)

\* computeNextScheduledAt, less the present.
ComputeDelay(attempt) ==
    Least(CASE strategy = "EXPONENTIAL" -> Base * PowerOfTwo[attempt]
            [] strategy = "LINEAR"      -> Base * (attempt + 1)
            [] OTHER                    -> Base,
          MaxRetryDelay)

\* Mutant: only the exponent is capped.
ComputeBackoffUncapped(n) == {PollInterval * PowerOfTwo[Least(n, 6)]}

\* The delays computeBackoff may draw: a fifth more or less than the capped power,
\* and never less than a poll interval.
ComputeBackoff(n) ==
    LET capped == Least(PollInterval * PowerOfTwo[Least(n, 6)], BackoffMax)
        jitter == (capped * 2) \div 10
    IN {Most(PollInterval, d) : d \in capped - jitter .. capped + jitter}

-----------------------------------------------------------------------------
(* The scheduler and the worker's loop *)

Promotable == status = "SCHEDULED" /\ scheduledAt <= Seconds(now)

\* A sweep that found nothing to do is followed by a longer pause.
Sweep ==
    /\ now >= sweepAt
    /\ status' = IF Promotable THEN "QUEUED" ELSE status
    /\ sweepAt' = now + (IF Promotable THEN SweepInterval ELSE IdleDelay)
    /\ UNCHANGED <<now, strategy, retries, scheduledAt, failedAt, waited, workerVars, pieces, notes>>

\* claimAndExecute finds the job.  The exponent of the backoff is capped at 6, so a
\* longer streak is like one of 6.
Claim ==
    /\ worker = "polling"
    /\ status = "QUEUED"
    /\ status' = "RUNNING"
    /\ waited' = IF retries > 0 THEN now - failedAt ELSE 0
    /\ worker' = "executing"
    /\ until' = now + ExecTimeout
    /\ UNCHANGED <<now, strategy, retries, scheduledAt, failedAt, sweepAt, streak, pieces, notes>>

PollNothing ==
    /\ worker = "polling"
    /\ status # "QUEUED"
    /\ streak' = Least(streak + 1, 6)
    /\ worker' = "asleep"
    /\ \E d \in ComputeBackoff(streak + 1) : until' = now + d
    /\ UNCHANGED <<now, jobVars, sweepAt, pieces, notes>>

Wake ==
    /\ worker = "asleep"
    /\ now = until
    /\ worker' = "polling"
    /\ UNCHANGED <<now, jobVars, sweepAt, until, streak, pieces, notes>>

\* claimAndExecute returns true.
BackToLoop == worker' = "polling" /\ streak' = 0 /\ UNCHANGED until

Succeed ==
    /\ worker = "executing"
    /\ status' = "SUCCEEDED"
    /\ BackToLoop
    /\ UNCHANGED <<now, strategy, retries, scheduledAt, failedAt, waited, sweepAt, pieces, notes>>

-----------------------------------------------------------------------------
(* #handleFailure, and analyze for the last failure *)

Fallback == [text |-> "fallback", score |-> 0, by |-> "FALLBACK"]

\* The dead letter row is written as soon as there is an analysis.
WriteNotes(a) == notes' = a /\ BackToLoop

\* Mutant: the signal is not passed to fetch().
FetchWithoutSignal == worker' = "fetching" /\ until' = MaxNow + 1

\* The request to the hub, with its timer.
Fetch == worker' = "fetching" /\ until' = now + AiTimeout

\* Mutant: one retry too many.
ExhaustedLate == retries + 1 > MaxRetries + 1

Exhausted == retries + 1 > MaxRetries

Retry ==
    /\ ~ Exhausted
    /\ status' = "SCHEDULED"
    /\ scheduledAt' = Seconds(now + ComputeDelay(retries))
    /\ BackToLoop
    /\ UNCHANGED notes

\* AI_HUB_API_KEY may be set or not.
Exhaust ==
    /\ Exhausted
    /\ status' = "FAILED"
    /\ \/ WriteNotes(Fallback)
       \/ Fetch /\ UNCHANGED <<streak, notes>>
    /\ UNCHANGED scheduledAt

\* The attempt fails, at its timeout at the latest.
Fail ==
    /\ worker = "executing"
    /\ retries' = retries + 1
    /\ failedAt' = now
    /\ waited' = 0
    /\ Retry \/ Exhaust
    /\ UNCHANGED <<now, strategy, sweepAt, pieces>>

\* What the hub answers: a JSON object, bare or within prose; prose with braces of
\* its own; another JSON value; or nothing.  Its three texts are strings or not,
\* its score is a number (in tenths) or not.
Contents ==
    [ form : {"object", "wrapped", "braces", "array", "prose", "absent"},
      text : BOOLEAN, number : BOOLEAN, score : {-5, 7, 25} ]

\* extractJson: an array is an object to JavaScript.
ExtractJson(c) == c.form \in {"object", "wrapped", "array"}

\* Mutant: the score is taken as it is.
ScoreUnclamped(c) == IF c.form = "array" \/ ~ c.number THEN 0 ELSE c.score

Score(c) ==
    IF c.form = "array" \/ ~ c.number THEN 0 ELSE Least(10, Most(0, c.score))

NormalizeAnalysis(c) ==
    [ text |-> IF c.form # "array" /\ c.text THEN "model" ELSE "default",
      score |-> Score(c), by |-> "model" ]

\* The headers or a piece of the body.  With the headers the timer is cleared; from
\* then on only fetch() is watching, and it looks for the next piece.
Hear ==
    /\ worker' = "reading"
    /\ until' = now + BodyTimeout
    /\ pieces' = pieces + 1
    /\ UNCHANGED <<now, jobVars, sweepAt, streak, notes>>

Headers == worker = "fetching" /\ Hear

Piece == worker = "reading" /\ pieces < MaxPieces /\ Hear

\* No connection, or the abort; a body that breaks off or pauses for too long; a
\* status other than 200.
AnalysisFails ==
    /\ worker \in {"fetching", "reading"}
    /\ WriteNotes(Fallback)
    /\ UNCHANGED <<now, jobVars, sweepAt, pieces>>

\* The whole body.  Only one of status 200 is looked at.
Body ==
    /\ worker = "reading"
    /\ \E c \in Contents :
          WriteNotes(IF ExtractJson(c) THEN NormalizeAnalysis(c) ELSE Fallback)
    /\ UNCHANGED <<now, jobVars, sweepAt, pieces>>

\* Time passes up to the next timer.
Tick ==
    /\ now < MaxNow
    /\ now < sweepAt
    /\ worker # "polling" /\ now < until
    /\ now' = now + 1
    /\ UNCHANGED <<jobVars, sweepAt, workerVars, pieces, notes>>

Done == status = "SUCCEEDED" \/ notes # NoRow

\* The end.  A behaviour that runs into MaxNow before it is a deadlock to TLC.
Rest == Done /\ UNCHANGED vars

Next ==
    \/ ~ Done /\ (Sweep \/ Claim \/ PollNothing \/ Wake \/ Tick)
    \/ Succeed \/ Fail \/ Headers \/ Piece \/ AnalysisFails \/ Body \/ Rest

Spec == Init /\ [][Next]_vars

-----------------------------------------------------------------------------
(* Properties *)

TypeOK ==
    /\ now \in 0 .. MaxNow
    /\ strategy \in Strategies
    /\ status \in {"QUEUED", "RUNNING", "SCHEDULED", "SUCCEEDED", "FAILED"}
    /\ retries \in 0 .. MaxRetries + 1
    /\ {scheduledAt, failedAt, waited, sweepAt, until} \subseteq Nat
    /\ worker \in {"polling", "asleep", "executing", "fetching", "reading"}
    /\ streak \in 0 .. 6
    /\ pieces \in 0 .. MaxPieces
    /\ notes = NoRow \/ notes \in [ text : {"fallback", "default", "model"}, score : Int,
                                    by : {"model", "FALLBACK"} ]

\* After the first retry, each waits twice as long as the one before.
Doubled[n \in Nat] == IF n = 0 THEN Base ELSE 2 * Doubled[n - 1]

\* What somebody who sets a strategy expects before retry i: the base, i times the
\* base, or twice as long as before, up to an hour.
Expected(i) ==
    Least(MaxRetryDelay,
          CASE strategy = "FIXED"  -> Base
            [] strategy = "LINEAR" -> i * Base
            [] OTHER               -> Doubled[i - 1])

\* The second that scheduled_at and NOW() lose between them shortens a delay by less
\* than one second, whenever in it the attempt fails and whoever sweeps when.
RetriesAreSpaced ==
    status = "RUNNING" /\ retries > 0 => waited > Expected(retries) - Second

\* Three pauses follow each other, each as long as its own backoff has made it: no
\* retry is kept waiting for more than the longest of each.
RetriesArePrompt ==
    retries > 0 /\ status \in {"SCHEDULED", "QUEUED"} =>
        now - failedAt <= Expected(retries) + IdleDelay + BackoffMax + (BackoffMax * 2) \div 10

\* A silent hub keeps a FAILED job from being a dead letter for the time-out and no
\* longer.  One that has begun to answer is not held to it: what it has sent, and not
\* AI_TIMEOUT_MS, says how long the job waits, up to BodyTimeout for each piece.
DeadLettersAreInTime ==
    status = "FAILED" /\ notes = NoRow =>
        now - failedAt <= AiTimeout + pieces * BodyTimeout

\* "Output schema (guaranteed)" (AIFailureAnalyzer.js:28-36): whatever comes back.
AnalysisIsUsable ==
    notes # NoRow =>
        /\ notes.score \in 0 .. 10
        /\ notes.by = "FALLBACK" => notes.score = 0

=============================================================================
