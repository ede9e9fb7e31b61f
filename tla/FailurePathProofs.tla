--------------------------- MODULE FailurePathProofs ---------------------------
(***************************************************************************)
(* A job that keeps failing, proved for every length of every timer: no    *)
(* retry is early by a second, none is kept waiting for longer than the    *)
(* three pauses on its way, and a dead letter is written in time.          *)
(***************************************************************************)
EXTENDS FailurePath, FiniteSetTheorems, TLAPS

-----------------------------------------------------------------------------
(* Doubling *)

\* A set of numbers that is not empty has a least one.
LEMMA LeastNumber ==
    ASSUME NEW S \in SUBSET Nat, S # {}
    PROVE  \E n \in S : \A m \in S : n <= m
<1> DEFINE T == {0 .. n : n \in S}
<1>1. T \subseteq FiniteSubsetsOf(Nat) /\ T # {}
  <2>1. \A n \in S : IsFiniteSet(0 .. n) /\ 0 .. n \in SUBSET Nat
    BY FS_Interval
  <2>2. \A t \in T : t \in SUBSET Nat /\ IsFiniteSet(t)
    BY <2>1
  <2>3. PICK n : n \in S
    OBVIOUS
  <2>4. 0 .. n \in T
    BY <2>3
  <2> HIDE DEF T
  <2>5. QED
    BY <2>2, <2>4 DEF FiniteSubsetsOf
<1>2. \E t \in T : \A u \in T : <<u, t>> \notin StrictSubsetOrdering(Nat)
  <2> HIDE DEF T
  <2> QED
    BY <1>1, FS_StrictSubsetOrderingWellFounded, WFMin
<1>3. PICK n \in S : \A u \in T : <<u, 0 .. n>> \notin StrictSubsetOrdering(Nat)
  BY <1>2
<1>4. ASSUME NEW m \in S, ~ (n <= m)
      PROVE  FALSE
  <2>1. 0 .. m \subseteq 0 .. n /\ n \in 0 .. n /\ n \notin 0 .. m
    BY <1>4
  <2>2. <<0 .. m, 0 .. n>> \in StrictSubsetOrdering(Nat)
    BY <2>1 DEF StrictSubsetOrdering
  <2>3. QED
    BY <1>3, <2>2
<1>5. QED
  BY <1>4

\* The first numbers of a sequence that starts at c and doubles.
Doubling(c, f, n) ==
    /\ f \in [0 .. n -> Nat]
    /\ f[0] = c
    /\ \A k \in 1 .. n : f[k] = 2 * f[k - 1]

\* There is such a sequence: were there none of some length, there would be none of
\* the least such length; and two of them agree as far as both go.
LEMMA DoublingExists ==
    ASSUME NEW c \in Nat
    PROVE  \E f \in [Nat -> Nat] : f = [n \in Nat |-> IF n = 0 THEN c ELSE 2 * f[n - 1]]
<1>1. ASSUME NEW n \in Nat
      PROVE  \E f : Doubling(c, f, n)
  <2> DEFINE Missing == {k \in Nat : ~ \E f : Doubling(c, f, k)}
  <2> SUFFICES ASSUME Missing # {}
               PROVE  FALSE
    OBVIOUS
  <2>1. PICK k \in Missing : \A m \in Missing : k <= m
    <3>1. Missing \in SUBSET Nat
      OBVIOUS
    <3> HIDE DEF Missing
    <3>2. QED
      BY <3>1, LeastNumber
  <2>2. CASE k = 0
    <3>1. Doubling(c, [i \in 0 .. 0 |-> c], 0)
      BY DEF Doubling
    <3>2. QED
      BY <2>2, <3>1
  <2>3. CASE k # 0
    <3>1. k - 1 \in Nat /\ k - 1 \notin Missing
      BY <2>1, <2>3
    <3>2. PICK f : Doubling(c, f, k - 1)
      BY <3>1
    <3> DEFINE g == [i \in 0 .. k |-> IF i = k THEN 2 * f[k - 1] ELSE f[i]]
    <3>3. Doubling(c, g, k)
      <4>1. g \in [0 .. k -> Nat]
        BY <2>3, <3>1, <3>2 DEF Doubling
      <4>2. g[0] = c
        BY <2>3, <3>1, <3>2 DEF Doubling
      <4>3. ASSUME NEW i \in 1 .. k
            PROVE  g[i] = 2 * g[i - 1]
        BY <2>3, <3>1, <3>2 DEF Doubling
      <4>4. QED
        BY <4>1, <4>2, <4>3 DEF Doubling
    <3>4. QED
      BY <3>3
  <2>4. QED
    BY <2>2, <2>3
<1>2. ASSUME NEW m \in Nat, NEW n \in Nat, m <= n, NEW f, Doubling(c, f, m), NEW g, Doubling(c, g, n)
      PROVE  f[m] = g[m]
  <2> DEFINE Different == {k \in 0 .. m : f[k] # g[k]}
  <2> SUFFICES ASSUME Different # {}
               PROVE  FALSE
    OBVIOUS
  <2>1. PICK k \in Different : \A i \in Different : k <= i
    <3>1. Different \in SUBSET Nat
      OBVIOUS
    <3> HIDE DEF Different
    <3>2. QED
      BY <3>1, LeastNumber
  <2>2. k # 0
    BY <1>2, <2>1 DEF Doubling
  <2>3. k - 1 \in 0 .. m /\ k - 1 \notin Different
    BY <2>1, <2>2
  <2>4. QED
    BY <1>2, <2>1, <2>2, <2>3 DEF Doubling
<1> DEFINE part(n) == CHOOSE f : Doubling(c, f, n)
           F == [n \in Nat |-> part(n)[n]]
<1>3. \A n \in Nat : Doubling(c, part(n), n)
  BY <1>1
<1>4. F \in [Nat -> Nat]
  <2> HIDE DEF part
  <2>1. \A n \in Nat : part(n)[n] \in Nat
    BY <1>3 DEF Doubling
  <2>2. QED
    BY <2>1
<1>5. F[0] = c
  BY <1>3 DEF Doubling
<1>6. ASSUME NEW n \in Nat, n # 0
      PROVE  F[n] = 2 * F[n - 1]
  <2> HIDE DEF part
  <2>1. Doubling(c, part(n), n) /\ Doubling(c, part(n - 1), n - 1) /\ n - 1 \in Nat /\ n - 1 <= n
    BY <1>3, <1>6
  <2>2. part(n - 1)[n - 1] = part(n)[n - 1]
    BY <1>2, <2>1
  <2>3. part(n)[n] = 2 * part(n)[n - 1]
    BY <1>6, <2>1 DEF Doubling
  <2>4. QED
    BY <2>1, <2>2, <2>3
<1> HIDE DEF F
<1>7. F = [n \in Nat |-> IF n = 0 THEN c ELSE 2 * F[n - 1]]
  <2>1. \A n \in Nat : F[n] = IF n = 0 THEN c ELSE 2 * F[n - 1]
    BY <1>5, <1>6
  <2>2. F = [n \in Nat |-> F[n]]
    BY <1>4
  <2>3. QED
    BY <2>1, <2>2
<1>8. QED
  BY <1>4, <1>7

\* Whatever doubles from a number on is a number.
LEMMA DoublingType ==
    ASSUME NEW c \in Nat, NEW f, f = [n \in Nat |-> IF n = 0 THEN c ELSE 2 * f[n - 1]]
    PROVE  f \in [Nat -> Nat]
<1> DEFINE Others == {n \in Nat : f[n] \notin Nat}
<1> SUFFICES ASSUME Others # {}
             PROVE  FALSE
  <2>1. f = [n \in Nat |-> f[n]]
    OBVIOUS
  <2>2. QED
    BY <2>1
<1>1. PICK n \in Others : \A m \in Others : n <= m
  <2>1. Others \in SUBSET Nat
    OBVIOUS
  <2> HIDE DEF Others
  <2>2. QED
    BY <2>1, LeastNumber
<1>2. CASE n = 0
  BY <1>1, <1>2
<1>3. CASE n # 0
  <2>1. n - 1 \in Nat /\ n - 1 \notin Others /\ n \in Nat
    BY <1>1, <1>3
  <2>2. f[n] = 2 * f[n - 1] /\ f[n - 1] \in Nat
    BY <1>3, <2>1
  <2>3. QED
    BY <1>1, <2>2
<1>4. QED
  BY <1>2, <1>3

\* Math.pow(2, n) is what it is meant to be, and so is twice as long as before.
LEMMA PowerEquation ==
    /\ PowerOfTwo \in [Nat -> Nat]
    /\ PowerOfTwo = [n \in Nat |-> IF n = 0 THEN 1 ELSE 2 * PowerOfTwo[n - 1]]
<1>1. \E f : f = [n \in Nat |-> IF n = 0 THEN 1 ELSE 2 * f[n - 1]]
  <2>1. \A c \in Nat : \E f : f = [n \in Nat |-> IF n = 0 THEN c ELSE 2 * f[n - 1]]
    BY DoublingExists
  <2>2. QED
    BY <2>1
<1>2. PowerOfTwo = [n \in Nat |-> IF n = 0 THEN 1 ELSE 2 * PowerOfTwo[n - 1]]
  BY <1>1 DEF PowerOfTwo
<1>3. QED
  BY <1>2, DoublingType

LEMMA DoubledEquation ==
    /\ Doubled \in [Nat -> Nat]
    /\ Doubled = [n \in Nat |-> IF n = 0 THEN Base ELSE 2 * Doubled[n - 1]]
<1>1. Base \in Nat
  BY FailurePathAssumption DEF Times
<1>2. \E f : f = [n \in Nat |-> IF n = 0 THEN Base ELSE 2 * f[n - 1]]
  BY <1>1, DoublingExists
<1>3. Doubled = [n \in Nat |-> IF n = 0 THEN Base ELSE 2 * Doubled[n - 1]]
  BY <1>2 DEF Doubled
<1>4. QED
  BY <1>1, <1>3, DoublingType

\* The closed form of the code and the recursive one of the expectation agree.
LEMMA PowersAreDoubled == \A n \in Nat : Base * PowerOfTwo[n] = Doubled[n]
<1> DEFINE Others == {n \in Nat : Base * PowerOfTwo[n] # Doubled[n]}
<1> SUFFICES ASSUME Others # {}
             PROVE  FALSE
  OBVIOUS
<1>1. Base \in Nat
  BY FailurePathAssumption DEF Times
<1>2. PICK n \in Others : \A m \in Others : n <= m
  <2>1. Others \in SUBSET Nat
    OBVIOUS
  <2> HIDE DEF Others
  <2>2. QED
    BY <2>1, LeastNumber
<1>3. CASE n = 0
  <2>1. PowerOfTwo[0] = 1 /\ Doubled[0] = Base
    BY PowerEquation, DoubledEquation
  <2>2. QED
    BY <1>1, <1>2, <1>3, <2>1
<1>4. CASE n # 0
  <2>1. n - 1 \in Nat /\ n - 1 \notin Others /\ n \in Nat
    BY <1>2, <1>4
  <2>2. PowerOfTwo[n] = 2 * PowerOfTwo[n - 1] /\ PowerOfTwo[n - 1] \in Nat
    BY <1>4, <2>1, PowerEquation
  <2>3. Doubled[n] = 2 * Doubled[n - 1] /\ Doubled[n - 1] \in Nat
    BY <1>4, <2>1, DoubledEquation
  <2>4. Base * PowerOfTwo[n - 1] = Doubled[n - 1]
    BY <2>1
  <2>5. Base * PowerOfTwo[n] = Doubled[n]
    BY <1>1, <2>2, <2>3, <2>4
  <2>6. QED
    BY <1>2, <2>5
<1>5. QED
  BY <1>3, <1>4

-----------------------------------------------------------------------------
(* Delays *)

\* What the timers are to a proof.
LEMMA TimersAreTimes ==
    /\ Second \in Nat \ {0} /\ Base \in Nat \ {0} /\ MaxRetryDelay \in Nat \ {0} /\ ExecTimeout \in Nat \ {0}
    /\ SweepInterval \in Nat \ {0} /\ IdleDelay \in Nat \ {0}
    /\ PollInterval \in Nat \ {0} /\ BackoffMax \in Nat \ {0}
    /\ AiTimeout \in Nat \ {0} /\ BodyTimeout \in Nat \ {0}
    /\ MaxRetries \in Nat /\ MaxPieces \in Nat \ {0} /\ MaxNow \in Nat /\ Second <= MaxNow
    /\ SweepInterval <= IdleDelay /\ PollInterval <= BackoffMax
  BY FailurePathAssumption DEF Times

LEMMA LeastMost ==
    ASSUME NEW a \in Int, NEW b \in Int
    PROVE  /\ Least(a, b) = IF a <= b THEN a ELSE b
           /\ Most(a, b) = IF a <= b THEN b ELSE a
  BY DEF Least, Most, Min, Max

\* What a DATETIME loses is less than a second, and it loses it in order.
LEMMA SecondsAreClose ==
    ASSUME NEW t \in Nat, NEW u \in Nat
    PROVE  /\ Seconds(t) \in Nat /\ Seconds(t) <= t /\ t < Seconds(t) + Second
           /\ t <= u => Seconds(t) <= Seconds(u)
<1>1. \A v \in Nat : Seconds(v) \in Nat /\ Seconds(v) <= v /\ v < Seconds(v) + Second
  BY TimersAreTimes DEF Seconds
<1>2. ASSUME t <= u
      PROVE  Seconds(t) <= Seconds(u)
  <2> DEFINE a == t \div Second
             b == u \div Second
  <2>1. a \in Nat /\ b \in Nat /\ Seconds(t) = a * Second /\ Seconds(u) = b * Second
    BY TimersAreTimes DEF Seconds
  <2> HIDE DEF a, b
  <2>2. CASE a <= b
    BY <2>1, <2>2, TimersAreTimes
  <2>3. CASE b + 1 <= a
    <3>1. (b + 1) * Second <= a * Second
      BY <2>1, <2>3, TimersAreTimes
    <3>2. (b + 1) * Second = b * Second + Second
      BY <2>1, TimersAreTimes
    <3>3. QED
      BY <1>1, <1>2, <2>1, <3>1, <3>2, TimersAreTimes
  <2>4. QED
    BY <2>1, <2>2, <2>3
<1>3. QED
  BY <1>1, <1>2

\* computeNextScheduledAt waits as long as is expected before a retry.
LEMMA DelayIsExpected ==
    ASSUME NEW n \in Nat, strategy \in Strategies
    PROVE  ComputeDelay(n) = Expected(n + 1) /\ Expected(n + 1) \in Nat
<1> DEFINE d == CASE strategy = "EXPONENTIAL" -> Base * PowerOfTwo[n]
                  [] strategy = "LINEAR"      -> Base * (n + 1)
                  [] OTHER                    -> Base
<1>1. strategy \in {"FIXED", "LINEAR", "EXPONENTIAL"}
  BY FailurePathAssumption
<1>2. d \in Nat
  BY PowerEquation, TimersAreTimes
<1>3. d = CASE strategy = "FIXED"  -> Base
            [] strategy = "LINEAR" -> (n + 1) * Base
            [] OTHER               -> Doubled[(n + 1) - 1]
  <2>1. (n + 1) - 1 = n /\ Base * PowerOfTwo[n] = Doubled[n]
    BY PowersAreDoubled
  <2>2. Base * (n + 1) = (n + 1) * Base
    BY TimersAreTimes
  <2>3. QED
    BY <1>1, <2>1, <2>2
<1>4. ComputeDelay(n) = Least(d, MaxRetryDelay) /\ Expected(n + 1) = Least(MaxRetryDelay, d)
  BY <1>3 DEF ComputeDelay, Expected
<1> HIDE DEF d
<1>5. QED
  BY <1>2, <1>4, LeastMost, TimersAreTimes

\* The longest that computeBackoff draws.
LongestBackoff == BackoffMax + (BackoffMax * 2) \div 10

LEMMA BackoffIsBounded ==
    ASSUME NEW n \in Nat, NEW d \in ComputeBackoff(n)
    PROVE  d \in Nat /\ d <= LongestBackoff
<1> DEFINE power == PollInterval * PowerOfTwo[Least(n, 6)]
           capped == Least(power, BackoffMax)
           jitter == (capped * 2) \div 10
<1>1. Least(n, 6) \in Nat
  BY LeastMost
<1>2. power \in Nat
  BY <1>1, PowerEquation, TimersAreTimes
<1>3. capped \in Nat /\ capped <= BackoffMax
  <2> HIDE DEF power
  <2> QED
    BY <1>2, LeastMost, TimersAreTimes
<1>4. PICK x \in capped - jitter .. capped + jitter : d = Most(PollInterval, x)
  BY DEF ComputeBackoff
<1> HIDE DEF capped
<1>5. jitter \in Nat /\ jitter <= (BackoffMax * 2) \div 10 /\ (BackoffMax * 2) \div 10 \in Nat
  BY <1>3, TimersAreTimes
<1> HIDE DEF jitter
<1>6. x \in Int /\ x <= capped + jitter
  BY <1>3, <1>4, <1>5
<1>7. QED
  BY <1>3, <1>4, <1>5, <1>6, LeastMost, TimersAreTimes DEF LongestBackoff

-----------------------------------------------------------------------------
(* The inductive invariant *)

\* What the worker is at tells what the job is at.
Coupled ==
    /\ worker = "executing" <=> status = "RUNNING"
    /\ worker \in {"fetching", "reading"} <=> status = "FAILED" /\ notes = NoRow
    /\ status # "FAILED" => notes = NoRow /\ pieces = 0 /\ retries <= MaxRetries
    /\ status = "SCHEDULED" => retries > 0

\* No timer is late.
TimersOK ==
    /\ failedAt <= now
    /\ now <= sweepAt /\ sweepAt <= now + IdleDelay
    /\ worker # "polling" => now <= until
    /\ worker = "asleep" => until <= now + LongestBackoff

\* When the present retry is expected, and by when it has been promoted.
Due == failedAt + Expected(retries)

RetryOK ==
    retries > 0 =>
        /\ status \in {"SCHEDULED", "QUEUED"} => scheduledAt = Seconds(Due)
        /\ status = "SCHEDULED" => sweepAt <= Due + IdleDelay
        /\ status = "QUEUED" =>
              /\ scheduledAt <= Seconds(now)
              /\ worker = "asleep" => until <= Due + IdleDelay + LongestBackoff
              /\ worker = "polling" => now <= Due + IdleDelay + LongestBackoff
        /\ status = "RUNNING" => waited > Expected(retries) - Second

AnalysisOK ==
    /\ worker = "fetching" => until = failedAt + AiTimeout /\ pieces = 0
    /\ worker = "reading" => until <= failedAt + AiTimeout + pieces * BodyTimeout
    /\ AnalysisIsUsable

FailureInv == TypeOK /\ Coupled /\ TimersOK /\ RetryOK /\ AnalysisOK

LEMMA Numbers ==
    ASSUME TypeOK
    PROVE  /\ now \in Nat /\ now <= MaxNow /\ retries \in Nat /\ retries <= MaxRetries + 1
           /\ scheduledAt \in Nat /\ failedAt \in Nat /\ waited \in Nat /\ sweepAt \in Nat /\ until \in Nat
           /\ streak \in Nat /\ streak <= 6 /\ pieces \in Nat /\ pieces <= MaxPieces
           /\ \A i \in Nat : i > 0 => Expected(i) \in Nat
<1>1. ASSUME NEW i \in Nat, i > 0
      PROVE  Expected(i) \in Nat
  <2>1. i - 1 \in Nat /\ (i - 1) + 1 = i
    BY <1>1
  <2>2. Expected((i - 1) + 1) \in Nat
    BY <2>1, DelayIsExpected DEF TypeOK
  <2>3. QED
    BY <2>1, <2>2
<1>2. QED
  BY <1>1, TimersAreTimes DEF TypeOK

LEMMA SameExpectation ==
    ASSUME strategy' = strategy, NEW i
    PROVE  Expected(i)' = Expected(i)
  BY DEF Expected

LEMMA FailureInvInit == Init => FailureInv
<1> SUFFICES ASSUME Init
             PROVE  FailureInv
  OBVIOUS
<1>1. TypeOK
  BY TimersAreTimes DEF Init, TypeOK
<1>2. Coupled
  BY TimersAreTimes DEF Init, Coupled
<1>3. TimersOK
  BY TimersAreTimes DEF Init, TimersOK
<1>4. RetryOK
  BY DEF Init, RetryOK
<1>5. AnalysisOK
  BY DEF Init, AnalysisOK, AnalysisIsUsable
<1>6. QED
  BY <1>1, <1>2, <1>3, <1>4, <1>5 DEF FailureInv

LEMMA SweepSteps == FailureInv /\ ~ Done /\ Sweep => FailureInv'
<1> SUFFICES ASSUME FailureInv, ~ Done, Sweep
             PROVE  FailureInv'
  OBVIOUS
<1>1. /\ UNCHANGED <<now, strategy, retries, scheduledAt, failedAt, waited, worker, until, streak, pieces, notes>>
      /\ now >= sweepAt
      /\ status' = IF Promotable THEN "QUEUED" ELSE status
      /\ sweepAt' = now + (IF Promotable THEN SweepInterval ELSE IdleDelay)
  BY DEF Sweep, workerVars
<1>2. TypeOK /\ Coupled /\ TimersOK /\ RetryOK /\ AnalysisOK
  BY DEF FailureInv
<1>3. sweepAt' \in Nat /\ now <= sweepAt' /\ sweepAt' <= now + IdleDelay
  BY <1>1, <1>2, Numbers, TimersAreTimes
<1>4. TypeOK'
  BY <1>1, <1>2, <1>3 DEF TypeOK
<1>5. Coupled' /\ AnalysisOK'
  BY <1>1, <1>2 DEF Coupled, AnalysisOK, AnalysisIsUsable, Promotable
<1>6. TimersOK'
  BY <1>1, <1>2, <1>3 DEF TimersOK
<1>7. RetryOK'
  <2> SUFFICES ASSUME retries > 0
               PROVE  RetryOK'
    BY <1>1 DEF RetryOK
  <2>1. Due' = Due /\ Due \in Nat /\ Expected(retries)' = Expected(retries)
    BY <1>1, <1>2, Numbers, SameExpectation DEF Due
  <2>2. CASE Promotable
    <3>1. status = "SCHEDULED" /\ status' = "QUEUED" /\ scheduledAt = Seconds(Due) /\ scheduledAt <= Seconds(now)
      BY <1>1, <1>2, <2>2 DEF Promotable, RetryOK
    <3>2. now <= Due + IdleDelay
      BY <1>2, <2>1, <3>1, Numbers, TimersAreTimes DEF RetryOK, TimersOK
    <3>3. LongestBackoff \in Nat
      BY TimersAreTimes DEF LongestBackoff
    <3>4. worker = "asleep" => until <= Due + IdleDelay + LongestBackoff
      BY <1>2, <2>1, <3>2, <3>3, Numbers, TimersAreTimes DEF TimersOK
    <3>5. now <= Due + IdleDelay + LongestBackoff
      BY <1>2, <2>1, <3>2, <3>3, Numbers, TimersAreTimes
    <3>6. Seconds(Due)' = Seconds(Due) /\ Seconds(now)' = Seconds(now)
      BY <1>1, <2>1 DEF Seconds
    <3>7. QED
      BY <1>1, <2>1, <3>1, <3>4, <3>5, <3>6 DEF RetryOK
  <2>3. CASE ~ Promotable
    <3>1. status' = status /\ sweepAt' = now + IdleDelay
      BY <1>1, <2>3
    <3>2. status = "SCHEDULED" => sweepAt' <= Due + IdleDelay
      <4> SUFFICES ASSUME status = "SCHEDULED"
                   PROVE  now <= Due
        BY <1>2, <2>1, <3>1, Numbers, TimersAreTimes
      <4>1. ~ (Seconds(Due) <= Seconds(now))
        BY <1>2, <2>3 DEF Promotable, RetryOK
      <4>2. now \in Nat
        BY <1>2, Numbers
      <4>3. QED
        BY <2>1, <4>1, <4>2, SecondsAreClose
    <3>3. Seconds(Due)' = Seconds(Due) /\ Seconds(now)' = Seconds(now)
      BY <1>1, <2>1 DEF Seconds
    <3>4. QED
      BY <1>1, <1>2, <2>1, <3>1, <3>2, <3>3 DEF RetryOK
  <2>4. QED
    BY <2>2, <2>3
<1>8. QED
  BY <1>4, <1>5, <1>6, <1>7 DEF FailureInv

\* The attempt that starts is as late as it was promised.
LEMMA ClaimSteps == FailureInv /\ Claim => FailureInv'
<1> SUFFICES ASSUME FailureInv, Claim
             PROVE  FailureInv'
  OBVIOUS
<1>1. /\ UNCHANGED <<now, strategy, retries, scheduledAt, failedAt, sweepAt, streak, pieces, notes>>
      /\ worker = "polling" /\ status = "QUEUED" /\ status' = "RUNNING" /\ worker' = "executing"
      /\ waited' = IF retries > 0 THEN now - failedAt ELSE 0
      /\ until' = now + ExecTimeout
  BY DEF Claim
<1>2. TypeOK /\ Coupled /\ TimersOK /\ RetryOK /\ AnalysisOK
  BY DEF FailureInv
<1>3. waited' \in Nat /\ until' \in Nat /\ now <= until'
  BY <1>1, <1>2, Numbers, TimersAreTimes DEF TimersOK
<1>4. TypeOK'
  BY <1>1, <1>2, <1>3 DEF TypeOK
<1>5. Coupled' /\ AnalysisOK'
  BY <1>1, <1>2 DEF Coupled, AnalysisOK, AnalysisIsUsable
<1>6. TimersOK'
  BY <1>1, <1>2, <1>3 DEF TimersOK
<1>7. RetryOK'
  <2> SUFFICES ASSUME retries > 0
               PROVE  RetryOK'
    BY <1>1 DEF RetryOK
  <2>1. Due \in Nat /\ Expected(retries) \in Nat /\ now \in Nat /\ failedAt \in Nat
    BY <1>2, Numbers DEF Due
  <2>2. Seconds(Due) <= Seconds(now)
    BY <1>1, <1>2 DEF RetryOK
  <2>3. Due < Seconds(Due) + Second /\ Seconds(now) <= now /\ Seconds(Due) \in Nat /\ Seconds(now) \in Nat
    BY <2>1, SecondsAreClose
  <2>4. now - failedAt > Expected(retries) - Second
    BY <2>1, <2>2, <2>3, TimersAreTimes DEF Due
  <2>5. waited' > Expected(retries)' - Second
    BY <1>1, <2>4, SameExpectation
  <2>6. QED
    BY <1>1, <2>5 DEF RetryOK
<1>8. QED
  BY <1>4, <1>5, <1>6, <1>7 DEF FailureInv

\* Steps of the worker that leave the job and the clock alone.
LEMMA SameDue ==
    ASSUME UNCHANGED <<now, strategy, status, retries, scheduledAt, failedAt, waited, sweepAt>>
    PROVE  /\ Due' = Due /\ Expected(retries)' = Expected(retries)
           /\ Seconds(Due)' = Seconds(Due) /\ Seconds(now)' = Seconds(now)
  BY SameExpectation DEF Due, Seconds

LEMMA PollNothingSteps == FailureInv /\ ~ Done /\ PollNothing => FailureInv'
<1> SUFFICES ASSUME FailureInv, ~ Done, PollNothing
             PROVE  FailureInv'
  OBVIOUS
<1>1. /\ UNCHANGED <<now, strategy, status, retries, scheduledAt, failedAt, waited, sweepAt, pieces, notes>>
      /\ worker = "polling" /\ status # "QUEUED" /\ worker' = "asleep"
      /\ streak' = Least(streak + 1, 6)
  BY DEF PollNothing, jobVars
<1>2. TypeOK /\ Coupled /\ TimersOK /\ RetryOK /\ AnalysisOK
  BY DEF FailureInv
<1>3. PICK d \in ComputeBackoff(streak + 1) : until' = now + d
  BY DEF PollNothing
<1>4. d \in Nat /\ d <= LongestBackoff /\ LongestBackoff \in Nat
  <2>1. streak + 1 \in Nat
    BY <1>2, Numbers
  <2>2. QED
    BY <2>1, BackoffIsBounded, TimersAreTimes DEF LongestBackoff
<1>5. until' \in Nat /\ now <= until' /\ until' <= now + LongestBackoff
  BY <1>2, <1>3, <1>4, Numbers
<1>6. streak' \in 0 .. 6
  BY <1>1, <1>2, Numbers, LeastMost
<1>7. TypeOK'
  BY <1>1, <1>2, <1>5, <1>6 DEF TypeOK
<1>8. Coupled' /\ AnalysisOK'
  BY <1>1, <1>2 DEF Coupled, AnalysisOK, AnalysisIsUsable
<1>9. TimersOK'
  BY <1>1, <1>2, <1>5 DEF TimersOK, LongestBackoff
<1>10. RetryOK'
  BY <1>1, <1>2, SameDue DEF RetryOK
<1>11. QED
  BY <1>7, <1>8, <1>9, <1>10 DEF FailureInv

LEMMA WakeSteps == FailureInv /\ Wake => FailureInv'
<1> SUFFICES ASSUME FailureInv, Wake
             PROVE  FailureInv'
  OBVIOUS
<1>1. /\ UNCHANGED <<now, strategy, status, retries, scheduledAt, failedAt, waited, sweepAt, until, streak, pieces, notes>>
      /\ worker = "asleep" /\ now = until /\ worker' = "polling"
  BY DEF Wake, jobVars
<1>2. TypeOK /\ Coupled /\ TimersOK /\ RetryOK /\ AnalysisOK
  BY DEF FailureInv
<1>3. TypeOK' /\ Coupled' /\ AnalysisOK' /\ TimersOK'
  BY <1>1, <1>2 DEF TypeOK, Coupled, AnalysisOK, AnalysisIsUsable, TimersOK
<1>4. RetryOK'
  BY <1>1, <1>2, SameDue DEF RetryOK, LongestBackoff
<1>5. QED
  BY <1>3, <1>4 DEF FailureInv

LEMMA SucceedSteps == FailureInv /\ Succeed => FailureInv'
<1> SUFFICES ASSUME FailureInv, Succeed
             PROVE  FailureInv'
  OBVIOUS
<1>1. /\ UNCHANGED <<now, strategy, retries, scheduledAt, failedAt, waited, sweepAt, until, pieces, notes>>
      /\ worker = "executing" /\ status' = "SUCCEEDED" /\ worker' = "polling" /\ streak' = 0
  BY DEF Succeed, BackToLoop
<1>2. TypeOK /\ Coupled /\ TimersOK /\ RetryOK /\ AnalysisOK
  BY DEF FailureInv
<1>3. TypeOK' /\ Coupled' /\ AnalysisOK' /\ TimersOK'
  BY <1>1, <1>2 DEF TypeOK, Coupled, AnalysisOK, AnalysisIsUsable, TimersOK
<1>4. RetryOK'
  BY <1>1 DEF RetryOK
<1>5. QED
  BY <1>3, <1>4 DEF FailureInv

LEMMA FailSteps == FailureInv /\ Fail => FailureInv'
<1> SUFFICES ASSUME FailureInv, Fail
             PROVE  FailureInv'
  OBVIOUS
<1>1. /\ UNCHANGED <<now, strategy, sweepAt, pieces>>
      /\ worker = "executing" /\ retries' = retries + 1 /\ failedAt' = now /\ waited' = 0
  BY DEF Fail
<1>2. TypeOK /\ Coupled /\ TimersOK /\ RetryOK /\ AnalysisOK
  BY DEF FailureInv
<1>3. status = "RUNNING" /\ notes = NoRow /\ pieces = 0 /\ retries \in Nat /\ retries <= MaxRetries
  BY <1>1, <1>2, Numbers DEF Coupled
<1>4. retries' \in 0 .. MaxRetries + 1 /\ retries' > 0
  BY <1>1, <1>3, TimersAreTimes
<1>5. CASE Retry
  <2>1. /\ ~ Exhausted /\ status' = "SCHEDULED" /\ scheduledAt' = Seconds(now + ComputeDelay(retries))
        /\ worker' = "polling" /\ streak' = 0 /\ UNCHANGED <<until, notes>>
    BY <1>5 DEF Retry, BackToLoop
  <2>2. ComputeDelay(retries) = Expected(retries + 1) /\ Expected(retries + 1) \in Nat
    BY <1>2, <1>3, DelayIsExpected DEF TypeOK
  <2>3. Due' = now + Expected(retries + 1)
    <3>1. Expected(retries)' = Expected(retries + 1)
      BY <1>1 DEF Expected
    <3>2. QED
      BY <1>1, <3>1 DEF Due
  <2>4. Due' \in Nat /\ scheduledAt' = Seconds(now + Expected(retries + 1)) /\ scheduledAt' \in Nat
    BY <1>2, <2>1, <2>2, <2>3, Numbers, SecondsAreClose
  <2>5. Seconds(Due)' = scheduledAt'
    BY <2>3, <2>4 DEF Seconds
  <2>6. TypeOK'
    BY <1>1, <1>2, <1>4, <2>1, <2>4 DEF TypeOK
  <2>7. Coupled'
    BY <1>1, <1>3, <1>4, <2>1, TimersAreTimes DEF Coupled, Exhausted
  <2>8. TimersOK' /\ AnalysisOK'
    BY <1>1, <1>2, <2>1, Numbers DEF TimersOK, AnalysisOK, AnalysisIsUsable
  <2>9. RetryOK'
    <3>1. sweepAt' <= Due' + IdleDelay
      BY <1>1, <1>2, <2>2, <2>3, Numbers, TimersAreTimes DEF TimersOK
    <3>2. QED
      BY <2>1, <2>5, <3>1 DEF RetryOK
  <2>10. QED
    BY <2>6, <2>7, <2>8, <2>9 DEF FailureInv
<1>6. CASE Exhaust
  <2>1. status' = "FAILED" /\ scheduledAt' = scheduledAt
    BY <1>6 DEF Exhaust
  <2>2. RetryOK'
    BY <2>1 DEF RetryOK
  <2>3. CASE WriteNotes(Fallback)
    <3>1. notes' = Fallback /\ worker' = "polling" /\ streak' = 0 /\ until' = until
      BY <2>3 DEF WriteNotes, BackToLoop
    <3>2. Fallback # NoRow
      BY DEF Fallback, NoRow
    <3>3. TypeOK'
      BY <1>1, <1>2, <1>4, <2>1, <3>1, Numbers DEF TypeOK, Fallback
    <3>4. Coupled' /\ TimersOK'
      BY <1>1, <1>2, <2>1, <3>1, <3>2, Numbers DEF Coupled, TimersOK
    <3>5. AnalysisOK'
      BY <3>1 DEF AnalysisOK, AnalysisIsUsable, Fallback
    <3>6. QED
      BY <2>2, <3>3, <3>4, <3>5 DEF FailureInv
  <2>4. CASE Fetch /\ UNCHANGED <<streak, notes>>
    <3>1. worker' = "fetching" /\ until' = now + AiTimeout /\ UNCHANGED <<streak, notes>>
      BY <2>4 DEF Fetch
    <3>2. until' \in Nat /\ now <= until'
      BY <1>2, <3>1, Numbers, TimersAreTimes
    <3>3. TypeOK'
      BY <1>1, <1>2, <1>4, <2>1, <3>1, <3>2, Numbers DEF TypeOK
    <3>4. Coupled'
      BY <1>3, <2>1, <3>1 DEF Coupled
    <3>5. TimersOK'
      BY <1>1, <1>2, <3>1, <3>2, Numbers DEF TimersOK
    <3>6. AnalysisOK'
      BY <1>1, <1>3, <3>1 DEF AnalysisOK, AnalysisIsUsable
    <3>7. QED
      BY <2>2, <3>3, <3>4, <3>5, <3>6 DEF FailureInv
  <2>5. QED
    BY <1>6, <2>3, <2>4 DEF Exhaust
<1>7. QED
  BY <1>5, <1>6 DEF Fail

\* With each piece that it sends the hub gains as long as a pause may last.
LEMMA HearSteps ==
    ASSUME FailureInv, Hear, pieces < MaxPieces,
           worker \in {"fetching", "reading"}
    PROVE  FailureInv'
<1>1. /\ UNCHANGED <<now, strategy, status, retries, scheduledAt, failedAt, waited, sweepAt, streak, notes>>
      /\ worker' = "reading" /\ until' = now + BodyTimeout /\ pieces' = pieces + 1
  BY DEF Hear, jobVars
<1>2. TypeOK /\ Coupled /\ TimersOK /\ RetryOK /\ AnalysisOK
  BY DEF FailureInv
<1>3. now <= failedAt + AiTimeout + pieces * BodyTimeout
  <2>1. pieces * BodyTimeout \in Nat /\ (worker = "fetching" => pieces * BodyTimeout = 0)
    BY <1>2, Numbers, TimersAreTimes DEF AnalysisOK
  <2>2. QED
    BY <1>2, <2>1, Numbers, TimersAreTimes DEF TimersOK, AnalysisOK
<1>4. until' \in Nat /\ now <= until' /\ until' <= failedAt + AiTimeout + pieces' * BodyTimeout
  <2>1. pieces' * BodyTimeout = pieces * BodyTimeout + BodyTimeout /\ pieces * BodyTimeout \in Nat
    BY <1>1, <1>2, Numbers, TimersAreTimes
  <2>2. QED
    BY <1>1, <1>2, <1>3, <2>1, Numbers, TimersAreTimes
<1>5. pieces' \in 0 .. MaxPieces
  BY <1>1, <1>2, Numbers, TimersAreTimes
<1>6. TypeOK' /\ Coupled' /\ TimersOK'
  BY <1>1, <1>2, <1>4, <1>5 DEF TypeOK, Coupled, TimersOK
<1>7. AnalysisOK'
  BY <1>1, <1>2, <1>4 DEF AnalysisOK, AnalysisIsUsable
<1>8. RetryOK'
  BY <1>1, <1>2 DEF RetryOK, Coupled
<1>9. QED
  BY <1>6, <1>7, <1>8 DEF FailureInv

LEMMA HeadersSteps == FailureInv /\ Headers => FailureInv'
<1> SUFFICES ASSUME FailureInv, Headers
             PROVE  FailureInv'
  OBVIOUS
<1>1. pieces = 0 /\ pieces < MaxPieces
  BY TimersAreTimes DEF Headers, FailureInv, AnalysisOK
<1>2. QED
  BY <1>1, HearSteps DEF Headers

LEMMA PieceSteps == FailureInv /\ Piece => FailureInv'
  BY HearSteps DEF Piece

\* Whatever the analysis is, a dead letter row with it closes the job.
LEMMA NotesSteps ==
    ASSUME FailureInv, worker \in {"fetching", "reading"}, UNCHANGED <<now, jobVars, sweepAt, pieces>>,
           NEW a \in [text : {"fallback", "default", "model"}, score : 0 .. 10, by : {"model", "FALLBACK"}],
           a.by = "FALLBACK" => a.score = 0, WriteNotes(a)
    PROVE  FailureInv'
<1>1. /\ UNCHANGED <<now, strategy, status, retries, scheduledAt, failedAt, waited, sweepAt, until, pieces>>
      /\ notes' = a /\ worker' = "polling" /\ streak' = 0
  BY DEF jobVars, WriteNotes, BackToLoop
<1>2. TypeOK /\ Coupled /\ TimersOK /\ RetryOK /\ AnalysisOK
  BY DEF FailureInv
<1>3. status = "FAILED" /\ a # NoRow
  BY <1>2 DEF Coupled, NoRow
<1>4. a \in [text : {"fallback", "default", "model"}, score : Int, by : {"model", "FALLBACK"}]
  OBVIOUS
<1>5. TypeOK'
  BY <1>1, <1>2, <1>4 DEF TypeOK
<1>6. Coupled' /\ TimersOK' /\ RetryOK'
  BY <1>1, <1>2, <1>3 DEF Coupled, TimersOK, RetryOK
<1>7. AnalysisOK'
  BY <1>1 DEF AnalysisOK, AnalysisIsUsable
<1>8. QED
  BY <1>5, <1>6, <1>7 DEF FailureInv

LEMMA AnalysisFailsSteps == FailureInv /\ AnalysisFails => FailureInv'
  BY NotesSteps DEF AnalysisFails, Fallback

LEMMA BodySteps == FailureInv /\ Body => FailureInv'
<1> SUFFICES ASSUME FailureInv, Body
             PROVE  FailureInv'
  OBVIOUS
<1> DEFINE analysis(c) == IF ExtractJson(c) THEN NormalizeAnalysis(c) ELSE Fallback
<1>1. PICK c \in Contents : WriteNotes(analysis(c))
  BY DEF Body
<1>2. Score(c) \in 0 .. 10
  BY LeastMost DEF Contents, Score
<1>3. /\ analysis(c) \in [text : {"fallback", "default", "model"}, score : 0 .. 10, by : {"model", "FALLBACK"}]
      /\ analysis(c).by = "FALLBACK" => analysis(c).score = 0
  BY <1>2 DEF NormalizeAnalysis, Fallback
<1> HIDE DEF analysis
<1>4. QED
  BY <1>1, <1>3, NotesSteps DEF Body

LEMMA TickSteps == FailureInv /\ Tick => FailureInv'
<1> SUFFICES ASSUME FailureInv, Tick
             PROVE  FailureInv'
  OBVIOUS
<1>1. /\ UNCHANGED <<strategy, status, retries, scheduledAt, failedAt, waited, sweepAt, worker, until, streak, pieces, notes>>
      /\ now < MaxNow /\ now < sweepAt /\ worker # "polling" /\ now < until /\ now' = now + 1
  BY DEF Tick, jobVars, workerVars
<1>2. TypeOK /\ Coupled /\ TimersOK /\ RetryOK /\ AnalysisOK
  BY DEF FailureInv
<1>3. now' \in 0 .. MaxNow /\ LongestBackoff \in Nat
  BY <1>1, <1>2, Numbers, TimersAreTimes DEF LongestBackoff
<1>4. TypeOK' /\ Coupled' /\ AnalysisOK'
  BY <1>1, <1>2, <1>3 DEF TypeOK, Coupled, AnalysisOK, AnalysisIsUsable
<1>5. TimersOK'
  <2>1. worker = "asleep" => until <= now' + LongestBackoff
    BY <1>1, <1>2, <1>3, Numbers DEF TimersOK
  <2>2. failedAt <= now' /\ now' <= sweepAt /\ sweepAt <= now' + IdleDelay /\ now' <= until
    BY <1>1, <1>2, Numbers, TimersAreTimes DEF TimersOK
  <2>3. QED
    BY <1>1, <2>1, <2>2 DEF TimersOK, LongestBackoff
<1>6. RetryOK'
  <2> SUFFICES ASSUME retries > 0
               PROVE  RetryOK'
    BY <1>1 DEF RetryOK
  <2>1. Due' = Due /\ Expected(retries)' = Expected(retries) /\ Seconds(Due)' = Seconds(Due)
    BY <1>1, SameExpectation DEF Due, Seconds
  <2>2. Seconds(now)' = Seconds(now') /\ Seconds(now) <= Seconds(now') /\ Seconds(now) \in Nat /\ Seconds(now') \in Nat
    <3>1. now \in Nat /\ now' \in Nat /\ now <= now'
      BY <1>1, <1>2, Numbers
    <3>2. Seconds(now)' = Seconds(now')
      BY DEF Seconds
    <3>3. QED
      BY <3>1, <3>2, SecondsAreClose
  <2>3. status = "QUEUED" => scheduledAt <= Seconds(now)'
    BY <1>2, <2>2, Numbers DEF RetryOK
  <2>4. LongestBackoff' = LongestBackoff
    BY DEF LongestBackoff
  <2>5. QED
    BY <1>1, <1>2, <2>1, <2>3, <2>4 DEF RetryOK
<1>7. QED
  BY <1>4, <1>5, <1>6 DEF FailureInv

LEMMA FailureInvSteps == FailureInv /\ [Next]_vars => FailureInv'
<1> SUFFICES ASSUME FailureInv, [Next]_vars
             PROVE  FailureInv'
  OBVIOUS
<1>1. CASE ~ Done /\ (Sweep \/ Claim \/ PollNothing \/ Wake \/ Tick)
  BY <1>1, SweepSteps, ClaimSteps, PollNothingSteps, WakeSteps, TickSteps
<1>2. CASE Succeed \/ Fail
  BY <1>2, SucceedSteps, FailSteps
<1>3. CASE Headers \/ Piece \/ AnalysisFails \/ Body
  BY <1>3, HeadersSteps, PieceSteps, AnalysisFailsSteps, BodySteps
<1>4. CASE Rest \/ UNCHANGED vars
  <2>1. UNCHANGED <<now, strategy, status, retries, scheduledAt, failedAt, waited, sweepAt, worker, until, streak, pieces, notes>>
    BY <1>4 DEF Rest, vars, jobVars, workerVars
  <2>2. TypeOK /\ Coupled /\ TimersOK /\ RetryOK /\ AnalysisOK
    BY DEF FailureInv
  <2>3. TypeOK' /\ Coupled' /\ TimersOK' /\ AnalysisOK'
    BY <2>1, <2>2 DEF TypeOK, Coupled, TimersOK, LongestBackoff, AnalysisOK, AnalysisIsUsable
  <2>4. RetryOK'
    BY <2>1, <2>2, SameDue DEF RetryOK, LongestBackoff
  <2>5. QED
    BY <2>3, <2>4 DEF FailureInv
<1>5. QED
  BY <1>1, <1>2, <1>3, <1>4 DEF Next

LEMMA FailureInvariant == Spec => []FailureInv
  BY FailureInvInit, FailureInvSteps, PTL DEF Spec

-----------------------------------------------------------------------------
(* Theorems *)

\* The type invariant: retry_count never exceeds max_retries by more than the
\* failure that exhausts it, and no time is before the beginning.
THEOREM FailurePathTypeCorrect == Spec => []TypeOK
<1>1. FailureInv => TypeOK
  BY DEF FailureInv
<1>2. QED
  BY <1>1, FailureInvariant, PTL

\* No retry starts a second or more before its backoff has passed
\* (computeNextScheduledAt, the DATETIME column and the promotion together).
THEOREM NoRetryIsEarly == Spec => []RetriesAreSpaced
<1>1. FailureInv => RetriesAreSpaced
  BY DEF FailureInv, RetryOK, RetriesAreSpaced
<1>2. QED
  BY <1>1, FailureInvariant, PTL

\* No retry is kept waiting beyond its backoff, one idle pause of the scheduler and
\* one pause of the worker.
THEOREM NoRetryIsForgotten == Spec => []RetriesArePrompt
<1>1. FailureInv => RetriesArePrompt
  <2> SUFFICES ASSUME FailureInv, retries > 0, status \in {"SCHEDULED", "QUEUED"}
               PROVE  now - failedAt <= Expected(retries) + IdleDelay + BackoffMax + (BackoffMax * 2) \div 10
    BY DEF RetriesArePrompt
  <2>1. TypeOK /\ Coupled /\ TimersOK /\ RetryOK
    BY DEF FailureInv
  <2>2. Due \in Nat /\ Expected(retries) \in Nat /\ now \in Nat /\ failedAt \in Nat /\ sweepAt \in Nat /\ until \in Nat
    BY <2>1, Numbers DEF Due
  <2>3. LongestBackoff \in Nat /\ (BackoffMax * 2) \div 10 \in Nat
    BY TimersAreTimes DEF LongestBackoff
  <2>4. now <= Due + IdleDelay + LongestBackoff
    <3>1. CASE status = "SCHEDULED"
      BY <2>1, <2>2, <2>3, <3>1, TimersAreTimes DEF RetryOK, TimersOK
    <3>2. CASE status = "QUEUED"
      <4>1. worker \in {"polling", "asleep"}
        BY <2>1, <3>2 DEF Coupled, TypeOK
      <4>2. QED
        BY <2>1, <2>2, <2>3, <3>2, <4>1, TimersAreTimes DEF RetryOK, TimersOK
    <3>3. QED
      BY <3>1, <3>2
  <2>5. QED
    BY <2>2, <2>3, <2>4, TimersAreTimes DEF Due, LongestBackoff
<1>2. QED
  BY <1>1, FailureInvariant, PTL

\* While an exhausted job waits for its dead letter row, somebody is at it, and what
\* the hub has sent accounts for the wait: AI_TIMEOUT_MS ends the silence before the
\* headers, and after them nothing but a pause of BodyTimeout does.
THEOREM DeadLetterIsInTime == Spec => []DeadLettersAreInTime
<1>1. FailureInv => DeadLettersAreInTime
  <2> SUFFICES ASSUME FailureInv, status = "FAILED", notes = NoRow
               PROVE  now - failedAt <= AiTimeout + pieces * BodyTimeout
    BY DEF DeadLettersAreInTime
  <2>1. worker \in {"fetching", "reading"} /\ now <= until
    BY DEF FailureInv, Coupled, TimersOK
  <2>2. pieces * BodyTimeout \in Nat
    BY Numbers, TimersAreTimes DEF FailureInv
  <2>3. until <= failedAt + AiTimeout + pieces * BodyTimeout
    <3>1. CASE worker = "fetching"
      BY <2>2, <3>1, Numbers, TimersAreTimes DEF FailureInv, AnalysisOK
    <3>2. CASE worker = "reading"
      BY <3>2 DEF FailureInv, AnalysisOK
    <3>3. QED
      BY <2>1, <3>1, <3>2
  <2>4. QED
    BY <2>1, <2>2, <2>3, Numbers, TimersAreTimes DEF FailureInv
<1>2. QED
  BY <1>1, FailureInvariant, PTL

\* Whatever the model answers, the row holds a score between 0 and 1 (in tenths
\* here), and 0 when the notes are the fallback's.
THEOREM RowsAreUsable == Spec => []AnalysisIsUsable
<1>1. FailureInv => AnalysisIsUsable
  BY DEF FailureInv, AnalysisOK
<1>2. QED
  BY <1>1, FailureInvariant, PTL

=============================================================================
