--------------------------- MODULE NebulaApiProofs ---------------------------
(***************************************************************************)
(* Theorems about NebulaApi for every set of connections, requests, queues *)
(* and dead letter rows, every owner of them, and every budget of faults.  *)
(*                                                                         *)
(* Everything rests on WalksAreInOrder: a handler stands at a statement    *)
(* that its request has a right to, because the chain of its route and the *)
(* checks before that statement have passed.                               *)
(***************************************************************************)
EXTENDS NebulaApi, FiniteSetTheorems, SequenceTheorems, TLAPS

Job == [key : Keys \cup {NoKey}, of : Dead \cup {NoRow}, by : Shapes]

\* How far the handler of r may have come when it waits for statement s.
Reached(s, r) ==
    \/ s = Entry(r)
    \/ s \in {"key", "insert"} /\ r.route = "enqueue" /\ Owns(r)
    \/ s = "update" /\ r.route \in {"pause", "resume", "updateQueue"} /\ Owns(r)
    \/ s = "replay" /\ r.route = "replay" /\ Owns(r)
    \/ s = "create" /\ r.route \in {"register", "createProject", "createQueue"}

Entitled(c) ==
    /\ req[c] \in Shapes
    /\ Refusal(req[c]) = Passed
    /\ Reached(stage[c], req[c])

WalksAreInOrder == \A c \in Conns : Serving(c) => Entitled(c)

ConnsOK ==
    /\ stage \in [Conns -> Stages]
    /\ req \in [Conns -> Shapes \cup {NoRequest}]
    /\ gone \in [Conns -> BOOLEAN]

TablesOK ==
    /\ jobs \in Seq(Job)
    /\ told \in [Keys -> SUBSET (DOMAIN jobs)]
    /\ pausedBy \in [Rows -> Shapes \cup {NoRequest}]
    /\ made \in [Names -> 0 .. 1]
    /\ replayJob \in [Dead -> {NoJob} \cup DOMAIN jobs]

TypeInv == TypeOK /\ WalksAreInOrder

LEMMA TypeParts == HandlersTypeOK <=> ConnsOK /\ TablesOK
BY DEF HandlersTypeOK, ConnsOK, TablesOK, Job

-----------------------------------------------------------------------------
(* The process *)

LEMMA ServerTypeStep ==
    ASSUME ServerTypeOK, [Next]_apiVars
    PROVE  ServerTypeOK'
<1>0. 0 \in 0 .. Attempts /\ 1 \in 0 .. Attempts
  BY ApiServerAssumption
<1> USE ApiServerAssumption DEF ServerTypeOK
<1>1. CASE UNCHANGED serverVars
  BY <1>1 DEF serverVars
<1>2. ASSUME NEW kind, Fault(kind)
      PROVE  faults' \in 0 .. MaxFaults
  BY <1>2 DEF Fault
<1>3. ASSUME NEW code \in {"0", "1", "killed"}, Exits(code), faults' \in 0 .. MaxFaults
      PROVE  ServerTypeOK'
  BY <1>0, <1>3 DEF Exits
<1>4. CASE Start \/ Connect
  BY <1>0, <1>4 DEF Start, Connect, ConnectDb
<1>5. CASE ConnectFails
  <2>1. faults' \in 0 .. MaxFaults
    BY <1>2, <1>5 DEF ConnectFails
  <2>2. QED
    BY <1>3, <1>5, <2>1 DEF ConnectFails
<1>6. CASE SignalConnecting \/ Crash
  BY <1>2, <1>3, <1>6 DEF SignalConnecting, Crash
<1>7. ASSUME NEW sig \in Signals, SignalListening(sig) \/ SignalAgain(sig)
      PROVE  ServerTypeOK'
  <2>1. faults' \in 0 .. MaxFaults
    BY <1>2, <1>7 DEF SignalListening, SignalAgain
  <2>2. QED
    BY <1>3, <1>7, <2>1 DEF SignalListening, SignalAgain
<1>8. CASE Drained \/ PoolClosed \/ HardKill
  BY <1>3, <1>8 DEF Drained, PoolClosed, HardKill
<1>9. ASSUME NEW c \in Conns, ConnStep(c)
      PROVE  ServerTypeOK'
  <2>1. /\ UNCHANGED <<phase, attempt, isReady, signals, pool, exit>>
        /\ faults' = faults \/ \E kind \in ApiFaults : Fault(kind)
    BY <1>9 DEF ConnStep, Arrive, Disconnect, HangUp, HandlerStep, FindQueue, FindKey,
                InsertJob, FindDead, Replay, UpdateQueue, FindEmail, FindProject, Create,
                Read, StatementFails, AckLost, Fault, serverVars
  <2>2. QED
    BY <1>2, <2>1
<1>10. QED
  BY <1>1, <1>4, <1>5, <1>6, <1>7, <1>8, <1>9 DEF Next, ServerStep, apiVars

-----------------------------------------------------------------------------
(* The connections *)

LEMMA ConnsStep ==
    ASSUME ConnsOK, WalksAreInOrder, [Next]_apiVars
    PROVE  ConnsOK' /\ WalksAreInOrder'
<1> USE DEF ConnsOK
<1>1. CASE UNCHANGED connVars
  BY <1>1 DEF connVars, WalksAreInOrder, Entitled, Serving
<1>2. CASE ServerStep
  <2>1. CASE phase' = "down"
    BY <1>2, <2>1 DEF ServerStep, EndsWithProcess, Stages, WalksAreInOrder, Serving
  <2>2. QED
    BY <1>1, <1>2, <2>1 DEF ServerStep, EndsWithProcess
<1>3. ASSUME NEW c \in Conns, Answer(c)
      PROVE  ConnsOK' /\ WalksAreInOrder'
  BY <1>3 DEF Answer, Stages, WalksAreInOrder, Entitled, Serving
<1>4. ASSUME NEW c \in Conns, NEW next \in Stages, Continue(c, next),
             Serving(c) /\ Reached(next, req[c])
      PROVE  ConnsOK' /\ WalksAreInOrder'
  BY <1>4 DEF Continue, WalksAreInOrder, Entitled, Serving
<1>5. ASSUME NEW c \in Conns, NEW r \in Shapes, Arrive(c, r)
      PROVE  ConnsOK' /\ WalksAreInOrder'
  <2>1. Entry(r) \in Stages
    BY DEF Entry, Stages
  <2>2. CASE Refusal(r) = Passed
    BY <1>5, <2>1, <2>2 DEF Arrive, WalksAreInOrder, Entitled, Reached, Serving
  <2>3. CASE Refusal(r) # Passed
    BY <1>5, <2>3 DEF Arrive, Stages, WalksAreInOrder, Entitled, Serving
  <2>4. QED
    BY <2>2, <2>3
<1>6. ASSUME NEW c \in Conns, Disconnect(c) \/ HangUp(c)
      PROVE  ConnsOK' /\ WalksAreInOrder'
  BY <1>6 DEF Disconnect, HangUp, Stages, WalksAreInOrder, Entitled, Serving
<1>7. ASSUME NEW c \in Conns, HandlerStep(c)
      PROVE  ConnsOK' /\ WalksAreInOrder'
  <2>0. ASSUME NEW s \in Stages \ {"away", "idle"}, Awaits(c, s)
        PROVE  Serving(c) /\ Entitled(c) /\ Reached(s, req[c])
    BY <2>0 DEF Awaits, Serving, WalksAreInOrder, Entitled
  <2>1. CASE FindQueue(c)
    <3>1. Serving(c) /\ Reached("queue", req[c])
      BY <2>0, <2>1 DEF FindQueue, Stages
    <3>2. req[c].route \in {"enqueue", "pause", "resume", "updateQueue"}
      BY <3>1 DEF Reached, Entry
    <3>3. CASE Owns(req[c]) /\ req[c].route # "enqueue"
      <4>1. Reached("update", req[c])
        BY <3>2, <3>3 DEF Reached
      <4>2. Answer(c) \/ Continue(c, "update")
        BY <2>1, <3>3 DEF FindQueue
      <4>3. QED
        BY <1>3, <1>4, <3>1, <4>1, <4>2 DEF Stages
    <3>4. CASE Owns(req[c]) /\ req[c].route = "enqueue"
      <4>1. Reached("insert", req[c]) /\ Reached("key", req[c])
        BY <3>4 DEF Reached
      <4>2. Answer(c) \/ Continue(c, "insert") \/ Continue(c, "key")
        BY <2>1, <3>4 DEF FindQueue
      <4>3. QED
        BY <1>3, <1>4, <3>1, <4>1, <4>2 DEF Stages
    <3>5. CASE ~ Owns(req[c])
      BY <1>3, <2>1, <3>5 DEF FindQueue
    <3>6. QED
      BY <3>3, <3>4, <3>5
  <2>2. CASE FindKey(c)
    <3>1. Serving(c) /\ Reached("key", req[c])
      BY <2>0, <2>2 DEF FindKey, Stages
    <3>2. Reached("insert", req[c])
      BY <3>1 DEF Reached, Entry
    <3>3. Answer(c) \/ Continue(c, "insert")
      BY <2>2 DEF FindKey
    <3>4. QED
      BY <1>3, <1>4, <3>1, <3>2, <3>3 DEF Stages
  <2>3. CASE FindDead(c)
    <3>1. Serving(c) /\ Reached("dlq", req[c])
      BY <2>0, <2>3 DEF FindDead, Stages
    <3>2. Answer(c) \/ (Continue(c, "replay") /\ Owns(req[c]))
      BY <2>3 DEF FindDead
    <3>3. Owns(req[c]) => Reached("replay", req[c])
      BY <3>1 DEF Reached, Entry
    <3>4. QED
      BY <1>3, <1>4, <3>1, <3>2, <3>3 DEF Stages
  <2>4. CASE FindEmail(c)
    <3>1. Serving(c) /\ Reached("email", req[c])
      BY <2>0, <2>4 DEF FindEmail, Stages
    <3>2. Reached("create", req[c])
      BY <3>1 DEF Reached, Entry
    <3>3. Answer(c) \/ Continue(c, "create")
      BY <2>4 DEF FindEmail
    <3>4. QED
      BY <1>3, <1>4, <3>1, <3>2, <3>3 DEF Stages
  <2>5. CASE FindProject(c)
    <3>1. Serving(c) /\ Reached("project", req[c])
      BY <2>0, <2>5 DEF FindProject, Stages
    <3>2. Reached("create", req[c])
      BY <3>1 DEF Reached, Entry
    <3>3. Answer(c) \/ Continue(c, "create")
      BY <2>5 DEF FindProject
    <3>4. QED
      BY <1>3, <1>4, <3>1, <3>2, <3>3 DEF Stages
  <2>6. CASE InsertJob(c) \/ Replay(c) \/ UpdateQueue(c) \/ Create(c) \/ Read(c)
    BY <1>3, <2>6 DEF InsertJob, Replay, UpdateQueue, Create, Read
  <2>7. QED
    BY <1>7, <2>1, <2>2, <2>3, <2>4, <2>5, <2>6 DEF HandlerStep
<1>8. ASSUME NEW c \in Conns, StatementFails(c) \/ AckLost(c)
      PROVE  ConnsOK' /\ WalksAreInOrder'
  BY <1>3, <1>8 DEF StatementFails, AckLost
<1>9. QED
  BY <1>1, <1>2, <1>5, <1>6, <1>7, <1>8 DEF Next, ConnStep, apiVars

-----------------------------------------------------------------------------
(* What a step can write to the tables *)

FindsJob(c) ==
    /\ stage[c] = "key" /\ Holders(req[c].key) # {}
    /\ Tell(c, Min(Holders(req[c].key)))
    /\ UNCHANGED <<jobs, pausedBy, made, replayJob>>

AddsJob(c) ==
    /\ stage[c] = "insert" /\ Insertable(req[c])
    /\ jobs' = Append(jobs, NewJob(req[c]))
    /\ Tell(c, Len(jobs) + 1) \/ UNCHANGED told
    /\ UNCHANGED <<pausedBy, made, replayJob>>

AddsReplay(c) ==
    /\ stage[c] = "replay"
    /\ WriteReplay(req[c])
    /\ UNCHANGED <<told, pausedBy, made>>

SetsPause(c) ==
    /\ stage[c] = "update"
    /\ \E p \in {req[c], NoRequest, pausedBy[req[c].on]} :
          pausedBy' = [pausedBy EXCEPT ![req[c].on] = p]
    /\ UNCHANGED <<jobs, told, made, replayJob>>

TakesName(c) ==
    /\ stage[c] = "create" /\ Nameable(req[c].on)
    /\ made' = [made EXCEPT ![req[c].on] = @ + 1]
    /\ UNCHANGED <<jobs, told, pausedBy, replayJob>>

TableStep ==
    \/ UNCHANGED tables
    \/ \E c \in Conns :
          /\ Entitled(c)
          /\ FindsJob(c) \/ AddsJob(c) \/ AddsReplay(c) \/ SetsPause(c) \/ TakesName(c)

\* Every step writes the tables in one of these ways.
LEMMA StepWritesTables ==
    ASSUME TablesOK, WalksAreInOrder, [Next]_apiVars
    PROVE  TableStep
<1>1. CASE UNCHANGED tables
  BY <1>1 DEF TableStep
<1>2. CASE UNCHANGED apiVars \/ ServerStep
  BY <1>1, <1>2 DEF apiVars, ServerStep
<1>3. ASSUME NEW c \in Conns, ConnStep(c)
      PROVE  TableStep
  <2>0. ASSUME NEW s \in Stages \ {"away", "idle"}, Awaits(c, s)
        PROVE  Entitled(c)
    BY <2>0 DEF Awaits, Serving, WalksAreInOrder
  <2>1. CASE (\E r \in Shapes : Arrive(c, r)) \/ Disconnect(c) \/ HangUp(c) \/ StatementFails(c)
    BY <1>1, <2>1 DEF Arrive, Disconnect, HangUp, StatementFails
  <2>2. CASE FindQueue(c) \/ FindDead(c) \/ FindEmail(c) \/ FindProject(c) \/ Read(c)
    BY <1>1, <2>2 DEF FindQueue, FindDead, FindEmail, FindProject, Read
  <2>3. CASE FindKey(c)
    <3>1. Entitled(c)
      BY <2>0, <2>3 DEF FindKey, Stages
    <3>2. FindsJob(c) \/ UNCHANGED tables
      BY <2>3 DEF FindKey, FindsJob, Awaits, tables
    <3>3. QED
      BY <1>1, <3>1, <3>2 DEF TableStep
  <2>4. CASE InsertJob(c)
    <3>1. Entitled(c)
      BY <2>0, <2>4 DEF InsertJob, Stages
    <3>2. AddsJob(c) \/ UNCHANGED tables
      BY <2>4 DEF InsertJob, AddsJob, Awaits, tables
    <3>3. QED
      BY <1>1, <3>1, <3>2 DEF TableStep
  <2>5. CASE Replay(c)
    <3>1. Entitled(c)
      BY <2>0, <2>5 DEF Replay, Stages
    <3>2. AddsReplay(c)
      BY <2>5 DEF Replay, AddsReplay, Awaits
    <3>3. QED
      BY <3>1, <3>2 DEF TableStep
  <2>6. CASE UpdateQueue(c)
    <3>1. Entitled(c) /\ stage[c] = "update"
      BY <2>0, <2>6 DEF UpdateQueue, Stages, Awaits
    <3>2. \/ pausedBy' = [pausedBy EXCEPT ![req[c].on] = req[c]]
          \/ pausedBy' = [pausedBy EXCEPT ![req[c].on] = NoRequest]
          \/ pausedBy' = pausedBy
      BY <2>6 DEF UpdateQueue
    <3>3. pausedBy = [pausedBy EXCEPT ![req[c].on] = pausedBy[req[c].on]]
      BY DEF TablesOK
    <3>4. SetsPause(c)
      BY <2>6, <3>1, <3>2, <3>3 DEF UpdateQueue, SetsPause
    <3>5. QED
      BY <3>1, <3>4 DEF TableStep
  <2>7. CASE Create(c)
    <3>1. Entitled(c)
      BY <2>0, <2>7 DEF Create, Stages
    <3>2. TakesName(c) \/ UNCHANGED tables
      BY <2>7 DEF Create, TakesName, Awaits, tables
    <3>3. QED
      BY <1>1, <3>1, <3>2 DEF TableStep
  <2>8. CASE AckLost(c)
    <3>1. Entitled(c)
      BY <2>0, <2>8 DEF AckLost, Stages
    <3>2. AddsJob(c) \/ AddsReplay(c)
      BY <2>8 DEF AckLost, AddsJob, AddsReplay, Awaits
    <3>3. QED
      BY <3>1, <3>2 DEF TableStep
  <2>9. QED
    BY <1>3, <2>1, <2>2, <2>3, <2>4, <2>5, <2>6, <2>7, <2>8 DEF ConnStep, HandlerStep
<1>4. QED
  BY <1>2, <1>3 DEF Next

\* What the handler of a request that has come so far knows of it.
LEMMA RequestFacts ==
    ASSUME NEW c \in Conns, Entitled(c)
    PROVE  /\ req[c].key \in Keys \cup {NoKey}
           /\ stage[c] = "insert" => req[c].route = "enqueue" /\ Owns(req[c])
           /\ stage[c] = "replay" => req[c].route = "replay" /\ Owns(req[c]) /\ req[c].on \in Dead
           /\ stage[c] = "update" =>
                 /\ req[c].route \in {"pause", "resume", "updateQueue"} /\ Owns(req[c])
                 /\ req[c].on \in Rows
           /\ stage[c] = "create" => req[c].on \in Names
           /\ stage[c] \in {"insert", "replay"} => NewJob(req[c]) \in Job
<1> DEFINE r == req[c]
<1>0. r \in Shapes /\ Reached(stage[c], r)
  BY DEF Entitled
<1>1. Entry(r) \notin {"insert", "replay", "update"}
  BY DEF Entry
<1>2. r.key \in Keys \cup {NoKey}
  BY <1>0 DEF Keys
<1>3. stage[c] = "insert" => r.route = "enqueue" /\ Owns(r)
  BY <1>0, <1>1 DEF Reached
<1>4. stage[c] = "replay" => r.route = "replay" /\ Owns(r) /\ r.on \in Dead
  BY <1>0, <1>1, HandlersAssumption DEF Reached
<1>5. stage[c] = "update" =>
        /\ r.route \in {"pause", "resume", "updateQueue"} /\ Owns(r)
        /\ r.on \in Rows
  BY <1>0, <1>1, HandlersAssumption DEF Reached
<1>6. stage[c] = "create" => r.on \in Names
  <2>1. ASSUME stage[c] = "create"
        PROVE  r.route \in {"register", "createProject", "createQueue"}
    BY <1>0, <2>1 DEF Reached, Entry
  <2>2. QED
    BY <1>0, <2>1 DEF Names
<1>7. stage[c] \in {"insert", "replay"} => NewJob(r) \in Job
  BY <1>0, <1>2, <1>4, <1>3 DEF NewJob, Job
<1>8. QED
  BY <1>2, <1>3, <1>4, <1>5, <1>6, <1>7

\* A row more in `jobs'.
LEMMA JobAppended ==
    ASSUME jobs \in Seq(Job), NEW x \in Job, jobs' = Append(jobs, x)
    PROVE  /\ jobs' \in Seq(Job)
           /\ Len(jobs) \in Nat
           /\ DOMAIN jobs = 1 .. Len(jobs)
           /\ DOMAIN jobs' = 1 .. (Len(jobs) + 1)
           /\ \A i \in DOMAIN jobs : jobs'[i] = jobs[i]
           /\ jobs'[Len(jobs) + 1] = x
BY AppendProperties, LenProperties

\* uq_jobs_idempotency_key.
KeysAreUnique ==
    \A i, j \in DOMAIN jobs : jobs[i].key = jobs[j].key /\ jobs[i].key # NoKey => i = j

LEMMA KeysStep ==
    ASSUME TablesOK, KeysAreUnique, TableStep
    PROVE  KeysAreUnique'
<1>1. CASE UNCHANGED jobs
  BY <1>1 DEF KeysAreUnique
<1>2. ASSUME NEW c \in Conns, Entitled(c), AddsJob(c) \/ AddsReplay(c),
             req[c].key = NoKey \/ Holders(req[c].key) = {}
      PROVE  KeysAreUnique'
  <2>1. NewJob(req[c]) \in Job /\ NewJob(req[c]).key = req[c].key
    BY <1>2, RequestFacts DEF AddsJob, AddsReplay, NewJob
  <2>2. jobs' = Append(jobs, NewJob(req[c]))
    BY <1>2 DEF AddsJob, AddsReplay, WriteReplay
  <2>3. /\ Len(jobs) \in Nat
        /\ DOMAIN jobs = 1 .. Len(jobs)
        /\ DOMAIN jobs' = 1 .. (Len(jobs) + 1)
        /\ \A i \in DOMAIN jobs : jobs'[i] = jobs[i]
        /\ jobs'[Len(jobs) + 1] = NewJob(req[c])
    BY <2>1, <2>2, JobAppended DEF TablesOK
  <2>4. \A i \in DOMAIN jobs : req[c].key # NoKey => jobs[i].key # req[c].key
    BY <1>2 DEF Holders
  <2>5. QED
    BY <2>1, <2>3, <2>4 DEF KeysAreUnique
<1>3. ASSUME NEW c \in Conns, Entitled(c), AddsJob(c)
      PROVE  KeysAreUnique'
  BY <1>2, <1>3 DEF AddsJob, Insertable
<1>4. ASSUME NEW c \in Conns, Entitled(c), AddsReplay(c)
      PROVE  KeysAreUnique'
  <2>1. req[c].key = NoKey
    BY <1>4, RequestFacts, HandlersAssumption DEF AddsReplay, Entitled
  <2>2. QED
    BY <1>2, <1>4, <2>1
<1>5. QED
  BY <1>1, <1>3, <1>4 DEF TableStep, tables, FindsJob, SetsPause, TakesName

\* The job that the idempotency check finds has the key.
LEMMA FoundHasKey ==
    ASSUME TablesOK, KeysAreUnique, NEW k \in Keys, Holders(k) # {}
    PROVE  Min(Holders(k)) \in Holders(k)
<1>1. PICK i \in Holders(k) : TRUE
  OBVIOUS
<1>2. i \in Nat /\ Holders(k) = {i}
  BY <1>1 DEF TablesOK, KeysAreUnique, Holders, Keys
<1>3. \E x \in Holders(k) : \A y \in Holders(k) : x =< y
  BY <1>2
<1>4. QED
  BY <1>3 DEF Min

LEMMA TablesStep ==
    ASSUME TablesOK, KeysAreUnique, TableStep
    PROVE  TablesOK'
<1>1. CASE UNCHANGED tables
  BY <1>1 DEF tables, TablesOK
<1>2. ASSUME NEW c \in Conns, Entitled(c),
             FindsJob(c) \/ AddsJob(c) \/ AddsReplay(c) \/ SetsPause(c) \/ TakesName(c)
      PROVE  TablesOK'
  <2>1. CASE FindsJob(c)
    <3>1. req[c].key # NoKey => req[c].key \in Keys /\ Min(Holders(req[c].key)) \in DOMAIN jobs
      BY <1>2, <2>1, RequestFacts, FoundHasKey DEF FindsJob, Holders
    <3>2. told' \in [Keys -> SUBSET (DOMAIN jobs)]
      BY <2>1, <3>1 DEF FindsJob, Tell, TablesOK
    <3>3. QED
      BY <2>1, <3>2 DEF FindsJob, TablesOK
  <2>2. CASE AddsJob(c)
    <3>1. NewJob(req[c]) \in Job
      BY <1>2, <2>2, RequestFacts DEF AddsJob
    <3>2. /\ jobs' \in Seq(Job)
          /\ DOMAIN jobs \subseteq DOMAIN jobs' 
          /\ Len(jobs) + 1 \in DOMAIN jobs'
      BY <2>2, <3>1, JobAppended DEF AddsJob, TablesOK
    <3>3. told' \in [Keys -> SUBSET (DOMAIN jobs')]
      BY <2>2, <3>2 DEF AddsJob, Tell, TablesOK
    <3>4. QED
      BY <2>2, <3>2, <3>3 DEF AddsJob, TablesOK
  <2>3. CASE AddsReplay(c)
    <3>1. NewJob(req[c]) \in Job /\ req[c].on \in Dead
      BY <1>2, <2>3, RequestFacts DEF AddsReplay
    <3>2. /\ jobs' \in Seq(Job)
          /\ DOMAIN jobs \subseteq DOMAIN jobs' 
          /\ Len(jobs) + 1 \in DOMAIN jobs'
      BY <2>3, <3>1, JobAppended DEF AddsReplay, WriteReplay, TablesOK
    <3>3. QED
      BY <2>3, <3>1, <3>2 DEF AddsReplay, WriteReplay, TablesOK
  <2>4. CASE SetsPause(c)
    <3>1. req[c].on \in Rows /\ req[c] \in Shapes
      BY <1>2, <2>4, RequestFacts DEF SetsPause, Entitled
    <3>2. QED
      BY <2>4, <3>1 DEF SetsPause, TablesOK
  <2>5. CASE TakesName(c)
    <3>1. req[c].on \in Names
      BY <1>2, <2>5, RequestFacts DEF TakesName
    <3>2. QED
      BY <2>5, <3>1 DEF TakesName, Nameable, TablesOK
  <2>6. QED
    BY <1>2, <2>1, <2>2, <2>3, <2>4, <2>5
<1>3. QED
  BY <1>1, <1>2 DEF TableStep

\* What the theorems below start from.
ApiInv == TypeOK /\ WalksAreInOrder /\ KeysAreUnique

LEMMA ApiInvInit == Init => ApiInv
<1> SUFFICES ASSUME Init
             PROVE  ApiInv
  OBVIOUS
<1>1. 0 \in 0 .. Attempts /\ MaxFaults \in 0 .. MaxFaults
  BY ApiServerAssumption
<1>2. ServerTypeOK
  BY <1>1 DEF Init, ServerInit, ServerTypeOK
<1>3. ConnsOK /\ WalksAreInOrder
  BY DEF Init, HandlersInit, ConnsOK, Stages, WalksAreInOrder, Serving
<1>4. jobs \in Seq(Job) /\ DOMAIN jobs = {}
  BY DEF Init, HandlersInit
<1>5. TablesOK /\ KeysAreUnique
  BY <1>4 DEF Init, HandlersInit, TablesOK, KeysAreUnique
<1>6. QED
  BY <1>2, <1>3, <1>5, TypeParts DEF TypeOK, ApiInv

LEMMA ApiInvStep ==
    ASSUME ApiInv, [Next]_apiVars
    PROVE  ApiInv' /\ TablesOK /\ TableStep
<1>1. ServerTypeOK /\ ConnsOK /\ TablesOK
  BY TypeParts DEF ApiInv, TypeOK
<1>2. ServerTypeOK' /\ ConnsOK' /\ WalksAreInOrder'
  BY <1>1, ServerTypeStep, ConnsStep DEF ApiInv
<1>3. TableStep /\ TablesOK' /\ KeysAreUnique'
  BY <1>1, StepWritesTables, TablesStep, KeysStep DEF ApiInv
<1>4. HandlersTypeOK'
  BY <1>2, <1>3 DEF HandlersTypeOK, ConnsOK, TablesOK, Job
<1>5. QED
  BY <1>1, <1>2, <1>3, <1>4 DEF TypeOK, ApiInv

\* Every variable keeps its type.
THEOREM ApiTypeCorrect == Spec => []TypeOK
<1>1. ApiInv /\ [Next]_apiVars => ApiInv'
  BY ApiInvStep
<1>2. ApiInv => TypeOK
  BY DEF ApiInv
<1>3. QED
  BY <1>1, <1>2, ApiInvInit, PTL DEF Spec

-----------------------------------------------------------------------------
(* Idempotency keys *)

AnswersNameTheKey == \A k \in Keys : told[k] \subseteq Holders(k)

LEMMA AnswersStep ==
    ASSUME TablesOK, KeysAreUnique, AnswersNameTheKey, TableStep
    PROVE  AnswersNameTheKey'
<1>1. CASE UNCHANGED <<jobs, told>>
  BY <1>1 DEF AnswersNameTheKey, Holders
<1>2. ASSUME NEW c \in Conns, Entitled(c), FindsJob(c)
      PROVE  AnswersNameTheKey'
  <2>1. req[c].key # NoKey =>
          req[c].key \in Keys /\ Min(Holders(req[c].key)) \in Holders(req[c].key)
    BY <1>2, RequestFacts, FoundHasKey DEF FindsJob
  <2>2. \A k \in Keys : told'[k] \subseteq Holders(k)
    BY <1>2, <2>1 DEF FindsJob, Tell, TablesOK, AnswersNameTheKey
  <2>3. QED
    BY <1>2, <2>2 DEF FindsJob, AnswersNameTheKey, Holders
<1>3. ASSUME NEW c \in Conns, Entitled(c), AddsJob(c) \/ AddsReplay(c)
      PROVE  AnswersNameTheKey'
  <2>1. NewJob(req[c]) \in Job /\ NewJob(req[c]).key = req[c].key
    BY <1>3, RequestFacts DEF AddsJob, AddsReplay, NewJob
  <2>2. /\ DOMAIN jobs \subseteq DOMAIN jobs'
        /\ Len(jobs) + 1 \in DOMAIN jobs'
        /\ \A i \in DOMAIN jobs : jobs'[i] = jobs[i]
        /\ jobs'[Len(jobs) + 1].key = req[c].key
    BY <1>3, <2>1, JobAppended DEF AddsJob, AddsReplay, WriteReplay, TablesOK
  <2>3. /\ \A k \in Keys : Holders(k) \subseteq Holders(k)'
        /\ \A k \in Keys : req[c].key = k => Len(jobs) + 1 \in Holders(k)'
    BY <2>2 DEF Holders
  <2>4. CASE UNCHANGED told
    BY <2>3, <2>4 DEF AnswersNameTheKey
  <2>5. CASE Tell(c, Len(jobs) + 1)
    <3>1. ASSUME NEW k \in Keys
          PROVE  told'[k] \subseteq told[k] \cup (IF req[c].key = k THEN {Len(jobs) + 1} ELSE {})
      BY <2>5 DEF Tell, TablesOK
    <3>2. QED
      BY <2>3, <3>1 DEF AnswersNameTheKey
  <2>6. QED
    BY <1>3, <2>4, <2>5 DEF AddsJob, AddsReplay
<1>4. QED
  BY <1>1, <1>2, <1>3 DEF TableStep, tables, SetsPause, TakesName

\* A key has one job, whatever is sent twice, raced, cut off or answered with an
\* error, and every answer names that one.
THEOREM OneJobCorrect == Spec => []OneJobPerKey
<1>1. Init => AnswersNameTheKey
  BY DEF Init, HandlersInit, AnswersNameTheKey
<1>2. ApiInv /\ AnswersNameTheKey /\ [Next]_apiVars => AnswersNameTheKey'
  BY ApiInvStep, AnswersStep DEF ApiInv
<1>3. ApiInv /\ AnswersNameTheKey => OneJobPerKey
  <2> SUFFICES ASSUME ApiInv, AnswersNameTheKey, NEW k \in Keys
               PROVE  Cardinality(Holders(k)) <= 1
    BY DEF OneJobPerKey, AnswersNameTheKey
  <2>1. CASE Holders(k) = {}
    BY <2>1, FS_EmptySet
  <2>2. ASSUME NEW i \in Holders(k)
        PROVE  Cardinality(Holders(k)) <= 1
    <3>1. Holders(k) = {i}
      BY <2>2 DEF ApiInv, KeysAreUnique, Holders, Keys
    <3>2. QED
      BY <3>1, FS_Singleton
  <2>3. QED
    BY <2>1, <2>2
<1>4. ApiInv /\ [Next]_apiVars => ApiInv'
  BY ApiInvStep
<1>5. QED
  BY <1>1, <1>2, <1>3, <1>4, ApiInvInit, PTL DEF Spec

-----------------------------------------------------------------------------
(* Replays *)

LEMMA ReplaysStep ==
    ASSUME TablesOK, ReplaysAreRecorded, TableStep
    PROVE  ReplaysAreRecorded'
<1> USE DEF ReplaysAreRecorded, Replays
<1>1. CASE UNCHANGED <<jobs, replayJob>>
  BY <1>1
<1>2. ASSUME NEW c \in Conns, Entitled(c), AddsJob(c) \/ AddsReplay(c)
      PROVE  /\ jobs' = Append(jobs, NewJob(req[c]))
             /\ DOMAIN jobs' = DOMAIN jobs \cup {Len(jobs) + 1}
             /\ \A i \in DOMAIN jobs : jobs'[i] = jobs[i]
             /\ jobs'[Len(jobs) + 1] = NewJob(req[c])
             /\ Len(jobs) + 1 # NoJob
  <2>1. NewJob(req[c]) \in Job
    BY <1>2, RequestFacts DEF AddsJob, AddsReplay
  <2>2. jobs' = Append(jobs, NewJob(req[c]))
    BY <1>2 DEF AddsJob, AddsReplay, WriteReplay
  <2>3. QED
    BY <2>1, <2>2, JobAppended DEF TablesOK, NoJob
<1>3. ASSUME NEW c \in Conns, Entitled(c), AddsJob(c)
      PROVE  ReplaysAreRecorded'
  <2>1. NewJob(req[c]).of \notin Dead
    BY <1>3, RequestFacts, HandlersAssumption DEF AddsJob, NewJob
  <2>2. \A d \in Dead : Replays(d)' = Replays(d)
    BY <1>2, <1>3, <2>1
  <2>3. QED
    BY <1>3, <2>2 DEF AddsJob
<1>4. ASSUME NEW c \in Conns, Entitled(c), AddsReplay(c)
      PROVE  ReplaysAreRecorded'
  <2> DEFINE r == req[c]
  <2>1. r.on \in Dead /\ NewJob(r).of = r.on
    BY <1>4, RequestFacts DEF AddsReplay, NewJob
  <2>2. \A d \in Dead : Replays(d)' = IF d = r.on THEN Replays(d) \cup {Len(jobs) + 1} ELSE Replays(d)
    BY <1>2, <1>4, <2>1
  <2>3. replayJob' = [replayJob EXCEPT ![r.on] = Len(jobs) + 1]
    BY <1>4 DEF AddsReplay, WriteReplay
  <2>4. ASSUME NEW d \in Dead
        PROVE  IF Replays(d)' = {} THEN replayJob'[d] = NoJob ELSE replayJob'[d] \in Replays(d)'
    BY <2>1, <2>2, <2>3 DEF TablesOK
  <2>5. QED
    BY <2>4
<1>5. QED
  BY <1>1, <1>3, <1>4 DEF TableStep, tables, FindsJob, SetsPause, TakesName

\* A dead letter row names a job exactly when it was replayed, and one of its replays.
THEOREM ReplaysCorrect == Spec => []ReplaysAreRecorded
<1>1. Init => ReplaysAreRecorded
  BY DEF Init, HandlersInit, ReplaysAreRecorded, Replays
<1>2. ApiInv /\ ReplaysAreRecorded /\ [Next]_apiVars => ReplaysAreRecorded' /\ ApiInv'
  BY ApiInvStep, ReplaysStep
<1>3. QED
  BY <1>1, <1>2, ApiInvInit, PTL DEF Spec

-----------------------------------------------------------------------------
(* What a request may write *)

\* The chain of each route that writes to rows somebody owns.
LEMMA ChainOf ==
    /\ Chain("enqueue") = <<"token", "body">>
    /\ Chain("replay") = <<"token", "role", "params">>
    /\ Chain("pause") = <<"token", "role", "params">>
    /\ Chain("resume") = <<"token", "role", "params">>
    /\ Chain("updateQueue") = <<"token", "role", "params", "body">>
<1> USE DEF AuthRoutes, ProjectRoutes, QueueRoutes, JobRoutes, WorkerRoutes, DlqRoutes, MetricsRoutes
<1>1. Chain("enqueue") = <<"token", "body">>
  BY DEF Chain
<1>2. Chain("replay") = <<"token", "role", "params">>
  BY DEF Chain
<1>3. Chain("pause") = <<"token", "role", "params">>
  BY DEF Chain
<1>4. Chain("resume") = <<"token", "role", "params">>
  BY DEF Chain
<1>5. Chain("updateQueue") = <<"token", "role", "params", "body">>
  BY DEF Chain
<1>6. QED
  BY <1>1, <1>2, <1>3, <1>4, <1>5

\* A handler runs only if no stage of the chain refuses.
LEMMA EveryStagePasses ==
    ASSUME NEW r, Refusal(r) = Passed, DOMAIN Chain(r.route) \subseteq 1 .. 4
    PROVE  \A i \in DOMAIN Chain(r.route) : Verdict(Chain(r.route)[i], r) = Passed
<1> DEFINE chain == Chain(r.route)
           ends  == {i \in DOMAIN chain : Verdict(chain[i], r) # Passed}
<1>1. BeforeRouting(r) = Passed
  BY DEF Refusal
<1>2. ends = {} \/ Verdict(chain[Min(ends)], r) = Passed
  BY <1>1 DEF Refusal
<1>3. ASSUME ends # {}
      PROVE  Min(ends) \in ends
  <2>1. ends \subseteq 1 .. 4
    OBVIOUS
  <2>2. \E x \in ends : \A y \in ends : x =< y
    BY <1>3, <2>1
  <2>3. QED
    BY <2>2 DEF Min
<1>4. ends = {}
  BY <1>2, <1>3
<1>5. QED
  BY <1>4

LEMMA ChainVouches ==
    ASSUME NEW r, Refusal(r) = Passed,
           r.route \in {"enqueue", "replay", "pause", "resume", "updateQueue"}
    PROVE  /\ r.token = "valid"
           /\ r.route = "enqueue" \/ r.role # "VIEWER"
<1> DEFINE chain == Chain(r.route)
<1>1. /\ DOMAIN chain \subseteq 1 .. 4
      /\ 1 \in DOMAIN chain /\ chain[1] = "token"
      /\ r.route # "enqueue" => 2 \in DOMAIN chain /\ chain[2] = "role"
  BY ChainOf
<1>2. Verdict("token", r) = Passed /\ (r.route # "enqueue" => Verdict("role", r) = Passed)
  BY <1>1, EveryStagePasses
<1>3. Authenticate(r) = Passed /\ (r.route # "enqueue" => RequireRole(r) = Passed)
  BY <1>2 DEF Verdict
<1>4. QED
  BY <1>3 DEF Authenticate, RequireRole, Passed, Roles

LEMMA VouchedStep ==
    ASSUME TablesOK, WritesAreVouched, TableStep
    PROVE  WritesAreVouched'
<1> USE DEF WritesAreVouched
<1>1. CASE UNCHANGED <<jobs, pausedBy>>
  BY <1>1
<1>2. ASSUME NEW c \in Conns, Entitled(c), AddsJob(c) \/ AddsReplay(c)
      PROVE  WritesAreVouched'
  <2> DEFINE r == req[c]
  <2>1. NewJob(r) \in Job /\ Owns(r) /\ r.route \in {"enqueue", "replay"}
    BY <1>2, RequestFacts DEF AddsJob, AddsReplay
  <2>2. Vouched(r, r.on)
    BY <1>2, <2>1, ChainVouches DEF Entitled, Vouched, Owns
  <2>3. jobs' = Append(jobs, NewJob(r)) /\ UNCHANGED pausedBy
    BY <1>2 DEF AddsJob, AddsReplay, WriteReplay
  <2>4. \A i \in DOMAIN jobs' : jobs'[i].by \in {r} \cup {jobs[k].by : k \in DOMAIN jobs}
    BY <2>1, <2>3, JobAppended DEF TablesOK, NewJob
  <2>5. QED
    BY <2>2, <2>3, <2>4
<1>3. ASSUME NEW c \in Conns, Entitled(c), SetsPause(c)
      PROVE  WritesAreVouched'
  <2> DEFINE r == req[c]
  <2>1. Owns(r) /\ r.on \in Rows /\ r.route \in {"pause", "resume", "updateQueue"}
    BY <1>3, RequestFacts DEF SetsPause
  <2>2. Vouched(r, r.on)
    BY <1>3, <2>1, ChainVouches DEF Entitled, Vouched, Owns
  <2>3. QED
    BY <1>3, <2>1, <2>2 DEF SetsPause, TablesOK
<1>4. QED
  BY <1>1, <1>2, <1>3 DEF TableStep, tables, FindsJob, TakesName

\* No job and no pause is written but for a valid token of the owner's organisation
\* and a role that may.
THEOREM VouchedCorrect == Spec => []WritesAreVouched
<1>1. Init => WritesAreVouched
  BY DEF Init, HandlersInit, WritesAreVouched
<1>2. ApiInv /\ WritesAreVouched /\ [Next]_apiVars => WritesAreVouched' /\ ApiInv'
  BY ApiInvStep, VouchedStep
<1>3. QED
  BY <1>1, <1>2, ApiInvInit, PTL DEF Spec

-----------------------------------------------------------------------------
(* The end of the process *)

\* Why the pool closes last: there is a pool exactly while the server listens, it
\* closes only for a signal, and then only clients that have left are being served.
PoolInv ==
    /\ phase = "listening" <=> pool # "none"
    /\ phase # "listening" => \A c \in Conns : stage[c] = "away"
    /\ pool = "closing" => signals # {} /\ \A c \in Conns : stage[c] = "away" \/ gone[c]
    /\ \A c \in Conns : gone[c] => Serving(c)

LEMMA PoolStep ==
    ASSUME ConnsOK, ServerTypeOK, PoolInv, [Next]_apiVars
    PROVE  PoolInv'
<1> USE DEF PoolInv, ConnsOK, Serving
<1>1. CASE UNCHANGED apiVars
  BY <1>1 DEF apiVars, serverVars, connVars
<1>2. CASE ServerStep
  <2>1. ASSUME NEW code, Exits(code)
        PROVE  PoolInv'
    BY <1>2, <2>1 DEF ServerStep, EndsWithProcess, Exits
  <2>2. CASE phase' # "down" /\ (Start \/ Connect \/ ConnectFails)
    BY <1>2, <2>1, <2>2 DEF ServerStep, EndsWithProcess, connVars, Start, Connect, ConnectDb,
                            ConnectFails, ServerTypeOK
  <2>3. ASSUME NEW sig \in Signals, SignalListening(sig)
        PROVE  PoolInv'
    BY <1>2, <2>3 DEF ServerStep, EndsWithProcess, connVars, SignalListening
  <2>4. CASE NoConnections /\ Drained
    BY <1>2, <2>1, <2>4 DEF ServerStep, EndsWithProcess, connVars, NoConnections, Drained
  <2>5. QED
    BY <1>2, <2>1, <2>2, <2>3, <2>4 DEF ServerStep, Start, Connect, ConnectFails,
       SignalConnecting, SignalAgain, PoolClosed, HardKill, Crash
<1>3. ASSUME NEW c \in Conns, ConnStep(c)
      PROVE  PoolInv'
  <2>1. UNCHANGED <<phase, signals, pool>>
    BY <1>3 DEF ConnStep, Arrive, Disconnect, HangUp, HandlerStep, FindQueue, FindKey,
                InsertJob, FindDead, Replay, UpdateQueue, FindEmail, FindProject, Create,
                Read, StatementFails, AckLost, serverVars
  <2>2. CASE \E r \in Shapes : Arrive(c, r)
    <3>1. Reaches(c) /\ UNCHANGED gone
      BY <2>2 DEF Arrive
    <3>2. phase = "listening" /\ pool # "closing" /\ ~ gone[c]
      BY <3>1 DEF Reaches
    <3>3. \A d \in Conns \ {c} : stage'[d] = stage[d]
      BY <2>2 DEF Arrive
    <3>4. QED
      BY <2>1, <3>1, <3>2, <3>3
  <2>3. CASE Disconnect(c) \/ HangUp(c)
    BY <2>1, <2>3 DEF Disconnect, HangUp, ServerTypeOK
  <2>4. CASE Answer(c) /\ Serving(c)
    <3>1. ASSUME NEW d \in Conns
          PROVE  /\ gone'[d] = (d # c /\ gone[d])
                 /\ stage'[d] = IF d # c THEN stage[d] ELSE IF gone[c] THEN "away" ELSE "idle"
      BY <2>4 DEF Answer
    <3>2. QED
      BY <2>1, <2>4, <3>1
  <2>5. ASSUME NEW next \in Stages \ {"away", "idle"}, Continue(c, next), pool = "open"
        PROVE  PoolInv'
    BY <2>1, <2>5 DEF Continue
  <2>6. QED
    BY <1>3, <2>2, <2>3, <2>4, <2>5 DEF ConnStep, HandlerStep, FindQueue, FindKey, InsertJob,
       FindDead, Replay, UpdateQueue, FindEmail, FindProject, Create, Read, StatementFails,
       AckLost, Awaits, Stages
<1>4. QED
  BY <1>1, <1>2, <1>3 DEF Next

\* While the pool closes nobody waits for an answer, whatever signals and requests
\* arrive and in whatever order.
THEOREM PoolCorrect == Spec => []PoolClosesLast
<1>1. Init => PoolInv
  BY DEF Init, ServerInit, HandlersInit, PoolInv, Serving
<1>2. ApiInv /\ PoolInv /\ [Next]_apiVars => PoolInv' /\ ApiInv'
  BY ApiInvStep, PoolStep, TypeParts DEF ApiInv, TypeOK
<1>3. ApiInv /\ PoolInv => PoolClosesLast
  BY DEF ApiInv, TypeOK, ServerTypeOK, PoolInv, PoolClosesLast, Serving
<1>4. QED
  BY <1>1, <1>2, <1>3, ApiInvInit, PTL DEF Spec

=============================================================================
