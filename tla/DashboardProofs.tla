--------------------------- MODULE DashboardProofs ---------------------------
(***************************************************************************)
(* Theorems about DashboardSession for every set of organisations, tokens, *)
(* pages and queries, and every number of changes and lost answers.        *)
(*                                                                         *)
(* Lemma StepMovesEntries reduces a step to what it can do to one entry of *)
(* the query client; the invariants of the entries are shown against that. *)
(***************************************************************************)
EXTENDS DashboardSession, TLAPS

Fetches ==
    {NoFetch, [stage |-> "refused"]}
      \cup [stage : {"sent"}, with : Tokens \cup {NoToken}]
      \cup [stage : {"answered"}, of : Orgs, v : 1 .. MaxVersion]

Mutations ==
    {NoMutation, [stage |-> "refused"]}
      \cup [stage : {"sent"}, target : Queries \cap {"jobs", "dlq", "queues"}, with : Tokens]
      \cup [stage : {"done"}, on : Orgs \X (Queries \cap {"jobs", "dlq", "queues"}), v : 1 .. MaxVersion]

SessionOK ==
    /\ isReady \in BOOLEAN
    /\ {token, storage} \subseteq Tokens \cup {NoToken}
    /\ page \in Pages \cup {Login}
    /\ expired \subseteq Tokens
    /\ failures \in 0 .. MaxFailures

ClientOK ==
    /\ fetch \in [Keys -> Fetches]
    /\ cache \in [Keys -> [of : Orgs \cup {"nobody"}, v : 0 .. MaxVersion, stale : BOOLEAN]]
    /\ mutation \in Mutations
    /\ version \in [Keys -> 1 .. MaxVersion]
    /\ acked \in [Keys -> 0 .. MaxVersion]

\* What is asked for, and what is answered, is asked and answered for the
\* organisation in the key.
FetchBelongs(k) ==
    /\ fetch[k].stage = "sent" => fetch[k].with = NoToken \/ OrgOf[fetch[k].with] = k[1]
    /\ fetch[k].stage = "answered" => fetch[k].of = k[1]

EntriesBelong ==
    \A k \in Keys : FetchBelongs(k) /\ (cache[k] # NoData => cache[k].of = k[1])

DashInv == SessionOK /\ ClientOK /\ EntriesBelong

-----------------------------------------------------------------------------

LEMMA ObservedKeys ==
    ASSUME SessionOK, NEW k \in Observed
    PROVE  k \in Keys /\ token \in Tokens /\ OrgOf[token] = k[1]
BY DashboardAssumption DEF SessionOK, Observed, SignedIn, KeyOf, QueriesOf, Keys

LEMMA SessionStep ==
    ASSUME SessionOK, [Next]_vars
    PROVE  SessionOK'
<1> USE DashboardAssumption DEF SessionOK
<1>1. CASE UNCHANGED vars
  BY <1>1 DEF vars, session, server
<1>2. CASE InitAuth \/ HandleLogout \/ Reload
  BY <1>2 DEF InitAuth, Usable, HandleLogout, Forget, Reload, Load, server
<1>3. ASSUME NEW t \in Tokens, LogIn(t) \/ Expire(t)
      PROVE  SessionOK'
  BY <1>3 DEF LogIn, StoreSession, Expire, session, server
<1>4. ASSUME NEW p \in Pages, Navigate(p)
      PROVE  SessionOK'
  BY <1>4 DEF Navigate, server
<1>5. ASSUME NEW k \in Keys, QueryStep(k) \/ ChangeElsewhere(k)
      PROVE  SessionOK'
  BY <1>5 DEF QueryStep, Poll, Serve, Receive, Refuse, Unauthorized, Load, Forget,
              ChangeElsewhere, session, server
<1>6. ASSUME failures < MaxFailures, failures' = failures + 1,
             UNCHANGED session, UNCHANGED expired
      PROVE  SessionOK'
  BY <1>6 DEF session
<1>7. CASE MutationFails \/ \E k \in Keys : FetchFails(k)
  BY <1>6, <1>7 DEF MutationFails, FetchFails
<1>8. CASE \/ \E q \in Queries : Mutate(q)
           \/ ServeMutation \/ MutationSucceeds \/ MutationRefused
  BY <1>8 DEF Mutate, ServeMutation, MutationSucceeds, MutationRefused, Unauthorized, Load,
              Forget, session, server
<1>9. QED
  BY <1>1, <1>2, <1>3, <1>4, <1>5, <1>7, <1>8 DEF Next

-----------------------------------------------------------------------------
(* What a step does to one entry *)

Asks(k) ==
    \E t \in Tokens : OrgOf[t] = k[1] /\ fetch'[k] = [stage |-> "sent", with |-> t]

Answers(k) ==
    /\ fetch[k].stage = "sent"
    /\ fetch'[k] = [stage |-> "answered", of |-> k[1], v |-> version[k]]
    /\ UNCHANGED <<version, acked>>

FetchMoves(k) ==
    \/ fetch'[k] \in {fetch[k], NoFetch, [stage |-> "refused"]}
    \/ Asks(k)
    \/ Answers(k)

CacheMoves(k) ==
    \/ cache'[k] \in {cache[k], NoData, [cache[k] EXCEPT !.stale = TRUE]}
    \/ /\ fetch[k].stage = "answered"
       /\ cache'[k] = [of |-> fetch[k].of, v |-> fetch[k].v, stale |-> FALSE]
       /\ UNCHANGED acked

EntriesMove ==
    /\ fetch' \in [Keys -> Fetches] /\ \A k \in Keys : FetchMoves(k)
    /\ cache' \in [Keys -> [of : Orgs \cup {"nobody"}, v : 0 .. MaxVersion, stale : BOOLEAN]]
    /\ \A k \in Keys : CacheMoves(k)

\* Queries that mount are asked for with the token of their organisation.
LEMMA MountAsks ==
    ASSUME ClientOK, SessionOK', NEW keys, Mount(keys),
           \A k \in keys : token' \in Tokens /\ OrgOf[token'] = k[1]
    PROVE  fetch' \in [Keys -> Fetches] /\ \A k \in Keys : FetchMoves(k)
<1>1. PICK extra \in SUBSET keys :
        fetch' = [k \in Keys |->
                    IF k \in keys /\ fetch[k] = NoFetch /\ (cache[k].stale \/ k \in extra)
                    THEN [stage |-> "sent", with |-> token'] ELSE fetch[k]]
  BY DEF Mount
<1>2. ASSUME NEW k \in Keys
      PROVE  fetch'[k] \in Fetches /\ FetchMoves(k)
  <2>1. CASE fetch'[k] = fetch[k]
    BY <2>1 DEF ClientOK, FetchMoves
  <2>2. CASE fetch'[k] # fetch[k]
    <3>1. k \in keys /\ fetch'[k] = [stage |-> "sent", with |-> token']
      BY <1>1, <2>2
    <3>2. Asks(k)
      BY <3>1 DEF Asks
    <3>3. QED
      BY <3>1, <3>2 DEF FetchMoves, Fetches
  <2>3. QED
    BY <2>1, <2>2
<1>3. QED
  BY <1>1, <1>2

LEMMA StepMovesEntries ==
    ASSUME DashInv, [Next]_vars
    PROVE  EntriesMove
<1> USE DEF ClientOK
<1>0. SessionOK' /\ SessionOK /\ ClientOK
  BY SessionStep DEF DashInv
<1>1. ASSUME UNCHANGED cache
      PROVE  /\ cache' \in [Keys -> [of : Orgs \cup {"nobody"}, v : 0 .. MaxVersion, stale : BOOLEAN]]
             /\ \A k \in Keys : CacheMoves(k)
  BY <1>0, <1>1 DEF CacheMoves
<1>2. ASSUME UNCHANGED fetch
      PROVE  fetch' \in [Keys -> Fetches] /\ \A k \in Keys : FetchMoves(k)
  BY <1>0, <1>2 DEF FetchMoves
<1>3. CASE Load
  <2>1. NoData \in [of : Orgs \cup {"nobody"}, v : 0 .. MaxVersion, stale : BOOLEAN]
    BY DashboardAssumption DEF NoData
  <2>2. NoFetch \in Fetches
    BY DEF Fetches
  <2>3. fetch' \in [Keys -> Fetches] /\ \A k \in Keys : fetch'[k] = NoFetch
    BY <1>3, <2>2 DEF Load
  <2>4. /\ cache' \in [Keys -> [of : Orgs \cup {"nobody"}, v : 0 .. MaxVersion, stale : BOOLEAN]]
        /\ \A k \in Keys : cache'[k] = NoData
    BY <1>3, <2>1 DEF Load
  <2>5. QED
    BY <2>3, <2>4 DEF EntriesMove, FetchMoves, CacheMoves
<1>4. ASSUME NEW keys, Mount(keys), UNCHANGED cache,
             \A k \in keys : token' \in Tokens /\ OrgOf[token'] = k[1]
      PROVE  EntriesMove
  BY <1>0, <1>1, <1>4, MountAsks DEF EntriesMove
<1>5. ASSUME NEW k \in Keys, NEW f \in Fetches, fetch' = [fetch EXCEPT ![k] = f], UNCHANGED cache,
             FetchMoves(k)
      PROVE  EntriesMove
  BY <1>0, <1>1, <1>5 DEF EntriesMove, FetchMoves
<1>6. CASE UNCHANGED vars
  BY <1>1, <1>2, <1>6 DEF vars, client, EntriesMove
<1>7. CASE InitAuth
  <2>1. PICK keys : Mount(keys) /\ (token' # NoToken => \A k \in keys : OrgOf[token'] = k[1])
                    /\ (token' = NoToken => keys = {})
    <3>1. CASE token' = NoToken
      BY <1>7, <3>1 DEF InitAuth
    <3>2. CASE token' # NoToken
      BY <1>7, <3>2 DEF InitAuth
    <3>3. QED
      BY <3>1, <3>2
  <2>2. QED
    BY <1>0, <1>4, <1>7, <2>1 DEF InitAuth, SessionOK
<1>8. ASSUME NEW t \in Tokens, LogIn(t)
      PROVE  EntriesMove
  BY <1>4, <1>8 DEF LogIn, StoreSession
<1>9. ASSUME NEW p \in Pages, Navigate(p)
      PROVE  EntriesMove
  <2>1. token' \in Tokens /\ Mount({KeyOf(q) : q \in QueriesOf(p)} \ Observed) /\ UNCHANGED <<token, cache>>
    BY <1>0, <1>9 DEF Navigate, SignedIn, SessionOK
  <2>2. \A k \in {KeyOf(q) : q \in QueriesOf(p)} : OrgOf[token'] = k[1]
    BY <2>1 DEF KeyOf
  <2>3. QED
    BY <1>4, <2>1, <2>2
<1>10. ASSUME NEW k \in Observed
       PROVE  /\ k \in Keys /\ Sent \in Fetches
              /\ fetch'[k] = Sent => FetchMoves(k)
  <2>1. k \in Keys /\ token \in Tokens /\ OrgOf[token] = k[1]
    BY <1>0, <1>10, ObservedKeys
  <2>2. QED
    BY <2>1 DEF Sent, Fetches, FetchMoves, Asks
<1>11. ASSUME NEW k \in Keys, Poll(k)
       PROVE  EntriesMove
  <2>1. fetch' = [fetch EXCEPT ![k] = Sent] /\ UNCHANGED cache /\ k \in Observed
    BY <1>11 DEF Poll
  <2>2. QED
    BY <1>0, <1>5, <1>10, <2>1
<1>12. ASSUME NEW k \in Keys, Serve(k)
       PROVE  EntriesMove
  <2> DEFINE t == fetch[k].with
  <2>1. fetch[k] \in [stage : {"sent"}, with : Tokens \cup {NoToken}]
    BY <1>0, <1>12 DEF Serve, Fetches, NoFetch
  <2>2. CASE t = NoToken \/ t \in expired
    <3>1. fetch' = [fetch EXCEPT ![k] = [stage |-> "refused"]] /\ UNCHANGED cache
      BY <1>12, <2>2 DEF Serve
    <3>2. QED
      BY <1>0, <1>5, <3>1 DEF Fetches, FetchMoves
  <2>3. CASE ~ (t = NoToken \/ t \in expired)
    <3>1. OrgOf[t] = k[1] /\ k[1] \in Orgs /\ version[k] \in 1 .. MaxVersion /\ <<k[1], k[2]>> = k
      BY <1>0, <2>1, <2>3, <1>12 DEF DashInv, EntriesBelong, FetchBelongs, Keys
    <3>2. /\ fetch' = [fetch EXCEPT ![k] = [stage |-> "answered", of |-> k[1], v |-> version[k]]]
          /\ UNCHANGED <<cache, version, acked>>
      BY <1>12, <2>3, <3>1 DEF Serve, server
    <3>3. QED
      BY <1>0, <1>5, <2>1, <3>1, <3>2 DEF Fetches, FetchMoves, Answers
  <2>4. QED
    BY <2>2, <2>3
<1>13. ASSUME NEW k \in Keys, Receive(k)
       PROVE  EntriesMove
  <2>1. fetch[k] \in [stage : {"answered"}, of : Orgs, v : 1 .. MaxVersion]
    BY <1>0, <1>13 DEF Receive, Fetches, NoFetch
  <2>2. cache' = [cache EXCEPT ![k] = [of |-> fetch[k].of, v |-> fetch[k].v, stale |-> FALSE]]
    BY <1>13 DEF Receive
  <2>3. fetch' = [fetch EXCEPT ![k] = NoFetch] /\ UNCHANGED acked
    BY <1>13 DEF Receive
  <2>4. fetch' \in [Keys -> Fetches] /\ \A l \in Keys : FetchMoves(l)
    BY <1>0, <2>3 DEF FetchMoves, Fetches
  <2>5. /\ cache' \in [Keys -> [of : Orgs \cup {"nobody"}, v : 0 .. MaxVersion, stale : BOOLEAN]]
        /\ \A l \in Keys : CacheMoves(l)
    <3>1. fetch[k].of \in Orgs /\ fetch[k].v \in 0 .. MaxVersion
      BY <2>1
    <3>2. cache' \in [Keys -> [of : Orgs \cup {"nobody"}, v : 0 .. MaxVersion, stale : BOOLEAN]]
      BY <1>0, <2>2, <3>1
    <3>3. CacheMoves(k)
      BY <1>0, <1>13, <2>2, <2>3 DEF CacheMoves, Receive
    <3>4. ASSUME NEW l \in Keys, l # k
          PROVE  CacheMoves(l)
      BY <1>0, <2>2, <3>4 DEF CacheMoves
    <3>5. QED
      BY <3>2, <3>3, <3>4
  <2>6. QED
    BY <2>4, <2>5 DEF EntriesMove
<1>14. ASSUME NEW k \in Keys, FetchFails(k)
       PROVE  EntriesMove
  <2>1. CASE k \in Observed /\ fetch' = [fetch EXCEPT ![k] = Sent]
    BY <1>0, <1>5, <1>10, <1>14, <2>1 DEF FetchFails
  <2>2. CASE fetch' = [fetch EXCEPT ![k] = NoFetch]
    BY <1>0, <1>5, <1>14, <2>2 DEF FetchFails, Fetches, FetchMoves
  <2>3. QED
    BY <1>14, <2>1, <2>2 DEF FetchFails
<1>15. CASE MutationSucceeds
  <2> DEFINE keys == {k \in Keys : k[2] \in Invalidates(mutation.on[2])}
  <2>1. /\ cache' = [k \in Keys |-> IF k \in keys THEN [cache[k] EXCEPT !.stale = TRUE] ELSE cache[k]]
        /\ Refetch(keys \cap Observed)
    BY <1>15 DEF MutationSucceeds
  <2>2. ASSUME NEW k \in Keys
        PROVE  fetch'[k] \in Fetches /\ FetchMoves(k)
    <3>1. fetch'[k] = fetch[k] \/ (k \in Observed /\ fetch'[k] = Sent)
      BY <2>1 DEF Refetch
    <3>2. QED
      BY <1>0, <1>10, <3>1 DEF FetchMoves
  <2>3. fetch' \in [Keys -> Fetches] /\ \A k \in Keys : FetchMoves(k)
    BY <2>1, <2>2 DEF Refetch
  <2>4. ASSUME NEW k \in Keys
        PROVE  /\ cache'[k] \in [of : Orgs \cup {"nobody"}, v : 0 .. MaxVersion, stale : BOOLEAN]
               /\ CacheMoves(k)
    BY <1>0, <2>1 DEF CacheMoves
  <2>5. QED
    BY <2>1, <2>3, <2>4 DEF EntriesMove
<1>16. CASE HandleLogout \/ ServeMutation \/ MutationFails \/ \E q \in Queries : Mutate(q)
  BY <1>1, <1>2, <1>16 DEF HandleLogout, ServeMutation, MutationFails, Mutate, client, EntriesMove
<1>17. CASE (\E t \in Tokens : Expire(t)) \/ \E k \in Keys : ChangeElsewhere(k)
  BY <1>1, <1>2, <1>17 DEF Expire, ChangeElsewhere, client, EntriesMove
<1>18. CASE Reload \/ MutationRefused \/ \E k \in Keys : Refuse(k)
  BY <1>3, <1>18 DEF Reload, MutationRefused, Refuse, Unauthorized
<1>19. QED
  BY <1>6, <1>7, <1>8, <1>9, <1>11, <1>12, <1>13, <1>14, <1>15, <1>16, <1>17, <1>18
     DEF Next, QueryStep

-----------------------------------------------------------------------------
(* What a step does to versions and to the change under way *)

\* An acknowledgement is kept, forgotten, or replaced by that of the change that has
\* just been answered, whose query is marked and fetched again.
AckedMoves(k) ==
    \/ acked'[k] = acked[k]
    \/ acked'[k] = 0
    \/ /\ mutation.stage = "done" /\ mutation.on = k /\ acked'[k] = mutation.v
       /\ fetch'[k].stage = "sent" /\ cache'[k].stale

MutationMoves ==
    mutation'.stage = "done" =>
        \/ mutation' = mutation
        \/ mutation'.v = version'[mutation'.on]

RestMoves ==
    /\ version' \in [Keys -> 1 .. MaxVersion]
    /\ \A k \in Keys : version[k] <= version'[k]
    /\ acked' \in [Keys -> 0 .. MaxVersion]
    /\ \A k \in Keys : AckedMoves(k)
    /\ mutation' \in Mutations /\ MutationMoves

LEMMA StepMovesRest ==
    ASSUME DashInv, [Next]_vars
    PROVE  RestMoves
<1> USE DashboardAssumption DEF ClientOK
<1>0. SessionOK /\ ClientOK
  BY DEF DashInv
<1>1. ASSUME UNCHANGED version
      PROVE  version' \in [Keys -> 1 .. MaxVersion] /\ \A k \in Keys : version[k] <= version'[k]
  BY <1>0, <1>1
<1>2. ASSUME UNCHANGED acked
      PROVE  acked' \in [Keys -> 0 .. MaxVersion] /\ \A k \in Keys : AckedMoves(k)
  BY <1>0, <1>2 DEF AckedMoves
<1>3. ASSUME mutation' \in {mutation, NoMutation, [stage |-> "refused"]}
      PROVE  mutation' \in Mutations /\ MutationMoves
  BY <1>0, <1>3 DEF MutationMoves, Mutations, NoMutation
<1>4. ASSUME UNCHANGED <<version, acked, mutation>>
      PROVE  RestMoves
  BY <1>1, <1>2, <1>3, <1>4 DEF RestMoves
<1>5. CASE UNCHANGED vars
  BY <1>4, <1>5 DEF vars, client, server
<1>6. CASE Load /\ UNCHANGED version
  <2>1. acked' \in [Keys -> 0 .. MaxVersion] /\ \A k \in Keys : acked'[k] = 0
    BY <1>6 DEF Load
  <2>2. QED
    BY <1>1, <1>3, <1>6, <2>1 DEF Load, RestMoves, AckedMoves
<1>7. CASE Reload \/ MutationRefused \/ \E k \in Keys : Refuse(k)
  BY <1>6, <1>7 DEF Reload, MutationRefused, Refuse, Unauthorized, server
<1>8. CASE \/ InitAuth \/ HandleLogout
           \/ \E t \in Tokens : LogIn(t) \/ Expire(t)
           \/ \E p \in Pages : Navigate(p)
           \/ \E k \in Keys : Poll(k) \/ Serve(k) \/ Receive(k) \/ FetchFails(k)
  BY <1>4, <1>8 DEF InitAuth, HandleLogout, LogIn, Expire, Navigate, Poll, Serve, Receive,
                    FetchFails, client, server
<1>9. ASSUME NEW k \in Keys, version[k] < MaxVersion, version' = [version EXCEPT ![k] = @ + 1]
      PROVE  /\ version' \in [Keys -> 1 .. MaxVersion]
             /\ \A l \in Keys : version[l] <= version'[l]
             /\ version'[k] = version[k] + 1
  BY <1>0, <1>9
<1>10. ASSUME NEW k \in Keys, ChangeElsewhere(k)
       PROVE  RestMoves
  BY <1>2, <1>3, <1>9, <1>10 DEF ChangeElsewhere, client, RestMoves
<1>11. ASSUME NEW q \in Queries, Mutate(q)
       PROVE  RestMoves
  <2>1. q \in Queries \cap {"jobs", "dlq", "queues"}
    BY <1>11 DEF Mutate, MutationsOf
  <2>2. token \in Tokens
    BY <1>0, <1>11 DEF Mutate, SignedIn, SessionOK
  <2>3. mutation' \in Mutations /\ mutation'.stage = "sent"
    BY <1>11, <2>1, <2>2 DEF Mutate, Mutations
  <2>4. QED
    BY <1>1, <1>2, <1>11, <2>3 DEF Mutate, server, RestMoves, MutationMoves
<1>12. CASE ServeMutation
  <2>1. mutation.with \in Tokens /\ mutation.target \in Queries \cap {"jobs", "dlq", "queues"}
    BY <1>0, <1>12 DEF ServeMutation, Mutations, NoMutation
  <2> DEFINE k == <<OrgOf[mutation.with], mutation.target>>
  <2>2. k \in Orgs \X (Queries \cap {"jobs", "dlq", "queues"}) /\ k \in Keys
    BY <2>1 DEF Keys
  <2> HIDE DEF k
  <2>3. CASE mutation.with \in expired
    BY <1>1, <1>2, <1>3, <1>12, <2>3 DEF ServeMutation, RestMoves
  <2>4. CASE mutation.with \notin expired
    <3>1. /\ version[k] < MaxVersion
          /\ version' = [version EXCEPT ![k] = @ + 1]
          /\ mutation' = [stage |-> "done", on |-> k, v |-> version[k] + 1]
          /\ UNCHANGED acked
      BY <1>12, <2>4 DEF ServeMutation, k
    <3>2. version[k] + 1 \in 1 .. MaxVersion
      BY <1>0, <2>2, <3>1
    <3>3. mutation' \in Mutations
      BY <2>2, <3>1, <3>2 DEF Mutations
    <3>4. MutationMoves
      BY <1>9, <2>2, <3>1 DEF MutationMoves
    <3>5. QED
      BY <1>2, <1>9, <2>2, <3>1, <3>3, <3>4 DEF RestMoves
  <2>5. QED
    BY <2>3, <2>4
<1>13. CASE MutationSucceeds
  <2> DEFINE m == mutation.on
             keys == {k \in Keys : k[2] \in Invalidates(m[2])}
  <2>1. /\ m \in Orgs \X (Queries \cap {"jobs", "dlq", "queues"})
        /\ mutation.v \in 1 .. MaxVersion /\ mutation.stage = "done"
    BY <1>0, <1>13 DEF MutationSucceeds, Mutations, NoMutation
  <2>2. m \in keys
    BY <2>1 DEF Invalidates, Keys
  <2>3. /\ cache' = [k \in Keys |-> IF k \in keys THEN [cache[k] EXCEPT !.stale = TRUE] ELSE cache[k]]
        /\ Refetch(keys \cap Observed)
        /\ acked' = IF m \in Observed /\ cache[m] # NoData
                    THEN [acked EXCEPT ![m] = mutation.v] ELSE acked
        /\ mutation' = NoMutation /\ UNCHANGED version
    BY <1>13 DEF MutationSucceeds, server
  <2>4. CASE m \in Observed /\ cache[m] # NoData
    <3>1. acked' = [acked EXCEPT ![m] = mutation.v] /\ m \in Keys
      BY <2>2, <2>3, <2>4
    <3>2. fetch'[m].stage = "sent" /\ cache'[m].stale
      BY <1>0, <2>2, <2>3, <2>4 DEF Refetch, Sent
    <3>3. acked' \in [Keys -> 0 .. MaxVersion] /\ \A k \in Keys : AckedMoves(k)
      BY <1>0, <2>1, <3>1, <3>2 DEF AckedMoves
    <3>4. QED
      BY <1>1, <1>3, <2>3, <3>3 DEF RestMoves
  <2>5. CASE ~ (m \in Observed /\ cache[m] # NoData)
    BY <1>1, <1>2, <1>3, <2>3, <2>5 DEF RestMoves
  <2>6. QED
    BY <2>4, <2>5
<1>14. CASE MutationFails
  BY <1>1, <1>2, <1>3, <1>14 DEF MutationFails, RestMoves
<1>15. QED
  BY <1>5, <1>7, <1>8, <1>10, <1>11, <1>12, <1>13, <1>14 DEF Next, QueryStep

-----------------------------------------------------------------------------
(* The invariants *)

LEMMA InitDashInv ==
    ASSUME Init
    PROVE  DashInv
<1> USE DashboardAssumption
<1>1. SessionOK
  <2>1. page \in Pages \cup {Login} /\ failures \in 0 .. MaxFailures
    BY DEF Init
  <2>2. isReady \in BOOLEAN /\ {token, storage} \subseteq Tokens \cup {NoToken} /\ expired \subseteq Tokens
    BY Zenon DEF Init
  <2>3. QED
    BY <2>1, <2>2 DEF SessionOK
<1>2. version \in [Keys -> 1 .. MaxVersion] /\ acked \in [Keys -> 0 .. MaxVersion]
  BY DEF Init
<1>3. NoFetch \in Fetches /\ NoMutation \in Mutations
  BY DEF Fetches, Mutations
<1>4. NoData \in [of : Orgs \cup {"nobody"}, v : 0 .. MaxVersion, stale : BOOLEAN]
  BY DEF NoData
<1>5. ClientOK
  BY <1>2, <1>3, <1>4 DEF Init, ClientOK
<1>6. EntriesBelong
  BY DEF Init, EntriesBelong, FetchBelongs, NoFetch
<1>7. QED
  BY <1>1, <1>5, <1>6 DEF DashInv

LEMMA DashInvStep ==
    ASSUME DashInv, [Next]_vars
    PROVE  DashInv'
<1>1. SessionOK' /\ EntriesMove /\ RestMoves
  BY SessionStep, StepMovesEntries, StepMovesRest DEF DashInv
<1>2. ClientOK'
  BY <1>1 DEF ClientOK, EntriesMove, RestMoves
<1>3. ASSUME NEW k \in Keys
      PROVE  FetchBelongs(k)' /\ (cache'[k] # NoData => cache'[k].of = k[1])
  <2>1. FetchMoves(k) /\ CacheMoves(k) /\ FetchBelongs(k) /\ (cache[k] # NoData => cache[k].of = k[1])
    BY <1>1 DEF EntriesMove, DashInv, EntriesBelong
  <2>2. FetchBelongs(k)'
    <3>1. CASE fetch'[k] = fetch[k]
      BY <2>1, <3>1 DEF FetchBelongs
    <3>2. CASE fetch'[k] \in {NoFetch, [stage |-> "refused"]}
      <4>1. fetch'[k].stage \notin {"sent", "answered"}
        BY <3>2 DEF NoFetch
      <4>2. QED
        BY <4>1 DEF FetchBelongs
    <3>3. CASE Asks(k)
      BY <3>3 DEF Asks, FetchBelongs
    <3>4. CASE Answers(k)
      BY <3>4 DEF Answers, FetchBelongs
    <3>5. QED
      BY <2>1, <3>1, <3>2, <3>3, <3>4 DEF FetchMoves
  <2>3. cache'[k] # NoData => cache'[k].of = k[1]
    <3>1. CASE cache'[k] \in {cache[k], NoData}
      BY <2>1, <3>1
    <3>2. CASE cache'[k] = [cache[k] EXCEPT !.stale = TRUE]
      <4>1. cache[k] \in [of : Orgs \cup {"nobody"}, v : 0 .. MaxVersion, stale : BOOLEAN]
        BY DEF DashInv, ClientOK
      <4>2. cache[k] = NoData => cache'[k] = NoData
        <5> SUFFICES ASSUME cache[k] = NoData
                     PROVE  cache'[k] = NoData
          OBVIOUS
        <5>1. cache'[k] \in [of : Orgs \cup {"nobody"}, v : 0 .. MaxVersion, stale : BOOLEAN]
          BY <3>2, <4>1
        <5>2. cache'[k] = [of |-> cache'[k].of, v |-> cache'[k].v, stale |-> cache'[k].stale]
          BY <5>1
        <5>3. cache'[k].of = cache[k].of /\ cache'[k].v = cache[k].v /\ cache'[k].stale = TRUE
          BY <3>2, <4>1
        <5>4. cache[k].of = "nobody" /\ cache[k].v = 0
          BY DEF NoData
        <5>5. QED
          BY <5>2, <5>3, <5>4 DEF NoData
      <4>3. cache'[k].of = cache[k].of
        BY <3>2, <4>1
      <4>4. QED
        BY <2>1, <4>2, <4>3
    <3>3. CASE fetch[k].stage = "answered"
               /\ cache'[k] = [of |-> fetch[k].of, v |-> fetch[k].v, stale |-> FALSE]
      BY <2>1, <3>3 DEF FetchBelongs
    <3>4. QED
      BY <2>1, <3>1, <3>2, <3>3 DEF CacheMoves
  <2>4. QED
    BY <2>2, <2>3
<1>4. EntriesBelong'
  BY <1>3 DEF EntriesBelong
<1>5. QED
  BY <1>1, <1>2, <1>4 DEF DashInv

LEMMA DashInvCorrect == Spec => []DashInv
<1>1. Init => DashInv
  BY InitDashInv
<1>2. DashInv /\ [Next]_vars => DashInv'
  BY DashInvStep
<1>3. QED
  BY <1>1, <1>2, PTL DEF Spec

\* The state of the tab is well formed: whatever answers, retries and reloads come in
\* whatever order, a fetch and a change are in one of their stages.
THEOREM DashboardTypeCorrect == Spec => []TypeOK
<1>1. DashInv => TypeOK
  BY DEF DashInv, SessionOK, ClientOK, TypeOK, Fetches, Mutations, NoFetch, NoMutation
<1>2. QED
  BY <1>1, DashInvCorrect, PTL

\* QUERY_KEYS name the organisation (useMetrics.js), so the entries of an earlier
\* session, which sign-out leaves in the query client, are never shown to another's.
THEOREM NobodySeesAnothersData == Spec => []ShownBelongsToSession
<1>1. DashInv => ShownBelongsToSession
  BY ObservedKeys DEF DashInv, EntriesBelong, ShownBelongsToSession
<1>2. QED
  BY <1>1, DashInvCorrect, PTL

\* No acknowledgement is ahead of what is on the server, nor of an answer that may
\* still be put in the cache.
AckInv ==
    /\ \A k \in Keys :
         /\ acked[k] <= version[k]
         /\ fetch[k].stage = "answered" => acked[k] <= fetch[k].v /\ fetch[k].v <= version[k]
    /\ mutation.stage = "done" => mutation.v <= version[mutation.on]
    /\ OwnChangesAreShown

LEMMA AckInvStep ==
    ASSUME DashInv, AckInv, [Next]_vars
    PROVE  AckInv'
<1>1. EntriesMove /\ RestMoves /\ ClientOK
  BY StepMovesEntries, StepMovesRest DEF DashInv
<1>2. ASSUME mutation'.stage = "done"
      PROVE  mutation'.v <= version'[mutation'.on]
  <2>1. mutation' \in Mutations /\ MutationMoves
    BY <1>1 DEF RestMoves
  <2>2. mutation'.on \in Keys /\ mutation'.v \in 1 .. MaxVersion
    BY <1>2, <2>1 DEF Mutations, NoMutation, Keys
  <2>3. version[mutation'.on] <= version'[mutation'.on]
        /\ version[mutation'.on] \in 1 .. MaxVersion /\ version'[mutation'.on] \in 1 .. MaxVersion
    BY <1>1, <2>2 DEF RestMoves, ClientOK
  <2>4. QED
    BY <1>2, <2>1, <2>2, <2>3, DashboardAssumption DEF MutationMoves, AckInv
<1>3. ASSUME NEW k \in Keys
      PROVE  /\ acked'[k] <= version'[k]
             /\ fetch'[k].stage = "answered" => acked'[k] <= fetch'[k].v /\ fetch'[k].v <= version'[k]
             /\ cache'[k] # NoData /\ ~ cache'[k].stale => cache'[k].v >= acked'[k]
  <2>1. FetchMoves(k) /\ CacheMoves(k) /\ AckedMoves(k)
    BY <1>1 DEF EntriesMove, RestMoves
  <2>2. /\ version[k] \in 1 .. MaxVersion /\ version'[k] \in 1 .. MaxVersion
        /\ version[k] <= version'[k]
        /\ acked[k] \in 0 .. MaxVersion /\ acked'[k] \in 0 .. MaxVersion
        /\ cache[k] \in [of : Orgs \cup {"nobody"}, v : 0 .. MaxVersion, stale : BOOLEAN]
        /\ fetch[k] \in Fetches
    BY <1>1 DEF RestMoves, ClientOK
  <2>3. /\ acked[k] <= version[k]
        /\ fetch[k].stage = "answered" => /\ acked[k] <= fetch[k].v /\ fetch[k].v <= version[k]
                                          /\ fetch[k].v \in 1 .. MaxVersion
        /\ cache[k] # NoData /\ ~ cache[k].stale => cache[k].v >= acked[k]
    BY <2>2 DEF AckInv, OwnChangesAreShown, Fetches, NoFetch
  <2>4. ASSUME acked'[k] \in {acked[k], 0}
        PROVE  /\ acked'[k] <= acked[k]
               /\ acked'[k] <= version'[k]
    BY <2>2, <2>3, <2>4, DashboardAssumption
  <2>5. CASE acked'[k] \in {acked[k], 0}
    <3>1. acked'[k] <= version'[k]
      BY <2>4, <2>5
    <3>2. fetch'[k].stage = "answered" => acked'[k] <= fetch'[k].v /\ fetch'[k].v <= version'[k]
      <4>1. CASE fetch'[k] = fetch[k]
        BY <2>2, <2>3, <2>4, <2>5, <4>1, DashboardAssumption
      <4>2. CASE fetch'[k].stage # "answered"
        BY <4>2
      <4>3. CASE Answers(k)
        BY <2>2, <2>3, <4>3, DashboardAssumption DEF Answers
      <4>4. QED
        <5>1. CASE fetch'[k] \in {NoFetch, [stage |-> "refused"]}
          <6>1. fetch'[k].stage # "answered"
            BY <5>1 DEF NoFetch
          <6>2. QED
            BY <4>2, <6>1
        <5>2. CASE Asks(k)
          BY <5>2 DEF Asks
        <5>3. QED
          BY <2>1, <4>1, <4>3, <5>1, <5>2 DEF FetchMoves
    <3>3. cache'[k] # NoData /\ ~ cache'[k].stale => cache'[k].v >= acked'[k]
      <4>1. CASE cache'[k] = cache[k]
        BY <2>2, <2>3, <2>4, <2>5, <4>1, DashboardAssumption
      <4>2. CASE cache'[k] = NoData
        BY <4>2
      <4>3. CASE cache'[k] = [cache[k] EXCEPT !.stale = TRUE]
        <5>1. cache'[k].stale
          BY <2>2, <4>3
        <5>2. QED
          BY <5>1
      <4>4. CASE /\ fetch[k].stage = "answered"
                 /\ cache'[k] = [of |-> fetch[k].of, v |-> fetch[k].v, stale |-> FALSE]
        BY <2>2, <2>3, <2>4, <2>5, <4>4, DashboardAssumption
      <4>5. QED
        BY <2>1, <4>1, <4>2, <4>3, <4>4 DEF CacheMoves
    <3>4. QED
      BY <3>1, <3>2, <3>3
  <2>6. CASE /\ mutation.stage = "done" /\ mutation.on = k /\ acked'[k] = mutation.v
             /\ fetch'[k].stage = "sent" /\ cache'[k].stale
    <3>1. mutation.v <= version[k]
      BY <2>6 DEF AckInv
    <3>2. QED
      BY <2>2, <2>6, <3>1, DashboardAssumption
  <2>7. QED
    BY <2>1, <2>5, <2>6 DEF AckedMoves
<1>4. QED
  BY <1>2, <1>3 DEF AckInv, OwnChangesAreShown

\* onSuccess marks and fetches again what a change invalidates, and cancels the fetch
\* under way (useMetrics.js): no answer read before the change replaces it as fresh.
THEOREM AcknowledgedChangesStay == Spec => []OwnChangesAreShown
<1>1. Init /\ DashInv => AckInv
  BY DashboardAssumption DEF Init, AckInv, OwnChangesAreShown, NoFetch, NoMutation, DashInv, ClientOK
<1>2. DashInv /\ AckInv /\ [Next]_vars => AckInv'
  BY AckInvStep
<1>3. AckInv => OwnChangesAreShown
  BY DEF AckInv
<1>4. QED
  BY <1>1, <1>2, <1>3, DashInvCorrect, PTL DEF Spec

=============================================================================
