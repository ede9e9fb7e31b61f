--------------------------- MODULE DashboardSession ---------------------------
(***************************************************************************)
(* One tab of the dashboard: the session (useAuthStore.js, api.js,         *)
(* App.jsx), what the query client fetches and keeps for the pages         *)
(* (useMetrics.js), and the changes somebody makes there.  The API is its  *)
(* answers: it refuses an expired token, and otherwise serves the present  *)
(* version of the data of the token's organisation.                        *)
(***************************************************************************)
EXTENDS Naturals, FiniteSets

CONSTANTS
    Tokens,       \* tokens the API may issue in a behaviour
    Orgs,         \* organisations
    OrgOf,        \* organisation each token carries
    Pages,        \* the pages somebody visits
    Queries,      \* the queries looked at
    MaxVersion,   \* bound of the changes to one query's data
    MaxFailures   \* bound of the requests without an answer

NoToken == "no token"
Login == "login"
Home == "overview"

ASSUME DashboardAssumption ==
    /\ NoToken \notin Tokens
    /\ OrgOf \in [Tokens -> Orgs]
    /\ Home \in Pages /\ Login \notin Pages
    /\ MaxVersion \in Nat \ {0} /\ MaxFailures \in Nat

\* What the components of each page subscribe to.
QueriesOf(page) ==
    Queries \cap
    CASE page = "overview" -> {"metrics", "throughput"}
      [] page = "jobs"     -> {"jobs", "queues"}
      [] page = "workers"  -> {"workers"}
      [] page = "dlq"      -> {"dlq"}
      [] page = "settings" -> {"queues", "projects"}
      [] page = "activity" -> {"jobs", "workers", "dlq"}
      [] OTHER             -> {}

\* Queries with a refetchInterval.
Polled == {"metrics", "throughput", "jobs", "workers", "dlq"}

\* The mutations of each page, named for the query whose data they change.
MutationsOf(page) ==
    Queries \cap
    CASE page = "jobs"     -> {"jobs"}
      [] page = "dlq"      -> {"jobs", "dlq"}
      [] page = "settings" -> {"queues"}
      [] OTHER             -> {}

\* What useJobMutations and useQueueMutations invalidate.
Invalidates(target) ==
    Queries \cap (IF target = "queues" THEN {"queues", "metrics"}
                  ELSE {"jobs", "metrics", "dlq", "queues"})

VARIABLES
    isReady,    \* initAuth has run
    token,      \* of the store; isAuthenticated and user follow from it
    storage,    \* the token in localStorage
    page,       \* the route
    expired,    \* tokens past their exp
    version,    \* of the data of each organisation and query on the server
    cache,      \* of the query client, by key: data, or none
    fetch,      \* of the query client, by key: the fetch that is under way
    mutation,   \* the change that is under way
    acked,      \* versions an answer to this tab's own changes has named
    failures    \* requests without an answer so far

session == <<isReady, token, storage, page>>
client == <<cache, fetch, mutation, acked>>
server == <<expired, version, failures>>
vars == <<session, client, server>>

Keys == Orgs \X Queries
NoData == [of |-> "nobody", v |-> 0, stale |-> TRUE]
NoFetch == [stage |-> "none"]
NoMutation == [stage |-> "none"]

Sent == [stage |-> "sent", with |-> token]

\* Mutant: keys without the organisation.
KeyOfSession(q) == <<CHOOSE o \in Orgs : TRUE, q>>

\* QUERY_KEYS: the organisation of the signed-in user is part of every key.
KeyOf(q) == <<OrgOf[token], q>>

SignedIn == isReady /\ token # NoToken

\* Keys with a mounted observer.
Observed == IF SignedIn THEN {KeyOf(q) : q \in QueriesOf(page)} ELSE {}

Init ==
    /\ isReady = FALSE
    /\ token = NoToken
    /\ storage = NoToken
    /\ page = Home
    /\ expired = {}
    /\ version = [k \in Keys |-> 1]
    /\ cache = [k \in Keys |-> NoData]
    /\ fetch = [k \in Keys |-> NoFetch]
    /\ mutation = NoMutation
    /\ acked = [k \in Keys |-> 0]
    /\ failures = 0

-----------------------------------------------------------------------------
(* The session *)

\* The page is loaded: nothing but localStorage is left.  What the server has been
\* asked to do it may do all the same.
Load ==
    /\ isReady' = FALSE
    /\ token' = NoToken
    /\ cache' = [k \in Keys |-> NoData]
    /\ fetch' = [k \in Keys |-> NoFetch]
    /\ mutation' = NoMutation
    /\ acked' = [k \in Keys |-> 0]

\* Queries that mount fetch at once if they have no data or stale data; 60 seconds
\* after a fetch its data is stale without any mark.
Mount(keys) ==
    \E extra \in SUBSET keys :
        fetch' = [k \in Keys |->
                    IF k \in keys /\ fetch[k] = NoFetch /\ (cache[k].stale \/ k \in extra)
                    THEN [stage |-> "sent", with |-> token'] ELSE fetch[k]]

\* A token can be decoded and its exp is in the future.
Usable(t) == t \in Tokens \ expired

\* initAuth, and the redirect of ProtectedRoute if there is no session.
InitAuth ==
    /\ ~ isReady
    /\ isReady' = TRUE
    /\ token' = IF Usable(storage) THEN storage ELSE NoToken
    /\ storage' = token'
    /\ page' = IF token' = NoToken THEN Login ELSE page
    /\ Mount(IF token' = NoToken THEN {} ELSE {<<OrgOf[token'], q>> : q \in QueriesOf(page)})
    /\ UNCHANGED <<cache, mutation, acked, server>>

\* login() of the store.
StoreSession(t) == Usable(t) /\ storage' = t /\ token' = t

\* handleSubmit of the login page with an answer of /auth/login.
LogIn(t) ==
    /\ isReady /\ page = Login
    /\ StoreSession(t)
    /\ page' = Home
    /\ Mount({<<OrgOf[t], q>> : q \in QueriesOf(Home)})
    /\ UNCHANGED <<isReady, cache, mutation, acked, server>>

\* Mutant: localStorage.setItem(key, null), which stores the text "null".
ForgetWithNull == storage' = "null"

\* What logout() leaves in localStorage.
Forget == storage' = NoToken

\* Sign out: the query client and its requests stay as they are.
HandleLogout ==
    /\ SignedIn
    /\ token' = NoToken
    /\ Forget
    /\ page' = Login
    /\ UNCHANGED <<isReady, client, server>>

Navigate(p) ==
    /\ SignedIn
    /\ p # page
    /\ page' = p
    /\ UNCHANGED <<isReady, token, storage, cache, mutation, acked, server>>
    /\ Mount({KeyOf(q) : q \in QueriesOf(p)} \ Observed)

\* Somebody reloads the page.
Reload ==
    /\ isReady
    /\ Load
    /\ UNCHANGED <<storage, page, server>>

\* A 401, whatever token it refuses: logout() and a load of /login.
Unauthorized ==
    /\ Load
    /\ Forget
    /\ page' = Login

-----------------------------------------------------------------------------
(* Queries *)

\* refetchInterval; a fetch under way is not doubled.
Poll(k) ==
    /\ k \in Observed /\ k[2] \in Polled
    /\ fetch[k] = NoFetch
    /\ fetch' = [fetch EXCEPT ![k] = Sent]
    /\ UNCHANGED <<session, cache, mutation, acked, server>>

\* The API answers with what there is at this moment.
Serve(k) ==
    /\ fetch[k].stage = "sent"
    /\ LET t == fetch[k].with IN
       fetch' = [fetch EXCEPT ![k] =
                   IF t = NoToken \/ t \in expired THEN [stage |-> "refused"]
                   ELSE [ stage |-> "answered", of |-> OrgOf[t],
                          v |-> version[<<OrgOf[t], k[2]>>] ]]
    /\ UNCHANGED <<session, cache, mutation, acked, server>>

\* Data enters the cache and clears the mark of an invalidation.
Receive(k) ==
    /\ fetch[k].stage = "answered"
    /\ cache' = [cache EXCEPT ![k] = [of |-> fetch[k].of, v |-> fetch[k].v, stale |-> FALSE]]
    /\ fetch' = [fetch EXCEPT ![k] = NoFetch]
    /\ UNCHANGED <<session, mutation, acked, server>>

\* Mutant: the interceptor passes a 401 on like any other error.
RefusePassedOn(k) ==
    /\ fetch[k].stage = "refused"
    /\ fetch' = [fetch EXCEPT ![k] = NoFetch]
    /\ UNCHANGED <<session, cache, mutation, acked, server>>

\* The response interceptor.
Refuse(k) ==
    /\ fetch[k].stage = "refused"
    /\ Unauthorized
    /\ UNCHANGED server

\* No answer, or a late one: another attempt, with the token of that moment, if
\* somebody still observes the query and the retries are not used up.
FetchFails(k) ==
    /\ failures < MaxFailures
    /\ failures' = failures + 1
    /\ fetch[k].stage \in {"sent", "answered"}
    /\ \/ k \in Observed /\ fetch' = [fetch EXCEPT ![k] = Sent]
       \/ fetch' = [fetch EXCEPT ![k] = NoFetch]
    /\ UNCHANGED <<session, cache, mutation, acked, expired, version>>

-----------------------------------------------------------------------------
(* Mutations *)

Mutate(target) ==
    /\ SignedIn
    /\ target \in MutationsOf(page)
    /\ mutation = NoMutation
    /\ mutation' = [stage |-> "sent", target |-> target, with |-> token]
    /\ UNCHANGED <<session, cache, fetch, acked, server>>

ServeMutation ==
    /\ mutation.stage = "sent"
    /\ IF mutation.with \in expired
       THEN mutation' = [stage |-> "refused"] /\ UNCHANGED version
       ELSE LET k == <<OrgOf[mutation.with], mutation.target>> IN
            /\ version[k] < MaxVersion
            /\ version' = [version EXCEPT ![k] = @ + 1]
            /\ mutation' = [stage |-> "done", on |-> k, v |-> version[k] + 1]
    /\ UNCHANGED <<session, cache, fetch, acked, expired, failures>>

\* Mutant: fetches under way are kept.
RefetchKeeping(keys) ==
    fetch' = [k \in Keys |-> IF k \in keys /\ fetch[k] = NoFetch THEN Sent ELSE fetch[k]]

\* refetchQueries: a fetch under way is cancelled and replaced, but for the first
\* fetch of a query, which has no data yet and is joined.
Refetch(keys) ==
    fetch' = [k \in Keys |->
                IF k \in keys /\ (fetch[k] = NoFetch \/ cache[k] # NoData) THEN Sent ELSE fetch[k]]

\* onSuccess: keys of every organisation are marked, those on screen fetched again.
\* A change counts as acknowledged to its reader where there are data to compare.
MutationSucceeds ==
    /\ mutation.stage = "done"
    /\ LET keys == {k \in Keys : k[2] \in Invalidates(mutation.on[2])} IN
       /\ cache' = [k \in Keys |-> IF k \in keys THEN [cache[k] EXCEPT !.stale = TRUE] ELSE cache[k]]
       /\ Refetch(keys \cap Observed)
    /\ acked' = IF mutation.on \in Observed /\ cache[mutation.on] # NoData
                THEN [acked EXCEPT ![mutation.on] = mutation.v] ELSE acked
    /\ mutation' = NoMutation
    /\ UNCHANGED <<session, server>>

MutationRefused ==
    /\ mutation.stage = "refused"
    /\ Unauthorized
    /\ UNCHANGED server

\* Never retried; it may have been done.
MutationFails ==
    /\ failures < MaxFailures
    /\ failures' = failures + 1
    /\ mutation.stage \in {"sent", "done"}
    /\ mutation' = NoMutation
    /\ UNCHANGED <<session, cache, fetch, acked, expired, version>>

-----------------------------------------------------------------------------
(* The rest of the world *)

Expire(t) ==
    /\ t \notin expired
    /\ expired' = expired \cup {t}
    /\ UNCHANGED <<session, client, version, failures>>

\* Somebody else, or a worker, changes what a query shows.
ChangeElsewhere(k) ==
    /\ version[k] < MaxVersion
    /\ version' = [version EXCEPT ![k] = @ + 1]
    /\ UNCHANGED <<session, client, expired, failures>>

QueryStep(k) == Poll(k) \/ Serve(k) \/ Receive(k) \/ Refuse(k)

Next ==
    \/ InitAuth \/ HandleLogout \/ Reload
    \/ \E t \in Tokens : LogIn(t) \/ Expire(t)
    \/ \E p \in Pages : Navigate(p)
    \/ \E k \in Keys : QueryStep(k) \/ FetchFails(k) \/ ChangeElsewhere(k)
    \/ \E q \in Queries : Mutate(q)
    \/ ServeMutation \/ MutationSucceeds \/ MutationRefused \/ MutationFails

Spec == Init /\ [][Next]_vars

\* Intervals fire and requests are answered or time out; people owe nothing.
FairSpec ==
    /\ Spec
    /\ WF_vars(InitAuth)
    /\ \A k \in Keys : WF_vars(QueryStep(k))

-----------------------------------------------------------------------------
(* Properties *)

TypeOK ==
    /\ isReady \in BOOLEAN
    /\ {token, storage} \subseteq Tokens \cup {NoToken}
    /\ page \in Pages \cup {Login}
    /\ expired \subseteq Tokens
    /\ version \in [Keys -> 1 .. MaxVersion]
    /\ cache \in [Keys -> [of : Orgs \cup {"nobody"}, v : 0 .. MaxVersion, stale : BOOLEAN]]
    /\ \A k \in Keys : fetch[k].stage \in {"none", "sent", "answered", "refused"}
    /\ mutation.stage \in {"none", "sent", "done", "refused"}
    /\ failures \in 0 .. MaxFailures

\* Whoever has signed out and in again while requests of the earlier session were
\* under way, failed or were retried: what a page shows is its user's organisation's.
ShownBelongsToSession ==
    SignedIn => \A k \in Observed : cache[k] # NoData => cache[k].of = OrgOf[token]

\* A change somebody has seen acknowledged does not vanish again: an answer read
\* before the change never replaces what was shown and passes for fresh.
OwnChangesAreShown ==
    \A k \in Keys : cache[k] # NoData /\ ~ cache[k].stale => cache[k].v >= acked[k]

\* "on 401, calls logout() and redirects ... so expired tokens are handled globally"
\* (api.js:9-10): nobody sits on a page that polls with an expired session for ever.
SitsExpired(t, p) ==
    token = t /\ t \in expired /\ page = p /\ \E k \in Observed : k[2] \in Polled

ExpiredSessionsEnd == \A t \in Tokens : \A p \in Pages : []<>(~ SitsExpired(t, p))

=============================================================================
