------------------------------ MODULE JobListing ------------------------------
(***************************************************************************)
(* Paging through the jobs: getJobs with its cursor (JobApiService.js) as  *)
(* the Job Explorer of the dashboard uses it (JobsPage.jsx, useJobs), over *)
(* a table that changes all the while.  A page is read at one moment and   *)
(* shown at a later one; until it arrives, the explorer shows what it has  *)
(* of that page, or the page before.                                       *)
(***************************************************************************)
EXTENDS Integers, Sequences, SequencesExt

CONSTANTS
    Ids,          \* ids of jobs, in the order of the primary key
    Statuses,     \* the values of jobs.status
    Filters,      \* the filters somebody clicks on: statuses, or "all"
    PageSize,     \* limit
    HostOffset,   \* what the clock of the API's host is ahead of UTC, in seconds
    MaxNow,       \* bound of the clock, in seconds
    MaxChanges,   \* bound of the status changes
    MaxStack,     \* bound of the clicks on Next
    MaxFlights    \* answers on their way at the same time

ASSUME ListingAssumption ==
    /\ Ids \subseteq Int /\ IsFiniteSet(Ids)
    /\ "QUEUED" \in Statuses /\ Filters \subseteq {"all"} \cup Statuses
    /\ HostOffset \in Int
    /\ {PageSize, MaxNow} \subseteq Nat \ {0}
    /\ {MaxChanges, MaxStack, MaxFlights} \subseteq Nat

All == "all"
NoCursor == [at |-> 0, id |-> 0]

VARIABLES
    now,       \* the clock
    created,   \* jobs.created_at in seconds, 0 before the row is inserted
    status,    \* jobs.status
    changes,   \* status changes so far
    order,     \* "asc" or "desc", fixed for a walk
    filter,    \* statusFilter
    cursor,    \* cursor
    stack,     \* cursorStack
    cache,     \* the answers of this walk, which the query client still holds
    flights,   \* the answers on their way
    shown,     \* `data': the answer on the screen
    walk,      \* this walk started at a first page that was new
    steady,    \* jobs that have matched the filter since that page was read
    seen       \* jobs shown since then

table == <<now, created, status, changes>>
explorer == <<filter, cursor, stack, shown>>
walker == <<walk, steady, seen>>
vars == <<table, order, explorer, cache, flights, walker>>

\* listJobsSchema: the query strings that are not answered with a 422.
ListJobsSchema ==
    [status : {All} \cup Statuses, order : {"asc", "desc"}, limit : 1 .. 100]

Matching(f) == {i \in Ids : created[i] > 0 /\ f \in {All, status[i]}}

-----------------------------------------------------------------------------
(* getJobs *)

\* Mutant: the seek compares created_at only.
BeyondSecond(c, i) ==
    \/ c = NoCursor
    \/ IF order = "asc" THEN created[i] > c.at ELSE created[i] < c.at

\* WHERE created_at < c.created_at OR created_at = c.created_at AND id < c.id.
Beyond(c, i) ==
    \/ c = NoCursor
    \/ IF order = "asc"
       THEN created[i] > c.at \/ (created[i] = c.at /\ i > c.id)
       ELSE created[i] < c.at \/ (created[i] = c.at /\ i < c.id)

\* ORDER BY created_at, id.
Earlier(i, j) ==
    IF order = "asc"
    THEN created[i] < created[j] \/ (created[i] = created[j] /\ i < j)
    ELSE created[i] > created[j] \/ (created[i] = created[j] /\ i > j)

\* LIMIT n.
FirstOf(n, found) == {i \in found : Cardinality({j \in found : Earlier(j, i)}) < n}

\* encodeCursor of the last of some rows.  Its time is a string in UTC that does not
\* say so (dateStrings): the WHERE of the next page takes it for the host's time.
EncodeCursor(rows) ==
    LET last == CHOOSE i \in rows : \A j \in rows : i # j => Earlier(j, i)
    IN [at |-> created[last] - HostOffset, id |-> last]

\* Mutant: the cursor of the row that only tells that there are more.
CursorOfExtra(found) == EncodeCursor(FirstOf(PageSize + 1, found))

NextCursor(found) == EncodeCursor(FirstOf(PageSize, found))

\* One row more than a page is asked for; it only tells that there are more.
GetJobs(f, c) ==
    LET found == {i \in Matching(f) : Beyond(c, i)}
        more  == Cardinality(FirstOf(PageSize + 1, found)) > PageSize
    IN [ filter |-> f, cursor |-> c, more |-> more, rows |-> FirstOf(PageSize, found),
         next |-> IF more THEN NextCursor(found) ELSE NoCursor,
         there |-> Matching(f), new |-> TRUE ]

NoPage ==
    [ filter |-> All, cursor |-> NoCursor, more |-> FALSE, rows |-> {},
      next |-> NoCursor, there |-> {}, new |-> FALSE ]

Init ==
    /\ now = 1
    /\ created = [i \in Ids |-> 0]
    /\ status = [i \in Ids |-> "QUEUED"]
    /\ changes = 0
    /\ order \in {"asc", "desc"}
    /\ filter = All
    /\ cursor = NoCursor
    /\ stack = << >>
    /\ cache = {}
    /\ flights = {}
    /\ shown = NoPage
    /\ walk = FALSE
    /\ steady = {}
    /\ seen = {}

-----------------------------------------------------------------------------
(* The table *)

Tick ==
    /\ now < MaxNow
    /\ now' = now + 1
    /\ UNCHANGED <<created, status, changes, order, explorer, cache, flights, walker>>

\* Mutant: the fraction of the second is rounded up.
InsertRoundedUp(i) ==
    /\ created[i] = 0
    /\ created' = [created EXCEPT ![i] = now + 1]
    /\ UNCHANGED <<now, status, changes, order, explorer, cache, flights, walker>>

\* A new job: its id is a random UUID, anywhere among the others.
Insert(i) ==
    /\ created[i] = 0
    /\ created' = [created EXCEPT ![i] = now]
    /\ UNCHANGED <<now, status, changes, order, explorer, cache, flights, walker>>

\* A job leaves the filters that named its old status.
Change(i, s) ==
    /\ changes < MaxChanges
    /\ created[i] > 0
    /\ s # status[i]
    /\ status' = [status EXCEPT ![i] = s]
    /\ changes' = changes + 1
    /\ steady' = IF filter = status[i] THEN steady \ {i} ELSE steady
    /\ flights' = {[p EXCEPT !.there = IF p.filter = status[i] THEN @ \ {i} ELSE @] : p \in flights}
    /\ UNCHANGED <<now, created, order, explorer, cache, walk, seen>>

-----------------------------------------------------------------------------
(* useJobs *)

IsFor(p, f, c) == p.filter = f /\ p.cursor = c

\* The explorer asks for the page it stands on; the query runs on the server.
Fetch ==
    /\ Cardinality(flights) < MaxFlights
    /\ ~ \E p \in flights : IsFor(p, filter, cursor)
    /\ [status |-> filter, order |-> order, limit |-> PageSize] \in ListJobsSchema
    /\ flights' = flights \cup {GetJobs(filter, cursor)}
    /\ UNCHANGED <<table, order, explorer, cache, walker>>

Replaces(p, pages) == {q \in pages : ~ IsFor(q, p.filter, p.cursor)} \cup {p}
Stored(p) == [p EXCEPT !.there = {}]

\* The answer to the first page starts a new walk; other answers are then old.
ShowFirst(p) ==
    LET page == [Stored(p) EXCEPT !.new = TRUE] IN
    /\ IsFor(p, filter, NoCursor)
    /\ shown' = page
    /\ cache' = {page}
    /\ walk' = TRUE
    /\ steady' = p.there
    /\ seen' = p.rows
    /\ flights' = {[q EXCEPT !.new = FALSE] : q \in flights \ {p}}

ShowOther(p) ==
    /\ p.cursor # NoCursor
    /\ shown' = Stored(p)
    /\ IF walk
       THEN cache' = Replaces(Stored(p), cache) /\ seen' = seen \cup p.rows
       ELSE UNCHANGED <<cache, seen>>
    /\ flights' = flights \ {p}
    /\ UNCHANGED <<walk, steady>>

\* The answer to the page the explorer stands on.
Show(p) ==
    /\ IsFor(p, filter, cursor)
    /\ ShowFirst(p) \/ ShowOther(p)
    /\ UNCHANGED <<table, order, filter, cursor, stack>>

\* The answer to a page the explorer has left.
Ignore(p) ==
    /\ ~ IsFor(p, filter, cursor)
    /\ flights' = flights \ {p}
    /\ UNCHANGED <<table, order, explorer, cache, walker>>

\* placeholderData: the cached answer of the new key, or the previous one.  One that
\* is older than the walk may be there too; what it says is left to the last case.
ShowCached(f, c) ==
    IF \E p \in cache : IsFor(p, f, c)
    THEN shown' = CHOOSE p \in cache : IsFor(p, f, c)
    ELSE shown' \in {shown, [shown EXCEPT !.new = FALSE]}

\* The first page of the filter, if it is cached, or what was on the screen; it is old.
ShowOld(f) ==
    LET cached == {p \in cache : IsFor(p, f, NoCursor)}
    IN shown' \in {[p EXCEPT !.new = FALSE] : p \in IF cached = {} THEN {shown} ELSE cached}

\* The walk is over, its answers are old.
EndWalk ==
    /\ walk' = FALSE
    /\ steady' = {}
    /\ seen' = {}
    /\ cache' = {}

-----------------------------------------------------------------------------
(* JobsPage *)

SetFilter(f) == filter' = f /\ cursor' = NoCursor /\ stack' = << >> /\ ShowOld(f)

\* A click on a filter, the present one or another; it ends the walk.
ClickFilter(f) ==
    /\ SetFilter(f)
    /\ EndWalk
    /\ UNCHANGED <<table, order, flights>>

\* Next is enabled by the data on screen, be it of this page or not.  Whoever takes
\* it from an answer older than the walk is not walking page by page any more.
ClickNext ==
    /\ shown.more
    /\ Len(stack) < MaxStack
    /\ stack' = Append(stack, cursor)
    /\ cursor' = shown.next
    /\ ShowCached(filter, shown.next)
    /\ IF walk /\ shown.new THEN UNCHANGED <<walker, cache>> ELSE EndWalk
    /\ UNCHANGED <<table, order, filter, flights>>

ClickPrev ==
    /\ stack # << >>
    /\ cursor' = Last(stack)
    /\ stack' = Front(stack)
    /\ ShowCached(filter, Last(stack))
    /\ UNCHANGED <<table, order, filter, cache, flights, walker>>

Next ==
    \/ Tick \/ (\E i \in Ids : Insert(i) \/ \E s \in Statuses : Change(i, s))
    \/ Fetch \/ \E p \in flights : Show(p) \/ Ignore(p)
    \/ (\E f \in Filters : ClickFilter(f)) \/ ClickNext \/ ClickPrev

Spec == Init /\ [][Next]_vars

-----------------------------------------------------------------------------
(* Properties *)

TypeOK ==
    /\ now \in 1 .. MaxNow
    /\ created \in [Ids -> 0 .. MaxNow]
    /\ status \in [Ids -> Statuses]
    /\ changes \in 0 .. MaxChanges
    /\ filter \in {All} \cup Statuses
    /\ cursor \in [at : 0 .. MaxNow, id : Ids \cup {0}]
    /\ walk \in BOOLEAN
    /\ steady \cup seen \subseteq Ids

OnScreen == IsFor(shown, filter, cursor)

\* "a stable, index-friendly seek" (JobApiService.js:233-236): whoever goes by Next
\* from a first page to a last one has been shown every job that was there all the
\* time, though others were inserted into the same second, changed their status, or
\* were skipped by an impatient click on the way.  A click on Next that goes by an
\* answer older than the walk ends it.
WalksAreComplete == walk /\ OnScreen /\ shown.new /\ ~ shown.more => steady \subseteq seen

\* The same for every page on the way: nothing before the present cursor is missed.
NothingIsSkipped == walk => \A i \in steady : Beyond(cursor, i) \/ i \in seen

=============================================================================
