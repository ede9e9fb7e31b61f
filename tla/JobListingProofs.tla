--------------------------- MODULE JobListingProofs ---------------------------
(***************************************************************************)
(* Paging through the jobs, proved for every table, every page size and    *)
(* every number of answers on their way: what getJobs puts on a page, and  *)
(* that a walk from page to page misses nothing.                           *)
(***************************************************************************)
EXTENDS JobListing, FiniteSetTheorems, TLAPS

\* The clock of the API's host is at UTC, as it is in the image of the repository:
\* with another one a cursor is not the place of its row.
HostInUTC == HostOffset = 0

Cursors == [at : 0 .. MaxNow, id : Ids \cup {0}]

Pages ==
    [ filter : {All} \cup Statuses, cursor : Cursors, more : BOOLEAN, rows : SUBSET Ids,
      next : Cursors, there : SUBSET Ids, new : BOOLEAN ]

\* A page that leads on leads somewhere: the cursor to its next page is not the
\* absence of one.
LeadsOn(p) == p.more => p.next # NoCursor

TableOK ==
    /\ now \in 1 .. MaxNow
    /\ created \in [Ids -> 0 .. MaxNow]
    /\ status \in [Ids -> Statuses]
    /\ changes \in 0 .. MaxChanges

ExplorerOK ==
    /\ filter \in {All} \cup Statuses
    /\ cursor \in Cursors
    /\ stack \in Seq(Cursors)
    /\ shown \in Pages /\ LeadsOn(shown)
    /\ \A p \in cache \cup flights : p \in Pages /\ LeadsOn(p)
    /\ walk \in BOOLEAN
    /\ steady \in SUBSET Ids /\ seen \in SUBSET Ids

\* The way back begins at the first page, and passes it once.
StackOK ==
    /\ cursor = NoCursor <=> stack = << >>
    /\ \A n \in DOMAIN stack : stack[n] = NoCursor <=> n = 1

\* A page shows those of some jobs that lie between its cursor and the next one.
Covers(p, jobs) ==
    \A i \in jobs : Beyond(p.cursor, i) /\ ~ (p.more /\ Beyond(p.next, i)) => i \in p.rows

\* A page on its way shows what was there when it was read and is there still.
FlightsOK == \A p \in flights : p.there \subseteq Matching(p.filter) /\ Covers(p, p.there)

\* Every steady job before a cursor has been seen.
Complete(c) == \A i \in steady : Beyond(c, i) \/ i \in seen

\* Whoever has come to a page has seen all that it and the pages before it show.
Finishes(p) == IF p.more THEN Complete(p.next) ELSE steady \subseteq seen

WalkOK ==
    walk => /\ steady \subseteq Matching(filter)
            /\ Complete(cursor)
            /\ \A n \in DOMAIN stack : Complete(stack[n])
            /\ \A p \in cache \cup {shown} : p.new => Finishes(p)
            /\ \A p \in flights : p.new /\ p.filter = filter => Covers(p, steady)

ListingInv == TableOK /\ ExplorerOK /\ StackOK /\ FlightsOK /\ WalkOK

-----------------------------------------------------------------------------
(* What a page shows *)

\* In a finite set there is an element before which there is none.
LEMMA FirstExists ==
    ASSUME NEW S, IsFiniteSet(S), S # {}, NEW R,
           \A x \in S : <<x, x>> \notin R,
           \A x, y, z \in S : <<x, y>> \in R /\ <<y, z>> \in R => <<x, z>> \in R
    PROVE  \E x \in S : \A y \in S : <<y, x>> \notin R
<1> DEFINE below(x) == {y \in S : <<y, x>> \in R}
           T == {below(x) : x \in S}
<1>1. T \subseteq FiniteSubsetsOf(S) /\ T # {}
  <2>1. \A t \in T : t \in SUBSET S
    OBVIOUS
  <2>2. \A t \in T : IsFiniteSet(t)
    BY <2>1, FS_Subset
  <2>3. T # {}
    <3>1. PICK x : x \in S
      OBVIOUS
    <3>2. below(x) \in T
      BY <3>1
    <3>3. QED
      BY <3>2
  <2> HIDE DEF T
  <2> QED
    BY <2>1, <2>2, <2>3 DEF FiniteSubsetsOf
<1>2. \E t \in T : \A u \in T : <<u, t>> \notin StrictSubsetOrdering(S)
  <2> HIDE DEF T
  <2> QED
    BY <1>1, FS_StrictSubsetOrderingWellFounded, WFMin
<1>3. PICK x \in S : \A u \in T : <<u, below(x)>> \notin StrictSubsetOrdering(S)
  BY <1>2
<1>4. ASSUME NEW y \in S, <<y, x>> \in R
      PROVE  FALSE
  <2>1. below(y) \subseteq below(x) /\ y \in below(x) /\ y \notin below(y)
    BY <1>4
  <2>2. <<below(y), below(x)>> \in StrictSubsetOrdering(S)
    BY <2>1 DEF StrictSubsetOrdering
  <2>3. QED
    BY <1>3, <2>2
<1>5. QED
  BY <1>4

\* created_at and id order the rows, whichever way they go.
LEMMA OrderIsTotal ==
    ASSUME TableOK
    PROVE  /\ \A i \in Ids : ~ Earlier(i, i)
           /\ \A i, j, k \in Ids : Earlier(i, j) /\ Earlier(j, k) => Earlier(i, k)
           /\ \A i, j \in Ids : i # j => Earlier(i, j) \/ Earlier(j, i)
<1> DEFINE at(i) == created[i]
<1>1. \A i \in Ids : i \in Int /\ at(i) \in Int
  BY ListingAssumption DEF TableOK
<1>2. \A i, j \in Ids : Earlier(i, j) <=> IF order = "asc" THEN at(i) < at(j) \/ (at(i) = at(j) /\ i < j)
                                                           ELSE at(i) > at(j) \/ (at(i) = at(j) /\ i > j)
  BY DEF Earlier
<1>3. QED
  <2> HIDE DEF at
  <2> QED
    BY <1>1, <1>2

\* The first n rows: nothing before one of them is missing, there are some, and one
\* of them is the last.
LEMMA FirstRows ==
    ASSUME TableOK, NEW found \in SUBSET Ids, found # {}, NEW n \in Nat \ {0}
    PROVE  /\ FirstOf(n, found) \subseteq found
           /\ \A i \in FirstOf(n, found), j \in found : Earlier(j, i) => j \in FirstOf(n, found)
           /\ \E i \in FirstOf(n, found) : \A j \in FirstOf(n, found) : i # j => Earlier(j, i)
<1> DEFINE before(i) == {j \in found : Earlier(j, i)}
           F == FirstOf(n, found)
<1>1. IsFiniteSet(found) /\ found \subseteq Ids
  BY ListingAssumption, FS_Subset
<1>2. F \subseteq found
  BY DEF FirstOf
<1>3. \A i \in found : IsFiniteSet(before(i)) /\ Cardinality(before(i)) \in Nat
  <2>1. \A i \in found : before(i) \in SUBSET found
    OBVIOUS
  <2>2. QED
    BY <1>1, <2>1, FS_Subset, FS_CardinalityType
<1>4. ASSUME NEW i \in F, NEW j \in found, Earlier(j, i)
      PROVE  j \in F
  <2>1. before(j) \in SUBSET before(i)
    BY <1>1, <1>2, <1>4, OrderIsTotal
  <2>2. Cardinality(before(j)) <= Cardinality(before(i))
    BY <1>2, <1>3, <2>1, FS_Subset
  <2>3. Cardinality(before(i)) < n
    BY DEF FirstOf
  <2>4. QED
    BY <1>2, <1>3, <2>2, <2>3 DEF FirstOf
<1>5. F # {}
  <2> DEFINE R == {p \in Ids \X Ids : Earlier(p[1], p[2])}
  <2>1. \E i \in found : \A j \in found : <<j, i>> \notin R
    <3>1. \A i, j \in Ids : <<i, j>> \in R <=> Earlier(i, j)
      OBVIOUS
    <3>2. /\ \A x \in found : <<x, x>> \notin R
          /\ \A x, y, z \in found : <<x, y>> \in R /\ <<y, z>> \in R => <<x, z>> \in R
      BY <1>1, <3>1, OrderIsTotal
    <3> HIDE DEF R
    <3> QED
      BY <1>1, <3>2, FirstExists
  <2>2. PICK i \in found : before(i) = {}
    BY <1>1, <2>1
  <2>3. Cardinality(before(i)) = 0
    BY <2>2, FS_EmptySet
  <2>4. QED
    BY <2>3 DEF FirstOf
<1>6. \E i \in F : \A j \in F : i # j => Earlier(j, i)
  <2> DEFINE R == {p \in Ids \X Ids : Earlier(p[2], p[1])}
  <2>1. \A i, j \in Ids : <<i, j>> \in R <=> Earlier(j, i)
    OBVIOUS
  <2>2. \E i \in F : \A j \in F : <<j, i>> \notin R
    <3>1. /\ \A x \in F : <<x, x>> \notin R
          /\ \A x, y, z \in F : <<x, y>> \in R /\ <<y, z>> \in R => <<x, z>> \in R
      BY <1>1, <1>2, <2>1, OrderIsTotal
    <3>2. IsFiniteSet(F)
      BY <1>1, <1>2, FS_Subset
    <3> HIDE DEF R, F
    <3> QED
      BY <1>5, <3>1, <3>2, FirstExists
  <2>3. QED
    BY <1>1, <1>2, <2>1, <2>2, OrderIsTotal
<1>7. QED
  BY <1>2, <1>4, <1>6

\* If the extra row is missing, all rows are on the page.
LEMMA NoExtraRow ==
    ASSUME TableOK, NEW found \in SUBSET Ids, ~ (Cardinality(FirstOf(PageSize + 1, found)) > PageSize)
    PROVE  found = FirstOf(PageSize, found)
<1> DEFINE before(i) == {j \in found : Earlier(j, i)}
           F == FirstOf(PageSize + 1, found)
<1>1. IsFiniteSet(found) /\ found \subseteq Ids
  BY ListingAssumption, FS_Subset
<1>2. PageSize \in Nat \ {0} /\ PageSize + 1 \in Nat \ {0}
  BY ListingAssumption
<1>3. \A T \in SUBSET found : IsFiniteSet(T) /\ Cardinality(T) \in Nat
  BY <1>1, FS_Subset, FS_CardinalityType
<1>4. CASE found = {}
  BY <1>4 DEF FirstOf
<1>5. CASE found # {}
  <2>1. /\ F \subseteq found
        /\ \A i \in F, j \in found : Earlier(j, i) => j \in F
    BY <1>2, <1>5, FirstRows
  <2>2. PICK m \in F : \A j \in F : m # j => Earlier(j, m)
    BY <1>2, <1>5, FirstRows
  <2>3. Cardinality(F) <= PageSize
    BY <1>2, <1>3, <2>1
  <2>4. found \subseteq F
    <3> SUFFICES ASSUME found \ F # {}
                 PROVE  FALSE
      OBVIOUS
    <3> DEFINE R == {p \in Ids \X Ids : Earlier(p[1], p[2])}
               rest == found \ F
    <3>1. \A i, j \in Ids : <<i, j>> \in R <=> Earlier(i, j)
      OBVIOUS
    <3>2. \E i \in rest : \A j \in rest : <<j, i>> \notin R
      <4>1. /\ \A x \in rest : <<x, x>> \notin R
            /\ \A x, y, z \in rest : <<x, y>> \in R /\ <<y, z>> \in R => <<x, z>> \in R
        BY <1>1, <3>1, OrderIsTotal
      <4>2. IsFiniteSet(rest)
        BY <1>3
      <4> HIDE DEF R, F
      <4> QED
        BY <4>1, <4>2, FirstExists
    <3>3. PICK i \in rest : \A j \in rest : <<j, i>> \notin R
      BY <3>2
    <3>4. before(i) \in SUBSET F
      BY <1>1, <3>1, <3>3
    <3>5. Cardinality(before(i)) <= Cardinality(F) /\ Cardinality(before(i)) \in Nat /\ Cardinality(F) \in Nat
      BY <1>3, <2>1, <3>4, FS_Subset
    <3>6. Cardinality(before(i)) < PageSize + 1
      BY <1>2, <2>3, <3>5
    <3>7. QED
      BY <3>3, <3>6 DEF FirstOf
  <2>5. F = {j \in found : j = m \/ Earlier(j, m)}
    BY <1>1, <2>1, <2>2
  <2>6. ASSUME NEW i \in found
        PROVE  Cardinality(before(i)) < PageSize
    <3>1. before(i) \subseteq F \ {i} /\ i \in F
      BY <1>1, <2>4, OrderIsTotal
    <3>2. Cardinality(F \ {i}) = Cardinality(F) - 1 /\ IsFiniteSet(F \ {i})
      BY <1>3, <2>1, <3>1, FS_RemoveElement
    <3>3. Cardinality(before(i)) <= Cardinality(F \ {i})
      BY <3>1, <3>2, FS_Subset
    <3>4. Cardinality(before(i)) \in Nat /\ Cardinality(F) \in Nat
      BY <1>3, <2>1
    <3>5. QED
      BY <1>2, <2>3, <3>2, <3>3, <3>4
  <2>7. QED
    BY <2>6 DEF FirstOf
<1>6. QED
  BY <1>4, <1>5

\* A page is the page of its filter and cursor, and it shows every job that is there
\* between its cursor and the next.
LEMMA PageIsRight ==
    ASSUME HostInUTC, TableOK, NEW f \in {All} \cup Statuses, NEW c \in Cursors
    PROVE  LET p == GetJobs(f, c)
           IN /\ p \in Pages /\ LeadsOn(p)
              /\ p.filter = f /\ p.cursor = c /\ p.new /\ p.there = Matching(f)
              /\ Covers(p, Matching(f))
<1> DEFINE found == {i \in Matching(f) : Beyond(c, i)}
           more == Cardinality(FirstOf(PageSize + 1, found)) > PageSize
           rows == FirstOf(PageSize, found)
           next == IF more THEN EncodeCursor(rows) ELSE NoCursor
           p == GetJobs(f, c)
<1>1. p = [ filter |-> f, cursor |-> c, more |-> more, rows |-> rows, next |-> next,
            there |-> Matching(f), new |-> TRUE ]
  BY DEF GetJobs, NextCursor
<1>2. /\ found \in SUBSET Ids /\ Matching(f) \in SUBSET Ids /\ rows \subseteq found
      /\ \A i \in found : created[i] \in 1 .. MaxNow
  BY DEF TableOK, Matching, FirstOf
<1>3. PageSize \in Nat \ {0} /\ PageSize + 1 \in Nat \ {0} /\ MaxNow \in Nat
  BY ListingAssumption
<1>4. NoCursor \in Cursors
  BY <1>3 DEF NoCursor, Cursors
<1>5. CASE more
  <2>1. found # {}
    <3>1. SUFFICES ASSUME found = {}
                   PROVE  FALSE
      OBVIOUS
    <3>2. FirstOf(PageSize + 1, found) = {}
      BY <3>1 DEF FirstOf
    <3>3. QED
      BY <1>3, <1>5, <3>2, FS_EmptySet
  <2>2. \A i \in rows, j \in found : Earlier(j, i) => j \in rows
    BY <1>2, <1>3, <2>1, FirstRows
  <2>3. \E i \in rows : \A j \in rows : i # j => Earlier(j, i)
    BY <1>2, <1>3, <2>1, FirstRows
  <2>4. PICK m \in rows : next = [at |-> created[m], id |-> m] /\ \A j \in rows : m # j => Earlier(j, m)
    <3>1. HostOffset = 0 /\ \A i \in rows : created[i] - 0 = created[i]
      BY <1>2 DEF HostInUTC
    <3>2. PICK m \in rows : next = [at |-> created[m] - HostOffset, id |-> m] /\ \A j \in rows : m # j => Earlier(j, m)
      BY <1>5, <2>3 DEF EncodeCursor
    <3>3. QED
      BY <3>1, <3>2
  <2>5. m \in Ids /\ created[m] \in 1 .. MaxNow
    BY <1>2
  <2>6. next \in Cursors /\ next # NoCursor /\ next.at = created[m] /\ next.id = m
    BY <1>3, <2>4, <2>5 DEF Cursors, NoCursor
  <2>7. ASSUME NEW i \in Matching(f), Beyond(c, i), ~ Beyond(next, i)
        PROVE  i \in rows
    <3>1. i \in found /\ i \in Ids
      BY <1>2, <2>7
    <3>2. ~ Earlier(m, i)
      BY <2>5, <2>6, <2>7, <3>1 DEF Beyond, Earlier
    <3>3. QED
      BY <2>2, <2>5, <3>1, <3>2, OrderIsTotal
  <2>8. p \in Pages
    BY <1>1, <1>2, <2>6 DEF Pages
  <2>9. /\ p.more = TRUE /\ p.next = next /\ p.rows = rows
        /\ p.cursor = c /\ p.filter = f /\ p.new /\ p.there = Matching(f)
    <3>1. more = TRUE
      BY <1>5
    <3> HIDE DEF more, rows, next, found
    <3>2. QED
      BY <1>1, <3>1
  <2> HIDE DEF found, more, rows, next
  <2>10. QED
    BY <2>6, <2>7, <2>8, <2>9 DEF Covers, LeadsOn
<1>6. CASE ~ more
  <2>1. found = rows
    BY <1>2, <1>6, NoExtraRow
  <2>2. next = NoCursor
    BY <1>6
  <2>3. p \in Pages
    BY <1>1, <1>2, <1>4, <2>2 DEF Pages
  <2>4. \A i \in Matching(f) : Beyond(c, i) => i \in rows
    BY <2>1
  <2>5. p.more = FALSE /\ p.rows = rows /\ p.cursor = c /\ p.filter = f /\ p.new /\ p.there = Matching(f)
    <3>1. more = FALSE
      BY <1>6
    <3> HIDE DEF more, rows, next, found
    <3>2. QED
      BY <1>1, <3>1
  <2> HIDE DEF found, more, rows, next
  <2>6. QED
    BY <2>3, <2>4, <2>5 DEF Covers, LeadsOn
<1>7. QED
  BY <1>5, <1>6

-----------------------------------------------------------------------------
(* The walk *)

LEMMA ListingInvInit == Init => ListingInv
<1> SUFFICES ASSUME Init
             PROVE  ListingInv
  OBVIOUS
<1>1. MaxNow \in Nat \ {0} /\ MaxChanges \in Nat /\ "QUEUED" \in Statuses
  BY ListingAssumption
<1>2. TableOK
  BY <1>1 DEF Init, TableOK
<1>3. ExplorerOK
  <2>1. NoCursor \in Cursors /\ NoPage \in Pages /\ LeadsOn(NoPage)
    BY <1>1 DEF NoCursor, Cursors, NoPage, Pages, LeadsOn
  <2>2. << >> \in Seq(Cursors)
    OBVIOUS
  <2>3. filter \in {All} \cup Statuses /\ cursor \in Cursors /\ stack \in Seq(Cursors)
    BY <2>1, <2>2 DEF Init
  <2>4. /\ shown \in Pages /\ LeadsOn(shown)
        /\ \A p \in cache \cup flights : p \in Pages /\ LeadsOn(p)
        /\ walk \in BOOLEAN
        /\ steady \in SUBSET Ids /\ seen \in SUBSET Ids
    BY <2>1 DEF Init
  <2>5. QED
    BY <2>3, <2>4 DEF ExplorerOK
<1>4. StackOK
  BY DEF Init, StackOK
<1>5. FlightsOK /\ WalkOK
  BY DEF Init, FlightsOK, WalkOK
<1>6. QED
  BY <1>2, <1>3, <1>4, <1>5 DEF ListingInv

\* The clock, and a row that is inserted: what was there before stays where it was.
LEMMA OldRowsStay ==
    ASSUME ListingInv,
           UNCHANGED <<status, changes, order, explorer, cache, flights, walker>>,
           TableOK', \A i \in Ids : created[i] > 0 => created'[i] = created[i]
    PROVE  ListingInv'
<1>1. \A f : Matching(f) \subseteq Matching(f)'
  BY DEF ListingInv, TableOK, Matching
<1>2. \A c, f : \A i \in Matching(f) : Beyond(c, i)' <=> Beyond(c, i)
  BY DEF Beyond, Matching
<1>3. ExplorerOK' /\ StackOK'
  BY DEF ListingInv, ExplorerOK, StackOK, LeadsOn, explorer, walker
<1>4. FlightsOK'
  <2> SUFFICES ASSUME NEW p \in flights
               PROVE  p.there \subseteq Matching(p.filter)' /\ Covers(p, p.there)'
    BY DEF FlightsOK
  <2>1. p.there \subseteq Matching(p.filter) /\ Covers(p, p.there)
    BY DEF ListingInv, FlightsOK
  <2>2. QED
    BY <1>1, <1>2, <2>1 DEF Covers
<1>5. WalkOK'
  <2> SUFFICES ASSUME walk
               PROVE  WalkOK'
    BY DEF WalkOK, walker
  <2>1. steady \subseteq Matching(filter) /\ UNCHANGED <<steady, seen, filter, cursor, stack, shown, cache, flights>>
    BY DEF ListingInv, WalkOK, explorer, walker
  <2>2. \A c : Complete(c)' <=> Complete(c)
    BY <1>2, <2>1 DEF Complete
  <2>3. \A p : Finishes(p)' <=> Finishes(p)
    BY <2>1, <2>2 DEF Finishes
  <2>4. \A p : Covers(p, steady)' <=> Covers(p, steady)
    BY <1>2, <2>1 DEF Covers
  <2>5. QED
    BY <1>1, <2>1, <2>2, <2>3, <2>4 DEF ListingInv, WalkOK
<1>6. QED
  BY <1>3, <1>4, <1>5 DEF ListingInv

LEMMA TickSteps == ListingInv /\ Tick => ListingInv'
<1> SUFFICES ASSUME ListingInv, Tick
             PROVE  ListingInv'
  OBVIOUS
<1>1. TableOK'
  BY ListingAssumption DEF ListingInv, TableOK, Tick
<1>2. QED
  BY <1>1, OldRowsStay DEF Tick

LEMMA InsertSteps == ASSUME NEW i \in Ids PROVE ListingInv /\ Insert(i) => ListingInv'
<1> SUFFICES ASSUME ListingInv, Insert(i)
             PROVE  ListingInv'
  OBVIOUS
<1>1. TableOK'
  BY ListingAssumption DEF ListingInv, TableOK, Insert
<1>2. \A j \in Ids : created[j] > 0 => created'[j] = created[j]
  BY DEF ListingInv, TableOK, Insert
<1>3. QED
  BY <1>1, <1>2, OldRowsStay DEF Insert

\* A job that leaves a filter is not steady any more, and not one that a page of that
\* filter would have to show.
LEMMA ChangeSteps ==
    ASSUME NEW i \in Ids, NEW s \in Statuses
    PROVE  ListingInv /\ Change(i, s) => ListingInv'
<1> SUFFICES ASSUME ListingInv, Change(i, s)
             PROVE  ListingInv'
  OBVIOUS
<1> DEFINE After(p) == [p EXCEPT !.there = IF p.filter = status[i] THEN @ \ {i} ELSE @]
<1>1. /\ UNCHANGED <<now, created, order, filter, cursor, stack, shown, cache, walk, seen>>
      /\ steady' = IF filter = status[i] THEN steady \ {i} ELSE steady
      /\ flights' = {After(p) : p \in flights}
      /\ status' = [status EXCEPT ![i] = s]
  BY DEF Change, explorer
<1>2. TableOK'
  BY ListingAssumption DEF ListingInv, TableOK, Change
<1>3. ASSUME NEW p \in Pages
      PROVE  /\ After(p) \in Pages
             /\ After(p).there = IF p.filter = status[i] THEN p.there \ {i} ELSE p.there
             /\ After(p).filter = p.filter /\ After(p).cursor = p.cursor /\ After(p).more = p.more
             /\ After(p).next = p.next /\ After(p).rows = p.rows /\ After(p).new = p.new
  BY <1>3 DEF Pages
<1>4. \A c, j : Beyond(c, j)' <=> Beyond(c, j)
  BY <1>1 DEF Beyond
<1>5. \A f : \A jobs \in SUBSET Matching(f) : IF f = status[i] THEN jobs \ {i} \subseteq Matching(f)'
                                                              ELSE jobs \subseteq Matching(f)'
  BY <1>1 DEF ListingInv, TableOK, Matching, All
<1>6. \A p \in flights : p \in Pages /\ LeadsOn(p) /\ p.there \subseteq Matching(p.filter) /\ Covers(p, p.there)
  BY DEF ListingInv, ExplorerOK, FlightsOK
<1>7. ExplorerOK' /\ StackOK'
  <2>1. \A p \in flights : After(p) \in Pages /\ LeadsOn(After(p))
    BY <1>3, <1>6 DEF LeadsOn
  <2>2. StackOK'
    BY <1>1 DEF ListingInv, StackOK
  <2>3. \A p \in flights' : p \in Pages /\ LeadsOn(p)
    BY <1>1, <2>1
  <2> HIDE DEF After
  <2>4. ExplorerOK'
    BY <1>1, <2>3 DEF ListingInv, ExplorerOK, LeadsOn
  <2>5. QED
    BY <2>2, <2>4
<1> HIDE DEF After
<1>8. FlightsOK'
  <2> SUFFICES ASSUME NEW q \in flights'
               PROVE  q.there \subseteq Matching(q.filter)' /\ Covers(q, q.there)'
    BY DEF FlightsOK
  <2>1. PICK p \in flights : q = After(p)
    BY <1>1
  <2>2. q.there \subseteq p.there /\ q.there \subseteq Matching(q.filter)'
    <3>1. /\ q.there = IF p.filter = status[i] THEN p.there \ {i} ELSE p.there
          /\ q.filter = p.filter /\ p.there \in SUBSET Matching(p.filter)
      BY <1>3, <1>6, <2>1
    <3>2. IF p.filter = status[i] THEN p.there \ {i} \subseteq Matching(p.filter)'
                                  ELSE p.there \subseteq Matching(p.filter)'
      BY <1>5, <3>1
    <3>3. QED
      BY <3>1, <3>2
  <2>3. Covers(q, q.there)'
    BY <1>3, <1>4, <1>6, <2>1, <2>2 DEF Covers
  <2>4. QED
    BY <2>2, <2>3
<1>9. WalkOK'
  <2> SUFFICES ASSUME walk
               PROVE  WalkOK'
    BY <1>1 DEF WalkOK
  <2>1. steady' \subseteq steady /\ steady' \subseteq Matching(filter)'
    BY <1>1, <1>5 DEF ListingInv, WalkOK
  <2>2. \A c : Complete(c) => Complete(c)'
    BY <1>1, <1>4, <2>1 DEF Complete
  <2>3. \A p : Finishes(p) => Finishes(p)'
    BY <1>1, <2>1, <2>2 DEF Finishes
  <2>4. \A p \in flights : p.new /\ p.filter = filter => Covers(p, steady)
    BY DEF ListingInv, WalkOK
  <2>5. ASSUME NEW q \in flights', q.new, q.filter = filter
        PROVE  Covers(q, steady)'
    <3>1. PICK p \in flights : q = After(p)
      BY <1>1
    <3>2. p.new /\ p.filter = filter /\ p.cursor = q.cursor /\ p.more = q.more /\ p.next = q.next /\ p.rows = q.rows
      BY <1>3, <1>6, <2>5, <3>1
    <3>3. QED
      BY <1>4, <2>1, <2>4, <3>2 DEF Covers
  <2>6. QED
    BY <1>1, <2>1, <2>2, <2>3, <2>5 DEF ListingInv, WalkOK
<1>10. QED
  BY <1>2, <1>7, <1>8, <1>9 DEF ListingInv

\* What depends on neither the explorer nor the answers.
LEMMA SameTable ==
    ASSUME UNCHANGED <<table, order>>, ListingInv
    PROVE  /\ TableOK'
           /\ \A f : Matching(f)' = Matching(f)
           /\ \A c, i : Beyond(c, i)' <=> Beyond(c, i)
           /\ \A p, jobs : Covers(p, jobs)' <=> Covers(p, jobs)
<1>1. TableOK'
  BY DEF ListingInv, TableOK, table
<1>2. \A f : Matching(f)' = Matching(f)
  BY DEF Matching, table
<1>3. \A c, i : Beyond(c, i)' <=> Beyond(c, i)
  BY DEF Beyond, table
<1>4. QED
  BY <1>1, <1>2, <1>3 DEF Covers

LEMMA FetchSteps == ASSUME HostInUTC PROVE ListingInv /\ Fetch => ListingInv'
<1> SUFFICES ASSUME ListingInv, Fetch
             PROVE  ListingInv'
  OBVIOUS
<1> DEFINE p == GetJobs(filter, cursor)
<1>1. UNCHANGED <<table, order, filter, cursor, stack, shown, cache, walk, steady, seen>>
  BY DEF Fetch, explorer, walker
<1>2. flights' = flights \cup {p}
  BY DEF Fetch
<1>3. /\ p \in Pages /\ LeadsOn(p)
      /\ p.filter = filter /\ p.there = Matching(filter) /\ Covers(p, Matching(filter))
  BY PageIsRight DEF ListingInv, ExplorerOK
<1> HIDE DEF p
<1>4. ExplorerOK' /\ StackOK'
  BY <1>1, <1>2, <1>3 DEF ListingInv, ExplorerOK, StackOK, LeadsOn
<1>5. FlightsOK'
  BY <1>1, <1>2, <1>3, SameTable DEF ListingInv, FlightsOK
<1>6. WalkOK'
  <2> SUFFICES ASSUME walk
               PROVE  WalkOK'
    BY <1>1 DEF WalkOK
  <2>1. \A c : Complete(c)' <=> Complete(c)
    BY <1>1, SameTable DEF Complete
  <2>2. \A q : Finishes(q)' <=> Finishes(q)
    BY <1>1, <2>1 DEF Finishes
  <2>3. Covers(p, steady)
    BY <1>3 DEF ListingInv, WalkOK, Covers
  <2>4. QED
    BY <1>1, <1>2, <2>1, <2>2, <2>3, SameTable DEF ListingInv, WalkOK
<1>7. QED
  BY <1>1, <1>4, <1>5, <1>6, SameTable DEF ListingInv

\* The present page, and what has been seen, after an answer to that page.
LEMMA ShowSteps == ASSUME NEW p \in flights PROVE ListingInv /\ Show(p) => ListingInv'
<1> SUFFICES ASSUME ListingInv, Show(p)
             PROVE  ListingInv'
  OBVIOUS
<1>1. /\ UNCHANGED <<table, order, filter, cursor, stack>>
      /\ p.filter = filter /\ p.cursor = cursor
  BY DEF Show, IsFor
<1>2. p \in Pages /\ LeadsOn(p) /\ p.there \subseteq Matching(filter) /\ Covers(p, p.there)
  BY <1>1 DEF ListingInv, ExplorerOK, FlightsOK
<1>3. StackOK'
  BY <1>1 DEF ListingInv, StackOK
<1>4. filter \in {All} \cup Statuses /\ cursor \in Cursors /\ stack \in Seq(Cursors)
  BY DEF ListingInv, ExplorerOK
<1>5. CASE ShowFirst(p)
  <2> DEFINE page == [Stored(p) EXCEPT !.new = TRUE]
             Old(q) == [q EXCEPT !.new = FALSE]
  <2>1. /\ cursor = NoCursor
        /\ shown' = page /\ cache' = {page} /\ walk' = TRUE /\ steady' = p.there /\ seen' = p.rows
        /\ flights' = {Old(q) : q \in flights \ {p}}
    BY <1>1, <1>5 DEF ShowFirst, IsFor
  <2>2. page \in Pages /\ page.more = p.more /\ page.next = p.next
    BY <1>2 DEF Pages, Stored
  <2>3. \A q \in Pages : /\ Old(q) \in Pages /\ Old(q).new = FALSE /\ Old(q).more = q.more
                         /\ Old(q).next = q.next /\ Old(q).there = q.there /\ Old(q).rows = q.rows
                         /\ Old(q).filter = q.filter /\ Old(q).cursor = q.cursor
    BY DEF Pages
  <2> HIDE DEF page, Old
  <2>4. ExplorerOK'
    <3>1. LeadsOn(page)
      BY <1>2, <2>2 DEF LeadsOn
    <3>2. \A q \in flights' : q \in Pages /\ LeadsOn(q)
      BY <2>1, <2>3 DEF ListingInv, ExplorerOK, LeadsOn
    <3>3. p.there \in SUBSET Ids /\ p.rows \in SUBSET Ids
      BY <1>2 DEF Pages
    <3>4. QED
      BY <1>1, <1>4, <2>1, <2>2, <3>1, <3>2, <3>3 DEF ExplorerOK, LeadsOn
  <2>5. FlightsOK'
    <3> SUFFICES ASSUME NEW r \in flights'
                 PROVE  r.there \subseteq Matching(r.filter)' /\ Covers(r, r.there)'
      BY DEF FlightsOK
    <3>1. PICK q \in flights : r = Old(q)
      BY <2>1
    <3>2. q \in Pages /\ q.there \subseteq Matching(q.filter) /\ Covers(q, q.there)
      BY DEF ListingInv, ExplorerOK, FlightsOK
    <3>3. QED
      BY <1>1, <2>3, <3>1, <3>2, SameTable DEF Covers
  <2>6. WalkOK'
    <3>1. \A i : Beyond(NoCursor, i)
      BY DEF Beyond
    <3>2. Complete(NoCursor)'
      BY <1>1, <3>1, SameTable DEF Complete
    <3>3. stack = << >>
      BY <2>1 DEF ListingInv, StackOK
    <3>4. Finishes(page)'
      <4>1. \A i \in p.there : ~ (p.more /\ Beyond(p.next, i)) => i \in p.rows
        BY <1>1, <1>2, <2>1, <3>1 DEF Covers
      <4>2. p.more \in BOOLEAN
        BY <1>2 DEF Pages
      <4>3. steady' = p.there /\ seen' = p.rows /\ \A i : Beyond(p.next, i)' <=> Beyond(p.next, i)
        BY <1>1, <2>1, SameTable
      <4>4. page.more = p.more /\ page.next = p.next
        BY <2>2
      <4>5. CASE p.more
        <5>1. Complete(p.next)'
          BY <4>1, <4>3, <4>5 DEF Complete
        <5>2. QED
          BY <4>4, <4>5, <5>1 DEF Finishes
      <4>6. CASE ~ p.more
        BY <4>1, <4>3, <4>4, <4>6 DEF Finishes
      <4>7. QED
        BY <4>2, <4>5, <4>6
    <3>5. \A q \in flights' : ~ q.new
      BY <2>1, <2>3 DEF ListingInv, ExplorerOK
    <3>6. steady' \subseteq Matching(filter)'
      BY <1>1, <1>2, <2>1, SameTable
    <3>7. QED
      BY <1>1, <2>1, <3>2, <3>3, <3>4, <3>5, <3>6 DEF WalkOK
  <2>7. QED
    BY <1>1, <1>3, <2>4, <2>5, <2>6, SameTable DEF ListingInv
<1>6. CASE ShowOther(p)
  <2> DEFINE page == Stored(p)
  <2>1. /\ shown' = page /\ flights' = flights \ {p}
        /\ IF walk THEN cache' = Replaces(page, cache) /\ seen' = seen \cup p.rows
                   ELSE UNCHANGED <<cache, seen>>
        /\ UNCHANGED <<walk, steady>>
    BY <1>6 DEF ShowOther
  <2>2. page \in Pages /\ page.more = p.more /\ page.next = p.next /\ page.new = p.new
    BY <1>2 DEF Pages, Stored
  <2> HIDE DEF page
  <2>3. cache' \subseteq cache \cup {page}
    BY <2>1 DEF Replaces
  <2>4. ExplorerOK'
    <3>1. LeadsOn(page)
      BY <1>2, <2>2 DEF LeadsOn
    <3>2. \A q \in cache' \cup flights' : q \in Pages /\ LeadsOn(q)
      BY <2>1, <2>2, <2>3, <3>1 DEF ListingInv, ExplorerOK
    <3>3. walk' \in BOOLEAN /\ steady' \in SUBSET Ids /\ seen' \in SUBSET Ids
      BY <1>2, <2>1 DEF ListingInv, ExplorerOK, Pages
    <3>4. QED
      BY <1>1, <1>4, <2>1, <2>2, <3>1, <3>2, <3>3 DEF ExplorerOK, LeadsOn
  <2>5. FlightsOK'
    BY <1>1, <2>1, SameTable DEF ListingInv, FlightsOK
  <2>6. WalkOK'
    <3> SUFFICES ASSUME walk
                 PROVE  WalkOK'
      BY <2>1 DEF WalkOK
    <3>1. seen' = seen \cup p.rows /\ steady' = steady
      BY <2>1
    <3>2. \A c : Complete(c) => Complete(c)'
      BY <1>1, <3>1, SameTable DEF Complete
    <3>3. \A q : Finishes(q) => Finishes(q)'
      BY <3>1, <3>2 DEF Finishes
    <3>4. page.new => Finishes(page)'
      <4> SUFFICES ASSUME p.new
                   PROVE  Finishes(page)'
        BY <2>2
      <4>1. Covers(p, steady) /\ Complete(cursor)
        BY <1>1 DEF ListingInv, WalkOK
      <4>2. \A i \in steady : i \in seen \/ i \in p.rows \/ (p.more /\ Beyond(p.next, i))
        BY <1>1, <4>1 DEF Covers, Complete
      <4>3. \A i : Beyond(p.next, i)' <=> Beyond(p.next, i)
        BY <1>1, SameTable
      <4>4. CASE p.more
        <5>1. Complete(p.next)'
          BY <3>1, <4>2, <4>3 DEF Complete
        <5>2. QED
          BY <2>2, <4>4, <5>1 DEF Finishes
      <4>5. CASE ~ p.more
        BY <2>2, <3>1, <4>2, <4>5 DEF Finishes
      <4>6. QED
        BY <4>4, <4>5
    <3>5. \A q \in cache' \cup {shown'} : q.new => Finishes(q)'
      BY <2>1, <2>3, <3>3, <3>4 DEF ListingInv, WalkOK
    <3>6. QED
      BY <1>1, <2>1, <3>1, <3>2, <3>5, SameTable DEF ListingInv, WalkOK
  <2>7. QED
    BY <1>1, <1>3, <2>4, <2>5, <2>6, SameTable DEF ListingInv
<1>7. QED
  BY <1>5, <1>6 DEF Show

LEMMA IgnoreSteps == ASSUME NEW p \in flights PROVE ListingInv /\ Ignore(p) => ListingInv'
<1> SUFFICES ASSUME ListingInv, Ignore(p)
             PROVE  ListingInv'
  OBVIOUS
<1>1. /\ UNCHANGED <<table, order, filter, cursor, stack, shown, cache, walk, steady, seen>>
      /\ flights' \subseteq flights
  BY DEF Ignore, explorer, walker
<1>2. ExplorerOK' /\ StackOK' /\ FlightsOK'
  BY <1>1, SameTable DEF ListingInv, ExplorerOK, StackOK, FlightsOK, LeadsOn
<1>3. WalkOK'
  <2>1. \A c : Complete(c)' <=> Complete(c)
    BY <1>1, SameTable DEF Complete
  <2>2. \A q : Finishes(q)' <=> Finishes(q)
    BY <1>1, <2>1 DEF Finishes
  <2>3. QED
    BY <1>1, <2>1, <2>2, SameTable DEF ListingInv, WalkOK
<1>4. QED
  BY <1>1, <1>2, <1>3, SameTable DEF ListingInv

LEMMA ClickFilterSteps ==
    ASSUME NEW f \in Filters
    PROVE  ListingInv /\ ClickFilter(f) => ListingInv'
<1> SUFFICES ASSUME ListingInv, ClickFilter(f)
             PROVE  ListingInv'
  OBVIOUS
<1>1. /\ UNCHANGED <<table, order, flights>>
      /\ filter' = f /\ cursor' = NoCursor /\ stack' = << >>
      /\ \E p \in cache \cup {shown} : shown' = [p EXCEPT !.new = FALSE]
      /\ walk' = FALSE /\ steady' = {} /\ seen' = {} /\ cache' = {}
  BY DEF ClickFilter, SetFilter, ShowOld, EndWalk
<1>2. f \in {All} \cup Statuses /\ NoCursor \in Cursors
  BY ListingAssumption DEF All, NoCursor, Cursors
<1>3. shown' \in Pages /\ LeadsOn(shown')
  BY <1>1 DEF ListingInv, ExplorerOK, Pages, LeadsOn
<1>4. << >> \in Seq(Cursors)
  OBVIOUS
<1>5. ExplorerOK'
  BY <1>1, <1>2, <1>3, <1>4 DEF ListingInv, ExplorerOK, LeadsOn
<1>6. StackOK' /\ WalkOK'
  BY <1>1 DEF StackOK, WalkOK
<1>7. FlightsOK'
  BY <1>1, SameTable DEF ListingInv, FlightsOK
<1>8. QED
  BY <1>1, <1>5, <1>6, <1>7, SameTable DEF ListingInv

\* What stands on the screen after a click is an answer of the walk, what stood
\* there, or something old.
LEMMA CachedIsKnown ==
    ASSUME ListingInv, NEW f, NEW c, ShowCached(f, c)
    PROVE  /\ shown' \in Pages /\ LeadsOn(shown')
           /\ shown'.new => shown' \in cache \cup {shown}
<1>1. CASE \E p \in cache : IsFor(p, f, c)
  <2>1. shown' \in cache
    BY <1>1 DEF ShowCached
  <2>2. QED
    BY <2>1 DEF ListingInv, ExplorerOK
<1>2. CASE shown' \in {shown, [shown EXCEPT !.new = FALSE]}
  BY <1>2 DEF ListingInv, ExplorerOK, Pages, LeadsOn
<1>3. QED
  BY <1>1, <1>2 DEF ShowCached

LEMMA ClickNextSteps == ListingInv /\ ClickNext => ListingInv'
<1> SUFFICES ASSUME ListingInv, ClickNext
             PROVE  ListingInv'
  OBVIOUS
<1>1. /\ UNCHANGED <<table, order, filter, flights>>
      /\ shown.more /\ stack' = Append(stack, cursor) /\ cursor' = shown.next
      /\ IF walk /\ shown.new THEN UNCHANGED <<walk, steady, seen, cache>>
                            ELSE walk' = FALSE /\ steady' = {} /\ seen' = {} /\ cache' = {}
  BY DEF ClickNext, walker, EndWalk
<1>2. /\ shown' \in Pages /\ LeadsOn(shown')
      /\ shown'.new => shown' \in cache \cup {shown}
  BY CachedIsKnown DEF ClickNext
<1>3. shown.next \in Cursors /\ shown.next # NoCursor
  BY <1>1 DEF ListingInv, ExplorerOK, LeadsOn, Pages
<1>4. stack \in Seq(Cursors) /\ cursor \in Cursors
  BY DEF ListingInv, ExplorerOK
<1>5. /\ stack' \in Seq(Cursors) /\ Len(stack) \in Nat /\ DOMAIN stack' = 1 .. Len(stack) + 1
      /\ DOMAIN stack = 1 .. Len(stack)
      /\ \A n \in 1 .. Len(stack) : stack'[n] = stack[n]
      /\ stack'[Len(stack) + 1] = cursor
  BY <1>1, <1>4
<1>6. ExplorerOK'
  <2>1. /\ filter' \in {All} \cup Statuses /\ cursor' \in Cursors /\ stack' \in Seq(Cursors)
        /\ walk' \in BOOLEAN /\ steady' \in SUBSET Ids /\ seen' \in SUBSET Ids
    BY <1>1, <1>3, <1>5 DEF ListingInv, ExplorerOK
  <2>2. \A p \in cache' \cup flights' : p \in Pages /\ LeadsOn(p)
    BY <1>1 DEF ListingInv, ExplorerOK
  <2>3. QED
    BY <1>2, <2>1, <2>2 DEF ExplorerOK, LeadsOn
<1>7. StackOK'
  <2>1. /\ cursor = NoCursor <=> stack = << >>
        /\ \A n \in 1 .. Len(stack) : stack[n] = NoCursor <=> n = 1
    BY <1>5 DEF ListingInv, StackOK
  <2>2. stack = << >> <=> Len(stack) = 0
    BY <1>4
  <2>3. stack' # << >>
    BY <1>5
  <2>4. QED
    BY <1>1, <1>3, <1>5, <2>1, <2>2, <2>3 DEF StackOK
<1>8. FlightsOK'
  BY <1>1, SameTable DEF ListingInv, FlightsOK
<1>9. WalkOK'
  <2> SUFFICES ASSUME walk, shown.new
               PROVE  WalkOK'
    BY <1>1 DEF WalkOK
  <2>1. UNCHANGED <<walk, steady, seen, cache, filter, flights>>
    BY <1>1
  <2>2. \A c : Complete(c)' <=> Complete(c)
    BY <1>1, <2>1, SameTable DEF Complete
  <2>3. \A p : Finishes(p)' <=> Finishes(p)
    BY <2>1, <2>2 DEF Finishes
  <2>4. /\ steady \subseteq Matching(filter) /\ Complete(cursor)
        /\ \A n \in 1 .. Len(stack) : Complete(stack[n])
        /\ \A p \in cache \cup {shown} : p.new => Finishes(p)
        /\ \A p \in flights : p.new /\ p.filter = filter => Covers(p, steady)
    BY <1>5 DEF ListingInv, WalkOK
  <2>5. Complete(cursor)'
    BY <1>1, <2>2, <2>4 DEF Finishes
  <2>6. (\A n \in DOMAIN stack : Complete(stack[n]))'
    BY <1>5, <2>2, <2>4
  <2>7. QED
    BY <1>1, <1>2, <2>1, <2>3, <2>4, <2>5, <2>6, SameTable DEF WalkOK
<1>10. QED
  BY <1>1, <1>6, <1>7, <1>8, <1>9, SameTable DEF ListingInv

LEMMA ClickPrevSteps == ListingInv /\ ClickPrev => ListingInv'
<1> SUFFICES ASSUME ListingInv, ClickPrev
             PROVE  ListingInv'
  OBVIOUS
<1>1. /\ UNCHANGED <<table, order, filter, flights, cache, walk, steady, seen>>
      /\ stack # << >> /\ cursor' = stack[Len(stack)] /\ stack' = SubSeq(stack, 1, Len(stack) - 1)
  BY DEF ClickPrev, walker, Last, Front
<1>2. /\ shown' \in Pages /\ LeadsOn(shown')
      /\ shown'.new => shown' \in cache \cup {shown}
  BY CachedIsKnown DEF ClickPrev
<1>3. stack \in Seq(Cursors) /\ Len(stack) \in Nat \ {0} /\ DOMAIN stack = 1 .. Len(stack)
  BY <1>1 DEF ListingInv, ExplorerOK
<1>4. /\ stack' \in Seq(Cursors) /\ Len(stack') = Len(stack) - 1 /\ DOMAIN stack' = 1 .. Len(stack) - 1
      /\ \A n \in 1 .. Len(stack) - 1 : stack'[n] = stack[n]
  BY <1>1, <1>3
<1>5. cursor' \in Cursors
  BY <1>1, <1>3
<1>6. ExplorerOK'
  BY <1>1, <1>2, <1>4, <1>5 DEF ListingInv, ExplorerOK, LeadsOn
<1>7. StackOK'
  <2>1. \A n \in 1 .. Len(stack) : stack[n] = NoCursor <=> n = 1
    BY <1>3 DEF ListingInv, StackOK
  <2>2. stack' = << >> <=> Len(stack') = 0
    BY <1>4
  <2>3. QED
    BY <1>1, <1>3, <1>4, <2>1, <2>2 DEF StackOK
<1>8. FlightsOK'
  BY <1>1, SameTable DEF ListingInv, FlightsOK
<1>9. WalkOK'
  <2> SUFFICES ASSUME walk
               PROVE  WalkOK'
    BY <1>1 DEF WalkOK
  <2>1. \A c : Complete(c)' <=> Complete(c)
    BY <1>1, SameTable DEF Complete
  <2>2. \A p : Finishes(p)' <=> Finishes(p)
    BY <1>1, <2>1 DEF Finishes
  <2>3. /\ steady \subseteq Matching(filter)
        /\ \A n \in 1 .. Len(stack) : Complete(stack[n])
        /\ \A p \in cache \cup {shown} : p.new => Finishes(p)
        /\ \A p \in flights : p.new /\ p.filter = filter => Covers(p, steady)
    BY <1>3 DEF ListingInv, WalkOK
  <2>4. Complete(cursor)' /\ (\A n \in DOMAIN stack : Complete(stack[n]))'
    BY <1>1, <1>3, <1>4, <2>1, <2>3
  <2>5. QED
    BY <1>1, <1>2, <2>2, <2>3, <2>4, SameTable DEF WalkOK
<1>10. QED
  BY <1>1, <1>6, <1>7, <1>8, <1>9, SameTable DEF ListingInv

LEMMA ListingInvSteps == ASSUME HostInUTC PROVE ListingInv /\ [Next]_vars => ListingInv'
<1> SUFFICES ASSUME ListingInv, [Next]_vars
             PROVE  ListingInv'
  OBVIOUS
<1>1. CASE Tick
  BY <1>1, TickSteps
<1>2. CASE \E i \in Ids : Insert(i)
  BY <1>2, InsertSteps
<1>3. CASE \E i \in Ids : \E s \in Statuses : Change(i, s)
  BY <1>3, ChangeSteps
<1>4. CASE Fetch
  BY <1>4, FetchSteps
<1>5. CASE \E p \in flights : Show(p)
  BY <1>5, ShowSteps
<1>6. CASE \E p \in flights : Ignore(p)
  BY <1>6, IgnoreSteps
<1>7. CASE \E f \in Filters : ClickFilter(f)
  BY <1>7, ClickFilterSteps
<1>8. CASE ClickNext
  BY <1>8, ClickNextSteps
<1>9. CASE ClickPrev
  BY <1>9, ClickPrevSteps
<1>10. CASE UNCHANGED vars
  <2>1. UNCHANGED <<now, created, status, changes, order, filter, cursor, stack, shown, cache, flights, walk, steady, seen>>
    BY <1>10 DEF vars, table, explorer, walker
  <2>2. QED
    BY <2>1, OldRowsStay DEF ListingInv, TableOK, explorer, walker
<1>11. QED
  BY <1>1, <1>2, <1>3, <1>4, <1>5, <1>6, <1>7, <1>8, <1>9, <1>10 DEF Next

LEMMA ListingInvariant == ASSUME HostInUTC PROVE Spec => []ListingInv
  BY ListingInvInit, ListingInvSteps, PTL DEF Spec

\* The type invariant: a cursor is that of a row, or none, wherever the explorer
\* goes; and what a walk counts are jobs.
THEOREM ListingTypeCorrect == ASSUME HostInUTC PROVE Spec => []TypeOK
<1>1. ListingInv => TypeOK
  BY DEF ListingInv, TableOK, ExplorerOK, TypeOK, Cursors
<1>2. QED
  BY <1>1, ListingInvariant, PTL

\* Nothing before the present cursor is missed (getJobs and the Job Explorer): for
\* every page size, every number of answers on their way and every use of Next,
\* Previous and the filters.
THEOREM SeekSkipsNothing == ASSUME HostInUTC PROVE Spec => []NothingIsSkipped
<1>1. ListingInv => NothingIsSkipped
  BY DEF ListingInv, WalkOK, Complete, NothingIsSkipped
<1>2. QED
  BY <1>1, ListingInvariant, PTL

\* Whoever stands on the last page of a walk has been shown every job that was there
\* all the time.
THEOREM WalksMissNothing == ASSUME HostInUTC PROVE Spec => []WalksAreComplete
<1>1. ListingInv => WalksAreComplete
  BY DEF ListingInv, WalkOK, Finishes, WalksAreComplete
<1>2. QED
  BY <1>1, ListingInvariant, PTL

=============================================================================
