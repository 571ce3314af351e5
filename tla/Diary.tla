-------------------------------- MODULE Diary --------------------------------
(* The diary of one service as the clock, the customers and a reader of the  *)
(* list see it.  Customers book days that the date validator accepts,        *)
(* handlers move bookings on, and a reader walks GET /bookings page by page. *)
(* A page is two statements, findMany and count, in one transaction at READ  *)
(* COMMITTED, so other commits may fall between them and between the pages.  *)
(* The order of rows that tie on the sort key is the database's to choose,   *)
(* anew in every statement.                                                  *)
EXTENDS BookingDate, Pagination, BookingStatus, FiniteSets

CONSTANTS
    Requests,   \* requests to book; the row a request makes has its name
    SeedRows,   \* the rows the diary holds at the start, by their names
    Days,       \* the days asked for
    Times,      \* booking times, in their order
    Null,       \* no row, no answer, no filter
    Queries,    \* bound: the queries readers make in this instance
    Movable,    \* bound: the rows whose status is written in this instance
    Offsets,    \* bound: the time zones of the server
    Start,      \* the instant the instance begins
    End         \* bound: and its last

SortKeys == {"bookingDate", "bookingTime", "createdAt", "status"}
Orders == {"asc", "desc"}
Instants == Start .. End

\* status and day are filters; serviceId and search would be others that a row
\* never comes to meet or ceases to.
AllQueries == [sortBy : SortKeys, order : Orders, limit : Nat \ {0},
               status : Status \cup {Null}, day : Days \cup {Null}]

Rows == [bookingDate : Days, bookingTime : Times, createdAt : 0 .. End,
         status : Status]

\* What is kept of a request: the slot it asks for, and when its date was checked.
Checks == [day : Days \cup {NaN}, time : Times, at : Instants]

Replies == {"Created", "InvalidBookingDate", "PrismaValidation",
            "BookingAlreadyExists", "P2002"}

Ids == Requests \cup DOMAIN SeedRows

ASSUME DiaryAssumption ==
    /\ IsFiniteSet(Requests)
    /\ IsFiniteSet(DOMAIN SeedRows)
    /\ Requests \cap DOMAIN SeedRows = {}
    /\ SeedRows \in [DOMAIN SeedRows -> Rows]
    /\ \A a, b \in DOMAIN SeedRows :
        (/\ SeedRows[a].bookingDate = SeedRows[b].bookingDate
         /\ SeedRows[a].bookingTime = SeedRows[b].bookingTime) => a = b
    /\ Days \subseteq Int
    /\ Times \subseteq Int
    /\ Start \in Nat
    /\ End \in Nat
    /\ Start =< End
    /\ Offsets \subseteq ZoneOffsets
    /\ Queries \subseteq AllQueries
    /\ Movable \subseteq Ids
    /\ Null \notin Rows \cup Status \cup Days \cup AllQueries \cup Checks \cup Replies

VARIABLES
    offset,     \* where the server is; it never moves
    now,        \* the clock
    asked,      \* the day and time each request asks for, and when it was checked
    pc,         \* where each request to book stands
    reply,      \* and what it is answered
    diary,      \* the table: id -> row or Null
    walk,       \* where the reader stands in the handler of the list
    query,      \* what the reader asks for
    page,       \* the page of the list being read
    found,      \* the rows findMany returned for it
    meta,       \* the metadata the handler answers
    body,       \* the body that leaves the server
    begun,      \* history: the rows the list had when the reader began
    shown,      \* history: the rows the reader was shown
    again,      \* history: those shown on more than one page
    grown,      \* history: whether a row was made since the reader began
    moved       \* history: and whether a row changed its status

booking == <<asked, pc, reply>>
listing == <<walk, query, page, found, meta, body>>
history == <<begun, shown, again, grown, moved>>
vars == <<offset, now, asked, pc, reply, diary, walk, query, page, found, meta,
          body, begun, shown, again, grown, moved>>

Init ==
    /\ offset \in Offsets
    /\ now = Start
    /\ asked = [r \in Requests |-> Null]
    /\ pc = [r \in Requests |-> "idle"]
    /\ reply = [r \in Requests |-> Null]
    /\ diary = [b \in Ids |-> IF b \in Requests THEN Null ELSE SeedRows[b]]
    /\ walk = "idle"
    /\ query = Null
    /\ page = 1
    /\ found = {}
    /\ meta = Null
    /\ body = Null
    /\ begun = {} /\ shown = {} /\ again = {}
    /\ grown = FALSE /\ moved = FALSE

Stored == {b \in Ids : diary[b] # Null}

Tick ==
    /\ now < End
    /\ now' = now + 1
    /\ UNCHANGED <<offset, booking, diary, listing, history>>

------------------------------------------------------------------------------
(* createBooking, from the check of the date on (Bookings has the rest).     *)

Goto(r, step) == pc' = [pc EXCEPT ![r] = step] /\ UNCHANGED reply

Answer(r, answer) ==
    /\ pc' = [pc EXCEPT ![r] = "done"]
    /\ reply' = [reply EXCEPT ![r] = answer]

CheckDate(r, day, time) ==
    /\ pc[r] = "idle"
    /\ asked' = [asked EXCEPT ![r] = [day |-> day, time |-> time, at |-> now]]
    /\ \/ InPast(day, now, offset) /\ Answer(r, "InvalidBookingDate")
       \/ ~InPast(day, now, offset) /\ Goto(r, "findDuplicate")
    /\ UNCHANGED <<offset, now, diary, listing, history>>

\* The rows of the slot a request asks for.
Holders(r) == {b \in Stored : /\ diary[b].bookingDate = asked[r].day
                              /\ diary[b].bookingTime = asked[r].time}

\* A faulty variant: a date that is none is searched for like any other.
FindDuplicateOfNoDate(r) ==
    LET live == {b \in Holders(r) : diary[b].status # "CANCELLED"} IN
    /\ pc[r] = "findDuplicate"
    /\ \/ live # {} /\ Answer(r, "BookingAlreadyExists")
       \/ live = {} /\ Goto(r, "insertBooking")
    /\ UNCHANGED <<offset, now, asked, diary, listing, history>>

\* Prisma refuses a date that is none; a cancelled holder is not a duplicate.
FindDuplicate(r) ==
    LET live == {b \in Holders(r) : diary[b].status # "CANCELLED"} IN
    /\ pc[r] = "findDuplicate"
    /\ \/ asked[r].day = NaN /\ Answer(r, "PrismaValidation")
       \/ asked[r].day # NaN /\ live # {} /\ Answer(r, "BookingAlreadyExists")
       \/ asked[r].day # NaN /\ live = {} /\ Goto(r, "insertBooking")
    /\ UNCHANGED <<offset, now, asked, diary, listing, history>>

\* A faulty variant: the index is over the bookings that are not cancelled.
InsertBookingOverCancelled(r) ==
    /\ pc[r] = "insertBooking"
    /\ \A b \in Holders(r) : diary[b].status = "CANCELLED"
    /\ diary' = [diary EXCEPT ![r] =
            [bookingDate |-> asked[r].day, bookingTime |-> asked[r].time,
             createdAt |-> now, status |-> "PENDING"]]
    /\ grown' = TRUE
    /\ Answer(r, "Created")
    /\ UNCHANGED <<offset, now, asked, listing, begun, shown, again, moved>>

\* The insert may come any time after the check: the day may be over by then.
InsertBooking(r) ==
    /\ pc[r] = "insertBooking"
    /\ \/ /\ Holders(r) # {}
          /\ Answer(r, "P2002")
          /\ UNCHANGED <<diary, grown>>
       \/ /\ Holders(r) = {}
          /\ diary' = [diary EXCEPT ![r] =
                [bookingDate |-> asked[r].day, bookingTime |-> asked[r].time,
                 createdAt |-> now, status |-> "PENDING"]]
          /\ grown' = TRUE
          /\ Answer(r, "Created")
    /\ UNCHANGED <<offset, now, asked, listing, begun, shown, again, moved>>

\* The write of updateStatus or cancelBooking, by id alone: it meets whatever the
\* row has become since its request read it, so the list must be ready for any
\* status to follow any other (Bookings has the handlers and their race).
MoveOn(b) ==
    /\ b \in Stored \cap Movable
    /\ \E status \in Status \ {diary[b].status} :
        diary' = [diary EXCEPT ![b].status = status]
    /\ moved' = TRUE
    /\ UNCHANGED <<offset, now, booking, listing, begun, shown, again, grown>>

------------------------------------------------------------------------------
(* The list                                                                  *)

\* The rows the filters of the query let through.
Matching(q) ==
    {b \in Stored : /\ q.status # Null => diary[b].status = q.status
                    /\ q.day # Null => diary[b].bookingDate = q.day}

StatusRank == [PENDING |-> 1, CONFIRMED |-> 2, CANCELLED |-> 3, COMPLETED |-> 4]

\* An enum sorts in the order it is declared.
Key(b, q) == IF q.sortBy = "status" THEN StatusRank[diary[b].status]
             ELSE diary[b][q.sortBy]

Precedes(a, b, q) ==
    IF q.order = "asc" THEN Key(a, q) < Key(b, q) ELSE Key(b, q) < Key(a, q)

\* Some order the sort key allows lists the rows of part before the others.
ComeFirst(part, whole, q) ==
    \A a \in part, b \in whole \ part : ~Precedes(b, a, q)

\* What findMany may return: the rows of some order after the first skip, up
\* to take of them.
Pages(q, p) ==
    LET rows == Matching(q)
        skipped == Smaller(Skip(p, q.limit), Cardinality(rows))
        read == Smaller(Skip(p, q.limit) + Take(q.limit), Cardinality(rows)) IN
    {part \in SUBSET rows :
        \E before \in SUBSET (rows \ part) :
            /\ Cardinality(before) = skipped
            /\ Cardinality(before) + Cardinality(part) = read
            /\ ComeFirst(before, rows, q)
            /\ ComeFirst(before \cup part, rows, q)}

\* A reader starts over with a query; the DTO cuts the limit down.
Begin ==
    /\ walk \in {"idle", "finished"}
    /\ walk' = "findMany"
    /\ \E q \in Queries :
        /\ query' = [q EXCEPT !.limit = DtoLimit(@)]
        /\ begun' = Matching(q)
    /\ page' = 1
    /\ found' = {} /\ shown' = {} /\ again' = {}
    /\ grown' = FALSE /\ moved' = FALSE
    /\ meta' = Null /\ body' = Null
    /\ UNCHANGED <<offset, now, booking, diary>>

FindMany ==
    /\ walk = "findMany"
    /\ found' \in Pages(query, page)
    /\ walk' = "count"
    /\ UNCHANGED <<offset, now, booking, diary, query, page, meta, body, history>>

\* TransformInterceptor builds the body anew: of what the controller returned
\* it keeps the message, if any, and the data.
Transform(answer) ==
    [success |-> TRUE,
     message |-> IF "message" \in DOMAIN answer THEN answer.message
                 ELSE "Request successful",
     data    |-> IF "data" \in DOMAIN answer THEN answer.data ELSE answer]

\* A faulty variant: the count leaves cancelled bookings out.
CountLive ==
    LET total == Cardinality({b \in Matching(query) : diary[b].status # "CANCELLED"}) IN
    /\ walk = "count"
    /\ meta' = PageMeta(page, query.limit, total)
    /\ body' = Transform([success |-> TRUE, data |-> found, meta |-> meta'])
    /\ walk' = "answered"
    /\ UNCHANGED <<offset, now, booking, diary, query, page, found, history>>

\* count, buildPaginationMeta, the controller's return and the interceptor.
Count ==
    LET total == Cardinality(Matching(query)) IN
    /\ walk = "count"
    /\ meta' = PageMeta(page, query.limit, total)
    /\ body' = Transform([success |-> TRUE, data |-> found, meta |-> meta'])
    /\ walk' = "answered"
    /\ UNCHANGED <<offset, now, booking, diary, query, page, found, history>>

\* The reader goes on until a page is not full: the body has nothing else to
\* tell it by.
TurnPage ==
    /\ walk = "answered"
    /\ shown' = shown \cup body.data
    /\ again' = again \cup (shown \cap body.data)
    /\ \/ Cardinality(body.data) < query.limit /\ walk' = "finished" /\ UNCHANGED page
       \/ Cardinality(body.data) >= query.limit /\ walk' = "findMany" /\ page' = page + 1
    /\ found' = {} /\ meta' = Null /\ body' = Null
    /\ UNCHANGED <<offset, now, booking, diary, query, begun, grown, moved>>

Next ==
    \/ Tick
    \/ \E r \in Requests :
        \/ \E day \in Days \cup {NaN}, time \in Times : CheckDate(r, day, time)
        \/ FindDuplicate(r) \/ InsertBooking(r)
    \/ \E b \in Ids : MoveOn(b)
    \/ Begin \/ FindMany \/ Count \/ TurnPage

Spec == Init /\ [][Next]_vars

------------------------------------------------------------------------------
(* Safety                                                                    *)

\* Type invariant of the diary, the requests and the reader.
TypeOK ==
    /\ offset \in Offsets
    /\ now \in Instants
    /\ asked \in [Requests -> Checks \cup {Null}]
    /\ pc \in [Requests -> {"idle", "findDuplicate", "insertBooking", "done"}]
    /\ reply \in [Requests -> Replies \cup {Null}]
    /\ diary \in [Ids -> Rows \cup {Null}]
    /\ walk \in {"idle", "findMany", "count", "answered", "finished"}
    /\ query \in AllQueries \cup {Null}
    /\ walk # "idle" => query # Null /\ query.limit =< MaxLimit
    /\ page \in Nat \ {0}
    /\ found \in SUBSET Ids
    /\ walk = "answered" => body.data = found
    /\ begun \cup shown \cup again \subseteq Ids
    /\ grown \in BOOLEAN
    /\ moved \in BOOLEAN

\* In whatever time zone the server runs, no row is for a day that was over
\* there when the request was checked.
NoPastDay ==
    \A b \in Stored \cap Requests : diary[b].bookingDate >= LocalDay(asked[b].at, offset)

\* At Greenwich and east of it only days that are over are refused.  West of it
\* the current day is refused as well.
TodayMayBeBooked ==
    offset >= 0 =>
        \A r \in Requests : reply[r] = "InvalidBookingDate"
            => asked[r].day < LocalDay(asked[r].at, offset)

\* No other row of the list has the sort key of a row.
Alone(b) == \A a \in Matching(query) \ {b} : Key(a, query) # Key(b, query)

\* Rows come to a list and never leave or move in it, unless the list is
\* filtered or sorted by the status.
Settled == ~moved \/ (query.sortBy # "status" /\ query.status = Null)

\* Bookings made while a reader turns the pages push rows to later pages and
\* never to earlier ones: a reader who goes on to the last page was shown every
\* row there was at the start, unless rows tie on the sort key or leave.
WalkMissesNothing ==
    walk = "finished" /\ Settled => \A b \in begun : Alone(b) => b \in shown

\* While nothing changes, no row is shown on two pages unless rows tie.
QuietWalkShowsOnce ==
    ~grown /\ ~moved => \A b \in again : ~Alone(b)

\* The metadata, counted after the page was read, covers the rows of the page.
MetaCoversPage ==
    walk = "answered" /\ Settled /\ found # {} =>
        meta.totalItems >= Skip(page, query.limit) + Cardinality(found)

\* A page without a next page is the last: between it and the pages before, the
\* reader has every row there was at the start, unless rows tie or leave.
LastPageIsLast ==
    walk = "answered" /\ Settled /\ ~meta.hasNextPage =>
        \A b \in begun : Alone(b) => b \in shown \cup found

\* The shape of list answers, PaginatedResponse: the metadata reaches clients.
MetaReachesClients == body # Null => "meta" \in DOMAIN body

------------------------------------------------------------------------------
(* The diary as SlotLedger sees it: one service, and a slot is a day and a   *)
(* time of day.                                                              *)

TheService == "service"

EntriesOf ==
    {[booking |-> b, service |-> TheService,
      slot |-> <<diary[b].bookingDate, diary[b].bookingTime>>] : b \in Stored}

Ledger == INSTANCE SlotLedger WITH
    Services <- {TheService}, Bookings <- Ids, Slots <- Days \X Times,
    open <- {TheService}, entries <- EntriesOf

\* Whatever is moved on, searched and inserted in whatever order, the diary
\* implements the ledger: a day and time once booked is never booked again.
DiaryLedgerSpec == Ledger!Spec

------------------------------------------------------------------------------
(* The inductive invariant: what the safety properties rest on.              *)

\* What the check of the date has found out about a request stays with it, and
\* a row is for the day and time its request asked for.
DateChecked(r) ==
    /\ pc[r] # "idle" => asked[r] # Null
    /\ diary[r] # Null => /\ pc[r] = "done"
                          /\ asked[r] # Null
                          /\ diary[r].bookingDate = asked[r].day
    /\ pc[r] \in {"findDuplicate", "insertBooking"} \/ diary[r] # Null
        => ~InPast(asked[r].day, asked[r].at, offset)
    /\ pc[r] = "insertBooking" => asked[r].day # NaN
    /\ reply[r] # Null => pc[r] = "done"
    /\ reply[r] = "InvalidBookingDate" => InPast(asked[r].day, asked[r].at, offset)

DatesChecked == \A r \in Requests : DateChecked(r)

\* The rows that come before a row in every order of the list, and how many.
Ahead(b) == {a \in Matching(query) : Precedes(a, b, query)}
Rank(b) == Cardinality(Ahead(b))

\* The first row of the page being read and the first of the next one.
PageStart == Skip(page, query.limit)
PageEnd == PageStart + query.limit

OnTheList == walk # "idle" /\ Settled => begun \subseteq Matching(query)

\* A row the reader has still to see is still to come: no page passes it by.
NotPassed ==
    walk = "findMany" /\ Settled =>
        \A b \in begun \ shown : Alone(b) => Rank(b) >= PageStart

\* A row that is not on the page just read is on a later one, and the page full.
NotPassedYet ==
    walk \in {"count", "answered"} /\ Settled =>
        \A b \in begun \ (shown \cup found) : Alone(b) =>
            Rank(b) >= PageEnd /\ Cardinality(found) >= query.limit

\* No row leaves the list between the two statements of a page.
PageIsCovered ==
    walk = "count" /\ Settled /\ found # {} =>
        Cardinality(Matching(query)) >= PageStart + Cardinality(found)

\* While nothing changes, a row is on the page its rank puts it on.
OnItsPage ==
    ~grown /\ ~moved =>
        /\ walk \in {"findMany", "count", "answered"} =>
            \A b \in shown : Alone(b) => Rank(b) < PageStart
        /\ walk \in {"count", "answered"} =>
            \A b \in found : Alone(b) => Rank(b) \in PageStart .. (PageEnd - 1)

IInv ==
    /\ TypeOK
    /\ DatesChecked
    /\ OnTheList
    /\ NotPassed
    /\ NotPassedYet
    /\ PageIsCovered
    /\ OnItsPage
    /\ WalkMissesNothing
    /\ QuietWalkShowsOnce
    /\ MetaCoversPage
    /\ LastPageIsLast

==============================================================================
