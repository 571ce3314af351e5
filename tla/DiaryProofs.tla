----------------------------- MODULE DiaryProofs -----------------------------
(* The safety of the diary and its list for any set of requests, days and    *)
(* queries, any length of a page and of a day, and any time zone.            *)
EXTENDS Diary, FiniteSetTheorems, TLAPS

------------------------------------------------------------------------------
(* Pages as numbers                                                          *)

\* For the pages and limits the DTO lets through the bounds of calcSkip change
\* nothing, and the users' list, which has none, skips the same rows.
LEMMA SkipIsPlain ==
    ASSUME NEW p \in Nat \ {0}, NEW limit \in Nat \ {0}, limit =< MaxLimit
    PROVE  /\ SafeLimit(limit) = limit
           /\ Take(limit) = limit
           /\ Skip(p, limit) = (p - 1) * limit
           /\ UsersSkip(p, limit) = Skip(p, limit)
  BY PaginationAssumption
  DEF SafeLimit, Skip, UsersSkip, Take, Smaller, Larger

\* Page by page the list is cut without gap or overlap.
LEMMA SkipAdvances ==
    ASSUME NEW p \in Nat \ {0}, NEW limit \in Nat \ {0}, limit =< MaxLimit
    PROVE  /\ Skip(p, limit) \in Nat
           /\ Skip(1, limit) = 0
           /\ Skip(p + 1, limit) = Skip(p, limit) + limit
  <1>1. /\ Skip(p, limit) = (p - 1) * limit
        /\ Skip(1, limit) = (1 - 1) * limit
        /\ Skip(p + 1, limit) = ((p + 1) - 1) * limit
    BY SkipIsPlain
  <1>2. /\ (p - 1) * limit \in Nat
        /\ (1 - 1) * limit = 0
        /\ ((p + 1) - 1) * limit = (p - 1) * limit + limit
    OBVIOUS
  <1> QED
    BY <1>1, <1>2

\* Bookings and users are paged alike, though the users' list computes its offset
\* without the bounds: the page begins at the same row, and the metadata announces
\* a next page exactly when rows are left for one.
THEOREM NextPageIsHonest ==
    ASSUME NEW p \in Nat \ {0}, NEW limit \in Nat \ {0}, limit =< MaxLimit,
           NEW total \in Nat
    PROVE  /\ UsersSkip(p, limit) = Skip(p, limit)
           /\ PageMeta(p, limit, total).hasNextPage <=> Skip(p, limit) + limit < total
  <1> SUFFICES PageMeta(p, limit, total).hasNextPage <=> Skip(p, limit) + limit < total
    BY SkipIsPlain
  <1> DEFINE pages == TotalPages(limit, total)
  <1>1. pages = IF total = 0 THEN 0 ELSE (total + limit - 1) \div limit
    BY SkipIsPlain DEF TotalPages
  <1>2. PageMeta(p, limit, total).hasNextPage <=> p < pages
    <2>1. Larger(1, p) = p
      BY DEF Larger
    <2> QED
      BY <2>1 DEF PageMeta
  <1>3. Skip(p, limit) + limit = p * limit
    <2>1. (p - 1) * limit + limit = p * limit
      OBVIOUS
    <2> QED
      BY <2>1, SkipIsPlain
  <1>4. CASE total = 0
    <2>1. p * limit >= 0
      OBVIOUS
    <2> QED
      BY <1>1, <1>2, <1>3, <1>4, <2>1
  <1>5. CASE total # 0
    <2> DEFINE q == (total + limit - 1) \div limit
    <2>1. q \in Int /\ limit * q =< total + limit - 1 /\ total + limit - 1 < limit * q + limit
      BY <1>5
    <2>2. ASSUME p < q PROVE p * limit < total
      <3>1. (p + 1) * limit =< q * limit
        BY <2>1, <2>2
      <3> QED
        BY <2>1, <3>1
    <2>3. ASSUME ~(p < q) PROVE ~(p * limit < total)
      <3>1. q * limit =< p * limit
        BY <2>1, <2>3
      <3> QED
        BY <2>1, <3>1
    <2> QED
      BY <1>1, <1>2, <1>3, <1>5, <2>2, <2>3
  <1> QED
    BY <1>4, <1>5

\* Every row of a list of any length is on one of the pages the metadata counts,
\* and on no other: the pages are cut without gap or overlap, and none is empty.
THEOREM PagesPartitionTheList ==
    ASSUME NEW limit \in Nat \ {0}, limit =< MaxLimit, NEW total \in Nat
    PROVE  /\ \A i \in 0 .. (total - 1) :
                \E p \in 1 .. TotalPages(limit, total) :
                    /\ Skip(p, limit) =< i /\ i < Skip(p, limit) + Take(limit)
                    /\ \A q \in Nat \ {0} :
                        Skip(q, limit) =< i /\ i < Skip(q, limit) + Take(limit) => q = p
           /\ \A p \in 1 .. TotalPages(limit, total) : Skip(p, limit) < total
  <1> DEFINE pages == TotalPages(limit, total)
  <1>1. /\ \A p \in Nat \ {0} : Skip(p, limit) = (p - 1) * limit
        /\ Take(limit) = limit
    BY SkipIsPlain
  <1>2. pages = IF total = 0 THEN 0 ELSE (total + limit - 1) \div limit
    BY SkipIsPlain DEF TotalPages
  <1>3. /\ pages \in Nat
        /\ total # 0 => limit * pages =< total + limit - 1 /\ total + limit - 1 < limit * pages + limit
    <2>1. CASE total = 0
      BY <1>2, <2>1
    <2>2. CASE total # 0
      <3> DEFINE q == (total + limit - 1) \div limit
      <3>1. q \in Int /\ limit * q =< total + limit - 1 /\ total + limit - 1 < limit * q + limit
        BY <2>2
      <3>2. q >= 0
        <4> SUFFICES ASSUME q =< -1 PROVE FALSE
          BY <3>1
        <4>1. limit * q =< limit * (-1)
          BY <3>1
        <4> QED
          BY <2>2, <3>1, <4>1
      <3> QED
        BY <1>2, <2>2, <3>1, <3>2
    <2> QED
      BY <2>1, <2>2
  <1> HIDE DEF pages
  <1>4. ASSUME NEW i \in 0 .. (total - 1)
        PROVE  \E p \in 1 .. pages :
                    /\ Skip(p, limit) =< i /\ i < Skip(p, limit) + Take(limit)
                    /\ \A q \in Nat \ {0} :
                        Skip(q, limit) =< i /\ i < Skip(q, limit) + Take(limit) => q = p
    <2> DEFINE k == i \div limit
               p == k + 1
    <2>1. k \in Int /\ limit * k =< i /\ i < limit * k + limit
      OBVIOUS
    <2> HIDE DEF k
    <2>2. k >= 0
      <3> SUFFICES ASSUME k =< -1 PROVE FALSE
        BY <2>1
      <3>1. limit * k =< limit * (-1)
        BY <2>1
      <3> QED
        BY <2>1, <3>1
    <2>3. k < pages
      <3> SUFFICES ASSUME pages =< k PROVE FALSE
        BY <1>3, <2>1
      <3>1. limit * pages =< limit * k
        BY <1>3, <2>1
      <3>2. limit * pages \in Int /\ limit * k \in Int
        BY <1>3, <2>1
      <3> QED
        BY <1>3, <2>1, <3>1, <3>2
    <2>4. p \in 1 .. pages
      BY <1>3, <2>1, <2>2, <2>3
    <2>5. Skip(p, limit) = limit * k
      <3>1. Skip(p, limit) = (p - 1) * limit
        BY <1>1, <2>1, <2>2
      <3> QED
        BY <2>1, <3>1
    <2>6. ASSUME NEW q \in Nat \ {0}, Skip(q, limit) =< i, i < Skip(q, limit) + Take(limit)
          PROVE  q = p
      <3>1. (q - 1) * limit =< i /\ i < (q - 1) * limit + limit
        BY <1>1, <2>6
      <3>2. (q - 1) * limit + limit = q * limit
        OBVIOUS
      <3>3. ASSUME q =< k PROVE FALSE
        <4>1. q * limit =< k * limit
          BY <2>1, <3>3
        <4> QED
          BY <2>1, <3>1, <3>2, <4>1
      <3>4. ASSUME k + 2 =< q PROVE FALSE
        <4>1. (k + 1) * limit =< (q - 1) * limit
          BY <2>1, <3>4
        <4>2. (k + 1) * limit = k * limit + limit
          BY <2>1
        <4> QED
          BY <2>1, <3>1, <4>1, <4>2
      <3> QED
        BY <2>1, <3>3, <3>4
    <2> QED
      BY <1>1, <2>1, <2>4, <2>5, <2>6
  <1>5. ASSUME NEW p \in 1 .. pages PROVE Skip(p, limit) < total
    <2>1. p \in Nat \ {0} /\ p =< pages /\ total # 0
      BY <1>2, <1>3 DEF pages
    <2>2. Skip(p, limit) = (p - 1) * limit
      BY <1>1, <2>1
    <2>3. (p - 1) * limit = p * limit - limit
      BY <2>1
    <2>4. p * limit =< pages * limit
      BY <1>3, <2>1
    <2> QED
      BY <1>3, <2>1, <2>2, <2>3, <2>4
  <1> QED
    BY <1>4, <1>5 DEF pages

------------------------------------------------------------------------------
(* Days                                                                      *)

\* BookingDateValidator compares two midnights, the booked day's in UTC and
\* today's in the server's zone.  Where local time is not behind UTC it refuses
\* exactly the days that are over; behind UTC it refuses today too, and no day
\* after it.
THEOREM DateCheckIsExact ==
    ASSUME NEW day \in Int, NEW instant \in Int, NEW zone \in ZoneOffsets
    PROVE  /\ LocalDay(instant, zone) \in Int
           /\ InPast(day, instant, zone) <=>
                IF zone >= 0 THEN day < LocalDay(instant, zone)
                ELSE day =< LocalDay(instant, zone)
  <1> DEFINE today == LocalDay(instant, zone)
  <1>1. /\ today \in Int /\ zone \in Int /\ DayLength \in Nat \ {0}
        /\ zone < DayLength /\ -DayLength < zone
    BY DateAssumption DEF LocalDay, ZoneOffsets
  <1>2. InPast(day, instant, zone) <=> day * DayLength < today * DayLength - zone
    BY DateAssumption DEF InPast, BookedInstant, LocalMidnight
  <1> HIDE DEF today
  <1>3. day * DayLength \in Int /\ today * DayLength \in Int
    BY <1>1
  <1>4. ASSUME day < today PROVE day * DayLength =< today * DayLength - DayLength
    <2>1. day + 1 =< today
      BY <1>1, <1>4
    <2>2. (day + 1) * DayLength =< today * DayLength
      BY <1>1, <2>1
    <2> QED
      BY <1>1, <2>2
  <1>5. ASSUME today < day PROVE today * DayLength =< day * DayLength - DayLength
    <2>1. today + 1 =< day
      BY <1>1, <1>5
    <2>2. (today + 1) * DayLength =< day * DayLength
      BY <1>1, <2>1
    <2> QED
      BY <1>1, <2>2
  <1>6. /\ zone >= 0 => (InPast(day, instant, zone) <=> day < today)
        /\ zone < 0 => (InPast(day, instant, zone) <=> day =< today)
    <2>1. ASSUME day < today PROVE InPast(day, instant, zone)
      BY <1>1, <1>2, <1>3, <1>4, <2>1
    <2>2. ASSUME today < day PROVE ~InPast(day, instant, zone)
      BY <1>1, <1>2, <1>3, <1>5, <2>2
    <2>3. ASSUME day = today PROVE InPast(day, instant, zone) <=> zone < 0
      BY <1>1, <1>2, <1>3, <2>3
    <2>4. day < today \/ today < day \/ day = today
      BY <1>1
    <2> QED
      BY <1>1, <2>1, <2>2, <2>3, <2>4
  <1> QED
    BY <1>1, <1>6 DEF today

------------------------------------------------------------------------------
(* Rows in their order                                                       *)

\* The invariant's facts about a reader on the way.
LEMMA OnTheWay ==
    ASSUME TypeOK, walk # "idle"
    PROVE  /\ query \in AllQueries
           /\ query.limit \in Nat \ {0}
           /\ query.limit =< MaxLimit
           /\ page \in Nat \ {0}
           /\ PageStart \in Nat
           /\ PageEnd \in Nat
           /\ PageEnd = PageStart + query.limit
  <1>1. query \in AllQueries /\ query.limit =< MaxLimit /\ page \in Nat \ {0}
    BY DEF TypeOK
  <1>2. query.limit \in Nat \ {0}
    BY <1>1 DEF AllQueries
  <1>3. PageStart \in Nat
    BY <1>1, <1>2, SkipAdvances DEF PageStart
  <1> QED
    BY <1>1, <1>2, <1>3 DEF PageEnd

\* The diary is finite, and so is every part of it.
LEMMA PartsAreFinite ==
    ASSUME NEW part \in SUBSET Ids
    PROVE  IsFiniteSet(part) /\ Cardinality(part) \in Nat
  <1>1. IsFiniteSet(Ids)
    BY DiaryAssumption, FS_Union DEF Ids
  <1>2. IsFiniteSet(part)
    BY <1>1, FS_Subset
  <1> QED
    BY <1>2, FS_CardinalityType

\* The rows of the list are rows of the diary, and so are those ahead of one.
LEMMA RowsOfTheList ==
    ASSUME NEW b
    PROVE  /\ Matching(query) \in SUBSET Ids
           /\ Ahead(b) \in SUBSET Matching(query)
           /\ IsFiniteSet(Matching(query)) /\ Cardinality(Matching(query)) \in Nat
           /\ IsFiniteSet(Ahead(b)) /\ Rank(b) \in Nat
  <1>1. Matching(query) \in SUBSET Ids /\ Ahead(b) \in SUBSET Matching(query)
    BY DEF Matching, Stored, Ahead
  <1>2. Ahead(b) \in SUBSET Ids
    BY <1>1
  <1> QED
    BY <1>1, <1>2, PartsAreFinite DEF Rank

\* Sort keys are numbers.
LEMMA KeysAreNumbers ==
    ASSUME TypeOK, NEW q \in AllQueries, NEW b \in Stored
    PROVE  Key(b, q) \in Int
  <1>1. diary[b] \in Rows
    BY DEF TypeOK, Stored
  <1>2. /\ diary[b].bookingDate \in Int
        /\ diary[b].bookingTime \in Int
        /\ diary[b].createdAt \in Int
        /\ diary[b].status \in Status
    BY <1>1, DiaryAssumption DEF Rows
  <1>3. q.sortBy \in SortKeys
    BY DEF AllQueries
  <1>4. CASE q.sortBy = "status"
    BY <1>2, <1>4 DEF Key, StatusRank, Status
  <1>5. CASE q.sortBy = "bookingDate"
    BY <1>2, <1>5 DEF Key
  <1>6. CASE q.sortBy = "bookingTime"
    BY <1>2, <1>6 DEF Key
  <1>7. CASE q.sortBy = "createdAt"
    BY <1>2, <1>7 DEF Key
  <1> QED
    BY <1>3, <1>4, <1>5, <1>6, <1>7 DEF SortKeys

\* A row that ties with no other stands in one place: every row of the list is
\* ahead of it or behind it, and not both.
LEMMA OnePlace ==
    ASSUME TypeOK, walk # "idle", NEW b \in Matching(query), Alone(b),
           NEW a \in Matching(query), a # b
    PROVE  Precedes(a, b, query) <=> ~Precedes(b, a, query)
  <1>1. Key(a, query) \in Int /\ Key(b, query) \in Int
    BY OnTheWay, KeysAreNumbers DEF Matching
  <1>2. Key(a, query) # Key(b, query)
    BY DEF Alone
  <1>3. query.order \in {"asc", "desc"}
    BY OnTheWay DEF AllQueries, Orders
  <1> QED
    BY <1>1, <1>2, <1>3 DEF Precedes

\* Whatever order of the rows that tie the database chooses, a page holds the
\* rows whose rank puts them on it, and a page that is not full is the last.
LEMMA PageFacts ==
    ASSUME TypeOK, walk # "idle", NEW part \in Pages(query, page)
    PROVE  /\ part \in SUBSET Matching(query)
           /\ part # {} => PageStart + Cardinality(part) =< Cardinality(Matching(query))
           /\ \A b \in part : Alone(b) => Rank(b) \in PageStart .. (PageEnd - 1)
           /\ \A b \in Matching(query) \ part : Alone(b) /\ Rank(b) >= PageStart
                => Rank(b) >= PageEnd /\ Cardinality(part) >= query.limit
  <1> DEFINE rows == Matching(query)
             n == Cardinality(rows)
             skip == PageStart
             take == query.limit
  <1>1. /\ skip \in Nat /\ take \in Nat \ {0} /\ n \in Nat
        /\ PageEnd = skip + take
        /\ Take(query.limit) = take
        /\ skip = Skip(page, query.limit)
    BY OnTheWay, SkipIsPlain, RowsOfTheList DEF PageStart
  <1>2. PICK before \in SUBSET (rows \ part) :
            /\ Cardinality(before) = Smaller(skip, n)
            /\ Cardinality(before) + Cardinality(part) = Smaller(skip + take, n)
            /\ ComeFirst(before, rows, query)
            /\ ComeFirst(before \cup part, rows, query)
    BY <1>1 DEF Pages
  <1>3. part \in SUBSET rows
    BY DEF Pages
  <1> DEFINE read == before \cup part
             k == Cardinality(before)
             m == Cardinality(part)
  <1>4. /\ IsFiniteSet(before) /\ k \in Nat
        /\ IsFiniteSet(part) /\ m \in Nat
        /\ IsFiniteSet(read) /\ Cardinality(read) = k + m
        /\ IsFiniteSet(rows)
        /\ read \in SUBSET rows
    <2>1. rows \in SUBSET Ids /\ IsFiniteSet(rows)
      BY RowsOfTheList
    <2>2. before \in SUBSET Ids /\ part \in SUBSET Ids
      BY <2>1, <1>3
    <2>3. /\ IsFiniteSet(before) /\ k \in Nat
          /\ IsFiniteSet(part) /\ m \in Nat
      BY <2>2, PartsAreFinite
    <2>4. before \cap part = {}
      OBVIOUS
    <2>5. IsFiniteSet(read) /\ Cardinality(read) = k + m - Cardinality(before \cap part)
      BY <2>3, FS_Union
    <2>6. Cardinality(before \cap part) = 0
      BY <2>4, FS_EmptySet
    <2> QED
      BY <1>3, <2>1, <2>3, <2>5, <2>6
  <1>5. k = (IF skip < n THEN skip ELSE n) /\ k + m = (IF skip + take < n THEN skip + take ELSE n)
    BY <1>2 DEF Smaller
  <1>6. part # {} => m # 0
    BY <1>4, FS_EmptySet
  <1>7. m # 0 => k = skip /\ skip + m =< n
    BY <1>1, <1>4, <1>5
  <1>8. \A b \in rows : Alone(b) /\ b \notin before => before \in SUBSET Ahead(b)
    <2> SUFFICES ASSUME NEW b \in rows, Alone(b), b \notin before, NEW a \in before
                 PROVE  a \in Ahead(b)
      OBVIOUS
    <2>1. a \in rows /\ a # b /\ ~Precedes(b, a, query)
      BY <1>2 DEF ComeFirst
    <2> QED
      BY <2>1, OnePlace DEF Ahead
  <1>9. \A b \in read : Alone(b) => Ahead(b) \in SUBSET (read \ {b})
    <2> SUFFICES ASSUME NEW b \in read, Alone(b), NEW a \in Ahead(b)
                 PROVE  a \in read \ {b}
      OBVIOUS
    <2>1. a \in rows /\ Precedes(a, b, query) /\ b \in rows
      BY <1>4 DEF Ahead
    <2>2. a \in read
      BY <1>2, <2>1 DEF ComeFirst
    <2>3. a # b
      <3>1. Key(b, query) \in Int
        BY OnTheWay, KeysAreNumbers, <2>1 DEF Matching
      <3> QED
        BY <2>1, <3>1 DEF Precedes
    <2> QED
      BY <2>2, <2>3
  <1>10. \A b \in read : Alone(b) => Rank(b) =< k + m - 1
    <2> SUFFICES ASSUME NEW b \in read, Alone(b) PROVE Rank(b) =< k + m - 1
      OBVIOUS
    <2>0. /\ b \in read /\ IsFiniteSet(read)
          /\ k \in Nat /\ m \in Nat /\ Cardinality(read) = k + m
      BY <1>4
    <2>1. IsFiniteSet(read \ {b}) /\ Cardinality(read \ {b}) = k + m - 1
      <3>1. /\ IsFiniteSet(read \ {b})
            /\ Cardinality(read \ {b}) = Cardinality(read) - 1
        <4> HIDE DEF read
        <4> QED
          BY <2>0, FS_RemoveElement
      <3> HIDE DEF read, k, m
      <3> QED
        BY <2>0, <3>1
    <2> QED
      BY <1>9, <2>1, FS_Subset DEF Rank
  <1>11. ASSUME NEW b \in part, Alone(b) PROVE Rank(b) \in skip .. (skip + take - 1)
    <2>1. before \in SUBSET Ahead(b) /\ IsFiniteSet(Ahead(b)) /\ Rank(b) \in Nat
      BY <1>3, <1>8, <1>11, RowsOfTheList
    <2>2. k =< Rank(b)
      BY <2>1, FS_Subset DEF Rank
    <2>3. Rank(b) =< k + m - 1
      BY <1>10, <1>11
    <2>4. k = skip
      BY <1>6, <1>7
    <2> QED
      BY <1>1, <1>4, <1>5, <2>1, <2>2, <2>3, <2>4
  <1>12. ASSUME NEW b \in rows \ part, Alone(b), Rank(b) >= skip
         PROVE  Rank(b) >= skip + take /\ m >= take
    <2>1. IsFiniteSet(Ahead(b)) /\ Rank(b) \in Nat
      BY RowsOfTheList
    <2>2. b \notin before
      <3> SUFFICES ASSUME b \in before PROVE FALSE
        OBVIOUS
      <3>1. Ahead(b) \in SUBSET (before \ {b})
        <4> SUFFICES ASSUME NEW a \in Ahead(b) PROVE a \in before \ {b}
          OBVIOUS
        <4>1. a \in rows /\ Precedes(a, b, query)
          BY DEF Ahead
        <4>2. a \in before
          BY <1>2, <4>1 DEF ComeFirst
        <4>3. a # b
          BY <1>9, <1>12
        <4> QED
          BY <4>2, <4>3
      <3>2. IsFiniteSet(before \ {b}) /\ Cardinality(before \ {b}) = k - 1
        BY <1>4, FS_RemoveElement
      <3>3. Rank(b) =< k - 1
        BY <3>1, <3>2, FS_Subset DEF Rank
      <3> QED
        BY <1>1, <1>4, <1>5, <1>12, <2>1, <3>3
    <2>3. read \in SUBSET Ahead(b)
      <3> SUFFICES ASSUME NEW a \in read PROVE a \in Ahead(b)
        OBVIOUS
      <3>1. b \in rows /\ b \notin read /\ a \in rows /\ a # b
        BY <1>4, <1>12, <2>2
      <3>2. ~Precedes(b, a, query)
        BY <1>2, <3>1 DEF ComeFirst
      <3> QED
        BY <1>12, <3>1, <3>2, OnePlace DEF Ahead
    <2>4. k + m =< Rank(b)
      BY <1>4, <2>1, <2>3, FS_Subset DEF Rank
    <2>5. Ahead(b) \in SUBSET (rows \ {b})
      <3> SUFFICES ASSUME b \in Ahead(b) PROVE FALSE
        BY RowsOfTheList
      <3>1. Precedes(b, b, query) /\ b \in rows
        BY DEF Ahead
      <3>2. Key(b, query) \in Int
        BY OnTheWay, KeysAreNumbers, <3>1 DEF Matching
      <3> QED
        BY <3>1, <3>2 DEF Precedes
    <2>6. IsFiniteSet(rows \ {b}) /\ Cardinality(rows \ {b}) = n - 1
      BY <1>4, <1>12, FS_RemoveElement
    <2>7. Rank(b) =< n - 1
      BY <2>5, <2>6, FS_Subset DEF Rank
    <2> QED
      BY <1>1, <1>4, <1>5, <2>1, <2>4, <2>7
  <1>13. part # {} => skip + m =< n
    BY <1>6, <1>7
  <1> QED
    BY <1>1, <1>3, <1>11, <1>12, <1>13

------------------------------------------------------------------------------
(* Steps that do not turn pages                                              *)

\* Rows that come to the list only push rows back.
LEMMA RowsArePushedBack ==
    ASSUME query' = query,
           Matching(query) \subseteq Matching(query)',
           \A a \in Matching(query) : Key(a, query)' = Key(a, query),
           NEW b \in Matching(query)
    PROVE  /\ Alone(b)' => Alone(b)
           /\ Rank(b)' \in Nat /\ Rank(b)' >= Rank(b)
           /\ Cardinality(Matching(query)') >= Cardinality(Matching(query))
  <1>1. Alone(b)' => Alone(b)
    BY DEF Alone
  <1>2. Ahead(b) \in SUBSET Ahead(b)'
    BY DEF Ahead, Precedes
  <1>3. Matching(query)' \in SUBSET Ids /\ Ahead(b)' \in SUBSET Ids
    BY DEF Matching, Stored, Ahead
  <1>4. /\ IsFiniteSet(Ahead(b)') /\ Cardinality(Ahead(b)') \in Nat
        /\ IsFiniteSet(Matching(query)')
    BY <1>3, PartsAreFinite
  <1>5. Cardinality(Ahead(b)') >= Cardinality(Ahead(b))
    <2>1. Cardinality(Ahead(b)) =< Cardinality(Ahead(b)')
      BY <1>2, <1>4, FS_Subset
    <2>2. Cardinality(Ahead(b)) \in Nat
      BY RowsOfTheList DEF Rank
    <2> QED
      BY <1>4, <2>1, <2>2
  <1>6. Cardinality(Matching(query)') >= Cardinality(Matching(query))
    <2>1. Cardinality(Matching(query)) =< Cardinality(Matching(query)')
      BY <1>4, FS_Subset
    <2>2. Cardinality(Matching(query)) \in Nat /\ Cardinality(Matching(query)') \in Nat
      BY <1>3, RowsOfTheList, PartsAreFinite
    <2> QED
      BY <2>1, <2>2
  <1> QED
    BY <1>1, <1>4, <1>5, <1>6 DEF Rank

\* While the reader waits, a step that leaves a settled list its rows and keys
\* keeps the invariant.
LEMMA TableStep ==
    ASSUME IInv, TypeOK', DatesChecked',
           UNCHANGED <<listing, begun, shown, again>>,
           moved => moved',
           ~grown' /\ ~moved' => ~grown /\ ~moved /\ diary' = diary,
           Settled' /\ walk # "idle" =>
                /\ Matching(query) \subseteq Matching(query)'
                /\ \A a \in Matching(query) : Key(a, query)' = Key(a, query)
    PROVE  IInv'
  <1> USE DEF IInv, listing
  <1>1. Settled' => Settled
    BY DEF Settled
  <1>2. PageStart' = PageStart /\ PageEnd' = PageEnd
    BY DEF PageStart, PageEnd
  <1>3. walk # "idle" => PageStart \in Nat /\ PageEnd \in Nat
    BY OnTheWay
  <1>4. ASSUME walk # "idle", Settled', NEW b \in begun
        PROVE  /\ b \in Matching(query) /\ b \in Matching(query)'
               /\ Alone(b)' => Alone(b)
               /\ Rank(b) \in Nat /\ Rank(b)' \in Nat /\ Rank(b)' >= Rank(b)
    <2>1. b \in Matching(query)
      BY <1>1, <1>4 DEF OnTheList
    <2> QED
      BY <1>4, <2>1, RowsArePushedBack, RowsOfTheList
  <1>5. OnTheList'
    BY <1>4 DEF OnTheList
  <1>6. NotPassed'
    <2> SUFFICES ASSUME walk = "findMany", Settled', NEW b \in begun \ shown, Alone(b)'
                 PROVE  Rank(b)' >= PageStart
      BY <1>2 DEF NotPassed
    <2>1. Rank(b) >= PageStart
      BY <1>1, <1>4 DEF NotPassed
    <2> QED
      BY <1>3, <1>4, <2>1
  <1>7. NotPassedYet'
    <2> SUFFICES ASSUME walk \in {"count", "answered"}, Settled',
                        NEW b \in begun \ (shown \cup found), Alone(b)'
                 PROVE  Rank(b)' >= PageEnd /\ Cardinality(found) >= query.limit
      BY <1>2 DEF NotPassedYet
    <2>1. Rank(b) >= PageEnd /\ Cardinality(found) >= query.limit
      BY <1>1, <1>4 DEF NotPassedYet
    <2> QED
      BY <1>3, <1>4, <2>1
  <1>8. PageIsCovered'
    <2> SUFFICES ASSUME walk = "count", Settled', found # {}
                 PROVE  Cardinality(Matching(query)') >= PageStart + Cardinality(found)
      BY <1>2 DEF PageIsCovered
    <2>1. Cardinality(Matching(query)) >= PageStart + Cardinality(found)
      BY <1>1 DEF PageIsCovered
    <2>2. /\ Matching(query) \subseteq Matching(query)'
          /\ Matching(query) \in SUBSET Ids
          /\ Matching(query)' \in SUBSET Ids
          /\ found \in SUBSET Ids
      BY RowsOfTheList DEF Matching, Stored, TypeOK
    <2>3. Cardinality(Matching(query)) =< Cardinality(Matching(query)')
      BY <2>2, PartsAreFinite, FS_Subset
    <2>4. /\ Cardinality(found) \in Nat
          /\ Cardinality(Matching(query)) \in Nat
          /\ Cardinality(Matching(query)') \in Nat
      BY <2>2, PartsAreFinite
    <2> QED
      BY <1>3, <2>1, <2>3, <2>4
  <1>9. ASSUME ~grown', ~moved', NEW b
        PROVE  Alone(b)' = Alone(b) /\ Rank(b)' = Rank(b)
    BY <1>9 DEF Alone, Rank, Ahead, Precedes, Matching, Stored, Key
  <1>10. OnItsPage' /\ QuietWalkShowsOnce'
    BY <1>2, <1>9 DEF OnItsPage, QuietWalkShowsOnce
  <1>11. WalkMissesNothing' /\ LastPageIsLast'
    BY <1>1, <1>4 DEF WalkMissesNothing, LastPageIsLast
  <1>12. MetaCoversPage'
    BY <1>1 DEF MetaCoversPage
  <1> QED
    BY <1>5, <1>6, <1>7, <1>8, <1>10, <1>11, <1>12

\* The clock, the check of a date and the search for a duplicate leave the diary
\* as it is.
LEMMA DiaryStays ==
    ASSUME IInv, TypeOK', DatesChecked', UNCHANGED <<diary, listing, history>>
    PROVE  IInv'
  <1>1. Matching(query)' = Matching(query)
    BY DEF Matching, Stored, listing
  <1>2. \A a : Key(a, query)' = Key(a, query)
    BY DEF Key, listing
  <1> QED
    BY <1>1, <1>2, TableStep DEF listing, history, Settled

\* Time passes.
LEMMA TickStep == ASSUME IInv, Tick PROVE IInv'
  <1>1. TypeOK'
    <2>1. now' \in Instants
      BY DiaryAssumption DEF IInv, TypeOK, Tick, Instants
    <2> QED
      BY <2>1 DEF IInv, Tick, TypeOK, booking, listing, history
  <1>2. DatesChecked'
    BY DEF IInv, Tick, DatesChecked, DateChecked, booking, listing, history
  <1> QED
    BY <1>1, <1>2, DiaryStays DEF Tick

\* A request's date is checked.
LEMMA CheckDateStep ==
    ASSUME IInv, NEW r \in Requests, NEW day \in Days \cup {NaN}, NEW time \in Times,
           CheckDate(r, day, time)
    PROVE  IInv'
  <1> DEFINE check == [day |-> day, time |-> time, at |-> now]
  <1>1. TypeOK /\ DatesChecked
    BY DEF IInv
  <1>2. check \in Checks /\ check.day = day /\ check.at = now
    BY <1>1 DEF TypeOK, Checks
  <1>3. /\ asked' = [asked EXCEPT ![r] = check]
        /\ UNCHANGED <<offset, now, diary, listing, history>>
        /\ pc[r] = "idle"
    BY DEF CheckDate
  <1>4. \/ /\ InPast(day, now, offset)
           /\ pc' = [pc EXCEPT ![r] = "done"]
           /\ reply' = [reply EXCEPT ![r] = "InvalidBookingDate"]
        \/ /\ ~InPast(day, now, offset)
           /\ pc' = [pc EXCEPT ![r] = "findDuplicate"]
           /\ reply' = reply
    BY DEF CheckDate, Answer, Goto
  <1>5. check # Null
    BY <1>2, DiaryAssumption
  <1>6. TypeOK'
    <2> HIDE DEF check
    <2>1. /\ asked' \in [Requests -> Checks \cup {Null}]
          /\ pc' \in [Requests -> {"idle", "findDuplicate", "insertBooking", "done"}]
          /\ reply' \in [Requests -> Replies \cup {Null}]
      BY <1>1, <1>2, <1>3, <1>4 DEF TypeOK, Replies
    <2> QED
      BY <1>1, <1>3, <2>1 DEF TypeOK, listing, history
  <1>7. DatesChecked'
    <2> HIDE DEF check
    <2> SUFFICES ASSUME NEW q \in Requests PROVE DateChecked(q)'
      BY DEF DatesChecked
    <2>1. DateChecked(q)
      BY <1>1 DEF DatesChecked
    <2>2. CASE q # r
      BY <1>1, <1>3, <1>4, <2>1, <2>2 DEF DateChecked, TypeOK
    <2>3. CASE q = r
      BY <1>1, <1>2, <1>3, <1>4, <1>5, <2>1, <2>3, DiaryAssumption DEF DateChecked, TypeOK, Replies
    <2> QED
      BY <2>2, <2>3
  <1> QED
    BY <1>3, <1>6, <1>7, DiaryStays

\* A request looks for the holder of its slot.
LEMMA FindDuplicateStep ==
    ASSUME IInv, NEW r \in Requests, FindDuplicate(r)
    PROVE  IInv'
  <1>1. TypeOK /\ DatesChecked
    BY DEF IInv
  <1>2. UNCHANGED <<offset, now, asked, diary, listing, history>> /\ pc[r] = "findDuplicate"
    BY DEF FindDuplicate
  <1>3. \/ /\ \E answer \in {"PrismaValidation", "BookingAlreadyExists"} :
                reply' = [reply EXCEPT ![r] = answer]
           /\ pc' = [pc EXCEPT ![r] = "done"]
        \/ /\ asked[r].day # NaN
           /\ pc' = [pc EXCEPT ![r] = "insertBooking"]
           /\ reply' = reply
    BY DEF FindDuplicate, Answer, Goto
  <1>4. TypeOK'
    <2>1. /\ pc' \in [Requests -> {"idle", "findDuplicate", "insertBooking", "done"}]
          /\ reply' \in [Requests -> Replies \cup {Null}]
      BY <1>1, <1>3 DEF TypeOK, Replies
    <2> QED
      BY <1>1, <1>2, <2>1 DEF TypeOK, listing, history
  <1>5. DatesChecked'
    <2> SUFFICES ASSUME NEW q \in Requests PROVE DateChecked(q)'
      BY DEF DatesChecked
    <2>1. DateChecked(q) /\ q \in Ids
      BY <1>1 DEF DatesChecked, Ids
    <2> QED
      BY <1>1, <1>2, <1>3, <2>1 DEF DateChecked, TypeOK
  <1> QED
    BY <1>2, <1>4, <1>5, DiaryStays

\* A row is made: it comes to the list, or stays out of it, and moves no other.
LEMMA InsertBookingStep ==
    ASSUME IInv, NEW r \in Requests, InsertBooking(r)
    PROVE  IInv'
  <1> DEFINE row == [bookingDate |-> asked[r].day, bookingTime |-> asked[r].time,
                     createdAt |-> now, status |-> "PENDING"]
  <1>1. TypeOK /\ DatesChecked /\ r \in Ids
    BY DEF IInv, Ids
  <1>2. UNCHANGED <<offset, now, asked, listing, begun, shown, again, moved>>
        /\ pc[r] = "insertBooking"
    BY DEF InsertBooking
  <1>3. pc' = [pc EXCEPT ![r] = "done"]
    BY DEF InsertBooking, Answer
  <1>4. /\ asked[r] \in Checks /\ asked[r].day \in Days /\ asked[r].time \in Times
        /\ now \in 0 .. End
        /\ ~InPast(asked[r].day, asked[r].at, offset)
    <2>1. DateChecked(r)
      BY <1>1 DEF DatesChecked
    <2>2. asked[r] \in Checks /\ asked[r].day # NaN
      BY <1>1, <1>2, <2>1 DEF TypeOK, DateChecked
    <2>3. now \in 0 .. End
      BY <1>1, DiaryAssumption DEF TypeOK, Instants
    <2> QED
      BY <1>2, <2>1, <2>2, <2>3 DEF Checks, DateChecked
  <1>5. diary[r] = Null
    BY <1>1, <1>2 DEF DatesChecked, DateChecked
  <1>6. row \in Rows /\ row.bookingDate = asked[r].day
    BY <1>4 DEF Rows, Status
  <1>7. row # Null
    BY <1>6, DiaryAssumption
  <1>8. \/ /\ diary' = diary /\ grown' = grown
           /\ reply' = [reply EXCEPT ![r] = "P2002"]
        \/ /\ diary' = [diary EXCEPT ![r] = row] /\ grown' = TRUE
           /\ reply' = [reply EXCEPT ![r] = "Created"]
    BY DEF InsertBooking, Answer
  <1> HIDE DEF row
  <1>9. TypeOK'
    <2>1. /\ pc' \in [Requests -> {"idle", "findDuplicate", "insertBooking", "done"}]
          /\ reply' \in [Requests -> Replies \cup {Null}]
          /\ diary' \in [Ids -> Rows \cup {Null}]
          /\ grown' \in BOOLEAN
      BY <1>1, <1>3, <1>6, <1>8 DEF TypeOK, Replies
    <2> QED
      BY <1>1, <1>2, <2>1 DEF TypeOK, listing
  <1>10. DatesChecked'
    <2> SUFFICES ASSUME NEW q \in Requests PROVE DateChecked(q)'
      BY DEF DatesChecked
    <2>1. DateChecked(q) /\ q \in Ids
      BY <1>1 DEF DatesChecked, Ids
    <2>2. CASE q # r
      BY <1>1, <1>2, <1>3, <1>8, <2>1, <2>2 DEF DateChecked, TypeOK
    <2>3. CASE q = r
      BY <1>1, <1>2, <1>3, <1>4, <1>5, <1>6, <1>8, <2>1, <2>3 DEF DateChecked, TypeOK
    <2> QED
      BY <2>2, <2>3
  <1>11. \A b \in Stored : diary'[b] = diary[b] /\ b \in Stored'
    BY <1>1, <1>5, <1>8 DEF Stored, TypeOK
  <1>12. Matching(query) \subseteq Matching(query)'
    BY <1>2, <1>11 DEF Matching, listing
  <1>13. \A a \in Matching(query) : Key(a, query)' = Key(a, query)
    BY <1>2, <1>11 DEF Matching, Key, listing
  <1>14. ~grown' /\ ~moved' => ~grown /\ ~moved /\ diary' = diary
    BY <1>2, <1>8
  <1> QED
    BY <1>2, <1>9, <1>10, <1>12, <1>13, <1>14, TableStep

\* A booking changes its status: a list that minds the status is not settled any
\* more, any other keeps its rows and keys.
LEMMA MoveOnStep ==
    ASSUME IInv, NEW b \in Ids, MoveOn(b)
    PROVE  IInv'
  <1>1. TypeOK /\ DatesChecked
    BY DEF IInv
  <1>2. /\ UNCHANGED <<offset, now, booking, listing, begun, shown, again, grown>>
        /\ moved' = TRUE
        /\ diary[b] \in Rows /\ diary[b] # Null
    BY <1>1 DEF MoveOn, Stored, TypeOK
  <1>3. PICK status \in Status \ {diary[b].status} :
            diary' = [diary EXCEPT ![b] = [diary[b] EXCEPT !.status = status]]
    BY DEF MoveOn
  <1>4. status \in Status
    BY <1>3
  <1> DEFINE row == [diary[b] EXCEPT !.status = status]
  <1>5. /\ row \in Rows
        /\ row.bookingDate = diary[b].bookingDate
        /\ row.bookingTime = diary[b].bookingTime
        /\ row.createdAt = diary[b].createdAt
    BY <1>2, <1>4 DEF Rows
  <1>6. row # Null
    BY <1>5, DiaryAssumption
  <1>7. diary' = [diary EXCEPT ![b] = row]
    BY <1>3
  <1> HIDE DEF row
  <1>8. \A a \in Ids : /\ diary'[a] = Null <=> diary[a] = Null
                       /\ diary[a] # Null =>
                            /\ diary'[a].bookingDate = diary[a].bookingDate
                            /\ diary'[a].bookingTime = diary[a].bookingTime
                            /\ diary'[a].createdAt = diary[a].createdAt
    BY <1>1, <1>2, <1>5, <1>6, <1>7 DEF TypeOK
  <1>9. TypeOK'
    <2>1. diary' \in [Ids -> Rows \cup {Null}]
      BY <1>1, <1>5, <1>7 DEF TypeOK
    <2> QED
      BY <1>1, <1>2, <2>1 DEF TypeOK, booking, listing
  <1>10. DatesChecked'
    <2> SUFFICES ASSUME NEW q \in Requests PROVE DateChecked(q)'
      BY DEF DatesChecked
    <2>1. DateChecked(q) /\ q \in Ids
      BY <1>1 DEF DatesChecked, Ids
    <2> QED
      BY <1>2, <1>8, <2>1 DEF DateChecked, booking
  <1>11. ASSUME Settled', walk # "idle"
         PROVE  /\ Matching(query) \subseteq Matching(query)'
                /\ \A a \in Matching(query) : Key(a, query)' = Key(a, query)
    <2>1. query' = query /\ query.sortBy # "status" /\ query.status = Null
      BY <1>2, <1>11 DEF Settled, listing
    <2>2. query.sortBy \in {"bookingDate", "bookingTime", "createdAt"}
      BY <1>1, <1>11, <2>1, OnTheWay DEF AllQueries, SortKeys
    <2>3. Matching(query) \subseteq Matching(query)'
      BY <1>8, <2>1 DEF Matching, Stored
    <2>4. ASSUME NEW a \in Matching(query) PROVE Key(a, query)' = Key(a, query)
      <3>1. a \in Ids /\ diary[a] # Null
        BY DEF Matching, Stored
      <3>2. CASE query.sortBy = "bookingDate"
        BY <1>8, <2>1, <3>1, <3>2 DEF Key
      <3>3. CASE query.sortBy = "bookingTime"
        BY <1>8, <2>1, <3>1, <3>3 DEF Key
      <3>4. CASE query.sortBy = "createdAt"
        BY <1>8, <2>1, <3>1, <3>4 DEF Key
      <3> QED
        BY <2>2, <3>2, <3>3, <3>4
    <2> QED
      BY <2>3, <2>4
  <1> QED
    BY <1>2, <1>9, <1>10, <1>11, TableStep

------------------------------------------------------------------------------
(* Steps of the reader                                                       *)

\* A reader begins: every row is still to come.
LEMMA BeginStep == ASSUME IInv, Begin PROVE IInv'
  <1>1. PICK q \in Queries : /\ query' = [q EXCEPT !.limit = DtoLimit(@)]
                             /\ begun' = Matching(q)
    BY DEF Begin
  <1>2. /\ walk' = "findMany" /\ page' = 1
        /\ found' = {} /\ shown' = {} /\ again' = {}
        /\ grown' = FALSE /\ moved' = FALSE
        /\ UNCHANGED <<offset, now, booking, diary>>
    BY DEF Begin
  <1>3. q \in AllQueries
    BY DiaryAssumption
  <1>4. DtoLimit(q.limit) \in Nat \ {0} /\ DtoLimit(q.limit) =< MaxLimit
    BY <1>3, PaginationAssumption DEF DtoLimit, Smaller, AllQueries
  <1>5. /\ query' \in AllQueries
        /\ query'.limit \in Nat \ {0} /\ query'.limit =< MaxLimit
        /\ query'.status = q.status /\ query'.day = q.day
    BY <1>1, <1>3, <1>4 DEF AllQueries
  <1>6. query' # Null
    BY <1>5, DiaryAssumption
  <1>7. begun' = Matching(query)'
    BY <1>1, <1>2, <1>5 DEF Matching, Stored
  <1>8. begun' \subseteq Ids
    BY <1>1 DEF Matching, Stored
  <1>9. TypeOK'
    <2>1. offset' \in Offsets /\ now' \in Instants
      BY <1>2 DEF IInv, TypeOK
    <2>2. /\ asked' \in [Requests -> Checks \cup {Null}]
          /\ pc' \in [Requests -> {"idle", "findDuplicate", "insertBooking", "done"}]
          /\ reply' \in [Requests -> Replies \cup {Null}]
          /\ diary' \in [Ids -> Rows \cup {Null}]
      BY <1>2 DEF IInv, TypeOK, booking
    <2>3. begun' \cup shown' \cup again' \subseteq Ids
      BY <1>2, <1>8
    <2>4. grown' \in BOOLEAN /\ moved' \in BOOLEAN
      BY <1>2
    <2>5. /\ walk' \in {"idle", "findMany", "count", "answered", "finished"}
          /\ walk' # "answered"
          /\ page' \in Nat \ {0}
          /\ found' \in SUBSET Ids
      BY <1>2
    <2> QED
      BY <1>5, <1>6, <2>1, <2>2, <2>3, <2>4, <2>5 DEF TypeOK
  <1>10. DatesChecked'
    BY <1>2 DEF IInv, DatesChecked, DateChecked, booking
  <1>11. PageStart' = 0
    BY <1>2, <1>5, SkipAdvances DEF PageStart
  <1>12. NotPassed'
    <2> SUFFICES ASSUME NEW b PROVE Rank(b)' >= 0
      BY <1>11 DEF NotPassed
    <2>1. Ahead(b)' \in SUBSET Ids
      BY DEF Ahead, Matching, Stored
    <2>2. Cardinality(Ahead(b)') \in Nat
      BY <2>1, PartsAreFinite
    <2> QED
      BY <2>2 DEF Rank
  <1>13. OnTheList'
    BY <1>7 DEF OnTheList
  <1> QED
    BY <1>2, <1>9, <1>10, <1>12, <1>13
    DEF IInv, NotPassedYet, PageIsCovered, OnItsPage, WalkMissesNothing,
        QuietWalkShowsOnce, MetaCoversPage, LastPageIsLast

\* A page is read: what is not on it and was not shown is on a later one.
LEMMA FindManyStep == ASSUME IInv, FindMany PROVE IInv'
  <1>1. /\ walk = "findMany" /\ walk' = "count"
        /\ found' \in Pages(query, page)
        /\ UNCHANGED <<offset, now, booking, diary, query, page, meta, body, history>>
    BY DEF FindMany
  <1>2. /\ found' \in SUBSET Matching(query)
        /\ found' # {} => PageStart + Cardinality(found') =< Cardinality(Matching(query))
        /\ \A b \in found' : Alone(b) => Rank(b) \in PageStart .. (PageEnd - 1)
        /\ \A b \in Matching(query) \ found' : Alone(b) /\ Rank(b) >= PageStart
             => Rank(b) >= PageEnd /\ Cardinality(found') >= query.limit
    BY <1>1, PageFacts DEF IInv
  <1>3. found' \in SUBSET Ids
    BY <1>2, RowsOfTheList
  <1>4. TypeOK'
    BY <1>1, <1>3 DEF IInv, TypeOK, booking, history
  <1>5. DatesChecked'
    BY <1>1 DEF IInv, DatesChecked, DateChecked, booking
  <1>6. /\ PageStart' = PageStart /\ PageEnd' = PageEnd
        /\ Matching(query)' = Matching(query)
        /\ \A b : Alone(b)' = Alone(b) /\ Rank(b)' = Rank(b)
        /\ Settled' = Settled
    BY <1>1 DEF PageStart, PageEnd, Matching, Stored, Alone, Rank, Ahead, Precedes, Key,
                Settled, history
  <1>7. OnTheList'
    BY <1>1, <1>6 DEF IInv, OnTheList, history
  <1>8. NotPassedYet'
    <2> SUFFICES ASSUME Settled, NEW b \in begun \ (shown \cup found'), Alone(b)
                 PROVE  Rank(b) >= PageEnd /\ Cardinality(found') >= query.limit
      BY <1>1, <1>6 DEF NotPassedYet, history
    <2>1. b \in Matching(query) /\ Rank(b) >= PageStart
      BY <1>1 DEF IInv, OnTheList, NotPassed
    <2> QED
      BY <1>2, <2>1
  <1>9. PageIsCovered'
    <2>1. Cardinality(Matching(query)) \in Nat /\ Cardinality(found') \in Nat /\ PageStart \in Nat
      BY <1>1, <1>3, RowsOfTheList, PartsAreFinite, OnTheWay DEF IInv
    <2> QED
      BY <1>2, <1>6, <2>1 DEF PageIsCovered
  <1>10. OnItsPage'
    BY <1>1, <1>2, <1>6 DEF IInv, OnItsPage, history
  <1>11. QuietWalkShowsOnce'
    BY <1>1, <1>6 DEF IInv, QuietWalkShowsOnce, history
  <1> QED
    BY <1>1, <1>4, <1>5, <1>7, <1>8, <1>9, <1>10, <1>11
    DEF IInv, NotPassed, WalkMissesNothing, MetaCoversPage, LastPageIsLast

\* The rows are counted: no row left between the page and its count, so the
\* metadata covers the page and announces a next page if a row is missing.
LEMMA CountStep == ASSUME IInv, Count PROVE IInv'
  <1> DEFINE total == Cardinality(Matching(query))
  <1>1. /\ walk = "count" /\ walk' = "answered"
        /\ meta' = PageMeta(page, query.limit, total)
        /\ body' = Transform([success |-> TRUE, data |-> found, meta |-> meta'])
        /\ UNCHANGED <<offset, now, booking, diary, query, page, found, history>>
    BY DEF Count
  <1>2. body'.data = found
    BY <1>1 DEF Transform
  <1>3. TypeOK'
    BY <1>1, <1>2 DEF IInv, TypeOK, booking, history
  <1>4. DatesChecked'
    BY <1>1 DEF IInv, DatesChecked, DateChecked, booking
  <1>5. /\ PageStart' = PageStart /\ PageEnd' = PageEnd
        /\ Matching(query)' = Matching(query)
        /\ \A b : Alone(b)' = Alone(b) /\ Rank(b)' = Rank(b)
        /\ Settled' = Settled
    BY <1>1 DEF PageStart, PageEnd, Matching, Stored, Alone, Rank, Ahead, Precedes, Key,
                Settled, history
  <1>6. OnTheList' /\ NotPassedYet' /\ OnItsPage' /\ QuietWalkShowsOnce'
    BY <1>1, <1>5 DEF IInv, OnTheList, NotPassedYet, OnItsPage, QuietWalkShowsOnce, history
  <1>7. meta'.totalItems = total
    BY <1>1 DEF PageMeta
  <1>8. MetaCoversPage'
    BY <1>1, <1>5, <1>7 DEF IInv, PageIsCovered, MetaCoversPage, PageStart
  <1>9. LastPageIsLast'
    <2> SUFFICES ASSUME Settled, ~meta'.hasNextPage,
                        NEW b \in begun, Alone(b), b \notin shown \cup found
                 PROVE  FALSE
      BY <1>1, <1>5 DEF LastPageIsLast, history
    <2>1. b \in Matching(query) /\ Rank(b) >= PageEnd
      BY <1>1 DEF IInv, OnTheList, NotPassedYet
    <2>2. total \in Nat /\ Rank(b) \in Nat /\ IsFiniteSet(Matching(query))
      BY RowsOfTheList
    <2>3. ~(PageEnd < total)
      BY <1>1, <2>2, OnTheWay, NextPageIsHonest DEF IInv, PageEnd, PageStart
    <2>4. Ahead(b) \in SUBSET (Matching(query) \ {b})
      <3> SUFFICES ASSUME b \in Ahead(b) PROVE FALSE
        BY RowsOfTheList
      <3>1. Key(b, query) \in Int
        BY <1>1, <2>1, OnTheWay, KeysAreNumbers DEF IInv, Matching
      <3> QED
        BY <3>1 DEF Ahead, Precedes
    <2>5. /\ IsFiniteSet(Matching(query) \ {b})
          /\ Cardinality(Matching(query) \ {b}) = total - 1
      BY <2>1, <2>2, FS_RemoveElement
    <2>6. Rank(b) =< total - 1
      BY <2>4, <2>5, FS_Subset DEF Rank
    <2>7. PageEnd \in Nat
      BY <1>1, OnTheWay DEF IInv
    <2> QED
      BY <2>1, <2>2, <2>3, <2>6, <2>7
  <1> QED
    BY <1>1, <1>3, <1>4, <1>6, <1>8, <1>9
    DEF IInv, NotPassed, PageIsCovered, WalkMissesNothing

\* The reader turns the page, or stops at one that is not full.
LEMMA TurnPageStep == ASSUME IInv, TurnPage PROVE IInv'
  <1>1. /\ walk = "answered"
        /\ shown' = shown \cup found
        /\ again' = again \cup (shown \cap found)
        /\ found' = {}
        /\ UNCHANGED <<offset, now, booking, diary, query, begun, grown, moved>>
    BY DEF TurnPage, IInv, TypeOK
  <1>2. \/ /\ Cardinality(found) < query.limit
           /\ walk' = "finished" /\ page' = page
        \/ /\ Cardinality(found) >= query.limit
           /\ walk' = "findMany" /\ page' = page + 1
    BY DEF TurnPage, IInv, TypeOK
  <1>3. /\ page \in Nat \ {0} /\ PageStart \in Nat /\ PageEnd = PageStart + query.limit
        /\ query.limit \in Nat \ {0} /\ query.limit =< MaxLimit
    BY <1>1, OnTheWay DEF IInv
  <1>4. TypeOK'
    BY <1>1, <1>2, <1>3 DEF IInv, TypeOK, booking
  <1>5. DatesChecked'
    BY <1>1 DEF IInv, DatesChecked, DateChecked, booking
  <1>6. /\ Matching(query)' = Matching(query)
        /\ \A b : Alone(b)' = Alone(b) /\ Rank(b)' = Rank(b)
        /\ Settled' = Settled
    BY <1>1 DEF Matching, Stored, Alone, Rank, Ahead, Precedes, Key, Settled
  <1>7. walk' = "findMany" => PageStart' = PageEnd
    BY <1>1, <1>2, <1>3, SkipAdvances DEF PageStart, PageEnd
  <1>8. \A b : Rank(b) \in Nat
    BY RowsOfTheList
  <1>9. Cardinality(found) \in Nat
    BY PartsAreFinite DEF IInv, TypeOK
  <1>10. OnTheList'
    BY <1>1, <1>6 DEF IInv, OnTheList
  <1>11. NotPassed'
    BY <1>1, <1>6, <1>7 DEF IInv, NotPassed, NotPassedYet
  <1>12. WalkMissesNothing'
    <2> SUFFICES ASSUME walk' = "finished", Settled, NEW b \in begun, Alone(b)
                 PROVE  b \in shown \cup found
      BY <1>1, <1>6 DEF WalkMissesNothing
    <2>1. Cardinality(found) < query.limit
      BY <1>2
    <2> QED
      BY <1>1, <1>3, <1>9, <2>1 DEF IInv, NotPassedYet
  <1>13. ASSUME ~grown, ~moved, NEW b, Alone(b)
         PROVE  /\ b \in shown => Rank(b) < PageStart
                /\ b \in found => Rank(b) >= PageStart /\ Rank(b) < PageEnd
    BY <1>1, <1>3, <1>8, <1>13 DEF IInv, OnItsPage
  <1>14. OnItsPage'
    <2> SUFFICES ASSUME ~grown, ~moved, walk' = "findMany",
                        NEW b \in shown \cup found, Alone(b)
                 PROVE  Rank(b) < PageEnd
      BY <1>1, <1>2, <1>6, <1>7 DEF OnItsPage
    <2> QED
      BY <1>3, <1>8, <1>13
  <1>15. QuietWalkShowsOnce'
    <2> SUFFICES ASSUME ~grown, ~moved, NEW b \in again \cup (shown \cap found)
                 PROVE  ~Alone(b)
      BY <1>1, <1>6 DEF QuietWalkShowsOnce
    <2> QED
      BY <1>3, <1>8, <1>13 DEF IInv, QuietWalkShowsOnce
  <1> QED
    BY <1>2, <1>4, <1>5, <1>10, <1>11, <1>12, <1>14, <1>15
    DEF IInv, NotPassedYet, PageIsCovered, MetaCoversPage, LastPageIsLast

------------------------------------------------------------------------------
(* The theorems                                                              *)

LEMMA InitInvariant == Init => IInv
  <1> SUFFICES ASSUME Init PROVE IInv
    OBVIOUS
  <1> USE DEF Init
  <1>1. diary \in [Ids -> Rows \cup {Null}] /\ now \in Instants
    BY DiaryAssumption DEF Ids, Instants
  <1>2. TypeOK
    <2>1. /\ asked \in [Requests -> Checks \cup {Null}]
          /\ pc \in [Requests -> {"idle", "findDuplicate", "insertBooking", "done"}]
          /\ reply \in [Requests -> Replies \cup {Null}]
      OBVIOUS
    <2>2. grown \in BOOLEAN /\ moved \in BOOLEAN
      OBVIOUS
    <2>3. begun \cup shown \cup again \subseteq Ids /\ found \in SUBSET Ids
      OBVIOUS
    <2>4. /\ walk \in {"idle", "findMany", "count", "answered", "finished"}
          /\ walk = "idle"
          /\ page \in Nat \ {0}
          /\ offset \in Offsets
          /\ query \in AllQueries \cup {Null}
      OBVIOUS
    <2> HIDE DEF Init
    <2> QED
      BY <1>1, <2>1, <2>2, <2>3, <2>4 DEF TypeOK
  <1>3. DatesChecked
    <2> SUFFICES ASSUME NEW r \in Requests PROVE DateChecked(r)
      BY DEF DatesChecked
    <2>1. diary[r] = Null /\ "InvalidBookingDate" # Null
      BY DiaryAssumption DEF Ids, Replies
    <2> QED
      BY <2>1 DEF DateChecked
  <1> QED
    BY <1>2, <1>3
    DEF IInv, OnTheList, NotPassed, NotPassedYet, PageIsCovered, OnItsPage,
        WalkMissesNothing, QuietWalkShowsOnce, MetaCoversPage, LastPageIsLast

LEMMA NextInvariant == IInv /\ [Next]_vars => IInv'
  <1> SUFFICES ASSUME IInv, [Next]_vars PROVE IInv'
    OBVIOUS
  <1>1. CASE UNCHANGED vars
    <2>1. UNCHANGED <<diary, listing, history>>
      BY <1>1 DEF vars, listing, history
    <2>2. TypeOK'
      BY <1>1 DEF IInv, TypeOK, vars
    <2>3. DatesChecked'
      BY <1>1 DEF IInv, DatesChecked, DateChecked, vars
    <2> QED
      BY <2>1, <2>2, <2>3, DiaryStays
  <1> QED
    BY <1>1, TickStep, CheckDateStep, FindDuplicateStep, InsertBookingStep, MoveOnStep,
       BeginStep, FindManyStep, CountStep, TurnPageStep DEF Next

\* The inductive invariant holds of every behaviour of the diary.
THEOREM Invariant == Spec => []IInv
  BY InitInvariant, NextInvariant, PTL DEF Spec

\* The diary, the requests and the reader keep their types.
THEOREM DiaryTypeCorrect == Spec => []TypeOK
  BY Invariant, PTL DEF IInv

\* In no time zone is a row made for a day that was over when its request was
\* checked.
THEOREM NoPastDayIsBooked == Spec => []NoPastDay
  <1>1. IInv => NoPastDay
    <2> SUFFICES ASSUME IInv, NEW r \in Stored \cap Requests
                 PROVE  diary[r].bookingDate >= LocalDay(asked[r].at, offset)
      BY DEF NoPastDay
    <2>1. /\ DateChecked(r) /\ diary[r] # Null /\ asked[r] \in Checks
          /\ diary[r] \in Rows
          /\ offset \in ZoneOffsets
      BY DiaryAssumption DEF IInv, TypeOK, DatesChecked, DateChecked, Stored
    <2>2. asked[r].day \in Int /\ asked[r].at \in Int
      BY <2>1, DiaryAssumption DEF DateChecked, Rows, Checks, Instants
    <2> QED
      BY <2>1, <2>2, DateCheckIsExact DEF DateChecked
  <1> QED
    BY <1>1, Invariant, PTL

\* Where local time is not behind UTC only days that are over are refused.
THEOREM TodayIsBookable == Spec => []TodayMayBeBooked
  <1>1. IInv => TodayMayBeBooked
    <2> SUFFICES ASSUME IInv, offset >= 0, NEW r \in Requests,
                        reply[r] = "InvalidBookingDate"
                 PROVE  asked[r].day < LocalDay(asked[r].at, offset)
      BY DEF TodayMayBeBooked
    <2>1. InPast(asked[r].day, asked[r].at, offset)
      BY DEF IInv, DatesChecked, DateChecked
    <2>2. "InvalidBookingDate" # Null
      BY DiaryAssumption DEF Replies
    <2>3. asked[r] \in Checks /\ offset \in ZoneOffsets
      BY <2>2, DiaryAssumption DEF IInv, TypeOK, DatesChecked, DateChecked
    <2>4. asked[r].day \in Int /\ asked[r].at \in Int
      BY <2>1, <2>3, DiaryAssumption DEF InPast, Checks, Instants
    <2> QED
      BY <2>1, <2>3, <2>4, DateCheckIsExact
  <1> QED
    BY <1>1, Invariant, PTL

\* A reader who goes on to the last page misses no row of the start, however
\* many bookings are made meanwhile, unless rows tie or leave the list.
THEOREM WalksMissNothing == Spec => []WalkMissesNothing
  BY Invariant, PTL DEF IInv

\* A list that nothing changes shows no row twice unless rows tie.
THEOREM QuietWalksShowOnce == Spec => []QuietWalkShowsOnce
  BY Invariant, PTL DEF IInv

\* The metadata of a page covers the page.
THEOREM MetaCoversPages == Spec => []MetaCoversPage
  BY Invariant, PTL DEF IInv

\* A page whose metadata announces no next page is the last.
THEOREM LastPagesAreLast == Spec => []LastPageIsLast
  BY Invariant, PTL DEF IInv

------------------------------------------------------------------------------
(* The diary implements the ledger of slots.                                 *)

Slot(b) == <<diary[b].bookingDate, diary[b].bookingTime>>

LEMMA EntriesAreRows ==
    /\ \A e \in EntriesOf : e.booking \in Stored /\ e.slot = Slot(e.booking)
    /\ \A d, e \in EntriesOf : d.booking = e.booking => d = e
  BY DEF EntriesOf, Slot

LEMMA InitIsLedger == Init => Ledger!Init
  <1> SUFFICES ASSUME Init PROVE Ledger!Init
    OBVIOUS
  <1>1. \A b \in Stored : b \in DOMAIN SeedRows /\ diary[b] = SeedRows[b] /\ diary[b] \in Rows
    BY DiaryAssumption DEF Init, Stored, Ids
  <1>2. EntriesOf \in SUBSET [booking : Ids, service : {TheService}, slot : Days \X Times]
    <2>1. \A b \in Stored : b \in Ids /\ Slot(b) \in Days \X Times
      BY <1>1 DEF Stored, Slot, Rows
    <2> QED
      BY <2>1 DEF EntriesOf, Slot
  <1>3. ASSUME NEW d \in EntriesOf, NEW e \in EntriesOf, d.slot = e.slot
        PROVE  d = e
    <2>1. /\ d.booking \in DOMAIN SeedRows /\ e.booking \in DOMAIN SeedRows
          /\ <<SeedRows[d.booking].bookingDate, SeedRows[d.booking].bookingTime>>
                = <<SeedRows[e.booking].bookingDate, SeedRows[e.booking].bookingTime>>
      BY <1>1, <1>3, EntriesAreRows DEF Slot
    <2>2. d.booking = e.booking
      BY <2>1, DiaryAssumption
    <2> QED
      BY <2>2, EntriesAreRows
  <1>4. ASSUME NEW d \in EntriesOf, NEW e \in EntriesOf,
               d.booking = e.booking \/ (d.service = e.service /\ d.slot = e.slot)
        PROVE  d = e
    BY <1>3, <1>4, EntriesAreRows
  <1> QED
    BY <1>2, <1>4 DEF Ledger!Init

\* A row that is made books a free slot.
LEMMA InsertBookingBooks ==
    ASSUME IInv, NEW r \in Requests, InsertBooking(r)
    PROVE  Ledger!Next \/ UNCHANGED EntriesOf
  <1> DEFINE day == asked[r].day
             time == asked[r].time
             row == [bookingDate |-> day, bookingTime |-> time,
                     createdAt |-> now, status |-> "PENDING"]
             entry == [booking |-> r, service |-> TheService, slot |-> <<day, time>>]
  <1>1. pc[r] = "insertBooking"
    BY DEF InsertBooking
  <1>2. DateChecked(r) /\ asked[r] # Null /\ day # NaN /\ diary[r] = Null
    BY <1>1 DEF IInv, DatesChecked, DateChecked
  <1>3. r \in Ids /\ day \in Days /\ time \in Times
    BY <1>2 DEF IInv, TypeOK, Checks, Ids
  <1>4. CASE diary' = diary
    BY <1>4 DEF EntriesOf, Stored
  <1>5. CASE Holders(r) = {} /\ diary' = [diary EXCEPT ![r] = row]
    <2>1. row # Null
      <3>1. row \in Rows
        BY <1>3, DiaryAssumption DEF IInv, TypeOK, Rows, Instants, Status
      <3> QED
        BY <3>1, DiaryAssumption
    <2>2. \A b \in Ids : diary'[b] = IF b = r THEN row ELSE diary[b]
      BY <1>5 DEF IInv, TypeOK
    <2>3. row.bookingDate = day /\ row.bookingTime = time
      OBVIOUS
    <2> HIDE DEF row
    <2>4. Stored' = Stored \cup {r} /\ r \notin Stored
      BY <1>2, <1>3, <2>1, <2>2 DEF Stored
    <2>5. \A b \in Stored : diary'[b] = diary[b]
      BY <2>2, <2>4 DEF Stored
    <2>6. EntriesOf' = EntriesOf \cup {entry}
      <3> DEFINE E(b) == [booking |-> b, service |-> TheService,
                          slot |-> <<diary[b].bookingDate, diary[b].bookingTime>>]
                 F(b) == [booking |-> b, service |-> TheService,
                          slot |-> <<diary'[b].bookingDate, diary'[b].bookingTime>>]
      <3>1. EntriesOf = {E(b) : b \in Stored} /\ EntriesOf' = {F(b) : b \in Stored'}
        BY DEF EntriesOf
      <3>2. F(r) = entry
        BY <1>3, <2>2, <2>3
      <3>3. \A b \in Stored : F(b) = E(b)
        BY <2>5
      <3> HIDE DEF E, F, entry
      <3> QED
        BY <2>4, <3>1, <3>2, <3>3
    <2>7. \A e \in EntriesOf : e.booking # r /\ e.slot # <<day, time>>
      <3> SUFFICES ASSUME NEW e \in EntriesOf PROVE e.booking # r /\ e.slot # <<day, time>>
        OBVIOUS
      <3>1. e.booking \in Stored /\ e.slot = Slot(e.booking)
        BY EntriesAreRows
      <3>2. e.booking \notin Holders(r)
        BY <1>5
      <3> QED
        BY <2>4, <3>1, <3>2 DEF Holders, Slot
    <2>8. Ledger!Book(r, TheService, <<day, time>>)
      BY <2>6, <2>7 DEF Ledger!Book, Ledger!Unused, Ledger!Free
    <2> QED
      BY <1>3, <2>8 DEF Ledger!Next
  <1> QED
    BY <1>4, <1>5 DEF InsertBooking

\* A row that is moved on keeps its slot.
LEMMA MoveOnKeepsLedger ==
    ASSUME IInv, NEW b \in Ids, MoveOn(b)
    PROVE  UNCHANGED EntriesOf
  <1>1. PICK status \in Status \ {diary[b].status} :
            diary' = [diary EXCEPT ![b].status = status]
    BY DEF MoveOn
  <1>2. diary[b] \in Rows
    BY DEF MoveOn, Stored, IInv, TypeOK
  <1>3. status \in Status
    BY <1>1
  <1> DEFINE row == [diary[b] EXCEPT !.status = status]
  <1>4. row \in Rows /\ row # Null
    BY <1>2, <1>3, DiaryAssumption DEF Rows
  <1>5. row.bookingDate = diary[b].bookingDate /\ row.bookingTime = diary[b].bookingTime
    BY <1>2 DEF Rows
  <1>6. \A a \in Ids : diary'[a] = IF a = b THEN row ELSE diary[a]
    BY <1>1 DEF IInv, TypeOK
  <1> HIDE DEF row
  <1>7. b \in Stored /\ Stored' = Stored
    BY <1>4, <1>6 DEF Stored, MoveOn
  <1>8. \A a \in Stored : /\ diary'[a].bookingDate = diary[a].bookingDate
                          /\ diary'[a].bookingTime = diary[a].bookingTime
    BY <1>5, <1>6 DEF Stored
  <1> QED
    BY <1>7, <1>8 DEF EntriesOf

LEMMA NextIsLedger ==
    IInv /\ [Next]_vars => [Ledger!Next]_<<{TheService}, EntriesOf>>
  <1> SUFFICES ASSUME IInv, [Next]_vars
               PROVE  Ledger!Next \/ UNCHANGED EntriesOf
    OBVIOUS
  <1>1. CASE diary' = diary
    BY <1>1 DEF EntriesOf, Stored
  <1>2. \/ diary' = diary
        \/ \E r \in Requests : InsertBooking(r)
        \/ \E b \in Ids : MoveOn(b)
    BY DEF Next, Tick, CheckDate, FindDuplicate, Begin, FindMany, Count, TurnPage, vars
  <1> QED
    BY <1>1, <1>2, InsertBookingBooks, MoveOnKeepsLedger

\* The diary implements the ledger of slots, for any days, times and requests:
\* whatever comes between the check of a request's date, the search for a
\* duplicate and the insert, a day and time is booked once and stays booked.
THEOREM DiaryKeepsLedger == Spec => DiaryLedgerSpec
  BY InitIsLedger, NextIsLedger, Invariant, PTL DEF Spec, DiaryLedgerSpec, Ledger!Spec

\* What is proved of the ledger of slots, said of the diary.
LP == INSTANCE SlotLedgerProofs WITH
    Services <- {TheService}, Bookings <- Ids, Slots <- Days \X Times,
    open <- {TheService}, entries <- EntriesOf

\* A day and time of the diary never has two rows, cancelled ones included.
THEOREM DaysAreBookedOnce == Spec => []Ledger!OneHolder
  <1> USE DEF Ledger!Unbooked, LP!Unbooked, Ledger!Free, LP!Free, Ledger!Unused, LP!Unused
  <1>1. Ledger!Init => LP!Init
    BY DEF Ledger!Init, LP!Init
  <1>2. Ledger!Next => LP!Next
    <2>1. ASSUME NEW b, NEW s, NEW slot, Ledger!Book(b, s, slot) PROVE LP!Book(b, s, slot)
      BY <2>1 DEF Ledger!Book, LP!Book
    <2>2. ASSUME NEW s PROVE /\ Ledger!Open(s) => LP!Open(s)
                             /\ Ledger!Close(s) => LP!Close(s)
      BY DEF Ledger!Open, LP!Open, Ledger!Close, LP!Close
    <2> QED
      BY <2>1, <2>2 DEF Ledger!Next, LP!Next
  <1>3. [Ledger!Next]_<<{TheService}, EntriesOf>> => [LP!Next]_<<{TheService}, EntriesOf>>
    BY <1>2
  <1>4. LP!OneHolder => Ledger!OneHolder
    BY DEF LP!OneHolder, Ledger!OneHolder
  <1>5. LP!LInv => LP!OneHolder
    BY DEF LP!LInv
  <1> QED
    BY <1>1, <1>3, <1>4, <1>5, InitIsLedger, NextIsLedger, Invariant, LP!InitLedger, LP!NextLedger, PTL
    DEF Spec

==============================================================================
