---------------------------- MODULE OvertakenProofs ----------------------------
(* What the handlers' checks are worth when requests overlap: a request that *)
(* no other commit has overtaken acts on checks that still hold, so only an  *)
(* overtaken request breaks the documented rules that no constraint of the   *)
(* schema backs.  For databases of any size and any number of requests at    *)
(* once, with and without faults and crashes.                                *)
EXTENDS BusinessRules, PlatformProofs

------------------------------------------------------------------------------
(* What a step moves.                                                        *)

\* A step of a handler changes where its own request stands and what it is
\* answered, and no request's call.
LEMMA OwnRequest ==
    ASSUME IInv, NEW r \in Requests, Advance(r) \/ Fail(r)
    PROVE  /\ InFlight(r)
           /\ call' = call
           /\ \E step : pc' = [pc EXCEPT ![r] = step]
           /\ \E answer : reply' = [reply EXCEPT ![r] = answer]
  <1> USE DEF InFlight, Steps
  <1>1. reply \in [Requests -> Answers \cup {"None"}]
    BY DEF IInv, TypeOK
  <1>2. reply = [reply EXCEPT ![r] = reply[r]]
    BY <1>1
  <1>3. CASE ServicesNext(r)
    BY <1>2, <1>3 DEF ServicesNext, FindByTitle, InsertService, FindToUpdate,
        FindNewTitle, WriteService, FindToDelete, CountBookings, DeleteRow,
        Goto, Answer, Committed
  <1>4. CASE GetService(r) \/ FindDuplicate(r) \/ InsertBooking(r)
             \/ FindBooking(r) \/ FindToCancel(r)
    BY <1>2, <1>4 DEF GetService, FindDuplicate, InsertBooking, FindBooking,
        FindToCancel, Goto, Answer, Committed
  <1>5. CASE WriteStatus(r) \/ WriteCancel(r)
    BY <1>5 DEF WriteStatus, WriteCancel, WriteBooking, Answer, Committed
  <1>6. CASE Respond(r) \/ Fail(r)
    BY <1>2, <1>6 DEF Respond, Fail, Answer
  <1> QED
    BY <1>3, <1>4, <1>5, <1>6 DEF Advance, BookingsNext

\* Bookings stay, with their service and slot, and so does what they have been.
BookingsStay ==
    \A b \in BookingIds : bookings[b] # Null =>
        /\ bookings'[b] # Null
        /\ bookings'[b].service = bookings[b].service
        /\ bookings'[b].slot = bookings[b].slot
        /\ held[b] \subseteq held'[b]

\* A write of a status changes the status of its booking.
LEMMA WritesOneStatus ==
    ASSUME IInv, NEW r \in Requests, WriteStatus(r) \/ WriteCancel(r)
    PROVE  LET b == call[r].booking IN
           /\ b \in BookingIds /\ bookings[b] \in BookingRows
           /\ Target(r) \in Status
           /\ bookings' = [bookings EXCEPT ![b].status = Target(r)]
           /\ held' = [held EXCEPT ![b] = @ \cup {Target(r)}]
           /\ overtaken' = overtaken \cup AboutToWrite(b, r)
           /\ Committed(r, "Ok")
  <1> DEFINE b == call[r].booking
  <1>1. pc[r] \in {"writeStatus", "writeCancel"} /\ InFlight(r)
    BY DEF WriteStatus, WriteCancel, InFlight, Steps
  <1>2. b \in BookingIds /\ Target(r) \in Status
    BY <1>1, CallOf, CallFields, StepsApart DEF Target, Status
  <1>3. bookings[b] \in BookingRows /\ bookings[b] # Null
    BY <1>1, <1>2 DEF IInv, TypeOK, FoundBookings
  <1>4. WriteBooking(r, b, Target(r))
    BY DEF WriteStatus, WriteCancel, Target
  <1> QED
    BY <1>2, <1>3, <1>4 DEF WriteBooking

\* No step of the platform takes a booking away.
LEMMA BookingsDoStay ==
    ASSUME IInv, [Next]_vars
    PROVE  BookingsStay
  <1> USE DEF BookingsStay
  <1>1. ASSUME NEW r \in Requests, InsertBooking(r) PROVE BookingsStay
    <2>1. pc[r] = "insertBooking" /\ InFlight(r)
      BY <1>1 DEF InsertBooking, InFlight, Steps
    <2>2. bookings[r] = Null /\ r \in BookingIds
      BY <2>1 DEF IInv, FreshIds, BookingIds
    <2>3. \/ UNCHANGED <<bookings, held>>
          \/ /\ bookings' = [bookings EXCEPT ![r] = NewBooking(call[r])]
             /\ held' = [held EXCEPT ![r] = {"PENDING"}]
      BY <1>1 DEF InsertBooking, history
    <2> QED
      BY <2>2, <2>3 DEF IInv, TypeOK
  <1>2. ASSUME NEW r \in Requests, WriteStatus(r) \/ WriteCancel(r) PROVE BookingsStay
    <2> DEFINE b == call[r].booking
    <2>1. /\ b \in BookingIds /\ bookings[b] \in BookingRows
          /\ bookings' = [bookings EXCEPT ![b].status = Target(r)]
          /\ held' = [held EXCEPT ![b] = @ \cup {Target(r)}]
      BY <1>2, WritesOneStatus
    <2>2. bookings'[b] # Null
      BY <1>2, NextInvariant, <2>1, StoreAssumption DEF IInv, TypeOK, BookingRows
    <2> QED
      BY <2>1, <2>2 DEF IInv, TypeOK, BookingRows
  <1>3. ASSUME NEW r \in Requests, ServicesNext(r) PROVE BookingsStay
    BY <1>3 DEF ServicesNext, FindByTitle, InsertService, FindToUpdate,
        FindNewTitle, WriteService, FindToDelete, CountBookings, DeleteRow, tables, history
  <1>4. ASSUME NEW r \in Requests, BookingsNext(r) PROVE BookingsStay
    BY <1>1, <1>2, <1>4 DEF BookingsNext, GetService, FindDuplicate, FindBooking,
        FindToCancel, tables, history
  <1>5. CASE \E r \in Requests : Receive(r) \/ Respond(r) \/ Fail(r)
    BY <1>5 DEF Receive, Respond, Fail, tables, history
  <1>6. CASE Crash \/ Quiet \/ UNCHANGED vars
    BY <1>6 DEF Crash, Quiet, vars, tables, history
  <1> QED
    BY <1>3, <1>4, <1>5, <1>6 DEF Next, Advance

------------------------------------------------------------------------------
(* What a commit to the catalogue changes.                                   *)

\* A request acts on the rows of its own call.
LEMMA OwnService ==
    ASSUME IInv, NEW r \in Requests,
           pc[r] \in {"findDuplicate", "insertBooking", "findNewTitle", "writeService",
                      "countBookings", "deleteRow"}
    PROVE  call[r] \in Calls /\ call[r].service \in ServiceIds
  <1>1. InFlight(r) /\ pc[r] # "respond"
    BY DEF InFlight, Steps
  <1> QED
    BY <1>1, CallOf, CallFields, StepsApart

\* An insert adds the one service of its request.
LEMMA InsertsService ==
    ASSUME IInv, FreshServices, NEW r \in Requests, InsertService(r)
    PROVE  /\ r \in ServiceIds
           /\ services[r] = Null
           /\ services'[r] # Null
           /\ services'[r].title = call[r].title
           /\ call[r].title \in Titles
           /\ \A s \in ServiceIds \ {r} : services'[s] = services[s]
  <1>1. pc[r] = "insertService" /\ InFlight(r)
    BY DEF InsertService, InFlight, Steps
  <1>2. call[r] \in Calls /\ call[r].op = "createService"
    BY <1>1, CallOf, StepsApart
  <1>3. call[r].title \in Titles /\ DtoIsActive(call[r]) \in BOOLEAN
    BY <1>2, CallFields DEF DtoIsActive
  <1> DEFINE row == [title |-> call[r].title, isActive |-> DtoIsActive(call[r])]
  <1>4. row \in ServiceRows /\ row # Null /\ row.title = call[r].title
    BY <1>3, StoreAssumption DEF ServiceRows
  <1>5. services' = [services EXCEPT ![r] = row]
    BY DEF InsertService
  <1>6. r \in ServiceIds /\ services \in [ServiceIds -> ServiceRows \cup {Null}]
    BY DEF ServiceIds, IInv, TypeOK
  <1>7. services[r] = Null
    BY <1>1 DEF FreshServices
  <1> HIDE DEF row
  <1> QED
    BY <1>3, <1>4, <1>5, <1>6, <1>7

\* An update changes the one service its request names.
LEMMA WritesOneService ==
    ASSUME IInv, NEW r \in Requests, WriteService(r), services[call[r].service] # Null
    PROVE  LET s == call[r].service IN
           /\ s \in ServiceIds
           /\ services'[s] # Null
           /\ services'[s].title = IF call[r].title = Null THEN services[s].title
                                   ELSE call[r].title
           /\ \A t \in ServiceIds \ {s} : services'[t] = services[t]
           /\ overtaken' = overtaken \cup FoundService(s, r)
                                     \cup AboutToTitle(services'[s].title, r)
           /\ Committed(r, "Ok")
  <1> DEFINE s == call[r].service
             row == Patched(services[s], call[r])
  <1>1. pc[r] = "writeService" /\ InFlight(r)
    BY DEF WriteService, InFlight, Steps
  <1>2. call[r] \in Calls /\ call[r].op = "updateService" /\ s \in ServiceIds
    BY <1>1, CallOf, StepsApart, CallFields
  <1>3. services \in [ServiceIds -> ServiceRows \cup {Null}]
    BY DEF IInv, TypeOK
  <1>4. row \in ServiceRows /\ row # Null
    <2>1. services[s].title \in Titles
      BY <1>2, <1>3 DEF ServiceRows
    <2>2. call[r].title \in Titles \cup {Null} /\ DtoIsActive(call[r]) \in BOOLEAN
      BY <1>2, CallFields DEF DtoIsActive
    <2> QED
      BY <2>1, <2>2, StoreAssumption DEF Patched, ServiceRows
  <1>5. row.title = IF call[r].title = Null THEN services[s].title ELSE call[r].title
    BY DEF Patched
  <1>6. /\ services' = [services EXCEPT ![s] = row]
        /\ overtaken' = overtaken \cup FoundService(s, r)
                                  \cup AboutToTitle(services'[s].title, r)
        /\ Committed(r, "Ok")
    BY DEF WriteService
  <1> HIDE DEF row
  <1> QED
    BY <1>2, <1>3, <1>4, <1>5, <1>6

\* A new service's id is that of a request whose insert has committed.
LEMMA ServicesAreFresh ==
    ASSUME IInv, FreshServices, NEW r \in Requests, Advance(r) \/ Fail(r)
    PROVE  FreshServices'
  <1>1. /\ services \in [ServiceIds -> ServiceRows \cup {Null}]
        /\ pc \in [Requests -> Steps \cup {"idle", "done", "lost"}]
        /\ Requests \subseteq ServiceIds
    BY DEF IInv, TypeOK, ServiceIds
  <1>2. CASE InsertService(r)
    <2>1. pc' = [pc EXCEPT ![r] = "respond"]
      BY <1>2 DEF InsertService, Committed
    <2> QED
      BY <1>1, <1>2, <2>1, InsertsService DEF FreshServices
  <1>3. CASE WriteService(r) \/ DeleteRow(r)
    <2>1. \A s \in ServiceIds : services[s] = Null => services'[s] = Null
      BY <1>1, <1>3 DEF WriteService, DeleteRow
    <2>2. \E x \in {"respond", "done"} : pc' = [pc EXCEPT ![r] = x]
      BY <1>3 DEF WriteService, DeleteRow, Answer, Committed
    <2> QED
      BY <1>1, <2>1, <2>2 DEF FreshServices
  <1>4. CASE ~(InsertService(r) \/ WriteService(r) \/ DeleteRow(r))
    <2>1. services' = services
      BY <1>4 DEF Advance, ServicesNext, BookingsNext, FindByTitle, FindToUpdate,
        FindNewTitle, FindToDelete, CountBookings, GetService, FindDuplicate,
        InsertBooking, FindBooking, WriteStatus, FindToCancel, WriteCancel, Respond,
        Fail, tables
    <2>2. \A q \in Requests : pc[q] \in {"respond", "done", "lost"}
                                => pc'[q] \in {"respond", "done", "lost"}
      <3> SUFFICES pc[r] = "respond" => pc'[r] = "done"
        BY <1>1, OwnRequest DEF InFlight, Steps
      <3>1. CASE Respond(r) \/ Fail(r)
        BY <1>1, <3>1 DEF Respond, Fail, Answer
      <3>2. CASE ServicesNext(r) \/ BookingsNext(r)
        BY <3>2 DEF ServicesNext, BookingsNext, FindByTitle, InsertService,
            FindToUpdate, FindNewTitle, WriteService, FindToDelete, CountBookings,
            DeleteRow, GetService, FindDuplicate, InsertBooking, FindBooking,
            WriteStatus, FindToCancel, WriteCancel
      <3> QED
        BY <3>1, <3>2 DEF Advance
    <2> QED
      BY <1>1, <2>1, <2>2 DEF FreshServices
  <1> QED
    BY <1>2, <1>3, <1>4

------------------------------------------------------------------------------
(* The checks of a request that no commit has overtaken.                     *)

\* Its own step goes on from checks that hold.
LEMMA OwnChecks ==
    ASSUME IInv, NEW r \in Requests, ChecksHold(r), Advance(r) \/ Fail(r)
    PROVE  ChecksHold(r)'
  <1> USE DEF tables, history, ChecksHold
  <1>1. pc \in [Requests -> Steps \cup {"idle", "done", "lost"}]
    BY DEF IInv, TypeOK
  <1>2. CASE GetService(r)
    BY <1>1, <1>2 DEF GetService, Goto, Answer
  <1>3. CASE FindDuplicate(r)
    <2>1. ~Duplicate(call[r].service, call[r].slot) =>
            \A b \in BookingIds : /\ bookings[b] # Null
                                  /\ bookings[b].service = call[r].service
                                  /\ bookings[b].slot = call[r].slot
                                  => "CANCELLED" \in held[b]
      BY DEF Duplicate, IInv, ConfirmedFirst
    <2>2. /\ pc[r] = "findDuplicate"
          /\ UNCHANGED <<services, bookings, call, held>>
          /\ \/ pc' = [pc EXCEPT ![r] = "done"]
             \/ pc' = [pc EXCEPT ![r] = "insertBooking"]
                    /\ ~Duplicate(call[r].service, call[r].slot)
      BY <1>3 DEF FindDuplicate, Goto, Answer
    <2> QED
      BY <1>1, <2>1, <2>2
  <1>4. CASE FindByTitle(r) \/ FindToUpdate(r) \/ FindNewTitle(r)
    BY <1>1, <1>4 DEF FindByTitle, FindToUpdate, FindNewTitle, Goto, Answer,
        TitleTaken, Renames
  <1>5. CASE FindToDelete(r) \/ CountBookings(r)
    BY <1>1, <1>5 DEF FindToDelete, CountBookings, Goto, Answer, HasBookings
  <1>6. CASE FindBooking(r) \/ FindToCancel(r)
    BY <1>1, <1>6 DEF FindBooking, FindToCancel, Goto, Answer
  <1>7. CASE InsertService(r) \/ WriteService(r) \/ DeleteRow(r) \/ InsertBooking(r)
    BY <1>1, <1>7 DEF InsertService, WriteService, DeleteRow, InsertBooking,
        Answer, Committed
  <1>8. CASE WriteStatus(r) \/ WriteCancel(r)
    BY <1>1, <1>8, WritesOneStatus DEF Committed
  <1>9. CASE Respond(r) \/ Fail(r)
    BY <1>1, <1>9 DEF Respond, Fail, Answer
  <1> QED
    BY <1>2, <1>3, <1>4, <1>5, <1>6, <1>7, <1>8, <1>9 DEF Advance, ServicesNext, BookingsNext

\* What the checks of q have found is left alone by a step that keeps the
\* service q names, adds no title it is about to store, no booking it would
\* meet, and takes nothing from the history.
LEMMA ChecksKept ==
    ASSUME IInv, NEW q \in Requests, ChecksHold(q),
           pc'[q] = pc[q], call' = call, BookingsStay,
           pc[q] \in {"findDuplicate", "insertBooking", "findNewTitle", "writeService",
                      "countBookings", "deleteRow"}
                => services'[call[q].service] = services[call[q].service],
           (pc[q] = "insertService" \/ (pc[q] = "writeService" /\ Renames(q)))
                => (TitleTaken(call[q].title)' => TitleTaken(call[q].title)),
           pc[q] = "insertBooking" =>
                \A b \in BookingIds : /\ bookings[b] = Null /\ bookings'[b] # Null
                                      /\ bookings'[b].service = call[q].service
                                      => bookings'[b].slot # call[q].slot,
           pc[q] = "deleteRow" =>
                \A b \in BookingIds : bookings[b] = Null /\ bookings'[b] # Null
                                      => bookings'[b].service # call[q].service
    PROVE  ChecksHold(q)'
  <1>1. pc[q] = "insertBooking" =>
            \A b \in BookingIds : /\ bookings'[b] # Null
                                  /\ bookings'[b].service = call[q].service
                                  /\ bookings'[b].slot = call[q].slot
                                  => "CANCELLED" \in held'[b]
    BY DEF ChecksHold, BookingsStay
  <1>2. pc[q] = "deleteRow" /\ ~HasBookings(call[q].service) => ~HasBookings(call[q].service)'
    BY DEF HasBookings, BookingsStay
  <1>3. pc[q] = "writeService" => Renames(q)' = Renames(q)
    BY DEF Renames
  <1> QED
    BY <1>1, <1>2, <1>3 DEF ChecksHold

\* A commit of another request either leaves the checks alone or overtakes them.
LEMMA OthersChecks ==
    ASSUME IInv, FreshServices, NEW r \in Requests, Advance(r) \/ Fail(r),
           NEW q \in Requests \ {r}, q \notin overtaken', ChecksHold(q)
    PROVE  ChecksHold(q)'
  <1> USE DEF tables, history
  <1>1. pc'[q] = pc[q] /\ call' = call
    BY OwnRequest DEF IInv, TypeOK
  <1>2. BookingsStay
    BY BookingsDoStay DEF Next
  <1>3. pc[q] \in {"findDuplicate", "insertBooking", "findNewTitle", "writeService",
                   "countBookings", "deleteRow"} => call[q].service \in ServiceIds
    BY OwnService
  <1>4. pc[q] = "insertService" => call[q].title # Null
    <2> SUFFICES ASSUME pc[q] = "insertService" PROVE call[q].title # Null
      OBVIOUS
    <2>1. InFlight(q) /\ pc[q] # "respond"
      BY DEF InFlight, Steps
    <2>2. call[q].title \in Titles
      BY <2>1, CallOf, StepsApart, CallFields
    <2> QED
      BY <2>2, StoreAssumption
  <1>5. CASE InsertService(r)
    <2>1. /\ services'[r].title = call[r].title /\ services[r] = Null
          /\ \A s \in ServiceIds \ {r} : services'[s] = services[s]
      BY <1>5, InsertsService
    <2>2. bookings' = bookings /\ q \notin AboutToTitle(call[r].title, r)
      BY <1>5 DEF InsertService
    <2>3. pc[q] \in {"insertService", "writeService"} /\ call[q].title # Null
            /\ TitleTaken(call[q].title)' => TitleTaken(call[q].title)
      BY <1>1, <2>1, <2>2 DEF TitleTaken, AboutToTitle
    <2>4. pc[q] \in {"findDuplicate", "insertBooking", "findNewTitle", "writeService",
                     "countBookings", "deleteRow"} => call[q].service # r
      BY <2>1 DEF ChecksHold
    <2> QED
      BY <1>1, <1>2, <1>3, <1>4, <2>1, <2>2, <2>3, <2>4, ChecksKept DEF Renames
  <1>6. CASE WriteService(r) /\ services[call[r].service] # Null
    <2> DEFINE s == call[r].service
    <2>1. /\ \A t \in ServiceIds \ {s} : services'[t] = services[t]
          /\ overtaken' = overtaken \cup FoundService(s, r)
                                    \cup AboutToTitle(services'[s].title, r)
      BY <1>6, WritesOneService
    <2>2. bookings' = bookings
      BY <1>6 DEF WriteService
    <2>3. pc[q] \in {"insertService", "writeService"} /\ call[q].title # Null
            /\ TitleTaken(call[q].title)' => TitleTaken(call[q].title)
      BY <1>1, <2>1 DEF TitleTaken, AboutToTitle
    <2>4. pc[q] \in {"findDuplicate", "insertBooking", "findNewTitle", "writeService",
                     "countBookings", "deleteRow"} => call[q].service # s
      BY <2>1 DEF FoundService
    <2> QED
      BY <1>1, <1>2, <1>3, <1>4, <2>1, <2>2, <2>3, <2>4, ChecksKept DEF Renames
  <1>7. CASE DeleteRow(r) /\ services' # services
    <2> DEFINE s == call[r].service
    <2>1. /\ services' = [services EXCEPT ![s] = Null]
          /\ overtaken' = overtaken \cup FoundService(s, r)
          /\ bookings' = bookings
      BY <1>7 DEF DeleteRow
    <2>2. services \in [ServiceIds -> ServiceRows \cup {Null}]
      BY DEF IInv, TypeOK
    <2>3. TitleTaken(call[q].title)' => TitleTaken(call[q].title)
      BY <1>1, <2>1, <2>2 DEF TitleTaken
    <2>4. pc[q] \in {"findDuplicate", "insertBooking", "findNewTitle", "writeService",
                     "countBookings", "deleteRow"} => call[q].service # s
      BY <2>1 DEF FoundService
    <2> QED
      BY <1>1, <1>2, <1>3, <2>1, <2>2, <2>3, <2>4, ChecksKept
  <1>8. CASE InsertBooking(r) /\ bookings' # bookings
    <2>1. /\ bookings' = [bookings EXCEPT ![r] = NewBooking(call[r])]
          /\ overtaken' = overtaken \cup AboutToFill(call[r].service, call[r].slot, r)
          /\ services' = services
      BY <1>8 DEF InsertBooking
    <2>2. bookings \in [BookingIds -> BookingRows \cup {Null}]
      BY DEF IInv, TypeOK
    <2>3. \A b \in BookingIds : bookings[b] = Null /\ bookings'[b] # Null =>
            /\ bookings'[b].service = call[r].service
            /\ bookings'[b].slot = call[r].slot
      BY <2>1, <2>2 DEF NewBooking
    <2>4. /\ pc[q] = "insertBooking" /\ call[q].service = call[r].service
                => call[q].slot # call[r].slot
          /\ pc[q] = "deleteRow" => call[q].service # call[r].service
      BY <2>1 DEF AboutToFill
    <2>5. TitleTaken(call[q].title)' => TitleTaken(call[q].title)
      BY <1>1, <2>1 DEF TitleTaken
    <2> QED
      BY <1>1, <1>2, <2>1, <2>3, <2>4, <2>5, ChecksKept
  <1>9. CASE services' = services /\
             \A b \in BookingIds : bookings[b] = Null => bookings'[b] = Null
    <2>1. TitleTaken(call[q].title)' => TitleTaken(call[q].title)
      BY <1>1, <1>9 DEF TitleTaken
    <2> QED
      BY <1>1, <1>2, <1>9, <2>1, ChecksKept
  <1>10. CASE WriteStatus(r) \/ WriteCancel(r)
    <2>1. services' = services
      BY <1>10 DEF WriteStatus, WriteCancel
    <2>2. \A b \in BookingIds : bookings[b] = Null => bookings'[b] = Null
      <3> DEFINE c == call[r].booking
      <3>1. /\ c \in BookingIds /\ bookings[c] \in BookingRows
            /\ bookings' = [bookings EXCEPT ![c].status = Target(r)]
        BY <1>10, WritesOneStatus
      <3> QED
        BY <3>1, StoreAssumption DEF IInv, TypeOK
    <2> QED
      BY <1>9, <2>1, <2>2
  <1>11. CASE services' = services /\ bookings' = bookings
    BY <1>9, <1>11
  <1>12. \/ services' = services /\ bookings' = bookings
         \/ InsertService(r)
         \/ WriteService(r) /\ services[call[r].service] # Null
         \/ DeleteRow(r) /\ services' # services
         \/ InsertBooking(r) /\ bookings' # bookings
         \/ WriteStatus(r) \/ WriteCancel(r)
    BY DEF Advance, ServicesNext, BookingsNext, FindByTitle, FindToUpdate, FindNewTitle,
        FindToDelete, CountBookings, GetService, FindDuplicate, InsertBooking, FindBooking,
        WriteService, DeleteRow, FindToCancel, Respond, Fail
  <1> QED
    BY <1>5, <1>6, <1>7, <1>8, <1>10, <1>11, <1>12

------------------------------------------------------------------------------
(* Refusals of the database.                                                 *)

\* The database refuses a request that no commit has overtaken only for a holder
\* that was cancelled, or for a count that failed.
LEMMA RefusalOfOwn ==
    ASSUME IInv, NEW r \in Requests, ChecksHold(r),
           pc[r] = "respond" => reply[r] \in Successes,
           Advance(r) \/ Fail(r),
           pc'[r] = "done", reply'[r] \in {"P2002", "P2003", "P2025"}
    PROVE  \/ /\ reply'[r] = "P2002"
              /\ \E b \in BookingIds \ {r} : /\ bookings[b] # Null
                                             /\ bookings[b].service = call[r].service
                                             /\ bookings[b].slot = call[r].slot
                                             /\ "CANCELLED" \in held[b]
           \/ reply'[r] = "P2003" /\ call[r].op = "deleteService" /\ Faults
  <1>1. /\ pc \in [Requests -> Steps \cup {"idle", "done", "lost"}]
        /\ reply \in [Requests -> Answers \cup {"None"}]
    BY DEF IInv, TypeOK
  <1>2. CASE InsertBooking(r)
    <2> DEFINE s == call[r].service
               slot == call[r].slot
    <2>1. pc[r] = "insertBooking" /\ services[s] # Null
      BY <1>2 DEF InsertBooking, ChecksHold
    <2>2. SlotTaken(s, slot) /\ reply'[r] = "P2002"
      BY <1>1, <1>2, <2>1 DEF InsertBooking, Answer, Committed
    <2>3. PICK b \in BookingIds : /\ bookings[b] # Null
                                  /\ bookings[b].service = s
                                  /\ bookings[b].slot = slot
      BY <2>2 DEF SlotTaken
    <2>4. "CANCELLED" \in held[b]
      BY <2>1, <2>3 DEF ChecksHold
    <2>5. bookings[r] = Null
      BY <2>1 DEF IInv, FreshIds
    <2> QED
      BY <2>2, <2>3, <2>4, <2>5
  <1>3. CASE WriteService(r)
    BY <1>1, <1>3 DEF WriteService, ChecksHold, Answer, Committed
  <1>4. CASE DeleteRow(r)
    <2>1. pc[r] = "deleteRow" /\ InFlight(r)
      BY <1>4 DEF DeleteRow, InFlight, Steps
    <2>2. call[r].op = "deleteService"
      BY <2>1, CallOf, StepsApart
    <2>3. services[call[r].service] # Null /\ (Faults \/ ~HasBookings(call[r].service))
      BY <2>1 DEF ChecksHold
    <2>4. Referenced(call[r].service) /\ reply'[r] = "P2003"
      BY <1>1, <1>4, <2>3 DEF DeleteRow, Answer, Committed
    <2> QED
      BY <2>2, <2>3, <2>4 DEF HasBookings, Referenced
  <1>5. CASE WriteStatus(r) \/ WriteCancel(r)
    <2>1. Committed(r, "Ok")
      BY <1>5, WritesOneStatus
    <2>2. pc'[r] = "respond"
      BY <1>1, <2>1 DEF Committed
    <2> QED
      BY <2>2
  <1>6. CASE Respond(r)
    BY <1>1, <1>6 DEF Respond, Successes
  <1>7. CASE \/ FindByTitle(r) \/ InsertService(r) \/ FindToUpdate(r) \/ FindNewTitle(r)
             \/ FindToDelete(r) \/ CountBookings(r)
    BY <1>1, <1>7 DEF FindByTitle, InsertService, FindToUpdate, FindNewTitle,
        FindToDelete, CountBookings, Goto, Answer, Committed
  <1>8. CASE GetService(r) \/ FindDuplicate(r) \/ FindToCancel(r)
    BY <1>1, <1>8 DEF GetService, FindDuplicate, FindToCancel, Goto, Answer
  <1>9. CASE FindBooking(r)
    <2> DEFINE b == call[r].booking
    <2>1. pc[r] = "findBooking" /\ InFlight(r)
      BY <1>9 DEF FindBooking, InFlight, Steps
    <2>2. b \in BookingIds /\ call[r].status \in Status
      BY <2>1, CallOf, CallFields, StepsApart
    <2>3. bookings[b] # Null => bookings[b].status \in Status
      BY <2>2 DEF IInv, TypeOK, BookingRows
    <2> QED
      BY <1>1, <1>9, <2>2, <2>3, ValidateType DEF FindBooking, Goto, Answer
  <1>10. CASE Fail(r)
    BY <1>1, <1>10 DEF Fail, Answer
  <1> QED
    BY <1>2, <1>3, <1>4, <1>5, <1>6, <1>7, <1>8, <1>9, <1>10
    DEF Advance, ServicesNext, BookingsNext

\* A write that has committed is a success, until its answer leaves.
LEMMA WritesSucceed ==
    ASSUME IInv, NEW r \in Requests, Advance(r) \/ Fail(r), pc'[r] = "respond"
    PROVE  reply'[r] \in Successes
  <1>1. /\ pc \in [Requests -> Steps \cup {"idle", "done", "lost"}]
        /\ reply \in [Requests -> Answers \cup {"None"}]
    BY DEF IInv, TypeOK
  <1>2. CASE InsertService(r) \/ WriteService(r) \/ DeleteRow(r) \/ InsertBooking(r)
    BY <1>1, <1>2 DEF InsertService, WriteService, DeleteRow, InsertBooking, Answer,
        Committed, Successes
  <1>3. CASE WriteStatus(r) \/ WriteCancel(r)
    BY <1>1, <1>3, WritesOneStatus DEF Committed, Successes
  <1>4. CASE ~(InsertService(r) \/ WriteService(r) \/ DeleteRow(r) \/ InsertBooking(r)
               \/ WriteStatus(r) \/ WriteCancel(r))
    BY <1>1, <1>4 DEF Advance, ServicesNext, BookingsNext, FindByTitle, FindToUpdate,
        FindNewTitle, FindToDelete, CountBookings, GetService, FindDuplicate,
        FindBooking, FindToCancel, Respond, Fail, Goto, Answer
  <1> QED
    BY <1>2, <1>3, <1>4

\* No step of a handler forgets what it has overtaken.
LEMMA OvertakenStay ==
    ASSUME IInv, NEW r \in Requests, Advance(r) \/ Fail(r)
    PROVE  overtaken \subseteq overtaken'
  <1>1. CASE WriteStatus(r) \/ WriteCancel(r)
    BY <1>1, WritesOneStatus
  <1>2. CASE ~(WriteStatus(r) \/ WriteCancel(r))
    BY <1>2 DEF Advance, ServicesNext, BookingsNext, FindByTitle, InsertService,
        FindToUpdate, FindNewTitle, WriteService, FindToDelete, CountBookings, DeleteRow,
        GetService, FindDuplicate, InsertBooking, FindBooking, FindToCancel, Respond,
        Fail, history
  <1> QED
    BY <1>1, <1>2

\* A refusal that had its reason keeps it: the holder stays and has been cancelled.
LEMMA RefusalsKept ==
    ASSUME IInv, ChecksHoldUnlessOvertaken, NEW r \in Requests, Advance(r) \/ Fail(r)
    PROVE  RefusedOnlyIfOvertaken'
  <1> DEFINE Holder(q) == \E b \in BookingIds \ {q} :
                                /\ bookings[b] # Null
                                /\ bookings[b].service = call[q].service
                                /\ bookings[b].slot = call[q].slot
                                /\ "CANCELLED" \in held[b]
  <1> SUFFICES ASSUME NEW q \in Requests \ overtaken', pc'[q] = "done",
                      reply'[q] \in {"P2002", "P2003", "P2025"}
               PROVE  \/ reply'[q] = "P2002" /\ Holder(q)'
                      \/ reply'[q] = "P2003" /\ call'[q].op = "deleteService" /\ Faults
    BY DEF RefusedOnlyIfOvertaken
  <1>1. q \notin overtaken /\ call' = call
    BY OvertakenStay, OwnRequest
  <1>2. \/ reply'[q] = "P2002" /\ Holder(q)
        \/ reply'[q] = "P2003" /\ call[q].op = "deleteService" /\ Faults
    <2>1. CASE q = r
      BY <1>1, <2>1, RefusalOfOwn DEF ChecksHoldUnlessOvertaken
    <2>2. CASE q # r
      <3>1. pc[q] = "done" /\ reply'[q] = reply[q]
        BY <2>2, OwnRequest DEF IInv, TypeOK
      <3> QED
        BY <1>1, <3>1 DEF ChecksHoldUnlessOvertaken, RefusedOnlyIfOvertaken
    <2> QED
      BY <2>1, <2>2
  <1>3. Holder(q) => Holder(q)'
    <2>1. BookingsStay
      BY BookingsDoStay DEF Next
    <2> QED
      BY <1>1, <2>1 DEF BookingsStay
  <1> QED
    BY <1>1, <1>2, <1>3

------------------------------------------------------------------------------
(* The invariant.                                                            *)

LEMMA ChecksInit == Init => ChecksHoldUnlessOvertaken
  <1> SUFFICES ASSUME Init PROVE ChecksHoldUnlessOvertaken
    OBVIOUS
  <1>1. \A r \in Requests : pc[r] = "idle"
    BY DEF Init
  <1>2. FreshServices
    <2>1. \A r \in Requests : r \notin SeedServices /\ r \in ServiceIds
      BY StoreAssumption DEF ServiceIds
    <2> QED
      BY <2>1 DEF Init, FreshServices
  <1> QED
    BY <1>1, <1>2 DEF ChecksHoldUnlessOvertaken, ChecksHold, RefusedOnlyIfOvertaken

LEMMA HandlerKeepsChecks ==
    ASSUME IInv, ChecksHoldUnlessOvertaken, NEW r \in Requests, Advance(r) \/ Fail(r)
    PROVE  ChecksHoldUnlessOvertaken'
  <1>1. FreshServices'
    BY ServicesAreFresh DEF ChecksHoldUnlessOvertaken
  <1>2. ASSUME NEW q \in Requests \ overtaken' PROVE ChecksHold(q)'
    <2>1. ChecksHold(q)
      BY OvertakenStay DEF ChecksHoldUnlessOvertaken
    <2>2. CASE q = r
      BY <2>1, <2>2, OwnChecks
    <2>3. CASE q # r
      BY <2>1, <2>3, OthersChecks DEF ChecksHoldUnlessOvertaken
    <2> QED
      BY <2>2, <2>3
  <1>3. ASSUME NEW q \in Requests, pc'[q] = "respond" PROVE reply'[q] \in Successes
    <2>1. CASE q = r
      BY <1>3, <2>1, WritesSucceed
    <2>2. CASE q # r
      BY <1>3, <2>2, OwnRequest DEF IInv, TypeOK, ChecksHoldUnlessOvertaken
    <2> QED
      BY <2>1, <2>2
  <1>4. RefusedOnlyIfOvertaken'
    BY RefusalsKept
  <1> QED
    BY <1>1, <1>2, <1>3, <1>4 DEF ChecksHoldUnlessOvertaken

LEMMA ArrivalKeepsChecks ==
    ASSUME IInv, ChecksHoldUnlessOvertaken, NEW r \in Requests, Receive(r)
    PROVE  ChecksHoldUnlessOvertaken'
  <1>1. PICK c \in Calls : /\ call' = [call EXCEPT ![r] = c]
                           /\ pc' = [pc EXCEPT ![r] = FirstStep[c.op]]
    BY DEF Receive
  <1>2. /\ pc[r] = "idle"
        /\ UNCHANGED <<services, bookings, reply, held, overtaken>>
    BY DEF Receive, tables, history
  <1>3. /\ pc \in [Requests -> Steps \cup {"idle", "done", "lost"}]
        /\ call \in [Requests -> Calls \cup {Null}]
    BY DEF IInv, TypeOK
  <1>4. \A q \in Requests \ {r} : pc'[q] = pc[q] /\ call'[q] = call[q]
    BY <1>1, <1>3
  <1>5. pc'[r] \in {"getService", "findBooking", "findToCancel",
                    "findByTitle", "findToUpdate", "findToDelete"}
    <2>1. c.op \in Ops
      BY CallFields
    <2> QED
      BY <1>1, <1>3, <2>1 DEF FirstStep, Ops
  <1>6. ASSUME NEW q \in Requests \ overtaken' PROVE ChecksHold(q)'
    <2>1. CASE q = r
      BY <1>5, <2>1 DEF ChecksHold
    <2>2. CASE q # r
      <3>1. ChecksHold(q)
        BY <1>2 DEF ChecksHoldUnlessOvertaken
      <3> QED
        BY <1>2, <1>4, <2>2, <3>1 DEF ChecksHold, TitleTaken, Renames, HasBookings
    <2> QED
      BY <2>1, <2>2
  <1>7. FreshServices'
    BY <1>2, <1>4 DEF FreshServices, ChecksHoldUnlessOvertaken
  <1>8. RefusedOnlyIfOvertaken'
    BY <1>2, <1>4, <1>5 DEF RefusedOnlyIfOvertaken, ChecksHoldUnlessOvertaken
  <1> QED
    BY <1>2, <1>4, <1>5, <1>6, <1>7, <1>8 DEF ChecksHoldUnlessOvertaken

LEMMA CrashKeepsChecks ==
    ASSUME IInv, ChecksHoldUnlessOvertaken, Crash
    PROVE  ChecksHoldUnlessOvertaken'
  <1>1. /\ UNCHANGED <<services, bookings, call, held, overtaken>>
        /\ \A r \in Requests :
            /\ pc'[r] = IF InFlight(r) THEN "lost" ELSE pc[r]
            /\ reply'[r] = IF InFlight(r) THEN "None" ELSE reply[r]
    BY DEF Crash, tables, history
  <1>2. pc \in [Requests -> Steps \cup {"idle", "done", "lost"}]
    BY DEF IInv, TypeOK
  <1>3. \A r \in Requests : /\ pc'[r] \in {"idle", "done", "lost"}
                            /\ pc'[r] = "done" => pc[r] = "done" /\ reply'[r] = reply[r]
                            /\ pc[r] \in {"respond", "done", "lost"}
                                => pc'[r] \in {"done", "lost"}
    BY <1>1, <1>2 DEF InFlight, Steps
  <1>4. \A r \in Requests : ChecksHold(r)'
    BY <1>3 DEF ChecksHold
  <1>5. FreshServices'
    BY <1>1, <1>3 DEF FreshServices, ChecksHoldUnlessOvertaken
  <1>6. RefusedOnlyIfOvertaken'
    BY <1>1, <1>3 DEF RefusedOnlyIfOvertaken, ChecksHoldUnlessOvertaken
  <1> QED
    BY <1>3, <1>4, <1>5, <1>6 DEF ChecksHoldUnlessOvertaken

LEMMA ChecksStep ==
    ASSUME IInv, ChecksHoldUnlessOvertaken, [Next]_vars
    PROVE  ChecksHoldUnlessOvertaken'
  <1>1. CASE \E r \in Requests : Receive(r)
    BY <1>1, ArrivalKeepsChecks
  <1>2. CASE \E r \in Requests : Advance(r) \/ Fail(r)
    BY <1>2, HandlerKeepsChecks
  <1>3. CASE Crash
    BY <1>3, CrashKeepsChecks
  <1>4. CASE Quiet \/ UNCHANGED vars
    BY <1>4 DEF Quiet, vars, ChecksHoldUnlessOvertaken, FreshServices, ChecksHold,
        RefusedOnlyIfOvertaken, TitleTaken, Renames, HasBookings
  <1> QED
    BY <1>1, <1>2, <1>3, <1>4 DEF Next

\* However requests interleave, what the checks of a request have found stays so
\* until the request acts on it, unless the commit of another overtakes it.
THEOREM ChecksAreOvertakenOrHold == Spec => []ChecksHoldUnlessOvertaken
  BY ChecksInit, ChecksStep, Invariant, PTL DEF Spec

------------------------------------------------------------------------------
(* What follows for the rules.                                               *)

\* The database stops a request its checks let through only if another has
\* overtaken them, if the slot's holder was cancelled, or if the count of the
\* service's bookings failed.
THEOREM RefusalsAreOvertaken == Spec => []RefusedOnlyIfOvertaken
  <1>1. ChecksHoldUnlessOvertaken => RefusedOnlyIfOvertaken
    BY DEF ChecksHoldUnlessOvertaken
  <1> QED
    BY <1>1, ChecksAreOvertakenOrHold, PTL

\* A step that changes table services is the commit of one of three handlers.
LEMMA CatalogueWriters ==
    ASSUME IInv, [Next]_vars, services' # services
    PROVE  \E r \in Requests : \/ InsertService(r)
                               \/ WriteService(r) /\ services[call[r].service] # Null
                               \/ DeleteRow(r)
  BY DEF Next, Advance, ServicesNext, BookingsNext, FindByTitle, FindToUpdate,
    FindNewTitle, WriteService, FindToDelete, CountBookings, GetService, FindDuplicate,
    InsertBooking, FindBooking, WriteStatus, FindToCancel, WriteCancel, Respond, Fail,
    Receive, Crash, Quiet, vars, tables

\* Two services come to share a title, whatever its case, only by the commit of a
\* request whose look for the title, or for the service, another has overtaken.
THEOREM TwinsAreOvertaken == Spec => TwinsOnlyIfOvertaken
  <1> DEFINE A == \A s, t \in ServiceIds :
        ~Twins(s, t) /\ Twins(s, t)'
        => \E r \in overtaken : /\ pc[r] \in {"insertService", "writeService"}
                                /\ pc'[r] = "respond"
  <1>1. IInv /\ ChecksHoldUnlessOvertaken /\ [Next]_vars => A
    <2> SUFFICES ASSUME IInv, ChecksHoldUnlessOvertaken, [Next]_vars,
                        NEW s \in ServiceIds, NEW t \in ServiceIds,
                        ~Twins(s, t), Twins(s, t)'
                 PROVE  \E r \in overtaken : /\ pc[r] \in {"insertService", "writeService"}
                                             /\ pc'[r] = "respond"
      OBVIOUS
    <2>1. pc \in [Requests -> Steps \cup {"idle", "done", "lost"}]
      BY DEF IInv, TypeOK
    <2>2. services' # services
      BY DEF Twins
    <2>3. PICK r \in Requests : \/ InsertService(r)
                                \/ WriteService(r) /\ services[call[r].service] # Null
                                \/ DeleteRow(r)
      BY <2>2, CatalogueWriters
    <2>4. CASE InsertService(r)
      <3>1. /\ pc[r] = "insertService" /\ pc'[r] = "respond"
            /\ \A u \in ServiceIds \ {r} : services'[u] = services[u]
            /\ services'[r].title = call[r].title
        BY <2>1, <2>4, InsertsService DEF InsertService, Committed, ChecksHoldUnlessOvertaken
      <3>2. ASSUME r \notin overtaken PROVE FALSE
        <4>1. ~TitleTaken(call[r].title)
          BY <3>1, <3>2 DEF ChecksHoldUnlessOvertaken, ChecksHold
        <4>2. s = r \/ t = r
          BY <3>1 DEF Twins
        <4> QED
          BY <3>1, <4>1, <4>2 DEF Twins, TitleTaken
      <3> QED
        BY <3>1, <3>2
    <2>5. CASE WriteService(r) /\ services[call[r].service] # Null
      <3> DEFINE c == call[r].service
      <3>1. /\ pc[r] = "writeService" /\ pc'[r] = "respond"
            /\ \A u \in ServiceIds \ {c} : services'[u] = services[u]
            /\ services'[c].title = IF call[r].title = Null THEN services[c].title
                                    ELSE call[r].title
        BY <2>1, <2>5, WritesOneService DEF WriteService, Committed
      <3>2. ASSUME r \notin overtaken PROVE FALSE
        <4>1. s = c \/ t = c
          BY <3>1 DEF Twins
        <4>2. CASE Renames(r)
          <5>1. ~TitleTaken(call[r].title) /\ call[r].title # Null
            BY <3>1, <3>2, <4>2 DEF ChecksHoldUnlessOvertaken, ChecksHold, Renames
          <5> QED
            BY <3>1, <4>1, <5>1 DEF Twins, TitleTaken
        <4>3. CASE ~Renames(r)
          <5>1. services'[c].title = services[c].title
            BY <3>1, <4>3 DEF Renames
          <5> QED
            BY <2>5, <3>1, <4>1, <5>1 DEF Twins
        <4> QED
          BY <4>2, <4>3
      <3> QED
        BY <3>1, <3>2
    <2>6. CASE DeleteRow(r)
      <3>1. \A u \in ServiceIds : services'[u] # Null => services'[u] = services[u]
        BY <2>6 DEF DeleteRow, IInv, TypeOK
      <3> QED
        BY <3>1 DEF Twins
    <2> QED
      BY <2>3, <2>4, <2>5, <2>6
  <1> QED
    BY <1>1, Invariant, ChecksAreOvertakenOrHold, PTL DEF Spec, TwinsOnlyIfOvertaken

\* A booking appears by the insert of the request it is named after.
LEMMA BookingMakers ==
    ASSUME IInv, [Next]_vars, NEW b \in BookingIds, bookings[b] = Null, bookings'[b] # Null
    PROVE  b \in Requests /\ InsertBooking(b)
  <1>1. bookings \in [BookingIds -> BookingRows \cup {Null}]
    BY DEF IInv, TypeOK
  <1>2. ASSUME NEW r \in Requests, WriteStatus(r) \/ WriteCancel(r) PROVE FALSE
    <2> DEFINE c == call[r].booking
    <2>1. /\ bookings' = [bookings EXCEPT ![c].status = Target(r)]
          /\ c \in BookingIds /\ bookings[c] \in BookingRows
      BY <1>2, WritesOneStatus
    <2>2. c # b
      BY <2>1, StoreAssumption
    <2> QED
      BY <1>1, <2>1, <2>2
  <1>3. ASSUME NEW r \in Requests, InsertBooking(r) PROVE r = b
    <2>1. \/ bookings' = bookings
          \/ bookings' = [bookings EXCEPT ![r] = NewBooking(call[r])]
      BY <1>3 DEF InsertBooking
    <2> QED
      BY <1>1, <2>1
  <1>4. ASSUME NEW r \in Requests, Advance(r) \/ Fail(r) \/ Receive(r)
        PROVE  InsertBooking(r)
    BY <1>2, <1>4 DEF Advance, ServicesNext, BookingsNext, FindByTitle, InsertService,
        FindToUpdate, FindNewTitle, WriteService, FindToDelete, CountBookings, DeleteRow,
        GetService, FindDuplicate, FindBooking, FindToCancel, Respond, Fail, Receive, tables
  <1>5. ~(Crash \/ Quiet \/ UNCHANGED vars)
    BY DEF Crash, Quiet, vars, tables
  <1> QED
    BY <1>3, <1>4, <1>5 DEF Next

\* A booking is made of a service that is active at that moment, unless the
\* service was written or deleted while its request was between look and insert.
THEOREM InactiveIsBookedOvertaken == Spec => ActiveUnlessOvertaken
  <1> DEFINE A == \A r \in Requests \ overtaken :
        bookings[r] = Null /\ bookings'[r] # Null
        => /\ services[call[r].service] # Null
           /\ services[call[r].service].isActive
  <1>1. IInv /\ ChecksHoldUnlessOvertaken /\ [Next]_vars => A
    <2> SUFFICES ASSUME IInv, ChecksHoldUnlessOvertaken, [Next]_vars,
                        NEW r \in Requests \ overtaken,
                        bookings[r] = Null, bookings'[r] # Null
                 PROVE  /\ services[call[r].service] # Null
                        /\ services[call[r].service].isActive
      OBVIOUS
    <2>1. InsertBooking(r)
      BY BookingMakers DEF BookingIds
    <2>2. pc[r] = "insertBooking" /\ ChecksHold(r)
      BY <2>1 DEF InsertBooking, ChecksHoldUnlessOvertaken
    <2> QED
      BY <2>2 DEF ChecksHold
  <1> QED
    BY <1>1, Invariant, ChecksAreOvertakenOrHold, PTL DEF Spec, ActiveUnlessOvertaken

\* A cancelled or completed booking changes only by the write of a request whose
\* look at the booking another has overtaken: the only way to the completion of a
\* cancelled booking.
THEOREM FinalStatusesAreOvertaken ==
    Spec => [][\A b \in BookingIds :
                /\ bookings[b] # Null
                /\ bookings[b].status \in {"CANCELLED", "COMPLETED"}
                /\ bookings'[b] # bookings[b]
                => \E r \in overtaken : WritesStatus(r) /\ call[r].booking = b]_vars
  <1> DEFINE A == \A b \in BookingIds :
                /\ bookings[b] # Null
                /\ bookings[b].status \in {"CANCELLED", "COMPLETED"}
                /\ bookings'[b] # bookings[b]
                => \E r \in overtaken : WritesStatus(r) /\ call[r].booking = b
  <1>1. IInv /\ [Next]_vars => A
    <2> SUFFICES ASSUME IInv, [Next]_vars, NEW b \in BookingIds, bookings[b] # Null,
                        bookings[b].status \in {"CANCELLED", "COMPLETED"},
                        bookings'[b] # bookings[b]
                 PROVE  \E r \in overtaken : WritesStatus(r) /\ call[r].booking = b
      OBVIOUS
    <2>1. /\ bookings \in [BookingIds -> BookingRows \cup {Null}]
          /\ pc \in [Requests -> Steps \cup {"idle", "done", "lost"}]
      BY DEF IInv, TypeOK
    <2>2. ASSUME NEW r \in Requests, InsertBooking(r) PROVE FALSE
      <3>1. bookings[r] = Null
        BY <2>2 DEF InsertBooking, IInv, FreshIds
      <3>2. \/ bookings' = bookings
            \/ bookings' = [bookings EXCEPT ![r] = NewBooking(call[r])]
        BY <2>2 DEF InsertBooking
      <3> QED
        BY <2>1, <3>1, <3>2
    <2>3. PICK r \in Requests : WriteStatus(r) \/ WriteCancel(r)
      BY <2>2 DEF Next, Advance, ServicesNext, BookingsNext, FindByTitle, InsertService,
        FindToUpdate, FindNewTitle, WriteService, FindToDelete, CountBookings, DeleteRow,
        GetService, FindDuplicate, FindBooking, FindToCancel, Respond, Fail, Receive,
        Crash, Quiet, vars, tables
    <2> DEFINE c == call[r].booking
    <2>4. /\ bookings' = [bookings EXCEPT ![c].status = Target(r)]
          /\ c \in BookingIds /\ Target(r) \in Status
          /\ Committed(r, "Ok")
      BY <2>3, WritesOneStatus
    <2>5. pc[r] \in {"writeStatus", "writeCancel"}
      BY <2>3 DEF WriteStatus, WriteCancel
    <2>6. WritesStatus(r)
      BY <2>1, <2>4, <2>5 DEF WritesStatus, Committed
    <2>7. c = b
      BY <2>1, <2>4
    <2>8. ASSUME r \notin overtaken PROVE FALSE
      <3>1. Validate(bookings[b].status, Target(r)) = "Valid"
        BY <2>5, <2>7, <2>8 DEF IInv, ValidUnlessOvertaken
      <3>2. Target(r) = bookings[b].status
        BY <3>1 DEF Validate, ValidTransitions
      <3>3. bookings[b] \in BookingRows
        BY <2>1
      <3>4. [bookings[b] EXCEPT !.status = Target(r)] = bookings[b]
        BY <3>2, <3>3 DEF BookingRows
      <3> QED
        BY <2>1, <2>4, <2>7, <3>4
    <2> QED
      BY <2>6, <2>7, <2>8
  <1> QED
    BY <1>1, Invariant, PTL DEF Spec

==============================================================================
