---------------------------- MODULE PlatformProofs ----------------------------
(* The safety of the platform for any set of requests, services, bookings    *)
(* and slots, any bound on the requests in flight, with and without faults   *)
(* and crashes.                                                              *)
EXTENDS Platform, TLAPS

------------------------------------------------------------------------------
(* Facts of the operators.                                                   *)

\* A call has the fields of its operation, and its handler a first step.
LEMMA CallFields ==
    ASSUME NEW c \in Calls
    PROVE  /\ c.op \in Ops
           /\ FirstStep[c.op] \in HandlerSteps[c.op]
           /\ c.op = "createBooking" => c.service \in ServiceIds /\ c.slot \in Slots
           /\ c.op = "updateStatus" => c.booking \in BookingIds /\ c.status \in Status
           /\ c.op = "cancelBooking" => c.booking \in BookingIds
           /\ c.op = "createService" =>
                c.title \in Titles /\ c.isActive \in BOOLEAN \cup {Null}
           /\ c.op = "updateService" =>
                /\ c.service \in ServiceIds
                /\ c.title \in Titles \cup {Null}
                /\ c.isActive \in BOOLEAN \cup {Null}
           /\ c.op = "deleteService" => c.service \in ServiceIds
  BY DEF Calls, Ops, FirstStep, HandlerSteps

\* The validator's verdict on any two statuses is a verdict or an exception.
LEMMA ValidateType ==
    ASSUME NEW current \in Status, NEW new \in Status
    PROVE  Validate(current, new) \in
            {"Valid", "CompletedBooking", "CancelledBooking", "InvalidStatusTransition"}
  BY DEF Validate

\* The only way to COMPLETED is from CONFIRMED.
LEMMA CompletionIsFromConfirmed ==
    ASSUME NEW current \in Status, Validate(current, "COMPLETED") = "Valid"
    PROVE  current = "CONFIRMED"
  BY DEF Validate, ValidTransitions, Status

\* Which operation a step belongs to.
LEMMA StepsApart ==
    ASSUME NEW op \in Ops, NEW step \in HandlerSteps[op]
    PROVE  /\ step \in Steps \ {"respond"}
           /\ step \in {"getService", "findDuplicate", "insertBooking"} => op = "createBooking"
           /\ step \in {"findBooking", "writeStatus"} => op = "updateStatus"
           /\ step \in {"findToCancel", "writeCancel"} => op = "cancelBooking"
           /\ step \in {"findByTitle", "insertService"} => op = "createService"
           /\ step \in {"findToUpdate", "findNewTitle", "writeService"} => op = "updateService"
           /\ step \in {"findToDelete", "countBookings", "deleteRow"} => op = "deleteService"
  BY DEF Ops, HandlerSteps, Steps

\* What the invariant says of the call of a request in flight.
LEMMA CallOf ==
    ASSUME IInv, NEW r \in Requests, InFlight(r)
    PROVE  /\ call[r] \in Calls
           /\ call[r].op \in Ops
           /\ pc[r] # "respond" => pc[r] \in HandlerSteps[call[r].op]
  <1>1. call[r] \in Calls
    BY DEF IInv, TypeOK, InFlight, Steps
  <1> QED
    BY <1>1, CallFields DEF IInv, InItsHandler

------------------------------------------------------------------------------
(* The initial states.                                                       *)

LEMMA InitInvariant == Init => IInv
  <1> SUFFICES ASSUME Init PROVE IInv
    OBVIOUS
  <1> USE StoreAssumption
  <1>1. TypeOK
    <2>1. services \in [ServiceIds -> ServiceRows \cup {Null}]
      BY DEF Init, ServiceIds, ServiceRows
    <2>2. bookings \in [BookingIds -> BookingRows \cup {Null}]
      BY DEF Init, BookingIds, BookingRows, ServiceIds
    <2>3. held \in [BookingIds -> SUBSET Status]
      BY DEF Init, SeedHistory, Status
    <2> QED
      BY <2>1, <2>2, <2>3 DEF Init, TypeOK
  <1>2. InItsHandler /\ FoundBookings /\ ValidUnlessOvertaken
    BY DEF Init, InItsHandler, FoundBookings, ValidUnlessOvertaken, InFlight, Steps
  <1>3. AnswersDecided /\ ConflictHasHolder /\ FoundBookingStays
    BY DEF Init, AnswersDecided, ConflictHasHolder, FoundBookingStays
  <1>4. FreshIds
    BY DEF Init, FreshIds, BookingIds
  <1>5. SlotUnique
    <2> SUFFICES ASSUME NEW a \in BookingIds, NEW b \in BookingIds,
                        bookings[a] # Null, bookings[b] # Null,
                        bookings[a].service = bookings[b].service,
                        bookings[a].slot = bookings[b].slot
                 PROVE  a = b
      BY DEF SlotUnique
    <2>1. a \in SeedBookings /\ b \in SeedBookings
      BY DEF Init
    <2>2. \A x \in SeedBookings : /\ bookings[x].service = SeedBooked[x].service
                                  /\ bookings[x].slot = SeedBooked[x].slot
      BY DEF Init, BookingIds
    <2>3. \A x \in SeedBookings :
            SeedBooked[x] = [service |-> SeedBooked[x].service, slot |-> SeedBooked[x].slot]
      OBVIOUS
    <2>4. SeedBooked[a] = SeedBooked[b]
      BY <2>1, <2>2, <2>3
    <2> QED
      BY <2>1, <2>4
  <1>6. NoOrphanBooking
    BY DEF Init, NoOrphanBooking, BookingIds, ServiceIds, ServiceRows
  <1>7. ConfirmedFirst
    <2>1. \A b \in BookingIds : bookings[b] # Null => bookings[b].status \in held[b]
      BY DEF Init, SeedHistory, Status, BookingIds
    <2>2. \A b \in BookingIds : "COMPLETED" \in held[b] => "CONFIRMED" \in held[b]
      BY DEF Init, SeedHistory, Status, BookingIds
    <2> QED
      BY <2>1, <2>2 DEF Init, ConfirmedFirst
  <1> QED
    BY <1>1, <1>2, <1>3, <1>4, <1>5, <1>6, <1>7 DEF IInv

------------------------------------------------------------------------------
(* Steps that leave the tables alone.                                        *)

\* The invariant depends on the tables, the history and the requests only.
LEMMA ReadOnly ==
    ASSUME IInv, UNCHANGED <<tables, history>>
    PROVE  /\ SlotUnique' /\ NoOrphanBooking'
           /\ services' \in [ServiceIds -> ServiceRows \cup {Null}]
           /\ bookings' \in [BookingIds -> BookingRows \cup {Null}]
           /\ held' \in [BookingIds -> SUBSET Status]
           /\ overtaken' \in SUBSET Requests
  BY DEF IInv, TypeOK, SlotUnique, NoOrphanBooking, tables, history

\* A handler that answers without a write keeps the invariant.
LEMMA AnswerInvariant ==
    ASSUME IInv, NEW r \in Requests, InFlight(r), NEW a \in Answers,
           Answer(r, a), UNCHANGED <<tables, history>>,
           call[r].op = "createBooking" =>
                a # "Created" /\ (a # "DbError" => pc[r] # "respond"),
           call[r].op = "createBooking" /\ a \in {"BookingAlreadyExists", "P2002"} =>
                SlotTaken(call[r].service, call[r].slot),
           call[r].op \in {"updateStatus", "cancelBooking"} => a # "P2025"
    PROVE  IInv'
  <1> USE DEF tables, history
  <1>1. /\ pc' = [pc EXCEPT ![r] = "done"]
        /\ reply' = [reply EXCEPT ![r] = a]
        /\ UNCHANGED <<services, bookings, call, held, overtaken>>
    BY DEF Answer
  <1>2. /\ pc \in [Requests -> Steps \cup {"idle", "done", "lost"}]
        /\ reply \in [Requests -> Answers \cup {"None"}]
    BY DEF IInv, TypeOK
  <1>3. TypeOK'
    BY <1>1, ReadOnly DEF IInv, TypeOK, InFlight, Steps
  <1>4. InItsHandler' /\ FoundBookings' /\ ConfirmedFirst' /\ ValidUnlessOvertaken'
    BY <1>1, <1>2 DEF IInv, InItsHandler, FoundBookings, ConfirmedFirst,
        ValidUnlessOvertaken, Target, InFlight, Steps
  <1>5. FreshIds'
    BY <1>1, <1>2 DEF IInv, FreshIds
  <1>6. AnswersDecided'
    BY <1>1, <1>2 DEF IInv, AnswersDecided, FreshIds, InFlight, Steps
  <1>7. ConflictHasHolder'
    <2> SUFFICES ASSUME NEW q \in Requests, pc'[q] = "done", call[q].op = "createBooking",
                        reply'[q] \in {"BookingAlreadyExists", "P2002"}
                 PROVE  \E b \in BookingIds \ {q} :
                            /\ bookings[b] # Null
                            /\ bookings[b].service = call[q].service
                            /\ bookings[b].slot = call[q].slot
      BY <1>1 DEF ConflictHasHolder
    <2>1. CASE q = r
      <3>1. PICK b \in BookingIds : /\ bookings[b] # Null
                                    /\ bookings[b].service = call[r].service
                                    /\ bookings[b].slot = call[r].slot
        BY <2>1, <1>1, <1>2 DEF SlotTaken
      <3>2. bookings[r] = Null
        BY <2>1, <1>1, <1>2 DEF IInv, FreshIds, InFlight, Steps
      <3> QED
        BY <3>1, <3>2, <2>1
    <2>2. CASE q # r
      BY <2>2, <1>1, <1>2 DEF IInv, ConflictHasHolder
    <2> QED
      BY <2>1, <2>2
  <1>8. FoundBookingStays'
    BY <1>1, <1>2 DEF IInv, FoundBookingStays
  <1> QED
    BY <1>3, <1>4, <1>5, <1>6, <1>7, <1>8, ReadOnly DEF IInv

\* A handler that goes on to its next call keeps the invariant, given that what
\* it checked before a write to a booking holds of the row it has just read.
LEMMA GotoInvariant ==
    ASSUME IInv, NEW r \in Requests, InFlight(r), pc[r] # "respond",
           NEW step \in HandlerSteps[call[r].op],
           Goto(r, step), UNCHANGED <<tables, history>>,
           step = "writeStatus" =>
                /\ bookings[call[r].booking] # Null
                /\ Validate(bookings[call[r].booking].status, call[r].status) = "Valid",
           step = "writeCancel" =>
                /\ bookings[call[r].booking] # Null
                /\ Validate(bookings[call[r].booking].status, "CANCELLED") = "Valid"
    PROVE  IInv'
  <1> USE DEF tables, history
  <1>1. /\ pc' = [pc EXCEPT ![r] = step]
        /\ UNCHANGED <<services, bookings, call, reply, held, overtaken>>
    BY DEF Goto
  <1>2. pc \in [Requests -> Steps \cup {"idle", "done", "lost"}]
    BY DEF IInv, TypeOK
  <1>3. call[r] \in Calls /\ call[r].op \in Ops /\ step \in Steps \ {"respond"}
    BY CallOf, StepsApart
  <1>4. TypeOK'
    BY <1>1, <1>2, <1>3, ReadOnly DEF IInv, TypeOK, InFlight, Steps
  <1>5. InItsHandler' /\ FoundBookings'
    BY <1>1, <1>2, <1>3 DEF IInv, InItsHandler, FoundBookings, InFlight, Steps
  <1>6. FreshIds'
    BY <1>1, <1>2 DEF IInv, FreshIds, InFlight, Steps
  <1>7. ConfirmedFirst'
    <2>1. ASSUME step = "writeStatus", call[r].status = "COMPLETED"
          PROVE  "CONFIRMED" \in held[call[r].booking]
      <3>1. call[r].booking \in BookingIds
        BY <2>1, <1>3, CallFields, StepsApart
      <3>2. bookings[call[r].booking].status \in Status
        BY <2>1, <3>1, StoreAssumption DEF IInv, TypeOK, BookingRows
      <3>3. bookings[call[r].booking].status = "CONFIRMED"
        BY <2>1, <3>2, CompletionIsFromConfirmed
      <3> QED
        BY <2>1, <3>1, <3>3 DEF IInv, ConfirmedFirst
    <2> QED
      BY <1>1, <1>2, <2>1 DEF IInv, ConfirmedFirst
  <1>8. ValidUnlessOvertaken'
    BY <1>1, <1>2 DEF IInv, ValidUnlessOvertaken, Target
  <1>9. AnswersDecided' /\ ConflictHasHolder' /\ FoundBookingStays'
    BY <1>1, <1>2, <1>3 DEF IInv, AnswersDecided, ConflictHasHolder, FoundBookingStays, Steps
  <1> QED
    BY <1>4, <1>5, <1>6, <1>7, <1>8, <1>9, ReadOnly DEF IInv

------------------------------------------------------------------------------
(* Steps of the request's life.                                              *)

LEMMA ReceiveInvariant ==
    ASSUME IInv, NEW r \in Requests, Receive(r)
    PROVE  IInv'
  <1> USE DEF tables, history
  <1>1. PICK c \in Calls : /\ call' = [call EXCEPT ![r] = c]
                           /\ pc' = [pc EXCEPT ![r] = FirstStep[c.op]]
    BY DEF Receive
  <1>2. pc[r] = "idle" /\ UNCHANGED <<services, bookings, reply, held, overtaken>>
    BY DEF Receive
  <1>3. /\ pc \in [Requests -> Steps \cup {"idle", "done", "lost"}]
        /\ call \in [Requests -> Calls \cup {Null}]
    BY DEF IInv, TypeOK
  <1>4. /\ FirstStep[c.op] \in HandlerSteps[c.op]
        /\ FirstStep[c.op] \in Steps \ {"respond", "writeStatus", "writeCancel"}
        /\ c.op \in Ops
    BY CallFields DEF FirstStep, Ops, Steps
  <1>5. TypeOK'
    BY <1>1, <1>2, <1>3, <1>4, ReadOnly, StoreAssumption DEF IInv, TypeOK
  <1>6. InItsHandler' /\ FoundBookings' /\ ConfirmedFirst' /\ ValidUnlessOvertaken'
    BY <1>1, <1>2, <1>3, <1>4
    DEF IInv, InItsHandler, FoundBookings, ConfirmedFirst, ValidUnlessOvertaken,
        Target, InFlight, Steps
  <1>7. FreshIds'
    BY <1>1, <1>2, <1>3 DEF IInv, FreshIds
  <1>8. AnswersDecided' /\ ConflictHasHolder' /\ FoundBookingStays'
    BY <1>1, <1>2, <1>3, <1>4
    DEF IInv, AnswersDecided, ConflictHasHolder, FoundBookingStays, Steps
  <1> QED
    BY <1>5, <1>6, <1>7, <1>8, <1>2, ReadOnly DEF IInv

LEMMA RespondInvariant ==
    ASSUME IInv, NEW r \in Requests, Respond(r)
    PROVE  IInv'
  <1> USE DEF tables, history
  <1>1. /\ pc[r] = "respond"
        /\ pc' = [pc EXCEPT ![r] = "done"]
        /\ UNCHANGED <<services, bookings, call, reply, held, overtaken>>
    BY DEF Respond
  <1>2. pc \in [Requests -> Steps \cup {"idle", "done", "lost"}]
    BY DEF IInv, TypeOK
  <1>3. TypeOK' /\ InItsHandler' /\ FreshIds' /\ FoundBookings' /\ AnswersDecided'
    BY <1>1, <1>2, ReadOnly
    DEF IInv, TypeOK, InItsHandler, FreshIds, FoundBookings, AnswersDecided, InFlight, Steps
  <1>4. ConfirmedFirst' /\ ValidUnlessOvertaken'
    BY <1>1, <1>2 DEF IInv, ConfirmedFirst, ValidUnlessOvertaken, Target
  <1>5. ConflictHasHolder'
    BY <1>1, <1>2 DEF IInv, ConflictHasHolder, AnswersDecided
  <1>6. FoundBookingStays'
    BY <1>1, <1>2 DEF IInv, FoundBookingStays
  <1> QED
    BY <1>3, <1>4, <1>5, <1>6, <1>1, ReadOnly DEF IInv

LEMMA CrashInvariant ==
    ASSUME IInv, Crash
    PROVE  IInv'
  <1> USE DEF tables, history
  <1>1. /\ pc' = [r \in Requests |-> IF InFlight(r) THEN "lost" ELSE pc[r]]
        /\ reply' = [r \in Requests |-> IF InFlight(r) THEN "None" ELSE reply[r]]
        /\ UNCHANGED <<services, bookings, call, held, overtaken>>
    BY DEF Crash
  <1>2. /\ pc \in [Requests -> Steps \cup {"idle", "done", "lost"}]
        /\ reply \in [Requests -> Answers \cup {"None"}]
    BY DEF IInv, TypeOK
  <1>3. \A r \in Requests : /\ pc'[r] \in {"idle", "done", "lost"}
                            /\ pc'[r] # "lost" => pc'[r] = pc[r] /\ reply'[r] = reply[r]
                            /\ pc'[r] = "lost" => pc[r] # "idle"
    BY <1>1, <1>2 DEF InFlight, Steps
  <1>4. TypeOK'
    BY <1>1, <1>2, <1>3, ReadOnly DEF IInv, TypeOK
  <1>5. InItsHandler' /\ FoundBookings' /\ ValidUnlessOvertaken'
    BY <1>1, <1>3 DEF InItsHandler, FoundBookings, ValidUnlessOvertaken, InFlight, Steps
  <1>6. FreshIds'
    <2> SUFFICES ASSUME NEW r \in Requests, bookings[r] # Null
                 PROVE  pc'[r] \in {"respond", "done", "lost"}
      BY <1>1 DEF IInv, FreshIds
    <2>1. pc[r] \in {"respond", "done", "lost"}
      BY DEF IInv, FreshIds
    <2> QED
      BY <1>3, <2>1
  <1>7. ConfirmedFirst'
    BY <1>1, <1>3 DEF IInv, ConfirmedFirst
  <1>8. AnswersDecided' /\ ConflictHasHolder' /\ FoundBookingStays'
    BY <1>1, <1>3 DEF IInv, AnswersDecided, ConflictHasHolder, FoundBookingStays
  <1> QED
    BY <1>4, <1>5, <1>6, <1>7, <1>8, <1>1, ReadOnly DEF IInv

\* Nothing changes.
LEMMA StutterInvariant ==
    ASSUME IInv, UNCHANGED vars
    PROVE  IInv'
  BY DEF IInv, vars, TypeOK, InItsHandler, FreshIds, FoundBookings, SlotUnique,
    NoOrphanBooking, ConfirmedFirst, ValidUnlessOvertaken, Target, AnswersDecided,
    ConflictHasHolder, FoundBookingStays, InFlight

------------------------------------------------------------------------------
(* Steps that write the catalogue.                                           *)

\* A committed write to table services keeps the invariant if it keeps every
\* service that a booking refers to, whomever it overtakes.
LEMMA CatalogueWriteInvariant ==
    ASSUME IInv, NEW r \in Requests, InFlight(r), NEW a \in {"Created", "Ok"},
           call[r].op \in {"createService", "updateService", "deleteService"},
           Committed(r, a), UNCHANGED <<bookings, held>>,
           overtaken \subseteq overtaken', overtaken' \in SUBSET Requests,
           services' \in [ServiceIds -> ServiceRows \cup {Null}],
           \A s \in ServiceIds :
                Referenced(s) /\ services[s] # Null => services'[s] # Null
    PROVE  IInv'
  <1>1. /\ pc' = [pc EXCEPT ![r] = "respond"]
        /\ reply' = [reply EXCEPT ![r] = a]
        /\ UNCHANGED <<bookings, call, held>>
    BY DEF Committed
  <1>2. /\ pc \in [Requests -> Steps \cup {"idle", "done", "lost"}]
        /\ reply \in [Requests -> Answers \cup {"None"}]
    BY DEF IInv, TypeOK
  <1>3. TypeOK'
    BY <1>1, <1>2 DEF IInv, TypeOK, InFlight, Steps, Answers, Successes
  <1>4. InItsHandler' /\ FoundBookings' /\ ConfirmedFirst' /\ ValidUnlessOvertaken'
    BY <1>1, <1>2 DEF IInv, InItsHandler, FoundBookings, ConfirmedFirst,
        ValidUnlessOvertaken, Target, InFlight, Steps
  <1>5. FreshIds'
    BY <1>1, <1>2 DEF IInv, FreshIds
  <1>6. SlotUnique'
    BY <1>1 DEF IInv, SlotUnique
  <1>7. NoOrphanBooking'
    <2> SUFFICES ASSUME NEW b \in BookingIds, bookings[b] # Null
                 PROVE  services'[bookings[b].service] # Null
      BY <1>1 DEF NoOrphanBooking
    <2>1. bookings[b].service \in ServiceIds
      BY DEF IInv, TypeOK, BookingRows
    <2>2. Referenced(bookings[b].service) /\ services[bookings[b].service] # Null
      BY DEF IInv, NoOrphanBooking, Referenced
    <2> QED
      BY <2>1, <2>2
  <1>8. AnswersDecided' /\ ConflictHasHolder' /\ FoundBookingStays'
    BY <1>1, <1>2 DEF IInv, AnswersDecided, ConflictHasHolder, FoundBookingStays
  <1> QED
    BY <1>3, <1>4, <1>5, <1>6, <1>7, <1>8 DEF IInv

LEMMA InsertServiceInvariant ==
    ASSUME IInv, NEW r \in Requests, InsertService(r)
    PROVE  IInv'
  <1>1. InFlight(r) /\ pc[r] # "respond"
    BY DEF InsertService, InFlight, Steps
  <1>2. call[r] \in Calls /\ call[r].op = "createService"
    BY <1>1, CallOf, StepsApart DEF InsertService
  <1>3. call[r].title \in Titles /\ DtoIsActive(call[r]) \in BOOLEAN
    BY <1>2, CallFields DEF DtoIsActive
  <1>4. [title |-> call[r].title, isActive |-> DtoIsActive(call[r])] \in ServiceRows
    BY <1>3 DEF ServiceRows
  <1>5. services' \in [ServiceIds -> ServiceRows \cup {Null}]
    BY <1>4 DEF InsertService, IInv, TypeOK
  <1>6. \A s \in ServiceIds : services[s] # Null => services'[s] # Null
    BY <1>4, StoreAssumption DEF InsertService, IInv, TypeOK
  <1>7. overtaken \subseteq overtaken' /\ overtaken' \in SUBSET Requests
    BY DEF InsertService, AboutToTitle, IInv, TypeOK
  <1> QED
    BY <1>1, <1>2, <1>5, <1>6, <1>7, CatalogueWriteInvariant DEF InsertService

LEMMA WriteServiceInvariant ==
    ASSUME IInv, NEW r \in Requests, WriteService(r)
    PROVE  IInv'
  <1> DEFINE s == call[r].service
  <1>1. InFlight(r) /\ pc[r] # "respond"
    BY DEF WriteService, InFlight, Steps
  <1>2. call[r] \in Calls /\ call[r].op = "updateService"
    BY <1>1, CallOf, StepsApart DEF WriteService
  <1>3. /\ s \in ServiceIds
        /\ call[r].title \in Titles \cup {Null}
        /\ DtoIsActive(call[r]) \in BOOLEAN
    BY <1>2, CallFields DEF DtoIsActive
  <1>4. CASE services[s] = Null
    <2>1. Answer(r, "P2025") /\ UNCHANGED <<tables, history>>
      BY <1>4 DEF WriteService, tables, history
    <2> QED
      BY <1>1, <1>2, <2>1, AnswerInvariant DEF Answers, PrismaErrors
  <1>5. CASE services[s] # Null
    <2>1. Patched(services[s], call[r]) \in ServiceRows
      <3>1. services[s] \in ServiceRows
        BY <1>3, <1>5 DEF IInv, TypeOK
      <3>2. services[s].title \in Titles
        BY <3>1 DEF ServiceRows
      <3> QED
        BY <1>3, <3>2 DEF Patched, ServiceRows
    <2>2. /\ services' = [services EXCEPT ![s] = Patched(services[s], call[r])]
          /\ Committed(r, "Ok")
          /\ UNCHANGED <<bookings, held>>
      BY <1>5 DEF WriteService
    <2>3. services' \in [ServiceIds -> ServiceRows \cup {Null}]
      BY <2>1, <2>2 DEF IInv, TypeOK
    <2>4. \A t \in ServiceIds : services[t] # Null => services'[t] # Null
      BY <2>1, <2>2, StoreAssumption DEF IInv, TypeOK
    <2>5. overtaken \subseteq overtaken' /\ overtaken' \in SUBSET Requests
      BY <1>5 DEF WriteService, FoundService, AboutToTitle, IInv, TypeOK
    <2> QED
      BY <1>1, <1>2, <2>2, <2>3, <2>4, <2>5, CatalogueWriteInvariant
  <1> QED
    BY <1>4, <1>5

LEMMA DeleteRowInvariant ==
    ASSUME IInv, NEW r \in Requests, DeleteRow(r)
    PROVE  IInv'
  <1> DEFINE s == call[r].service
  <1>1. InFlight(r) /\ pc[r] # "respond"
    BY DEF DeleteRow, InFlight, Steps
  <1>2. call[r] \in Calls /\ call[r].op = "deleteService"
    BY <1>1, CallOf, StepsApart DEF DeleteRow
  <1>3. CASE services[s] = Null \/ Referenced(s)
    <2>1. PICK a \in {"P2025", "P2003"} : Answer(r, a) /\ UNCHANGED <<tables, history>>
      BY <1>3 DEF DeleteRow, tables, history
    <2> QED
      BY <1>1, <1>2, <2>1, AnswerInvariant DEF Answers, PrismaErrors
  <1>4. CASE services[s] # Null /\ ~Referenced(s)
    <2>1. /\ services' = [services EXCEPT ![s] = Null]
          /\ Committed(r, "Ok")
          /\ UNCHANGED <<bookings, held>>
          /\ overtaken' = overtaken \cup FoundService(s, r)
      BY <1>4 DEF DeleteRow
    <2>2. services' \in [ServiceIds -> ServiceRows \cup {Null}]
      BY <2>1 DEF IInv, TypeOK
    <2>3. \A t \in ServiceIds : Referenced(t) /\ services[t] # Null => services'[t] # Null
      BY <1>4, <2>1 DEF IInv, TypeOK
    <2>4. overtaken \subseteq overtaken' /\ overtaken' \in SUBSET Requests
      BY <2>1 DEF FoundService, IInv, TypeOK
    <2> QED
      BY <1>1, <1>2, <2>1, <2>2, <2>3, <2>4, CatalogueWriteInvariant
  <1> QED
    BY <1>3, <1>4

------------------------------------------------------------------------------
(* Steps that write bookings.                                                *)

LEMMA InsertBookingInvariant ==
    ASSUME IInv, NEW r \in Requests, InsertBooking(r)
    PROVE  IInv'
  <1> DEFINE s == call[r].service
             slot == call[r].slot
  <1>1. InFlight(r) /\ pc[r] = "insertBooking"
    BY DEF InsertBooking, InFlight, Steps
  <1>2. /\ call[r] \in Calls /\ call[r].op = "createBooking"
        /\ s \in ServiceIds /\ slot \in Slots
    BY <1>1, CallOf, StepsApart, CallFields
  <1>3. CASE services[s] = Null
    <2>1. PICK a \in {"P2025", "P2003"} : Answer(r, a) /\ UNCHANGED <<tables, history>>
      BY <1>3 DEF InsertBooking, tables, history
    <2> QED
      BY <1>1, <1>2, <2>1, AnswerInvariant DEF Answers, PrismaErrors
  <1>4. CASE services[s] # Null /\ SlotTaken(s, slot)
    <2>1. Answer(r, "P2002") /\ UNCHANGED <<tables, history>>
      BY <1>4 DEF InsertBooking, tables, history
    <2> QED
      BY <1>1, <1>2, <1>4, <2>1, AnswerInvariant DEF Answers, PrismaErrors
  <1>5. CASE services[s] # Null /\ ~SlotTaken(s, slot)
    <2> DEFINE row == NewBooking(call[r])
    <2>1. /\ bookings' = [bookings EXCEPT ![r] = row]
          /\ held' = [held EXCEPT ![r] = {"PENDING"}]
          /\ pc' = [pc EXCEPT ![r] = "respond"]
          /\ reply' = [reply EXCEPT ![r] = "Created"]
          /\ overtaken' = overtaken \cup AboutToFill(s, slot, r)
          /\ UNCHANGED <<services, call>>
      BY <1>5 DEF InsertBooking, Committed
    <2>2. /\ pc \in [Requests -> Steps \cup {"idle", "done", "lost"}]
          /\ reply \in [Requests -> Answers \cup {"None"}]
          /\ bookings \in [BookingIds -> BookingRows \cup {Null}]
          /\ held \in [BookingIds -> SUBSET Status]
      BY DEF IInv, TypeOK
    <2>3. /\ row.service = s /\ row.slot = slot /\ row.status = "PENDING"
          /\ row \in BookingRows
          /\ row # Null
      BY <1>2, StoreAssumption DEF NewBooking, BookingRows, Status
    <2>4. r \in BookingIds /\ bookings[r] = Null
      BY <1>1 DEF IInv, FreshIds, BookingIds
    <2> HIDE DEF row
    <2>5. TypeOK'
      BY <1>1, <2>1, <2>2, <2>3
      DEF IInv, TypeOK, Steps, Answers, Successes, Status, AboutToFill
    <2>6. InItsHandler'
      BY <2>1, <2>2 DEF IInv, InItsHandler, InFlight, Steps
    <2>6b. FreshIds'
      <3> SUFFICES ASSUME NEW q \in Requests, bookings'[q] # Null
                   PROVE  /\ call[q] # Null
                          /\ call[q].op = "createBooking"
                          /\ pc'[q] \in {"respond", "done", "lost"}
                          /\ bookings'[q].service = call[q].service
                          /\ bookings'[q].slot = call[q].slot
        BY <2>1 DEF FreshIds
      <3>1. CASE q = r
        BY <1>2, <2>1, <2>2, <2>3, <2>4, <3>1, StoreAssumption
      <3>2. CASE q # r
        BY <2>1, <2>2, <2>4, <3>2 DEF IInv, FreshIds, BookingIds
      <3> QED
        BY <3>1, <3>2
    <2>7. \A q \in Requests : pc'[q] \in {"writeStatus", "writeCancel"}
            => /\ q # r /\ pc[q] = pc'[q]
               /\ call[q].booking \in BookingIds
               /\ call[q].booking # r
               /\ bookings'[call[q].booking] = bookings[call[q].booking]
               /\ held'[call[q].booking] = held[call[q].booking]
      <3> SUFFICES ASSUME NEW q \in Requests, pc'[q] \in {"writeStatus", "writeCancel"}
                   PROVE  /\ q # r /\ pc[q] = pc'[q]
                          /\ call[q].booking \in BookingIds
                          /\ call[q].booking # r
        BY <2>1, <2>2
      <3>1. q # r /\ pc[q] = pc'[q]
        BY <2>1, <2>2
      <3>2. InFlight(q) /\ pc[q] # "respond"
        BY <3>1 DEF InFlight, Steps
      <3>3. call[q].booking \in BookingIds
        BY <3>1, <3>2, CallOf, StepsApart, CallFields
      <3>4. bookings[call[q].booking] # Null
        BY <3>1 DEF IInv, FoundBookings
      <3> QED
        BY <3>1, <3>3, <3>4, <2>4
    <2>8. FoundBookings' /\ ValidUnlessOvertaken'
      BY <2>1, <2>7 DEF IInv, FoundBookings, ValidUnlessOvertaken, Target
    <2>9. ConfirmedFirst'
      <3>1. \A b \in BookingIds :
                /\ bookings'[b] # Null => bookings'[b].status \in held'[b]
                /\ "COMPLETED" \in held'[b] => "CONFIRMED" \in held'[b]
        BY <2>1, <2>2, <2>3 DEF IInv, ConfirmedFirst
      <3> QED
        BY <2>1, <2>7, <3>1 DEF IInv, ConfirmedFirst
    <2>10. SlotUnique'
      BY <1>5, <2>1, <2>2, <2>3 DEF IInv, SlotUnique, SlotTaken
    <2>11. NoOrphanBooking'
      BY <1>5, <2>1, <2>2, <2>3 DEF IInv, NoOrphanBooking
    <2>12. AnswersDecided' /\ FoundBookingStays'
      BY <1>2, <2>1, <2>2, <2>3, <2>4 DEF IInv, AnswersDecided, FoundBookingStays, BookingIds
    <2>13. ConflictHasHolder'
      <3> SUFFICES ASSUME NEW q \in Requests, q # r, pc[q] = "done",
                          call[q].op = "createBooking",
                          reply[q] \in {"BookingAlreadyExists", "P2002"}
                   PROVE  \E b \in BookingIds \ {q} :
                              /\ bookings'[b] # Null
                              /\ bookings'[b].service = call[q].service
                              /\ bookings'[b].slot = call[q].slot
        BY <2>1, <2>2 DEF ConflictHasHolder
      <3>1. PICK b \in BookingIds \ {q} : /\ bookings[b] # Null
                                          /\ bookings[b].service = call[q].service
                                          /\ bookings[b].slot = call[q].slot
        BY DEF IInv, ConflictHasHolder
      <3> QED
        BY <2>1, <2>4, <3>1
    <2> QED
      BY <2>5, <2>6, <2>8, <2>9, <2>10, <2>11, <2>12, <2>13, <2>6b DEF IInv
  <1> QED
    BY <1>3, <1>4, <1>5

\* The unguarded UPDATE of a status.  Nothing is known of the row it meets; that
\* the history allows the status is all the invariant needs of it.
LEMMA WriteBookingInvariant ==
    ASSUME IInv, NEW r \in Requests,
           pc[r] \in {"writeStatus", "writeCancel"},
           WriteBooking(r, call[r].booking, Target(r)), UNCHANGED services
    PROVE  IInv'
  <1> DEFINE b == call[r].booking
             new == Target(r)
  <1>1. InFlight(r) /\ pc[r] # "respond"
    BY DEF InFlight, Steps
  <1>2. /\ call[r] \in Calls /\ call[r].op \in {"updateStatus", "cancelBooking"}
        /\ pc[r] = "writeStatus" => call[r].op = "updateStatus"
        /\ b \in BookingIds /\ new \in Status
    BY <1>1, CallOf, StepsApart, CallFields DEF Target, Status
  <1>3. bookings[b] \in BookingRows /\ bookings[b] # Null
    BY <1>2 DEF IInv, TypeOK, FoundBookings
  <1> DEFINE row == [bookings[b] EXCEPT !.status = new]
  <1>4. /\ bookings' = [bookings EXCEPT ![b] = row]
        /\ held' = [held EXCEPT ![b] = @ \cup {new}]
        /\ overtaken' = overtaken \cup AboutToWrite(b, r)
        /\ pc' = [pc EXCEPT ![r] = "respond"]
        /\ reply' = [reply EXCEPT ![r] = "Ok"]
        /\ UNCHANGED <<services, call>>
    BY <1>3 DEF WriteBooking, Committed
  <1>5. /\ row \in BookingRows /\ row # Null
        /\ row.service = bookings[b].service
        /\ row.slot = bookings[b].slot
        /\ row.status = new
    BY <1>2, <1>3, StoreAssumption DEF BookingRows
  <1>6. /\ pc \in [Requests -> Steps \cup {"idle", "done", "lost"}]
        /\ reply \in [Requests -> Answers \cup {"None"}]
        /\ bookings \in [BookingIds -> BookingRows \cup {Null}]
        /\ held \in [BookingIds -> SUBSET Status]
    BY DEF IInv, TypeOK
  <1> HIDE DEF row, new
  <1>7. \A x \in BookingIds : /\ (bookings'[x] = Null) = (bookings[x] = Null)
                              /\ bookings[x] # Null =>
                                    /\ bookings'[x].service = bookings[x].service
                                    /\ bookings'[x].slot = bookings[x].slot
    BY <1>3, <1>4, <1>5, <1>6
  <1>8. TypeOK'
    BY <1>2, <1>4, <1>5, <1>6
    DEF IInv, TypeOK, Steps, Answers, Successes, AboutToWrite
  <1>9. InItsHandler'
    BY <1>4, <1>6 DEF IInv, InItsHandler, InFlight, Steps
  <1>10. FreshIds'
    BY <1>4, <1>6, <1>7 DEF IInv, FreshIds, BookingIds
  <1>11. \A q \in Requests : pc'[q] \in {"writeStatus", "writeCancel"}
            => q # r /\ pc[q] = pc'[q] /\ call[q].booking \in BookingIds
    <2> SUFFICES ASSUME NEW q \in Requests, pc'[q] \in {"writeStatus", "writeCancel"}
                 PROVE  q # r /\ pc[q] = pc'[q] /\ call[q].booking \in BookingIds
      OBVIOUS
    <2>1. q # r /\ pc[q] = pc'[q]
      BY <1>4, <1>6
    <2>2. InFlight(q) /\ pc[q] # "respond"
      BY <2>1 DEF InFlight, Steps
    <2> QED
      BY <2>1, <2>2, CallOf, StepsApart, CallFields
  <1>12. FoundBookings'
    BY <1>4, <1>7, <1>11 DEF IInv, FoundBookings
  <1>13. SlotUnique'
    BY <1>7 DEF IInv, SlotUnique
  <1>14. NoOrphanBooking'
    BY <1>4, <1>7 DEF IInv, NoOrphanBooking
  <1>15. ConfirmedFirst'
    <2>1. new = "COMPLETED" => "CONFIRMED" \in held[b]
      BY DEF IInv, ConfirmedFirst, Target, new
    <2>2. \A x \in BookingIds :
            /\ bookings'[x] # Null => bookings'[x].status \in held'[x]
            /\ "COMPLETED" \in held'[x] => "CONFIRMED" \in held'[x]
      BY <1>2, <1>4, <1>5, <1>6, <2>1 DEF IInv, ConfirmedFirst
    <2>3. \A x \in BookingIds : held[x] \subseteq held'[x]
      BY <1>2, <1>4, <1>6
    <2> QED
      BY <1>4, <1>11, <2>2, <2>3 DEF IInv, ConfirmedFirst
  <1>16. ValidUnlessOvertaken'
    <2> SUFFICES ASSUME NEW q \in Requests \ overtaken',
                        pc'[q] \in {"writeStatus", "writeCancel"}
                 PROVE  Validate(bookings'[call[q].booking].status, Target(q)') = "Valid"
      BY <1>4 DEF ValidUnlessOvertaken
    <2>1. q \notin overtaken /\ q \notin AboutToWrite(b, r)
      BY <1>4
    <2>2. call[q].booking # b
      BY <1>11, <2>1 DEF AboutToWrite
    <2>3. bookings'[call[q].booking] = bookings[call[q].booking] /\ Target(q)' = Target(q)
      BY <1>4, <1>6, <1>11, <2>2 DEF Target
    <2> QED
      BY <1>11, <2>1, <2>3 DEF IInv, ValidUnlessOvertaken
  <1>17. AnswersDecided'
    BY <1>2, <1>4, <1>6, <1>7 DEF IInv, AnswersDecided, BookingIds
  <1>18. ConflictHasHolder'
    <2> SUFFICES ASSUME NEW q \in Requests, q # r, pc[q] = "done",
                        call[q].op = "createBooking",
                        reply[q] \in {"BookingAlreadyExists", "P2002"}
                 PROVE  \E x \in BookingIds \ {q} :
                            /\ bookings'[x] # Null
                            /\ bookings'[x].service = call[q].service
                            /\ bookings'[x].slot = call[q].slot
      BY <1>4, <1>6 DEF ConflictHasHolder
    <2>1. PICK x \in BookingIds \ {q} : /\ bookings[x] # Null
                                        /\ bookings[x].service = call[q].service
                                        /\ bookings[x].slot = call[q].slot
      BY DEF IInv, ConflictHasHolder
    <2> QED
      BY <1>7, <2>1
  <1>19. FoundBookingStays'
    BY <1>4, <1>6 DEF IInv, FoundBookingStays
  <1> QED
    BY <1>8, <1>9, <1>10, <1>12, <1>13, <1>14, <1>15, <1>16, <1>17, <1>18, <1>19 DEF IInv

------------------------------------------------------------------------------
(* Steps that read.                                                          *)

LEMMA CatalogueReadInvariant ==
    ASSUME IInv, NEW r \in Requests,
           \/ FindByTitle(r) \/ FindToUpdate(r) \/ FindNewTitle(r)
           \/ FindToDelete(r) \/ CountBookings(r)
    PROVE  IInv'
  <1>1. /\ InFlight(r)
        /\ pc[r] \in {"findByTitle", "findToUpdate", "findNewTitle",
                      "findToDelete", "countBookings"}
        /\ UNCHANGED <<tables, history>>
    BY DEF FindByTitle, FindToUpdate, FindNewTitle, FindToDelete, CountBookings,
        InFlight, Steps
  <1>2. /\ call[r].op \in {"createService", "updateService", "deleteService"}
        /\ pc[r] \in HandlerSteps[call[r].op]
    BY <1>1, CallOf, StepsApart
  <1>3. \/ \E a \in {"Conflict", "NotFound"} : Answer(r, a)
        \/ \E step \in HandlerSteps[call[r].op] :
                Goto(r, step) /\ step \notin {"writeStatus", "writeCancel"}
    BY <1>2 DEF FindByTitle, FindToUpdate, FindNewTitle, FindToDelete, CountBookings,
        HandlerSteps
  <1>4. CASE \E a \in {"Conflict", "NotFound"} : Answer(r, a)
    BY <1>1, <1>2, <1>4, AnswerInvariant DEF Answers, DomainExceptions
  <1>5. CASE \E step \in HandlerSteps[call[r].op] :
                Goto(r, step) /\ step \notin {"writeStatus", "writeCancel"}
    BY <1>1, <1>5, GotoInvariant
  <1> QED
    BY <1>3, <1>4, <1>5

LEMMA GetServiceInvariant ==
    ASSUME IInv, NEW r \in Requests, GetService(r)
    PROVE  IInv'
  <1>1. /\ InFlight(r) /\ pc[r] = "getService"
        /\ UNCHANGED <<tables, history>>
    BY DEF GetService, InFlight, Steps
  <1>2. call[r].op = "createBooking"
    BY <1>1, CallOf, StepsApart
  <1>3. \/ \E a \in {"NotFound", "InactiveService", "InvalidBookingDate"} : Answer(r, a)
        \/ Goto(r, "findDuplicate")
    BY DEF GetService
  <1>4. ASSUME NEW a \in {"NotFound", "InactiveService", "InvalidBookingDate"}, Answer(r, a)
        PROVE  IInv'
    BY <1>1, <1>2, <1>4, AnswerInvariant DEF Answers, DomainExceptions
  <1>5. CASE Goto(r, "findDuplicate")
    <2>1. "findDuplicate" \in HandlerSteps[call[r].op]
      BY <1>2 DEF HandlerSteps
    <2> QED
      BY <1>1, <1>5, <2>1, GotoInvariant
  <1> QED
    BY <1>3, <1>4, <1>5

LEMMA FindDuplicateInvariant ==
    ASSUME IInv, NEW r \in Requests, FindDuplicate(r)
    PROVE  IInv'
  <1>1. /\ InFlight(r) /\ pc[r] = "findDuplicate"
        /\ UNCHANGED <<tables, history>>
    BY DEF FindDuplicate, InFlight, Steps
  <1>2. call[r].op = "createBooking"
    BY <1>1, CallOf, StepsApart
  <1>3. \/ Answer(r, "PrismaValidation")
        \/ Duplicate(call[r].service, call[r].slot) /\ Answer(r, "BookingAlreadyExists")
        \/ Goto(r, "insertBooking")
    BY DEF FindDuplicate
  <1>4. CASE Answer(r, "PrismaValidation")
    BY <1>1, <1>2, <1>4, AnswerInvariant DEF Answers, PrismaErrors
  <1>5. CASE Duplicate(call[r].service, call[r].slot) /\ Answer(r, "BookingAlreadyExists")
    <2>1. SlotTaken(call[r].service, call[r].slot)
      BY <1>5 DEF Duplicate, SlotTaken
    <2> QED
      BY <1>1, <1>2, <1>5, <2>1, AnswerInvariant DEF Answers, DomainExceptions
  <1>6. CASE Goto(r, "insertBooking")
    <2>1. "insertBooking" \in HandlerSteps[call[r].op]
      BY <1>2 DEF HandlerSteps
    <2> QED
      BY <1>1, <1>6, <2>1, GotoInvariant
  <1> QED
    BY <1>3, <1>4, <1>5, <1>6

LEMMA FindBookingInvariant ==
    ASSUME IInv, NEW r \in Requests, FindBooking(r)
    PROVE  IInv'
  <1> DEFINE b == call[r].booking
             verdict == Validate(bookings[b].status, call[r].status)
  <1>1. /\ InFlight(r) /\ pc[r] = "findBooking"
        /\ UNCHANGED <<tables, history>>
    BY DEF FindBooking, InFlight, Steps
  <1>2. /\ call[r].op = "updateStatus"
        /\ b \in BookingIds /\ call[r].status \in Status
    BY <1>1, CallOf, StepsApart, CallFields
  <1>3. CASE bookings[b] = Null
    <2>1. Answer(r, "NotFound")
      BY <1>3 DEF FindBooking
    <2> QED
      BY <1>1, <1>2, <2>1, AnswerInvariant DEF Answers, DomainExceptions
  <1>4. CASE bookings[b] # Null
    <2>1. \/ verdict = "Valid" /\ Goto(r, "writeStatus")
          \/ verdict # "Valid" /\ Answer(r, verdict)
      BY <1>4 DEF FindBooking
    <2>2. verdict \in {"Valid", "CompletedBooking", "CancelledBooking",
                       "InvalidStatusTransition"}
      BY <1>2, <1>4, ValidateType DEF IInv, TypeOK, BookingRows
    <2> HIDE DEF verdict
    <2>3. CASE verdict # "Valid"
      <3>1. verdict \in Answers /\ verdict # "P2025" /\ Answer(r, verdict)
        BY <2>1, <2>2, <2>3 DEF Answers, DomainExceptions
      <3> QED
        BY <1>1, <1>2, <3>1, AnswerInvariant
    <2>4. CASE verdict = "Valid"
      <3>1. "writeStatus" \in HandlerSteps[call[r].op] /\ Goto(r, "writeStatus")
        BY <1>2, <2>1, <2>4 DEF HandlerSteps
      <3> QED
        BY <1>1, <1>4, <2>4, <3>1, GotoInvariant DEF verdict
    <2> QED
      BY <2>3, <2>4
  <1> QED
    BY <1>3, <1>4

LEMMA FindToCancelInvariant ==
    ASSUME IInv, NEW r \in Requests, FindToCancel(r)
    PROVE  IInv'
  <1> DEFINE b == call[r].booking
  <1>1. /\ InFlight(r) /\ pc[r] = "findToCancel"
        /\ UNCHANGED <<tables, history>>
    BY DEF FindToCancel, InFlight, Steps
  <1>2. call[r].op = "cancelBooking" /\ b \in BookingIds
    BY <1>1, CallOf, StepsApart, CallFields
  <1>3. \/ \E a \in {"NotFound", "CompletedBooking", "Ok"} : Answer(r, a)
        \/ /\ bookings[b] # Null
           /\ bookings[b].status \notin {"COMPLETED", "CANCELLED"}
           /\ Goto(r, "writeCancel")
    BY DEF FindToCancel
  <1>4. ASSUME NEW a \in {"NotFound", "CompletedBooking", "Ok"}, Answer(r, a)
        PROVE  IInv'
    BY <1>1, <1>2, <1>4, AnswerInvariant DEF Answers, DomainExceptions, Successes
  <1>5. CASE /\ bookings[b] # Null
             /\ bookings[b].status \notin {"COMPLETED", "CANCELLED"}
             /\ Goto(r, "writeCancel")
    <2>1. Validate(bookings[b].status, "CANCELLED") = "Valid"
      BY <1>2, <1>5 DEF Validate, ValidTransitions, Status, IInv, TypeOK, BookingRows
    <2>2. "writeCancel" \in HandlerSteps[call[r].op]
      BY <1>2 DEF HandlerSteps
    <2> QED
      BY <1>1, <1>5, <2>1, <2>2, GotoInvariant
  <1> QED
    BY <1>3, <1>4, <1>5

LEMMA FailInvariant ==
    ASSUME IInv, NEW r \in Requests, Fail(r)
    PROVE  IInv'
  BY AnswerInvariant DEF Fail, Answers, PrismaErrors

------------------------------------------------------------------------------
(* Every step keeps the invariant.                                           *)

LEMMA NextInvariant == IInv /\ [Next]_vars => IInv'
  <1> SUFFICES ASSUME IInv, [Next]_vars PROVE IInv'
    OBVIOUS
  <1>1. ASSUME NEW r \in Requests, Receive(r) PROVE IInv'
    BY <1>1, ReceiveInvariant
  <1>2. ASSUME NEW r \in Requests, ServicesNext(r) PROVE IInv'
    BY <1>2, CatalogueReadInvariant, InsertServiceInvariant, WriteServiceInvariant,
        DeleteRowInvariant DEF ServicesNext
  <1>3. ASSUME NEW r \in Requests, WriteStatus(r) PROVE IInv'
    BY <1>3, WriteBookingInvariant DEF WriteStatus, Target
  <1>4. ASSUME NEW r \in Requests, WriteCancel(r) PROVE IInv'
    BY <1>4, WriteBookingInvariant DEF WriteCancel, Target
  <1>5. ASSUME NEW r \in Requests, BookingsNext(r) PROVE IInv'
    BY <1>3, <1>4, <1>5, GetServiceInvariant, FindDuplicateInvariant,
        InsertBookingInvariant, FindBookingInvariant, FindToCancelInvariant
    DEF BookingsNext
  <1>6. ASSUME NEW r \in Requests, Respond(r) PROVE IInv'
    BY <1>6, RespondInvariant
  <1>7. ASSUME NEW r \in Requests, Fail(r) PROVE IInv'
    BY <1>7, FailInvariant
  <1>8. CASE Crash
    BY <1>8, CrashInvariant
  <1>9. CASE Quiet \/ UNCHANGED vars
    BY <1>9, StutterInvariant DEF Quiet
  <1> QED
    BY <1>1, <1>2, <1>5, <1>6, <1>7, <1>8, <1>9 DEF Next, Advance

\* The invariant of the platform.
THEOREM Invariant == Spec => []IInv
  BY InitInvariant, NextInvariant, PTL DEF Spec

------------------------------------------------------------------------------
(* What follows from the invariant.                                          *)

\* The tables and the requests keep their types.
THEOREM TypeCorrect == Spec => []TypeOK
  BY Invariant, PTL DEF IInv

\* A slot of a service has one booking, however requests to book race.
THEOREM SlotsAreUnique == Spec => []SlotUnique
  BY Invariant, PTL DEF IInv

\* No booking is ever without its service.
THEOREM BookingsHaveServices == Spec => []NoOrphanBooking
  BY Invariant, PTL DEF IInv

\* No booking is completed that was never confirmed.
THEOREM CompletionFollowsConfirmation == Spec => []CompletedWasConfirmed
  <1>1. IInv => CompletedWasConfirmed
    BY DEF IInv, ConfirmedFirst, CompletedWasConfirmed
  <1> QED
    BY <1>1, Invariant, PTL

\* Created means there is a row, a refusal that there is none.
THEOREM BookingAnswersHold == Spec => []BookingAnswersAreTrue
  <1>1. IInv => BookingAnswersAreTrue
    BY DEF IInv, AnswersDecided, FreshIds, BookingAnswersAreTrue
  <1> QED
    BY <1>1, Invariant, PTL

\* A conflict over a slot names a slot that another booking holds.
THEOREM ConflictsAreJustified == Spec => []ConflictHasHolder
  BY Invariant, PTL DEF IInv

\* A found booking is there when it is written.
THEOREM FoundBookingsStay == Spec => []FoundBookingStays
  BY Invariant, PTL DEF IInv

\* Only the two writes of a status move a request from them to its answer.
LEMMA StatusWriter ==
    ASSUME IInv, [Next]_vars, NEW r \in Requests, WritesStatus(r)
    PROVE  WriteStatus(r) \/ WriteCancel(r)
  <1>1. /\ pc \in [Requests -> Steps \cup {"idle", "done", "lost"}]
        /\ pc[r] \in {"writeStatus", "writeCancel"}
        /\ pc'[r] = "respond"
    BY DEF IInv, TypeOK, WritesStatus
  <1>2. ASSUME NEW q \in Requests, Receive(q) PROVE FALSE
    <2>1. pc[q] = "idle" /\ \E step : pc' = [pc EXCEPT ![q] = step]
      BY <1>2 DEF Receive
    <2> QED
      BY <1>1, <2>1
  <1>3. ASSUME NEW q \in Requests, Respond(q) \/ Fail(q) PROVE FALSE
    BY <1>1, <1>3 DEF Respond, Fail, Answer
  <1>4. ASSUME NEW q \in Requests, ServicesNext(q) PROVE FALSE
    BY <1>1, <1>4 DEF ServicesNext, FindByTitle, InsertService, FindToUpdate,
        FindNewTitle, WriteService, FindToDelete, CountBookings, DeleteRow,
        Goto, Answer, Committed
  <1>5. ASSUME NEW q \in Requests, BookingsNext(q)
        PROVE  WriteStatus(r) \/ WriteCancel(r)
    <2>1. CASE GetService(q) \/ FindDuplicate(q) \/ InsertBooking(q)
               \/ FindBooking(q) \/ FindToCancel(q)
      BY <1>1, <2>1 DEF GetService, FindDuplicate, InsertBooking, FindBooking,
        FindToCancel, Goto, Answer, Committed
    <2>2. CASE WriteStatus(q) \/ WriteCancel(q)
      BY <1>1, <2>2 DEF WriteStatus, WriteCancel, WriteBooking, Answer, Committed
    <2> QED
      BY <1>5, <2>1, <2>2 DEF BookingsNext
  <1>6. ~Crash
    BY <1>1 DEF Crash, InFlight, Steps
  <1>7. ~(Quiet \/ UNCHANGED vars)
    BY <1>1 DEF Quiet, vars
  <1> QED
    BY <1>2, <1>3, <1>4, <1>5, <1>6, <1>7 DEF Next, Advance

\* A write of a status is a legal move of the row it meets, unless another
\* request wrote the row since it was read.
THEOREM StatusMovesAreLegal == Spec => LegalUnlessOvertaken
  <1> DEFINE A == \A r \in Requests : WritesStatus(r) /\ r \notin overtaken =>
                    Legal(bookings[call[r].booking].status,
                          bookings'[call[r].booking].status)
  <1>1. IInv /\ [Next]_vars => A
    <2> SUFFICES ASSUME IInv, [Next]_vars, NEW r \in Requests,
                        WritesStatus(r), r \notin overtaken
                 PROVE  Legal(bookings[call[r].booking].status,
                              bookings'[call[r].booking].status)
      OBVIOUS
    <2> DEFINE b == call[r].booking
    <2>1. pc[r] \in {"writeStatus", "writeCancel"} /\ pc'[r] = "respond"
      BY DEF WritesStatus
    <2>2. WriteBooking(r, b, Target(r))
      <3>1. WriteStatus(r) \/ WriteCancel(r)
        BY StatusWriter
      <3> QED
        BY <3>1 DEF WriteStatus, WriteCancel, Target
    <2>3. InFlight(r) /\ pc[r] # "respond"
      BY <2>1 DEF InFlight, Steps
    <2>4. b \in BookingIds
      BY <2>1, <2>3, CallOf, StepsApart, CallFields
    <2>5. bookings[b] \in BookingRows /\ bookings[b] # Null
      BY <2>1, <2>4 DEF IInv, TypeOK, FoundBookings
    <2>6. bookings' = [bookings EXCEPT ![b].status = Target(r)]
      BY <2>2, <2>5 DEF WriteBooking
    <2>7. bookings'[b].status = Target(r)
      BY <2>4, <2>5, <2>6 DEF IInv, TypeOK, BookingRows
    <2>8. Validate(bookings[b].status, Target(r)) = "Valid"
      BY <2>1 DEF IInv, ValidUnlessOvertaken
    <2> QED
      BY <2>7, <2>8 DEF Legal
  <1>2. IInv /\ [Next]_vars => [A]_vars
    BY <1>1
  <1> QED
    BY <1>2, Invariant, PTL DEF Spec, LegalUnlessOvertaken

------------------------------------------------------------------------------
(* The steps of a request.                                                   *)

\* How many steps a request still has before it, at most.
StepsLeft(step) ==
    CASE step = "idle" -> 5
      [] step \in {"getService", "findToUpdate", "findToDelete"} -> 4
      [] step \in {"findDuplicate", "findNewTitle", "countBookings",
                   "findBooking", "findToCancel", "findByTitle"} -> 3
      [] step \in {"insertBooking", "writeStatus", "writeCancel",
                   "insertService", "writeService", "deleteRow"} -> 2
      [] step = "respond" -> 1
      [] OTHER -> 0

\* A request only ever goes forward: no handler repeats or waits, so a request
\* makes at most five steps, and once it is answered or lost it makes none.
THEOREM HandlersGoForward ==
    Spec => [][\A r \in Requests :
                pc'[r] # pc[r] => StepsLeft(pc'[r]) < StepsLeft(pc[r])]_vars
  <1> DEFINE A == \A r \in Requests :
                    pc'[r] # pc[r] => StepsLeft(pc'[r]) < StepsLeft(pc[r])
  <1>1. ASSUME IInv, NEW r \in Requests, Receive(r) PROVE A
    <2>1. PICK c \in Calls : pc' = [pc EXCEPT ![r] = FirstStep[c.op]]
      BY <1>1 DEF Receive
    <2>2. pc[r] = "idle" /\ c.op \in Ops
      BY <1>1, CallFields DEF Receive
    <2>3. pc'[r] = FirstStep[c.op] /\ \A q \in Requests \ {r} : pc'[q] = pc[q]
      BY <1>1, <2>1 DEF IInv, TypeOK
    <2> QED
      BY <2>2, <2>3 DEF StepsLeft, FirstStep, Ops
  <1>2. ASSUME IInv, NEW r \in Requests, Advance(r) \/ Fail(r) PROVE A
    <2>0. pc \in [Requests -> Steps \cup {"idle", "done", "lost"}]
      BY <1>2 DEF IInv, TypeOK
    <2>1. CASE FindByTitle(r) \/ InsertService(r) \/ WriteService(r)
               \/ CountBookings(r) \/ DeleteRow(r) \/ FindDuplicate(r)
               \/ InsertBooking(r) \/ FindBooking(r) \/ FindToCancel(r)
      <3>1. \E step \in {"insertService", "deleteRow", "insertBooking", "writeStatus",
                         "writeCancel", "respond", "done"} :
                pc' = [pc EXCEPT ![r] = step] /\ (pc[r] \in {"insertService",
                    "writeService", "deleteRow", "insertBooking"} => step \in {"respond", "done"})
        BY <2>1 DEF FindByTitle, InsertService, WriteService, CountBookings,
            DeleteRow, FindDuplicate, InsertBooking, FindBooking, FindToCancel, Goto,
            Answer, Committed
      <3>2. pc[r] \in {"findByTitle", "insertService", "writeService", "countBookings",
                       "deleteRow", "findDuplicate", "insertBooking", "findBooking",
                       "findToCancel"}
        BY <2>1 DEF FindByTitle, InsertService, WriteService, CountBookings,
            DeleteRow, FindDuplicate, InsertBooking, FindBooking, FindToCancel
      <3> QED
        BY <2>0, <3>1, <3>2 DEF StepsLeft
    <2>2. CASE GetService(r) \/ FindToUpdate(r) \/ FindToDelete(r)
      <3>1. \E step \in {"findDuplicate", "findNewTitle", "writeService",
                         "countBookings", "done"} :
                pc' = [pc EXCEPT ![r] = step]
        BY <2>2 DEF GetService, FindToUpdate, FindToDelete, Goto, Answer
      <3>2. pc[r] \in {"getService", "findToUpdate", "findToDelete"}
        BY <2>2 DEF GetService, FindToUpdate, FindToDelete
      <3> QED
        BY <2>0, <3>1, <3>2 DEF StepsLeft
    <2>3. CASE FindNewTitle(r)
      <3>1. pc[r] = "findNewTitle" /\ \E step \in {"writeService", "done"} :
                pc' = [pc EXCEPT ![r] = step]
        BY <2>3 DEF FindNewTitle, Goto, Answer
      <3> QED
        BY <2>0, <3>1 DEF StepsLeft
    <2>4. CASE WriteStatus(r) \/ WriteCancel(r)
      <3>1. pc[r] \in {"writeStatus", "writeCancel"} /\ \E step \in {"respond", "done"} :
                pc' = [pc EXCEPT ![r] = step]
        BY <2>4 DEF WriteStatus, WriteCancel, WriteBooking, Answer, Committed
      <3> QED
        BY <2>0, <3>1 DEF StepsLeft
    <2>5. CASE Respond(r) \/ Fail(r)
      <3>1. pc[r] \in Steps /\ pc' = [pc EXCEPT ![r] = "done"]
        BY <2>5 DEF Respond, Fail, Answer, InFlight, Steps
      <3> QED
        BY <2>0, <3>1 DEF StepsLeft, Steps
    <2> QED
      BY <1>2, <2>1, <2>2, <2>3, <2>4, <2>5 DEF Advance, ServicesNext, BookingsNext
  <1>3. ASSUME IInv, Crash PROVE A
    <2>1. \A q \in Requests : pc'[q] # pc[q] => pc[q] \in Steps /\ pc'[q] = "lost"
      BY <1>3 DEF IInv, TypeOK, Crash, InFlight
    <2> QED
      BY <2>1 DEF StepsLeft, Steps
  <1>4. IInv /\ [Next]_vars => [A]_vars
    BY <1>1, <1>2, <1>3 DEF Next, Quiet, vars
  <1> QED
    BY <1>4, Invariant, PTL DEF Spec

==============================================================================
