---------------------------- MODULE GatewayProofs ----------------------------
(* The gateway is the platform with guards before it and a trail behind it:  *)
(* what is proved of the platform holds of it.  Then, for any accounts and   *)
(* roles: who changes the tables, whom the guards refuse, and what the audit *)
(* trail tells.                                                              *)
EXTENDS Gateway, LedgerProofs

------------------------------------------------------------------------------
(* The platform behind the guards.                                           *)

\* Every step of the gateway is a step of the platform or leaves it alone.
LEMMA GatewayStep == [GatewayNext]_allVars => [Next]_vars
  <1> SUFFICES ASSUME [GatewayNext]_allVars PROVE Next \/ UNCHANGED vars
    OBVIOUS
  <1>1. ASSUME NEW r \in Requests, Arrive(r) \/ TurnAway(r) PROVE UNCHANGED vars
    BY <1>1 DEF Arrive, TurnAway
  <1>2. ASSUME NEW r \in Requests, Admit(r) PROVE Next
    BY <1>2 DEF Admit, Next
  <1>3. ASSUME NEW r \in Requests, Handle(r) PROVE Next
    BY <1>3 DEF Handle, Next
  <1>4. ASSUME NEW r \in Requests, FailInside(r) PROVE Next
    BY <1>4 DEF FailInside, Next
  <1>5. ASSUME NEW a \in Accounts, SetActive(a) PROVE UNCHANGED vars
    BY <1>5 DEF SetActive
  <1>6. CASE CrashAll
    BY <1>6 DEF CrashAll, Next
  <1>7. CASE UNCHANGED allVars
    BY <1>7 DEF allVars
  <1> QED
    BY <1>1, <1>2, <1>3, <1>4, <1>5, <1>6, <1>7 DEF GatewayNext

\* Whatever the guards let in is handled as the platform specifies: all that is
\* proved of Spec holds behind the guards.
THEOREM GatewayIsPlatform == GatewaySpec => Spec
  <1>1. GatewayInit => Init
    BY DEF GatewayInit
  <1> QED
    BY <1>1, GatewayStep, PTL DEF GatewaySpec, Spec

\* Behind the guards the tables keep the slot ledger too.
THEOREM GatewayKeepsLedger == GatewaySpec => LedgerSpec
  BY GatewayIsPlatform, PlatformKeepsLedger, PTL

\* The platform's invariant.
LEMMA PlatformInvariant == GatewaySpec => []IInv
  BY GatewayIsPlatform, Invariant, PTL

------------------------------------------------------------------------------
(* The shapes a step of a handler can have.                                  *)

\* The step overtakes none of the requests about to write a status.
SparesStatusWrites ==
    \A q \in overtaken' : \/ q \in overtaken
                          \/ /\ pc[q] # "idle"
                             /\ call[q].op \notin {"updateStatus", "cancelBooking"}

\* What a commit to the catalogue or a new booking overtakes are the handlers of
\* services and of createBooking.
LEMMA SparedByChecks ==
    ASSUME IInv, NEW r, NEW s, NEW slot, NEW title,
           NEW q \in FoundService(s, r) \cup AboutToTitle(title, r) \cup AboutToFill(s, slot, r)
    PROVE  /\ pc[q] # "idle"
           /\ call[q].op \notin {"updateStatus", "cancelBooking"}
  <1>1. /\ q \in Requests
        /\ pc[q] \in {"findDuplicate", "insertBooking", "insertService", "findNewTitle",
                      "writeService", "countBookings", "deleteRow"}
    BY DEF FoundService, AboutToTitle, AboutToFill
  <1>2. InFlight(q) /\ pc[q] # "respond" /\ pc[q] # "idle"
    BY <1>1 DEF InFlight, Steps
  <1> QED
    BY <1>1, <1>2, CallOf, StepsApart

\* The handler goes on to its next call.
Moves(r) ==
    /\ pc[r] \in Steps \ {"respond"}
    /\ \E step \in HandlerSteps[call[r].op] : Goto(r, step)
    /\ UNCHANGED <<tables, history>>

\* It answers without having written: a success is a booking found cancelled.
Settles(r) ==
    /\ pc[r] \in Steps \ {"respond"}
    /\ \E a \in Answers :
        /\ Answer(r, a)
        /\ a \in Successes => /\ call[r].op = "cancelBooking"
                              /\ bookings[call[r].booking] # Null
                              /\ bookings[call[r].booking].status = "CANCELLED"
    /\ UNCHANGED <<tables, history>>

\* It commits a change of one service.
WritesCatalogue(r) ==
    /\ pc[r] \in Steps \ {"respond"}
    /\ call[r].op \in {"createService", "updateService", "deleteService"}
    /\ \E a \in Successes : Committed(r, a)
    /\ \A s \in ServiceIds : services'[s] # services[s] =>
        /\ s = IF call[r].op = "createService" THEN r ELSE call[r].service
        /\ services[s] = Null => call[r].op = "createService"
        /\ services'[s] = Null => call[r].op = "deleteService"
    /\ call[r].op = "deleteService" => /\ services[call[r].service] # Null
                                       /\ services'[call[r].service] = Null
    /\ SparesStatusWrites
    /\ UNCHANGED <<bookings, held>>

\* It commits a new booking.
Inserts(r) ==
    /\ pc[r] = "insertBooking"
    /\ call[r].op = "createBooking"
    /\ bookings[r] = Null
    /\ bookings' = [bookings EXCEPT ![r] = NewBooking(call[r])]
    /\ held' = [held EXCEPT ![r] = {"PENDING"}]
    /\ Committed(r, "Created")
    /\ SparesStatusWrites
    /\ UNCHANGED services

\* It commits a status.
WritesRow(r) ==
    LET b == call[r].booking IN
    /\ pc[r] \in {"writeStatus", "writeCancel"}
    /\ call[r].op = IF pc[r] = "writeStatus" THEN "updateStatus" ELSE "cancelBooking"
    /\ b \in BookingIds
    /\ bookings[b] # Null
    /\ bookings' = [bookings EXCEPT ![b].status = Target(r)]
    /\ held' = [held EXCEPT ![b] = @ \cup {Target(r)}]
    /\ overtaken' = overtaken \cup AboutToWrite(b, r)
    /\ Committed(r, "Ok")
    /\ UNCHANGED services

\* A step of a handler has one of these shapes, or it is the answer that follows
\* a committed write.
LEMMA StepShapes ==
    ASSUME IInv, NEW r \in Requests, Advance(r)
    PROVE  Moves(r) \/ Settles(r) \/ WritesCatalogue(r) \/ Inserts(r) \/ WritesRow(r)
           \/ Respond(r)
  <1> USE DEF tables, history
  <1>1. ASSUME Respond(r) PROVE Respond(r)
    BY <1>1
  <1>2. ASSUME \/ FindByTitle(r) \/ FindToUpdate(r) \/ FindNewTitle(r)
               \/ FindToDelete(r) \/ CountBookings(r)
        PROVE  Moves(r) \/ Settles(r)
    <2>1. /\ InFlight(r)
          /\ pc[r] \in {"findByTitle", "findToUpdate", "findNewTitle",
                        "findToDelete", "countBookings"}
          /\ UNCHANGED <<tables, history>>
      BY <1>2 DEF FindByTitle, FindToUpdate, FindNewTitle, FindToDelete, CountBookings,
        InFlight, Steps
    <2>2. /\ call[r].op \in {"createService", "updateService", "deleteService"}
          /\ pc[r] \in HandlerSteps[call[r].op]
      BY <2>1, CallOf, StepsApart
    <2>3. \/ \E a \in {"Conflict", "NotFound"} : Answer(r, a)
          \/ \E step \in HandlerSteps[call[r].op] : Goto(r, step)
      BY <1>2, <2>2 DEF FindByTitle, FindToUpdate, FindNewTitle, FindToDelete,
        CountBookings, HandlerSteps
    <2> QED
      BY <2>1, <2>3 DEF Moves, Settles, Steps, Answers, DomainExceptions, Successes
  <1>3. ASSUME InsertService(r) PROVE WritesCatalogue(r)
    <2>1. InFlight(r) /\ pc[r] = "insertService"
      BY <1>3 DEF InsertService, InFlight, Steps
    <2>2. call[r].op = "createService"
      BY <2>1, CallOf, StepsApart
    <2>3. services'[r] # Null
      <3>1. services' = [services EXCEPT ![r] = [title |-> call[r].title,
                                            isActive |-> DtoIsActive(call[r])]]
        BY <1>3 DEF InsertService
      <3>2. call[r].title \in Titles /\ DtoIsActive(call[r]) \in BOOLEAN
        BY <2>1, <2>2, CallOf, CallFields DEF DtoIsActive
      <3>3. [title |-> call[r].title, isActive |-> DtoIsActive(call[r])] \in ServiceRows
        BY <3>2 DEF ServiceRows
      <3> QED
        BY <3>1, <3>3, StoreAssumption DEF IInv, TypeOK, ServiceIds
    <2>4. SparesStatusWrites
      BY <1>3, SparedByChecks DEF InsertService, SparesStatusWrites
    <2> QED
      BY <1>3, <2>1, <2>2, <2>3, <2>4 DEF InsertService, WritesCatalogue, Steps,
        Successes, IInv, TypeOK
  <1>4. ASSUME WriteService(r) PROVE WritesCatalogue(r) \/ Settles(r)
    <2> DEFINE s == call[r].service
    <2>1. InFlight(r) /\ pc[r] = "writeService"
      BY <1>4 DEF WriteService, InFlight, Steps
    <2>2. call[r].op = "updateService" /\ s \in ServiceIds /\ call[r] \in Calls
      BY <2>1, CallOf, StepsApart, CallFields
    <2>3. CASE services[s] = Null
      BY <1>4, <2>1, <2>2, <2>3 DEF WriteService, Settles, Steps, Answers, PrismaErrors,
        Successes
    <2>4. CASE services[s] # Null
      <3>1. /\ services' = [services EXCEPT ![s] = Patched(services[s], call[r])]
            /\ overtaken' = overtaken \cup FoundService(s, r)
                                     \cup AboutToTitle(services'[s].title, r)
            /\ Committed(r, "Ok")
            /\ UNCHANGED <<bookings, held>>
        BY <1>4, <2>4 DEF WriteService
      <3>2. Patched(services[s], call[r]) \in ServiceRows
        BY <2>2, <2>4, CallFields DEF Patched, DtoIsActive, ServiceRows, IInv, TypeOK
      <3>3. services'[s] # Null
        BY <2>2, <3>1, <3>2, StoreAssumption DEF IInv, TypeOK
      <3>4. SparesStatusWrites
        BY <3>1, SparedByChecks DEF SparesStatusWrites
      <3> QED
        BY <2>1, <2>2, <2>4, <3>1, <3>3, <3>4 DEF WritesCatalogue, Steps, Successes,
            IInv, TypeOK
    <2> QED
      BY <2>3, <2>4
  <1>5. ASSUME DeleteRow(r) PROVE WritesCatalogue(r) \/ Settles(r)
    <2> DEFINE s == call[r].service
    <2>1. InFlight(r) /\ pc[r] = "deleteRow"
      BY <1>5 DEF DeleteRow, InFlight, Steps
    <2>2. call[r].op = "deleteService" /\ s \in ServiceIds
      BY <2>1, CallOf, StepsApart, CallFields
    <2>3. CASE services[s] = Null \/ Referenced(s)
      BY <1>5, <2>1, <2>2, <2>3 DEF DeleteRow, Settles, Steps, Answers, PrismaErrors,
        Successes
    <2>4. CASE services[s] # Null /\ ~Referenced(s)
      <3>1. /\ services' = [services EXCEPT ![s] = Null]
            /\ overtaken' = overtaken \cup FoundService(s, r)
            /\ Committed(r, "Ok")
            /\ UNCHANGED <<bookings, held>>
        BY <1>5, <2>4 DEF DeleteRow
      <3>2. SparesStatusWrites
        BY <3>1, SparedByChecks DEF SparesStatusWrites
      <3> QED
        BY <2>1, <2>2, <2>4, <3>1, <3>2 DEF WritesCatalogue, Steps, Successes,
            IInv, TypeOK
    <2> QED
      BY <2>3, <2>4
  <1>6. ASSUME GetService(r) \/ FindDuplicate(r) PROVE Moves(r) \/ Settles(r)
    <2>1. /\ InFlight(r) /\ pc[r] \in {"getService", "findDuplicate"}
          /\ UNCHANGED <<tables, history>>
      BY <1>6 DEF GetService, FindDuplicate, InFlight, Steps
    <2>2. call[r].op = "createBooking"
      BY <2>1, CallOf, StepsApart
    <2>3. \/ \E a \in {"NotFound", "InactiveService", "InvalidBookingDate",
                       "PrismaValidation", "BookingAlreadyExists"} : Answer(r, a)
          \/ \E step \in HandlerSteps[call[r].op] : Goto(r, step)
      BY <1>6, <2>2 DEF GetService, FindDuplicate, HandlerSteps
    <2> QED
      BY <2>1, <2>3 DEF Moves, Settles, Steps, Answers, DomainExceptions, PrismaErrors,
        Successes
  <1>7. ASSUME InsertBooking(r) PROVE Inserts(r) \/ Settles(r)
    <2>1. InFlight(r) /\ pc[r] = "insertBooking"
      BY <1>7 DEF InsertBooking, InFlight, Steps
    <2>2. call[r].op = "createBooking" /\ bookings[r] = Null
      BY <2>1, CallOf, StepsApart DEF IInv, FreshIds
    <2>3. \/ (\E a \in {"P2002", "P2003", "P2025"} : Answer(r, a))
                /\ UNCHANGED <<tables, history>>
          \/ /\ bookings' = [bookings EXCEPT ![r] = NewBooking(call[r])]
             /\ held' = [held EXCEPT ![r] = {"PENDING"}]
             /\ SparesStatusWrites
             /\ Committed(r, "Created")
             /\ UNCHANGED services
      BY <1>7, SparedByChecks DEF InsertBooking, SparesStatusWrites
    <2> QED
      BY <2>1, <2>2, <2>3 DEF Inserts, Settles, Steps, Answers, PrismaErrors, Successes
  <1>8. ASSUME FindBooking(r) \/ FindToCancel(r) PROVE Moves(r) \/ Settles(r)
    <2> DEFINE b == call[r].booking
    <2>1. /\ InFlight(r) /\ pc[r] \in {"findBooking", "findToCancel"}
          /\ UNCHANGED <<tables, history>>
      BY <1>8 DEF FindBooking, FindToCancel, InFlight, Steps
    <2>2. CASE FindBooking(r)
      <3>1. call[r].op = "updateStatus" /\ b \in BookingIds /\ call[r].status \in Status
        BY <2>1, <2>2, CallOf, StepsApart, CallFields DEF FindBooking
      <3>2. bookings[b] # Null => Validate(bookings[b].status, call[r].status) \in
                {"Valid", "CompletedBooking", "CancelledBooking", "InvalidStatusTransition"}
        BY <3>1, ValidateType DEF IInv, TypeOK, BookingRows
      <3>3. \/ \E a \in {"NotFound", "CompletedBooking", "CancelledBooking",
                         "InvalidStatusTransition"} : Answer(r, a)
            \/ \E step \in HandlerSteps[call[r].op] : Goto(r, step)
        BY <2>2, <3>1, <3>2 DEF FindBooking, HandlerSteps
      <3> QED
        BY <2>1, <3>3 DEF Moves, Settles, Steps, Answers, DomainExceptions, Successes
    <2>3. CASE FindToCancel(r)
      <3>1. call[r].op = "cancelBooking"
        BY <2>1, <2>3, CallOf, StepsApart DEF FindToCancel
      <3>2. \/ \E a \in {"NotFound", "CompletedBooking"} : Answer(r, a)
            \/ /\ bookings[b] # Null /\ bookings[b].status = "CANCELLED"
               /\ Answer(r, "Ok")
            \/ \E step \in HandlerSteps[call[r].op] : Goto(r, step)
        BY <2>3, <3>1 DEF FindToCancel, HandlerSteps
      <3> QED
        BY <2>1, <3>1, <3>2 DEF Moves, Settles, Steps, Answers, DomainExceptions, Successes
    <2> QED
      BY <1>8, <2>2, <2>3
  <1>9. ASSUME WriteStatus(r) \/ WriteCancel(r) PROVE WritesRow(r)
    <2> DEFINE b == call[r].booking
    <2>1. InFlight(r) /\ pc[r] \in {"writeStatus", "writeCancel"}
      BY <1>9 DEF WriteStatus, WriteCancel, InFlight, Steps
    <2>2. /\ b \in BookingIds
          /\ call[r].op = IF pc[r] = "writeStatus" THEN "updateStatus" ELSE "cancelBooking"
      BY <2>1, CallOf, StepsApart, CallFields
    <2>3. WriteBooking(r, b, Target(r)) /\ UNCHANGED services
      BY <1>9 DEF WriteStatus, WriteCancel, Target
    <2>4. bookings[b] # Null
      BY <2>1 DEF IInv, FoundBookings
    <2> QED
      BY <2>1, <2>2, <2>3, <2>4 DEF WriteBooking, WritesRow
  <1> QED
    BY <1>1, <1>2, <1>3, <1>4, <1>5, <1>6, <1>7, <1>8, <1>9
    DEF Advance, ServicesNext, BookingsNext

------------------------------------------------------------------------------
(* What no step undoes.                                                      *)

\* What the steps of the handlers, their failures and crashes leave standing.
LEMMA PlatformUndoesNothing ==
    ASSUME IInv, GatewayIInv,
           \/ \E r \in Requests : Receive(r) \/ Advance(r) \/ Fail(r)
           \/ Crash \/ UNCHANGED vars
    PROVE  /\ \A q \in Requests : pc[q] = "done" =>
                pc'[q] = "done" /\ reply'[q] = reply[q] /\ call'[q] = call[q]
           /\ \A b \in BookingIds : held[b] \subseteq held'[b]
           /\ \A s \in ServiceIds : Gone(s) => Gone(s)'
  <1> DEFINE Stands ==
        /\ \A q \in Requests : pc[q] = "done" =>
                pc'[q] = "done" /\ reply'[q] = reply[q] /\ call'[q] = call[q]
        /\ \A b \in BookingIds : held[b] \subseteq held'[b]
        /\ \A s \in ServiceIds : Gone(s) => Gone(s)'
  <1>1. /\ pc \in [Requests -> Steps \cup {"idle", "done", "lost"}]
        /\ reply \in [Requests -> Answers \cup {"None"}]
        /\ call \in [Requests -> Calls \cup {Null}]
        /\ held \in [BookingIds -> SUBSET Status]
        /\ "done" \notin Steps /\ "lost" \notin Steps /\ "idle" \notin Steps
    BY DEF IInv, TypeOK, Steps
  <1> USE DEF tables, history
  <1>2. ASSUME NEW r \in Requests, Receive(r) PROVE Stands
    <2>1. PICK c \in Calls : /\ call' = [call EXCEPT ![r] = c]
                             /\ pc' = [pc EXCEPT ![r] = FirstStep[c.op]]
      BY <1>2 DEF Receive
    <2>2. pc[r] = "idle" /\ UNCHANGED <<services, bookings, reply, held, overtaken>>
      BY <1>2 DEF Receive
    <2> QED
      BY <1>1, <2>1, <2>2 DEF Gone
  <1>3. ASSUME NEW r \in Requests, Moves(r) \/ Settles(r) \/ Respond(r) \/ Fail(r)
        PROVE Stands
    <2>1. /\ pc[r] \in Steps
          /\ \E x \in Steps \cup {"done"} : pc' = [pc EXCEPT ![r] = x]
          /\ \E a : reply' = [reply EXCEPT ![r] = a]
          /\ pc[r] = "respond" => pc'[r] = "done"
          /\ UNCHANGED <<services, bookings, call, held, overtaken>>
      <3>1. CASE Moves(r)
        <4>1. call[r].op \in Ops
          BY <1>1, <3>1, CallOf DEF Moves, InFlight
        <4>2. PICK step \in HandlerSteps[call[r].op] : Goto(r, step)
          BY <3>1 DEF Moves
        <4>3. step \in Steps
          BY <4>1, StepsApart
        <4>4. pc' = [pc EXCEPT ![r] = step] /\ call' = call /\ reply' = reply
          BY <4>2 DEF Goto
        <4>5. reply' = [reply EXCEPT ![r] = reply[r]]
          BY <1>1, <4>4
        <4>6. pc[r] \in Steps \ {"respond"} /\ UNCHANGED <<services, bookings, held, overtaken>>
          BY <3>1 DEF Moves
        <4> QED
          BY <4>3, <4>4, <4>5, <4>6
      <3>2. CASE Settles(r)
        BY <1>1, <3>2 DEF Settles, Answer
      <3>3. CASE Respond(r)
        BY <1>1, <3>3 DEF Respond, Steps
      <3>4. CASE Fail(r)
        BY <1>1, <3>4 DEF Fail, Answer, InFlight
      <3> QED
        BY <1>3, <3>1, <3>2, <3>3, <3>4
    <2> QED
      BY <1>1, <2>1 DEF Gone, Steps
  <1>4. ASSUME NEW r \in Requests, WritesCatalogue(r) PROVE Stands
    <2>1. /\ pc[r] \in Steps \ {"respond"}
          /\ pc' = [pc EXCEPT ![r] = "respond"]
          /\ \E a : reply' = [reply EXCEPT ![r] = a]
          /\ UNCHANGED <<bookings, call, held>>
      BY <1>4 DEF WritesCatalogue, Committed
    <2>2. \A s \in ServiceIds : Gone(s) => services'[s] = Null
      BY <1>1, <1>4, <2>1 DEF WritesCatalogue, Gone
    <2> QED
      BY <1>1, <2>1, <2>2 DEF Gone
  <1>5. ASSUME NEW r \in Requests, Inserts(r) \/ WritesRow(r) PROVE Stands
    <2>1. /\ pc[r] \in Steps \ {"respond"}
          /\ pc' = [pc EXCEPT ![r] = "respond"]
          /\ \E a : reply' = [reply EXCEPT ![r] = a]
          /\ UNCHANGED <<services, call>>
      BY <1>5 DEF Inserts, WritesRow, Committed, Steps
    <2>2. \A b \in BookingIds : held[b] \subseteq held'[b]
      <3>1. CASE Inserts(r)
        BY <1>1, <3>1 DEF Inserts, GatewayIInv, HeldByRows, BookingIds
      <3>2. CASE WritesRow(r)
        BY <1>1, <3>2 DEF WritesRow
      <3> QED
        BY <1>5, <3>1, <3>2
    <2> QED
      BY <1>1, <2>1, <2>2 DEF Gone
  <1>6. CASE Crash
    BY <1>1, <1>6 DEF Crash, InFlight, Gone
  <1>7. CASE UNCHANGED vars
    BY <1>7 DEF vars, Gone
  <1> QED
    BY <1>2, <1>3, <1>4, <1>5, <1>6, <1>7, StepShapes

\* The same of the gateway's steps; and the token of a request that was let in
\* is the one it came with.
LEMMA NothingUndone ==
    ASSUME IInv, GatewayIInv, [GatewayNext]_allVars
    PROVE  /\ \A q \in Requests : pc[q] = "done" =>
                /\ pc'[q] = "done" /\ reply'[q] = reply[q] /\ call'[q] = call[q]
                /\ caller'[q] = caller[q]
           /\ \A b \in BookingIds : held[b] \subseteq held'[b]
           /\ \A s \in ServiceIds : Gone(s) => Gone(s)'
  <1>1. \/ \E r \in Requests : Receive(r) \/ Advance(r) \/ Fail(r)
        \/ Crash \/ UNCHANGED vars
    BY DEF GatewayNext, Arrive, Admit, TurnAway, Handle, FailInside, SetActive, CrashAll,
        allVars
  <1>2. \A q \in Requests : pc[q] = "done" => caller'[q] = caller[q]
    <2>1. ASSUME NEW r \in Requests, Arrive(r)
          PROVE  \A q \in Requests : pc[q] = "done" => caller'[q] = caller[q]
      <3>1. gate[r] = "outside" /\ \E a : caller' = [caller EXCEPT ![r] = a]
        BY <2>1 DEF Arrive
      <3>2. pc[r] = "idle"
        BY <3>1 DEF GatewayIInv, InItsPlace
      <3> QED
        BY <3>1, <3>2 DEF GatewayIInv, GatewayTypeOK
    <2>2. ASSUME ~ \E r \in Requests : Arrive(r) PROVE caller' = caller
      BY <2>2 DEF GatewayNext, Admit, TurnAway, Handle, FailInside, SetActive, CrashAll,
        allVars, door
    <2> QED
      BY <2>1, <2>2
  <1> QED
    BY <1>1, <1>2, PlatformUndoesNothing

------------------------------------------------------------------------------
(* The trail grows at its end.                                               *)

LEMMA AppendFacts ==
    ASSUME NEW S, NEW t \in Seq(S), NEW e \in S
    PROVE  /\ Append(t, e) \in Seq(S)
           /\ DOMAIN Append(t, e) = DOMAIN t \cup {Len(t) + 1}
           /\ Append(t, e)[Len(t) + 1] = e
           /\ \A i \in DOMAIN t : i \in Nat /\ i < Len(t) + 1 /\ Append(t, e)[i] = t[i]
  OBVIOUS

\* The call of a request that has answered or is about to.
LEMMA CallOfRequest ==
    ASSUME IInv, NEW r \in Requests, pc[r] # "idle"
    PROVE  call[r] \in Calls /\ call[r].op \in Ops
  BY CallFields DEF IInv, TypeOK

\* What a handler logs, by its operation.
LEMMA Actions ==
    ASSUME NEW r \in Requests, call[r] \in Calls
    PROVE  /\ ~WritesBooking(r) => Resource(r) \in ServiceIds
           /\ WritesBooking(r) => Resource(r) \in BookingIds /\ Gave(r) \in Status
           /\ ~IsLogged(call[r]) <=> call[r].op = "updateStatus" /\ call[r].status = "PENDING"
           /\ Action(call[r]) \in DOMAIN StatusTold
                \cup {"SERVICE_CREATED", "SERVICE_UPDATED", "SERVICE_DELETED"}
           /\ IsLogged(call[r]) =>
                /\ Action(call[r]) = "BOOKING_CREATED" <=> call[r].op = "createBooking"
                /\ Action(call[r]) = "SERVICE_DELETED" <=> call[r].op = "deleteService"
                /\ Action(call[r]) \in DOMAIN StatusTold <=> WritesBooking(r)
                /\ WritesBooking(r) => StatusTold[Action(call[r])] = Gave(r)
  <1>1. /\ call[r].op \in Ops
        /\ call[r].op = "updateStatus" => call[r].booking \in BookingIds /\ call[r].status \in Status
        /\ call[r].op = "cancelBooking" => call[r].booking \in BookingIds
        /\ call[r].op \in {"updateService", "deleteService"} => call[r].service \in ServiceIds
    BY CallFields
  <1>2. CASE call[r].op = "createBooking"
    BY <1>2 DEF Resource, WritesBooking, Gave, IsLogged, Action, StatusTold, Status, BookingIds
  <1>3. CASE call[r].op = "updateStatus"
    <2>1. Action(call[r]) = [PENDING |-> "BOOKING_CREATED", CONFIRMED |-> "BOOKING_CONFIRMED",
                CANCELLED |-> "BOOKING_CANCELLED",
                COMPLETED |-> "BOOKING_COMPLETED"][call[r].status]
      BY <1>3 DEF Action
    <2>2. Resource(r) = call[r].booking /\ Gave(r) = call[r].status
      BY <1>3 DEF Resource, Gave
    <2> QED
      BY <1>1, <1>3, <2>1, <2>2 DEF WritesBooking, IsLogged, StatusTold, Status
  <1>4. CASE call[r].op = "cancelBooking"
    BY <1>1, <1>4 DEF Resource, WritesBooking, Gave, IsLogged, Action, StatusTold, Status
  <1>5. CASE call[r].op \in {"createService", "updateService", "deleteService"}
    BY <1>1, <1>5 DEF Resource, WritesBooking, IsLogged, Action, StatusTold, ServiceIds
  <1> QED
    BY <1>1, <1>2, <1>3, <1>4, <1>5 DEF Ops

------------------------------------------------------------------------------
(* The guards.                                                               *)

LEMMA GatewayInitInvariant == GatewayInit => GatewayIInv
  <1> SUFFICES ASSUME GatewayInit PROVE GatewayIInv
    OBVIOUS
  <1> USE StoreAssumption, GatewayAssumption
  <1>1. /\ active \in [Accounts -> BOOLEAN]
        /\ gate = [r \in Requests |-> "outside"]
        /\ ask = [r \in Requests |-> Null]
        /\ caller = [r \in Requests |-> Null]
        /\ context = [r \in Requests |-> Null]
        /\ trail = <<>>
        /\ seen = [r \in Requests |-> {}]
        /\ disturbed = {}
        /\ pc = [r \in Requests |-> "idle"]
        /\ reply = [r \in Requests |-> "None"]
        /\ overtaken = {}
    BY DEF GatewayInit, Init
  <1>2. DOMAIN trail = {} /\ trail \in Seq(Entries)
    BY <1>1
  <1>3. GatewayTypeOK
    BY <1>1, <1>2 DEF GatewayTypeOK
  <1>4. InItsPlace /\ Checked /\ RefusalsAreJust
    BY <1>1 DEF InItsPlace, Checked, RefusalsAreJust
  <1>5. FreshServices
    BY DEF FreshServices, GatewayInit, Init, ServiceIds
  <1>6. HeldByRows
    <2> SUFFICES ASSUME NEW b \in BookingIds, bookings[b] = Null
                 PROVE  held[b] = {}
      BY DEF HeldByRows
    <2>1. Init
      BY DEF GatewayInit
    <2>2. PICK status \in [SeedBookings -> Status] :
            /\ bookings = [x \in BookingIds |->
                IF x \in SeedBookings
                THEN [service |-> SeedBooked[x].service, slot |-> SeedBooked[x].slot,
                      status |-> status[x]] ELSE Null]
            /\ held = [x \in BookingIds |->
                IF x \in SeedBookings THEN SeedHistory[status[x]] ELSE {}]
      BY <2>1 DEF Init
    <2>3. CASE b \in SeedBookings
      <3>1. [service |-> SeedBooked[b].service, slot |-> SeedBooked[b].slot,
             status |-> status[b]] \in BookingRows
        BY <2>2, <2>3 DEF BookingRows, ServiceIds
      <3> QED
        BY <2>2, <2>3, <3>1
    <2> QED
      BY <2>2, <2>3
  <1>7. Written
    BY <1>1 DEF Written, Steps
  <1>8. TrailNamesCallers /\ TrailIsTrue /\ DeletedAreGone
    BY <1>2 DEF TrailNamesCallers, TrailIsTrue, DeletedAreGone
  <1>9. TrailMissesNothing
    BY <1>1 DEF TrailMissesNothing
  <1>10. OvertakenIsDisturbed /\ OneLogsAtATime /\ TrailTells
    BY <1>1, <1>2 DEF OvertakenIsDisturbed, OneLogsAtATime, TrailTells, AboutToLog
  <1> QED
    BY <1>3, <1>4, <1>5, <1>6, <1>7, <1>8, <1>9, <1>10 DEF GatewayIInv

\* Steps inside change neither the calls nor who has entered.
LEMMA NobodyEnters ==
    ASSUME IInv, (\E r \in Requests : Advance(r) \/ Fail(r)) \/ Crash
    PROVE  /\ call' = call
           /\ \A q \in Requests : pc'[q] = "idle" <=> pc[q] = "idle"
  <1>1. /\ pc \in [Requests -> Steps \cup {"idle", "done", "lost"}]
        /\ "idle" \notin Steps
    BY DEF IInv, TypeOK, Steps
  <1>2. ASSUME NEW r \in Requests, Moves(r)
        PROVE  call' = call /\ \E x \in Steps : pc' = [pc EXCEPT ![r] = x] /\ pc[r] \in Steps
    <2>1. pc[r] \in Steps /\ call[r].op \in Ops
      BY <1>1, <1>2, CallOf DEF Moves, InFlight
    <2> QED
      BY <1>2, <2>1, StepsApart DEF Moves, Goto
  <1>3. ASSUME NEW r \in Requests, Settles(r) \/ Respond(r) \/ Fail(r)
        PROVE  call' = call /\ pc' = [pc EXCEPT ![r] = "done"] /\ pc[r] \in Steps
    BY <1>3 DEF Settles, Respond, Fail, Answer, InFlight, Steps
  <1>4. ASSUME NEW r \in Requests, WritesCatalogue(r) \/ Inserts(r) \/ WritesRow(r)
        PROVE  call' = call /\ pc' = [pc EXCEPT ![r] = "respond"] /\ pc[r] \in Steps
    BY <1>4 DEF WritesCatalogue, Inserts, WritesRow, Committed, Steps
  <1>5. ASSUME Crash
        PROVE  call' = call /\ \A q \in Requests : pc'[q] = "idle" <=> pc[q] = "idle"
    BY <1>1, <1>5 DEF Crash, InFlight
  <1>6. "respond" \in Steps /\ "done" # "idle"
    BY DEF Steps
  <1> QED
    BY <1>1, <1>2, <1>3, <1>4, <1>5, <1>6, StepShapes

LEMMA DoorKept ==
    ASSUME IInv, GatewayIInv, [GatewayNext]_allVars
    PROVE  /\ active' \in [Accounts -> BOOLEAN]
           /\ gate' \in [Requests -> {"outside", "guards", "inside", "Unauthorized",
                                      "Forbidden", "DbError", "lost"}]
           /\ ask' \in [Requests -> Calls \cup {Null}]
           /\ caller' \in [Requests -> Accounts \cup {Null}]
           /\ context' \in [Requests -> Accounts \cup {Null}]
           /\ seen' \in [Requests -> SUBSET BOOLEAN]
           /\ InItsPlace' /\ Checked' /\ RefusalsAreJust'
  <1> USE StoreAssumption, GatewayAssumption
  <1>0. /\ GatewayTypeOK /\ InItsPlace /\ Checked /\ RefusalsAreJust
        /\ pc \in [Requests -> Steps \cup {"idle", "done", "lost"}]
        /\ call \in [Requests -> Calls \cup {Null}]
    BY DEF GatewayIInv, IInv, TypeOK
  <1>1. ASSUME NEW r \in Requests, Arrive(r)
        PROVE  /\ active' \in [Accounts -> BOOLEAN]
               /\ gate' \in [Requests -> {"outside", "guards", "inside", "Unauthorized",
                                          "Forbidden", "DbError", "lost"}]
               /\ ask' \in [Requests -> Calls \cup {Null}]
               /\ caller' \in [Requests -> Accounts \cup {Null}]
               /\ context' \in [Requests -> Accounts \cup {Null}]
               /\ seen' \in [Requests -> SUBSET BOOLEAN]
               /\ InItsPlace' /\ Checked' /\ RefusalsAreJust'
    <2>1. PICK c \in Asked, a \in Accounts \cup {Null} :
            /\ ask' = [ask EXCEPT ![r] = c]
            /\ caller' = [caller EXCEPT ![r] = a]
            /\ seen' = [seen EXCEPT ![r] = IF a = Null THEN {} ELSE {active[a]}]
      BY <1>1 DEF Arrive
    <2>2. /\ gate[r] = "outside"
          /\ gate' = [gate EXCEPT ![r] = "guards"]
          /\ UNCHANGED <<pc, call, active, context>>
      BY <1>1 DEF Arrive, vars
    <2>3. c \in Calls /\ c # Null
      OBVIOUS
    <2>4. a # Null => active[a] \in BOOLEAN
      BY <1>0 DEF GatewayTypeOK
    <2>5. InItsPlace'
      BY <1>0, <2>1, <2>2, <2>3 DEF InItsPlace, GatewayTypeOK
    <2>6. Checked'
      BY <1>0, <2>1, <2>2 DEF Checked, GatewayTypeOK, ActsFor
    <2>7. RefusalsAreJust'
      BY <1>0, <2>1, <2>2 DEF RefusalsAreJust, GatewayTypeOK
    <2>8. seen' \in [Requests -> SUBSET BOOLEAN]
      BY <1>0, <2>1, <2>4 DEF GatewayTypeOK
    <2> QED
      BY <1>0, <2>1, <2>2, <2>3, <2>5, <2>6, <2>7, <2>8 DEF GatewayTypeOK
  <1>2. ASSUME NEW r \in Requests, Admit(r)
        PROVE  /\ UNCHANGED <<active, ask, caller, seen>>
               /\ gate' = [gate EXCEPT ![r] = "inside"]
               /\ context' \in [Requests -> Accounts \cup {Null}]
               /\ InItsPlace' /\ Checked' /\ RefusalsAreJust'
    <2>1. /\ gate[r] = "guards"
          /\ Protected(ask[r].op) => Authenticated(r) /\ HasRole(r)
          /\ gate' = [gate EXCEPT ![r] = "inside"]
          /\ context' = [context EXCEPT ![r] =
                IF Protected(ask[r].op) THEN caller[r] ELSE Null]
          /\ UNCHANGED <<active, ask, caller, seen>>
      BY <1>2 DEF Admit, SetUserId
    <2>2. PICK c \in Calls : /\ call' = [call EXCEPT ![r] = c]
                             /\ pc' = [pc EXCEPT ![r] = FirstStep[c.op]]
                             /\ call'[r] = ask[r]
      BY <1>2 DEF Admit, Receive
    <2>3. FirstStep[c.op] # "idle"
      BY CallFields DEF FirstStep, Ops
    <2>4. InItsPlace'
      BY <1>0, <2>1, <2>2, <2>3 DEF InItsPlace, GatewayTypeOK
    <2>5. Protected(ask[r].op) => ActsFor(r, RequiredRoles(ask[r].op))
      BY <1>0, <2>1 DEF Authenticated, HasRole, ActsFor, Checked, GatewayTypeOK
    <2>6. Checked'
      BY <1>0, <2>1, <2>5 DEF Checked, ActsFor, GatewayTypeOK
    <2>7. RefusalsAreJust'
      BY <1>0, <2>1 DEF RefusalsAreJust, GatewayTypeOK
    <2> QED
      BY <1>0, <2>1, <2>4, <2>6, <2>7 DEF GatewayTypeOK
  <1>3. ASSUME NEW r \in Requests, TurnAway(r)
        PROVE  /\ UNCHANGED <<active, ask, caller, context, seen>>
               /\ \E x \in {"Unauthorized", "Forbidden", "DbError"} :
                    gate' = [gate EXCEPT ![r] = x]
               /\ InItsPlace' /\ Checked' /\ RefusalsAreJust'
    <2>1. PICK answer \in WhyTurnedAway(r) : gate' = [gate EXCEPT ![r] = answer]
      BY <1>3 DEF TurnAway
    <2>2. /\ gate[r] = "guards"
          /\ UNCHANGED <<pc, call, active, ask, caller, context, seen>>
      BY <1>3 DEF TurnAway, vars
    <2>3. /\ answer \in {"Unauthorized", "Forbidden", "DbError"}
          /\ answer = "Unauthorized" => ~Authenticated(r)
          /\ answer = "Forbidden" => Authenticated(r) /\ ~HasRole(r)
      BY DEF WhyTurnedAway
    <2>4. /\ \A q \in Requests : q # r => gate'[q] = gate[q]
          /\ gate'[r] \notin {"outside", "guards", "inside"}
      BY <1>0, <2>1, <2>3 DEF GatewayTypeOK
    <2>8. InItsPlace'
      BY <1>0, <2>2, <2>4 DEF InItsPlace
    <2>9. Checked'
      BY <1>0, <2>2, <2>4 DEF Checked, ActsFor
    <2>5. answer = "Unauthorized" => caller[r] = Null \/ FALSE \in seen[r]
      <3> SUFFICES ASSUME answer = "Unauthorized", caller[r] # Null
                   PROVE  FALSE \in seen[r]
        OBVIOUS
      <3>1. caller[r] \in Accounts /\ active[caller[r]] \in BOOLEAN
        BY <1>0 DEF GatewayTypeOK
      <3>2. active[caller[r]] = FALSE
        BY <2>3, <3>1 DEF Authenticated
      <3>3. active[caller[r]] \in seen[r]
        BY <1>0, <2>2 DEF Checked
      <3> QED
        BY <3>2, <3>3
    <2>6. answer = "Forbidden" => /\ TRUE \in seen[r]
                                  /\ ask[r].op = "deleteService"
                                  /\ RoleOf[caller[r]] = "STAFF"
      <3> SUFFICES ASSUME answer = "Forbidden"
                   PROVE  /\ TRUE \in seen[r]
                          /\ ask[r].op = "deleteService"
                          /\ RoleOf[caller[r]] = "STAFF"
        OBVIOUS
      <3>1. /\ caller[r] \in Accounts /\ active[caller[r]]
            /\ RoleOf[caller[r]] \notin RequiredRoles(ask[r].op)
        BY <1>0, <2>3 DEF Authenticated, HasRole, GatewayTypeOK
      <3>2. RoleOf[caller[r]] \in {"ADMIN", "STAFF"}
        BY <3>1 DEF Roles
      <3>3. TRUE \in seen[r]
        BY <1>0, <2>2, <3>1 DEF Checked, GatewayTypeOK
      <3> QED
        BY <3>1, <3>2, <3>3 DEF RequiredRoles
    <2>7. RefusalsAreJust'
      BY <1>0, <2>1, <2>2, <2>5, <2>6 DEF RefusalsAreJust, GatewayTypeOK
    <2> QED
      BY <2>1, <2>2, <2>3, <2>7, <2>8, <2>9
  <1>4. ASSUME UNCHANGED <<active, ask, caller, context, seen>>, UNCHANGED gate,
               call' = call, \A q \in Requests : pc'[q] = "idle" <=> pc[q] = "idle"
        PROVE  InItsPlace' /\ Checked' /\ RefusalsAreJust'
    BY <1>0, <1>4 DEF InItsPlace, Checked, ActsFor, RefusalsAreJust
  <1>5. ASSUME NEW a \in Accounts, SetActive(a)
        PROVE  /\ active' \in [Accounts -> BOOLEAN]
               /\ seen' \in [Requests -> SUBSET BOOLEAN]
               /\ UNCHANGED <<gate, ask, caller, context>>
               /\ InItsPlace' /\ Checked' /\ RefusalsAreJust'
    <2>1. /\ active' = [active EXCEPT ![a] = ~active[a]]
          /\ seen' = [r \in Requests |->
                IF gate[r] = "guards" /\ caller[r] = a
                THEN seen[r] \cup {active'[a]} ELSE seen[r]]
          /\ UNCHANGED <<pc, call, gate, ask, caller, context>>
      BY <1>5 DEF SetActive, vars
    <2>2. active' \in [Accounts -> BOOLEAN]
      BY <1>0, <2>1 DEF GatewayTypeOK
    <2>3. seen' \in [Requests -> SUBSET BOOLEAN]
      BY <1>0, <2>1, <2>2 DEF GatewayTypeOK
    <2>4. InItsPlace'
      BY <1>0, <2>1 DEF InItsPlace
    <2>5. Checked'
      <3> SUFFICES ASSUME NEW r \in Requests
                   PROVE  /\ gate[r] = "guards" /\ caller[r] # Null =>
                                active'[caller[r]] \in seen'[r]
                          /\ gate[r] = "inside" => seen'[r] = seen[r]
        BY <1>0, <2>1 DEF Checked, ActsFor
      <3>1. CASE gate[r] = "guards" /\ caller[r] = a
        BY <2>1, <3>1
      <3>2. CASE ~(gate[r] = "guards" /\ caller[r] = a)
        BY <1>0, <2>1, <3>2 DEF Checked, GatewayTypeOK
      <3> QED
        BY <3>1, <3>2
    <2>6. RefusalsAreJust'
      BY <1>0, <2>1 DEF RefusalsAreJust
    <2> QED
      BY <2>1, <2>2, <2>3, <2>4, <2>5, <2>6
  <1>6. ASSUME CrashAll
        PROVE  /\ UNCHANGED <<active, ask, caller, context, seen>>
               /\ gate' = [r \in Requests |-> IF gate[r] = "guards" THEN "lost" ELSE gate[r]]
               /\ InItsPlace' /\ Checked' /\ RefusalsAreJust'
    <2>1. /\ gate' = [r \in Requests |-> IF gate[r] = "guards" THEN "lost" ELSE gate[r]]
          /\ UNCHANGED <<active, ask, caller, context, seen>>
      BY <1>6 DEF CrashAll
    <2>2. call' = call /\ \A q \in Requests : pc'[q] = "idle" <=> pc[q] = "idle"
      BY <1>6, NobodyEnters DEF CrashAll, vars
    <2>3. \A r \in Requests :
            /\ gate'[r] # "lost" => gate'[r] = gate[r]
            /\ gate'[r] = "lost" => gate[r] \in {"guards", "lost"}
      BY <1>0, <2>1 DEF GatewayTypeOK
    <2>4. InItsPlace'
      BY <1>0, <2>1, <2>2, <2>3 DEF InItsPlace
    <2>5. Checked'
      BY <1>0, <2>1, <2>3 DEF Checked, ActsFor
    <2>6. RefusalsAreJust'
      BY <1>0, <2>1, <2>3 DEF RefusalsAreJust
    <2> QED
      BY <2>1, <2>4, <2>5, <2>6
  <1>7. ASSUME NEW r \in Requests, Handle(r) \/ FailInside(r)
        PROVE  /\ UNCHANGED <<active, gate, ask, caller, context, seen>>
               /\ InItsPlace' /\ Checked' /\ RefusalsAreJust'
    <2>1. UNCHANGED <<active, gate, ask, caller, context, seen>>
      BY <1>7 DEF Handle, FailInside, door
    <2>2. call' = call /\ \A q \in Requests : pc'[q] = "idle" <=> pc[q] = "idle"
      BY <1>7, NobodyEnters DEF Handle, FailInside
    <2> QED
      BY <1>4, <2>1, <2>2
  <1>8. ASSUME UNCHANGED allVars
        PROVE  /\ UNCHANGED <<active, gate, ask, caller, context, seen>>
               /\ InItsPlace' /\ Checked' /\ RefusalsAreJust'
    BY <1>4, <1>8 DEF allVars, vars, door
  <1> QED
    BY <1>0, <1>1, <1>2, <1>3, <1>5, <1>6, <1>7, <1>8 DEF GatewayNext, GatewayTypeOK

------------------------------------------------------------------------------
(* What the requests have written.                                           *)

\* A step of the gateway, seen from the tables and the trail.
LEMMA StepKinds ==
    ASSUME [GatewayNext]_allVars
    PROVE  \/ UNCHANGED vars /\ UNCHANGED audit
           \/ \E r \in Requests : Receive(r) /\ UNCHANGED audit
           \/ \E r \in Requests : Advance(r) /\ LogIfDone(r) /\ Disturb(r)
           \/ \E r \in Requests : Fail(r) /\ UNCHANGED audit
           \/ Crash /\ UNCHANGED audit
  BY DEF GatewayNext, Arrive, Admit, TurnAway, Handle, FailInside, SetActive, CrashAll,
    allVars

\* A booking that is made stays, and a committed insert has made one.
LEMMA BookingsStay ==
    ASSUME IInv, NEW r \in Requests, Inserts(r) \/ WritesRow(r)
    PROVE  /\ \A b \in BookingIds : bookings[b] # Null => bookings'[b] # Null
           /\ Inserts(r) => bookings'[r] = NewBooking(call[r]) /\ bookings'[r] # Null
           /\ WritesRow(r) => /\ bookings'[call[r].booking].status = Target(r)
                              /\ \A b \in BookingIds \ {call[r].booking} :
                                    bookings'[b] = bookings[b]
           /\ Inserts(r) => \A b \in BookingIds \ {r} : bookings'[b] = bookings[b]
  <1> USE StoreAssumption
  <1>1. bookings \in [BookingIds -> BookingRows \cup {Null}]
    BY DEF IInv, TypeOK
  <1>2. InFlight(r) /\ pc[r] # "respond"
    BY DEF Inserts, WritesRow, InFlight, Steps
  <1>3. call[r] \in Calls
    BY <1>2, CallOf
  <1>4. CASE Inserts(r)
    <2>1. bookings' = [bookings EXCEPT ![r] = NewBooking(call[r])]
      BY <1>4 DEF Inserts
    <2>2. NewBooking(call[r]) \in BookingRows
      BY <1>3, <1>4, CallFields DEF Inserts, NewBooking, BookingRows, Status
    <2>3. ~WritesRow(r)
      BY <1>4 DEF Inserts, WritesRow
    <2> QED
      BY <1>1, <1>4, <2>1, <2>2, <2>3 DEF BookingIds
  <1>5. CASE WritesRow(r)
    <2> DEFINE b == call[r].booking
    <2>1. /\ bookings' = [bookings EXCEPT ![b].status = Target(r)]
          /\ b \in BookingIds /\ bookings[b] # Null
      BY <1>5 DEF WritesRow
    <2>2. bookings[b] \in BookingRows
      BY <1>1, <2>1
    <2>3. Target(r) \in Status
      BY <1>3, <1>5, CallFields DEF WritesRow, Target, Status
    <2>4. bookings'[b] \in BookingRows /\ bookings'[b].status = Target(r)
      BY <1>1, <2>1, <2>2, <2>3 DEF BookingRows
    <2>5. ~Inserts(r)
      BY <1>5 DEF Inserts, WritesRow
    <2> QED
      BY <1>1, <2>1, <2>4, <2>5
  <1> QED
    BY <1>4, <1>5

\* Requests to delete find their service, whose id was given before.
LEMMA FreshKept ==
    ASSUME IInv, GatewayIInv, [GatewayNext]_allVars
    PROVE  FreshServices' /\ HeldByRows'
  <1> USE DEF tables, history
  <1>0. /\ FreshServices /\ HeldByRows
        /\ pc \in [Requests -> Steps \cup {"idle", "done", "lost"}]
        /\ services \in [ServiceIds -> ServiceRows \cup {Null}]
        /\ held \in [BookingIds -> SUBSET Status]
        /\ "done" \notin Steps /\ "lost" \notin Steps /\ "idle" \notin Steps
        /\ Requests \subseteq ServiceIds
    BY DEF GatewayIInv, IInv, TypeOK, Steps, ServiceIds
  <1>1. CASE UNCHANGED vars
    BY <1>0, <1>1 DEF vars, FreshServices, HeldByRows
  <1>2. ASSUME NEW r \in Requests, Receive(r) PROVE FreshServices' /\ HeldByRows'
    <2>1. /\ pc[r] = "idle" /\ \E x : pc' = [pc EXCEPT ![r] = x]
          /\ UNCHANGED <<services, bookings, held>>
      BY <1>2 DEF Receive
    <2> QED
      BY <1>0, <2>1 DEF FreshServices, HeldByRows
  <1>3. ASSUME NEW r \in Requests, Moves(r) \/ Settles(r) \/ Respond(r) \/ Fail(r)
        PROVE  FreshServices' /\ HeldByRows'
    <2>1. /\ UNCHANGED <<services, bookings, held>>
          /\ \E x : pc' = [pc EXCEPT ![r] = x] /\ (x = "done" \/ pc[r] \in Steps \ {"respond"})
      BY <1>3 DEF Moves, Settles, Respond, Fail, Goto, Answer
    <2> QED
      BY <1>0, <2>1 DEF FreshServices, HeldByRows
  <1>4. ASSUME NEW r \in Requests, WritesCatalogue(r) PROVE FreshServices' /\ HeldByRows'
    <2>1. /\ pc' = [pc EXCEPT ![r] = "respond"]
          /\ UNCHANGED <<bookings, held>>
      BY <1>4 DEF WritesCatalogue, Committed
    <2>2. \A s \in ServiceIds : services[s] = Null /\ services'[s] # Null => s = r
      BY <1>4 DEF WritesCatalogue
    <2> QED
      BY <1>0, <2>1, <2>2 DEF FreshServices, HeldByRows
  <1>5. ASSUME NEW r \in Requests, Inserts(r) \/ WritesRow(r)
        PROVE  FreshServices' /\ HeldByRows'
    <2>1. /\ pc' = [pc EXCEPT ![r] = "respond"]
          /\ UNCHANGED services
      BY <1>5 DEF Inserts, WritesRow, Committed
    <2>2. FreshServices'
      BY <1>0, <2>1 DEF FreshServices
    <2>3. HeldByRows'
      <3> SUFFICES ASSUME NEW b \in BookingIds, bookings'[b] = Null PROVE held'[b] = {}
        BY DEF HeldByRows
      <3>1. bookings[b] = Null /\ held[b] = {}
        BY <1>0, <1>5, BookingsStay DEF HeldByRows
      <3>2. held'[b] = held[b]
        <4>1. CASE Inserts(r)
          <5>1. b # r
            BY <4>1, BookingsStay
          <5> QED
            BY <1>0, <4>1, <5>1 DEF Inserts
        <4>2. CASE WritesRow(r)
          <5>1. b # call[r].booking
            BY <3>1, <4>2 DEF WritesRow
          <5> QED
            BY <1>0, <4>2, <5>1 DEF WritesRow
        <4> QED
          BY <1>5, <4>1, <4>2
      <3> QED
        BY <3>1, <3>2
    <2> QED
      BY <2>2, <2>3
  <1>6. CASE Crash
    BY <1>0, <1>6 DEF Crash, InFlight, FreshServices, HeldByRows
  <1> QED
    BY <1>1, <1>2, <1>3, <1>4, <1>5, <1>6, StepKinds, StepShapes

LEMMA WrittenKept ==
    ASSUME IInv, GatewayIInv, [GatewayNext]_allVars
    PROVE  Written'
  <1> USE DEF tables, history
  <1> DEFINE Ok(q) ==
        /\ pc[q] \in {"idle"} \cup (Steps \ {"respond"}) => reply[q] = "None"
        /\ pc[q] = "respond" =>
            /\ reply[q] \in Successes
            /\ WritesBooking(q) => /\ bookings[Resource(q)] # Null
                                  /\ Gave(q) \in held[Resource(q)]
            /\ call[q].op = "deleteService" => Gone(call[q].service)
  <1>0. /\ Written /\ FreshServices
        /\ pc \in [Requests -> Steps \cup {"idle", "done", "lost"}]
        /\ reply \in [Requests -> Answers \cup {"None"}]
        /\ call \in [Requests -> Calls \cup {Null}]
        /\ bookings \in [BookingIds -> BookingRows \cup {Null}]
        /\ held \in [BookingIds -> SUBSET Status]
        /\ "done" \notin Steps /\ "lost" \notin Steps /\ "idle" \notin Steps
        /\ "respond" \in Steps
        /\ Requests \subseteq BookingIds
    BY DEF GatewayIInv, IInv, TypeOK, Steps, BookingIds
  <1>1. /\ \A b \in BookingIds : held[b] \subseteq held'[b]
        /\ \A s \in ServiceIds : Gone(s) => Gone(s)'
    BY NothingUndone
  \* A request that stays where it is keeps what it has written.
  <1>2. ASSUME NEW q \in Requests, pc'[q] = pc[q], reply'[q] = reply[q], call'[q] = call[q],
               \A b \in BookingIds : bookings[b] # Null => bookings'[b] # Null
        PROVE  Ok(q)'
    <2>1. pc[q] = "respond" => call[q] \in Calls
      BY <1>0, CallOfRequest
    <2>2. Resource(q)' = Resource(q) /\ Gave(q)' = Gave(q) /\ WritesBooking(q)' = WritesBooking(q)
      BY <1>2 DEF Resource, Gave, WritesBooking
    <2>3. pc[q] = "respond" /\ WritesBooking(q) =>
            bookings'[Resource(q)] # Null /\ Gave(q) \in held'[Resource(q)]
      BY <1>0, <1>1, <1>2, <2>1, Actions DEF Written
    <2>4. pc[q] = "respond" /\ call[q].op = "deleteService" => Gone(call[q].service)'
      <3> SUFFICES ASSUME pc[q] = "respond", call[q].op = "deleteService"
                   PROVE  Gone(call[q].service)'
        OBVIOUS
      <3> DEFINE s == call[q].service
      <3>1. s \in ServiceIds /\ Gone(s)
        BY <1>0, <2>1, CallFields DEF Written
      <3>2. /\ services'[s] = Null
            /\ s \in Requests => pc'[s] \in {"respond", "done", "lost"}
        BY <1>1, <3>1 DEF Gone
      <3> QED
        BY <1>2, <3>1, <3>2 DEF Gone
    <2> QED
      BY <1>0, <1>2, <2>2, <2>3, <2>4 DEF Written
  <1> SUFFICES \A q \in Requests : Ok(q)'
    BY DEF Written
  <1>3. CASE UNCHANGED vars
    BY <1>2, <1>3 DEF vars
  <1>4. ASSUME NEW r \in Requests, Receive(r) PROVE \A q \in Requests : Ok(q)'
    <2>1. PICK c \in Calls : /\ call' = [call EXCEPT ![r] = c]
                             /\ pc' = [pc EXCEPT ![r] = FirstStep[c.op]]
      BY <1>4 DEF Receive
    <2>2. pc[r] = "idle" /\ UNCHANGED <<services, bookings, reply, held>>
      BY <1>4 DEF Receive
    <2>3. FirstStep[c.op] # "respond"
      BY CallFields DEF FirstStep, Ops
    <2>4. Ok(r)'
      BY <1>0, <2>1, <2>2, <2>3 DEF Written
    <2>5. \A q \in Requests \ {r} : Ok(q)'
      BY <1>0, <1>2, <2>1, <2>2
    <2> QED
      BY <2>4, <2>5
  <1>5. ASSUME NEW r \in Requests, Moves(r) PROVE \A q \in Requests : Ok(q)'
    <2>1. pc[r] \in Steps \ {"respond"} /\ call[r].op \in Ops
      BY <1>5, CallOf DEF Moves, InFlight
    <2>2. PICK step \in HandlerSteps[call[r].op] : Goto(r, step)
      BY <1>5 DEF Moves
    <2>3. step \in Steps \ {"respond"}
      BY <2>1, StepsApart
    <2>4. UNCHANGED <<bookings, call, reply>> /\ pc' = [pc EXCEPT ![r] = step]
      BY <1>5, <2>2 DEF Moves, Goto
    <2>5. Ok(r)'
      BY <1>0, <2>1, <2>3, <2>4 DEF Written
    <2>6. \A q \in Requests \ {r} : Ok(q)'
      BY <1>0, <1>2, <2>4
    <2> QED
      BY <2>5, <2>6
  <1>6. ASSUME NEW r \in Requests, Settles(r) \/ Respond(r) \/ Fail(r)
        PROVE  \A q \in Requests : Ok(q)'
    <2>1. /\ pc' = [pc EXCEPT ![r] = "done"] /\ UNCHANGED <<bookings, call>>
          /\ \A q \in Requests \ {r} : reply'[q] = reply[q]
      BY <1>0, <1>6 DEF Settles, Respond, Fail, Answer
    <2>2. Ok(r)'
      BY <1>0, <2>1
    <2>3. \A q \in Requests \ {r} : Ok(q)'
      BY <1>0, <1>2, <2>1
    <2> QED
      BY <2>2, <2>3
  <1>7. ASSUME NEW r \in Requests, WritesCatalogue(r) PROVE \A q \in Requests : Ok(q)'
    <2>1. PICK a \in Successes : /\ pc' = [pc EXCEPT ![r] = "respond"]
                                 /\ reply' = [reply EXCEPT ![r] = a]
                                 /\ UNCHANGED <<bookings, call>>
      BY <1>7 DEF WritesCatalogue, Committed
    <2>2. /\ pc[r] \in Steps \ {"respond"} /\ call[r] \in Calls
          /\ call[r].op \in {"createService", "updateService", "deleteService"}
      BY <1>7, CallOf DEF WritesCatalogue, InFlight
    <2>3. ~WritesBooking(r)'
      BY <2>1, <2>2 DEF WritesBooking
    <2>4. call[r].op = "deleteService" => Gone(call[r].service)'
      <3> SUFFICES ASSUME call[r].op = "deleteService" PROVE Gone(call[r].service)'
        OBVIOUS
      <3> DEFINE s == call[r].service
      <3>1. s \in ServiceIds /\ services[s] # Null /\ services'[s] = Null
        BY <1>7, <2>2, CallFields DEF WritesCatalogue
      <3>2. s \in Requests => pc'[s] \in {"respond", "done", "lost"}
        BY <1>0, <2>1, <3>1 DEF FreshServices
      <3> QED
        BY <2>1, <3>1, <3>2 DEF Gone
    <2>5. Ok(r)'
      BY <1>0, <2>1, <2>3, <2>4
    <2>6. \A q \in Requests \ {r} : Ok(q)'
      BY <1>0, <1>2, <2>1
    <2> QED
      BY <2>5, <2>6
  <1>8. ASSUME NEW r \in Requests, Inserts(r) \/ WritesRow(r)
        PROVE  \A q \in Requests : Ok(q)'
    <2>1. /\ pc' = [pc EXCEPT ![r] = "respond"]
          /\ \E a \in Successes : reply' = [reply EXCEPT ![r] = a]
          /\ UNCHANGED call
      BY <1>8 DEF Inserts, WritesRow, Committed, Successes
    <2>2. \A b \in BookingIds : bookings[b] # Null => bookings'[b] # Null
      BY <1>8, BookingsStay
    <2>3. bookings'[Resource(r)] # Null /\ Gave(r) \in held'[Resource(r)]
      <3>1. CASE Inserts(r)
        <4>1. Resource(r) = r /\ Gave(r) = "PENDING"
          BY <3>1 DEF Inserts, Resource, Gave
        <4>2. held' = [held EXCEPT ![r] = {"PENDING"}] /\ r \in BookingIds
          BY <1>0, <3>1 DEF Inserts
        <4>3. held'[r] = {"PENDING"}
          BY <1>0, <4>2
        <4> QED
          BY <3>1, <4>1, <4>3, BookingsStay
      <3>2. CASE WritesRow(r)
        <4>1. Resource(r) = call[r].booking /\ Gave(r) = Target(r)
          BY <3>2 DEF WritesRow, Resource, Gave, Target
        <4> QED
          BY <1>0, <2>2, <3>2, <4>1 DEF WritesRow
      <3> QED
        BY <1>8, <3>1, <3>2
    <2>4. Resource(r)' = Resource(r) /\ Gave(r)' = Gave(r)
      BY <2>1 DEF Resource, Gave
    <2>5. call[r].op # "deleteService"
      BY <1>8 DEF Inserts, WritesRow
    <2>6. Ok(r)'
      BY <1>0, <2>1, <2>3, <2>4, <2>5
    <2>7. \A q \in Requests \ {r} : Ok(q)'
      BY <1>0, <1>2, <2>1, <2>2
    <2> QED
      BY <2>6, <2>7
  <1>9. CASE Crash
    <2>1. \A q \in Requests : Ok(q)'
      <3> SUFFICES ASSUME NEW q \in Requests PROVE Ok(q)'
        OBVIOUS
      <3>1. CASE InFlight(q)
        BY <1>0, <1>9, <3>1 DEF Crash
      <3>2. CASE ~InFlight(q)
        BY <1>2, <1>9, <3>2 DEF Crash
      <3> QED
        BY <3>1, <3>2
    <2> QED
      BY <2>1
  <1> QED
    BY <1>3, <1>4, <1>5, <1>6, <1>7, <1>8, <1>9, StepKinds, StepShapes

------------------------------------------------------------------------------
(* The trail.                                                                *)

\* The trail stays or gets the entry of the request that is answered.
LEMMA TrailGrows ==
    ASSUME IInv, [GatewayNext]_allVars
    PROVE  \/ trail' = trail
           \/ \E r \in Requests : /\ Respond(r)
                                  /\ IsLogged(call[r])
                                  /\ trail' = Append(trail, Entry(r))
                                  /\ caller' = caller
  <1>1. ASSUME NEW r \in Requests, Advance(r), LogIfDone(r)
        PROVE  \/ trail' = trail
               \/ Respond(r) /\ IsLogged(call[r]) /\ trail' = Append(trail, Entry(r))
    <2>1. pc[r] = "respond" => Respond(r)
      BY <1>1, StepShapes DEF Moves, Settles, WritesCatalogue, Inserts, WritesRow
    <2> QED
      BY <1>1, <2>1 DEF LogIfDone
  <1> QED
    BY <1>1 DEF GatewayNext, Arrive, Admit, TurnAway, Handle, FailInside, SetActive, CrashAll,
        allVars, audit, door

\* What an entry says when it is written.
LEMMA NewEntry ==
    ASSUME IInv, GatewayIInv, NEW r \in Requests, pc[r] = "respond", IsLogged(call[r])
    PROVE  LET e == Entry(r) IN
           /\ e \in Entries
           /\ e.request = r /\ e.resource = Resource(r) /\ e.action = Action(call[r])
           /\ e.userId = IF e.action = "BOOKING_CREATED" THEN Null ELSE caller[r]
           /\ e.action \in DOMAIN StatusTold <=> WritesBooking(r)
           /\ WritesBooking(r) => /\ StatusTold[e.action] = Gave(r)
                                  /\ e.resource \in BookingIds
                                  /\ Gave(r) \in held[e.resource]
           /\ e.action = "SERVICE_DELETED" => Gone(e.resource)
           /\ reply[r] \in Successes
           /\ call[r] \in Calls
  <1> DEFINE e == Entry(r)
  <1>1. e = [request |-> r, action |-> Action(call[r]),
             resource |-> Resource(r), userId |-> context[r]]
    BY DEF Entry
  <1>2. call[r] \in Calls /\ call[r].op \in Ops
    BY CallOfRequest
  <1>3. gate[r] = "inside" /\ call[r] = ask[r]
    BY DEF GatewayIInv, InItsPlace
  <1>4. context[r] = IF call[r].op = "createBooking" THEN Null ELSE caller[r]
    BY <1>3 DEF GatewayIInv, Checked, Protected
  <1>5. context[r] \in Accounts \cup {Null}
    BY DEF GatewayIInv, GatewayTypeOK
  <1>6. e \in Entries
    BY <1>1, <1>2, <1>5, Actions DEF Entries
  <1>7. /\ reply[r] \in Successes
        /\ WritesBooking(r) => Gave(r) \in held[Resource(r)]
        /\ call[r].op = "deleteService" => Gone(call[r].service)
    BY DEF GatewayIInv, Written
  <1>8. call[r].op = "deleteService" => Resource(r) = call[r].service
    BY DEF Resource
  <1>9. /\ Action(call[r]) = "BOOKING_CREATED" <=> call[r].op = "createBooking"
        /\ Action(call[r]) = "SERVICE_DELETED" <=> call[r].op = "deleteService"
        /\ Action(call[r]) \in DOMAIN StatusTold <=> WritesBooking(r)
        /\ WritesBooking(r) => /\ StatusTold[Action(call[r])] = Gave(r)
                               /\ Resource(r) \in BookingIds
    BY <1>2, Actions
  <1> QED
    BY <1>1, <1>2, <1>4, <1>6, <1>7, <1>8, <1>9

LEMMA TrailKept ==
    ASSUME IInv, GatewayIInv, [GatewayNext]_allVars
    PROVE  /\ trail' \in Seq(Entries)
           /\ TrailNamesCallers' /\ TrailIsTrue' /\ DeletedAreGone'
  <1>0. /\ trail \in Seq(Entries)
        /\ TrailNamesCallers /\ TrailIsTrue /\ DeletedAreGone
    BY DEF GatewayIInv, GatewayTypeOK
  <1>1. /\ \A q \in Requests : pc[q] = "done" =>
                /\ pc'[q] = "done" /\ reply'[q] = reply[q] /\ call'[q] = call[q]
                /\ caller'[q] = caller[q]
        /\ \A b \in BookingIds : held[b] \subseteq held'[b]
        /\ \A s \in ServiceIds : Gone(s) =>
                /\ services'[s] = Null
                /\ s \in Requests => pc'[s] \in {"respond", "done", "lost"}
    BY NothingUndone DEF Gone
  <1>2. \A i \in DOMAIN trail : trail[i] \in Entries
    BY <1>0
  \* What the entries of the trail say stays true.
  <1>3. \A i \in DOMAIN trail :
            /\ trail[i].request \in Requests
            /\ pc[trail[i].request] = "done" /\ pc'[trail[i].request] = "done"
            /\ reply'[trail[i].request] \in Successes
            /\ trail[i].userId = IF trail[i].action = "BOOKING_CREATED"
                                 THEN Null ELSE caller'[trail[i].request]
            /\ trail[i].action \in DOMAIN StatusTold =>
                    StatusTold[trail[i].action] \in held'[trail[i].resource]
            /\ trail[i].action = "SERVICE_DELETED" =>
                    /\ trail[i].resource \in ServiceIds
                    /\ services'[trail[i].resource] = Null
                    /\ trail[i].resource \in Requests =>
                        pc'[trail[i].resource] \in {"respond", "done", "lost"}
    <2> SUFFICES ASSUME NEW i \in DOMAIN trail
                 PROVE  /\ trail[i].request \in Requests
                        /\ pc[trail[i].request] = "done" /\ pc'[trail[i].request] = "done"
                        /\ reply'[trail[i].request] \in Successes
                        /\ trail[i].userId = IF trail[i].action = "BOOKING_CREATED"
                                             THEN Null ELSE caller'[trail[i].request]
                        /\ trail[i].action \in DOMAIN StatusTold =>
                            StatusTold[trail[i].action] \in held'[trail[i].resource]
                        /\ trail[i].action = "SERVICE_DELETED" =>
                            /\ trail[i].resource \in ServiceIds
                            /\ services'[trail[i].resource] = Null
                            /\ trail[i].resource \in Requests =>
                                pc'[trail[i].resource] \in {"respond", "done", "lost"}
      OBVIOUS
    <2>1. /\ trail[i].request \in Requests
          /\ trail[i].action \in DOMAIN StatusTold => trail[i].resource \in BookingIds
      BY <1>2 DEF Entries, StatusTold
    <2>2. pc[trail[i].request] = "done" /\ reply[trail[i].request] \in Successes
      BY <1>0 DEF TrailIsTrue
    <2>3. trail[i].userId = IF trail[i].action = "BOOKING_CREATED"
                            THEN Null ELSE caller[trail[i].request]
      BY <1>0 DEF TrailNamesCallers
    <2>4. trail[i].action \in DOMAIN StatusTold =>
            StatusTold[trail[i].action] \in held[trail[i].resource]
      BY <1>0 DEF TrailIsTrue, AboutBooking
    <2>5. trail[i].action = "SERVICE_DELETED" => Gone(trail[i].resource)
      BY <1>0 DEF DeletedAreGone
    <2>6. ASSUME trail[i].action = "SERVICE_DELETED"
          PROVE  /\ trail[i].resource \in ServiceIds
                 /\ services'[trail[i].resource] = Null
                 /\ trail[i].resource \in Requests =>
                        pc'[trail[i].resource] \in {"respond", "done", "lost"}
      <3> DEFINE s == trail[i].resource
      <3>1. s \in ServiceIds /\ Gone(s)
        BY <2>5, <2>6 DEF Gone
      <3> QED
        BY <1>1, <3>1
    <2> QED
      BY <1>1, <2>1, <2>2, <2>3, <2>4, <2>6
  <1>4. CASE trail' = trail
    <2>1. TrailNamesCallers'
      BY <1>3, <1>4 DEF TrailNamesCallers
    <2>2. TrailIsTrue'
      <3>1. \A i, j \in DOMAIN trail : trail[j].request = trail[i].request => i = j
        BY <1>0 DEF TrailIsTrue
      <3> QED
        BY <1>3, <1>4, <3>1 DEF TrailIsTrue, AboutBooking
    <2>3. DeletedAreGone'
      BY <1>3, <1>4 DEF DeletedAreGone, Gone
    <2> QED
      BY <1>0, <1>4, <2>1, <2>2, <2>3
  <1>5. ASSUME NEW r \in Requests, Respond(r), IsLogged(call[r]),
               trail' = Append(trail, Entry(r)), caller' = caller
        PROVE  /\ trail' \in Seq(Entries)
               /\ TrailNamesCallers' /\ TrailIsTrue' /\ DeletedAreGone'
    <2> DEFINE e == Entry(r)
               n == Len(trail) + 1
    <2>1. /\ pc[r] = "respond" /\ pc'[r] = "done"
          /\ UNCHANGED <<services, bookings, call, reply, held>>
      BY <1>5 DEF Respond, tables, history, IInv, TypeOK
    <2>2. /\ e \in Entries
          /\ e.request = r /\ e.resource = Resource(r) /\ e.action = Action(call[r])
          /\ e.userId = IF e.action = "BOOKING_CREATED" THEN Null ELSE caller[r]
          /\ e.action \in DOMAIN StatusTold <=> WritesBooking(r)
          /\ WritesBooking(r) => /\ StatusTold[e.action] = Gave(r)
                                 /\ e.resource \in BookingIds
                                 /\ Gave(r) \in held[e.resource]
          /\ e.action = "SERVICE_DELETED" => Gone(e.resource)
          /\ reply[r] \in Successes
      BY <1>5, <2>1, NewEntry
    <2> HIDE DEF e
    <2>3. /\ trail' \in Seq(Entries)
          /\ DOMAIN trail' = DOMAIN trail \cup {n}
          /\ trail'[n] = e
          /\ \A i \in DOMAIN trail : i # n /\ trail'[i] = trail[i]
      <3>1. trail' = Append(trail, e)
        BY <1>5 DEF e
      <3> QED
        BY <1>0, <2>2, <3>1, AppendFacts
    <2> HIDE DEF n
    <2>4. \A i \in DOMAIN trail : trail[i].request # r
      BY <1>3, <2>1
    <2>5. TrailNamesCallers'
      BY <1>3, <1>5, <2>2, <2>3 DEF TrailNamesCallers
    <2>6. TrailIsTrue'
      <3>1. \A i, j \in DOMAIN trail : trail[j].request = trail[i].request => i = j
        BY <1>0 DEF TrailIsTrue
      <3>2. \A i, j \in DOMAIN trail' : trail'[j].request = trail'[i].request => i = j
        BY <2>2, <2>3, <2>4, <3>1
      <3>3. e.action = "SERVICE_DELETED" => services'[e.resource] = Null
        BY <2>1, <2>2 DEF Gone
      <3> QED
        BY <1>3, <2>1, <2>2, <2>3, <3>2, <3>3 DEF TrailIsTrue, AboutBooking
    <2>7. DeletedAreGone'
      <3>1. e.action = "SERVICE_DELETED" =>
                /\ e.resource \in ServiceIds
                /\ services'[e.resource] = Null
                /\ e.resource \in Requests =>
                    pc'[e.resource] \in {"respond", "done", "lost"}
        BY <1>1, <2>2 DEF Gone
      <3> QED
        BY <1>3, <2>3, <3>1 DEF DeletedAreGone, Gone
    <2> QED
      BY <2>3, <2>5, <2>6, <2>7
  <1> QED
    BY <1>4, <1>5, TrailGrows

------------------------------------------------------------------------------
(* Every success is in the trail.                                            *)

\* A request is done when its handler settles, answers after its write or fails.
LEMMA Finishes ==
    ASSUME IInv, [GatewayNext]_allVars, NEW q \in Requests, pc[q] # "done", pc'[q] = "done"
    PROVE  /\ Settles(q) \/ (Respond(q) /\ LogIfDone(q)) \/ Fail(q)
           /\ call' = call
  <1>0. /\ pc \in [Requests -> Steps \cup {"idle", "done", "lost"}]
        /\ "done" \notin Steps
    BY DEF IInv, TypeOK, Steps
  <1>1. ASSUME NEW r \in Requests, NEW x, pc' = [pc EXCEPT ![r] = x] PROVE r = q /\ x = "done"
    BY <1>0, <1>1
  <1>2. ASSUME NEW r \in Requests, Receive(r) PROVE FALSE
    <2>1. PICK c \in Calls : pc' = [pc EXCEPT ![r] = FirstStep[c.op]]
      BY <1>2 DEF Receive
    <2>2. FirstStep[c.op] # "done"
      BY CallFields DEF FirstStep, Ops
    <2> QED
      BY <1>1, <2>1, <2>2
  <1>3. ASSUME NEW r \in Requests, Moves(r) PROVE FALSE
    <2>1. call[r].op \in Ops
      BY <1>3, CallOf DEF Moves, InFlight
    <2>2. PICK step \in HandlerSteps[call[r].op] : Goto(r, step)
      BY <1>3 DEF Moves
    <2>3. step \in Steps
      BY <2>1, StepsApart
    <2> QED
      BY <1>0, <1>1, <2>2, <2>3 DEF Goto
  <1>4. ASSUME NEW r \in Requests, WritesCatalogue(r) \/ Inserts(r) \/ WritesRow(r)
        PROVE  FALSE
    <2>1. pc' = [pc EXCEPT ![r] = "respond"]
      BY <1>4 DEF WritesCatalogue, Inserts, WritesRow, Committed
    <2> QED
      BY <1>1, <2>1
  <1>5. ASSUME NEW r \in Requests, Settles(r) \/ Respond(r) \/ Fail(r)
        PROVE  r = q /\ call' = call
    <2>1. pc' = [pc EXCEPT ![r] = "done"] /\ call' = call
      BY <1>5 DEF Settles, Respond, Fail, Answer
    <2> QED
      BY <1>1, <2>1
  <1>6. CASE Crash
    BY <1>0, <1>6 DEF Crash
  <1>7. CASE UNCHANGED vars
    BY <1>7 DEF vars
  <1> QED
    BY <1>2, <1>3, <1>4, <1>5, <1>6, <1>7, StepKinds, StepShapes

LEMMA MissesNothingKept ==
    ASSUME IInv, GatewayIInv, [GatewayNext]_allVars
    PROVE  TrailMissesNothing'
  <1>0. trail \in Seq(Entries) /\ TrailMissesNothing
    BY DEF GatewayIInv, GatewayTypeOK
  <1>1. /\ \A q \in Requests : pc[q] = "done" =>
                pc'[q] = "done" /\ reply'[q] = reply[q] /\ call'[q] = call[q]
        /\ \A b \in BookingIds : held[b] \subseteq held'[b]
    BY NothingUndone
  <1>2. \A i \in DOMAIN trail : i \in DOMAIN trail' /\ trail'[i] = trail[i]
    <2>1. ASSUME NEW r \in Requests, Respond(r), IsLogged(call[r]),
                 trail' = Append(trail, Entry(r))
          PROVE  \A i \in DOMAIN trail : i \in DOMAIN trail' /\ trail'[i] = trail[i]
      <3>1. Entry(r) \in Entries
        BY <2>1, NewEntry DEF Respond
      <3> QED
        BY <1>0, <2>1, <3>1, AppendFacts
    <2> QED
      BY <2>1, TrailGrows
  <1> SUFFICES ASSUME NEW q \in Requests,
                      pc'[q] = "done", reply'[q] \in Successes,
                      call'[q].op = "updateStatus" => call'[q].status # "PENDING"
               PROVE  \/ \E i \in DOMAIN trail' : trail'[i].request = q
                      \/ /\ call'[q].op = "cancelBooking"
                         /\ "CANCELLED" \in held'[call'[q].booking]
    BY DEF TrailMissesNothing
  <1>3. CASE pc[q] = "done"
    <2>1. CASE \E i \in DOMAIN trail : trail[i].request = q
      BY <1>2, <2>1
    <2>2. CASE call[q].op = "cancelBooking" /\ "CANCELLED" \in held[call[q].booking]
      <3>1. call[q].booking \in BookingIds
        BY <1>3, <2>2, CallOfRequest, CallFields
      <3> QED
        BY <1>1, <1>3, <2>2, <3>1
    <2> QED
      BY <1>0, <1>1, <1>3, <2>1, <2>2 DEF TrailMissesNothing
  <1>4. CASE pc[q] # "done"
    <2>1. (Settles(q) \/ (Respond(q) /\ LogIfDone(q)) \/ Fail(q)) /\ call' = call
      BY <1>4, Finishes
    <2>2. CASE Settles(q)
      <3>1. PICK a \in Answers :
                /\ Answer(q, a)
                /\ a \in Successes => /\ call[q].op = "cancelBooking"
                                      /\ bookings[call[q].booking] # Null
                                      /\ bookings[call[q].booking].status = "CANCELLED"
        BY <2>2 DEF Settles
      <3>2. reply'[q] = a
        BY <3>1 DEF Answer, IInv, TypeOK
      <3>3. /\ call[q].op = "cancelBooking"
            /\ bookings[call[q].booking] # Null
            /\ bookings[call[q].booking].status = "CANCELLED"
        BY <3>1, <3>2
      <3>4. InFlight(q)
        BY <2>2 DEF Settles, InFlight
      <3>5. call[q].booking \in BookingIds
        BY <3>3, <3>4, CallOf, CallFields
      <3>6. "CANCELLED" \in held[call[q].booking]
        BY <3>3, <3>5 DEF IInv, ConfirmedFirst
      <3> QED
        BY <1>1, <2>1, <3>3, <3>5, <3>6
    <2>3. CASE Respond(q) /\ LogIfDone(q)
      <3>1. pc[q] = "respond"
        BY <2>3 DEF Respond
      <3>2. call[q] \in Calls
        BY <3>1, CallOfRequest
      <3>3. IsLogged(call[q])
        BY <2>1, <3>2, Actions
      <3>4. trail' = Append(trail, Entry(q))
        BY <2>3, <3>1, <3>3 DEF LogIfDone
      <3>5. Entry(q) \in Entries /\ Entry(q).request = q
        BY <3>1, <3>3, NewEntry
      <3>6. /\ DOMAIN trail' = DOMAIN trail \cup {Len(trail) + 1}
            /\ trail'[Len(trail) + 1] = Entry(q)
        BY <1>0, <3>4, <3>5, AppendFacts
      <3> QED
        BY <3>5, <3>6
    <2>4. CASE Fail(q)
      BY <2>4 DEF Fail, Answer, IInv, TypeOK, Successes
    <2> QED
      BY <2>1, <2>2, <2>3, <2>4
  <1> QED
    BY <1>3, <1>4

------------------------------------------------------------------------------
(* The bookings two requests were at work on.                                *)

\* Request r disturbs its booking exactly when it writes it beside another.
LEMMA Disturbs ==
    ASSUME IInv, NEW r \in Requests, Advance(r), Disturb(r)
    PROVE  /\ WritesRow(r) => disturbed' =
                IF AtWorkOn(call[r].booking) \ {r} # {}
                THEN disturbed \cup {call[r].booking} ELSE disturbed
           /\ ~WritesRow(r) => disturbed' = disturbed
  <1>0. pc \in [Requests -> Steps \cup {"idle", "done", "lost"}]
    BY DEF IInv, TypeOK
  <1>1. WritesRow(r) => WritesStatus(r)
    BY <1>0 DEF WritesRow, WritesStatus, Committed
  <1>2. ASSUME WritesStatus(r) PROVE WritesRow(r)
    <2>1. InFlight(r) /\ pc[r] \in {"writeStatus", "writeCancel"} /\ pc'[r] = "respond"
      BY <1>2 DEF WritesStatus, InFlight, Steps
    <2>2. call[r].op \in Ops /\ call[r].op \notin {"createService", "updateService", "deleteService"}
      BY <2>1, CallOf, StepsApart
    <2>3. ~Moves(r)
      BY <1>0, <2>1, <2>2, StepsApart DEF Moves, Goto
    <2>4. ~Settles(r)
      BY <1>0, <2>1 DEF Settles, Answer
    <2> QED
      BY <2>1, <2>2, <2>3, <2>4, StepShapes DEF WritesCatalogue, Inserts, Respond
  <1> QED
    BY <1>1, <1>2 DEF Disturb

LEMMA DisturbedKept ==
    ASSUME IInv, GatewayIInv, [GatewayNext]_allVars
    PROVE  disturbed' \in SUBSET BookingIds /\ disturbed \subseteq disturbed'
           /\ OvertakenIsDisturbed'
  <1> USE DEF audit
  <1>0. /\ disturbed \in SUBSET BookingIds /\ OvertakenIsDisturbed
        /\ pc \in [Requests -> Steps \cup {"idle", "done", "lost"}]
        /\ overtaken \in SUBSET Requests
    BY DEF GatewayIInv, GatewayTypeOK, IInv, TypeOK
  <1>1. ASSUME UNCHANGED <<overtaken, call>>, disturbed' = disturbed,
               \A q \in Requests : pc'[q] = "idle" <=> pc[q] = "idle"
        PROVE  OvertakenIsDisturbed'
    BY <1>0, <1>1 DEF OvertakenIsDisturbed
  <1>2. CASE UNCHANGED vars /\ UNCHANGED audit
    BY <1>0, <1>1, <1>2 DEF vars
  <1>3. ASSUME NEW r \in Requests, Receive(r), UNCHANGED audit
        PROVE  disturbed' = disturbed /\ OvertakenIsDisturbed'
    <2>1. PICK c \in Calls : /\ call' = [call EXCEPT ![r] = c]
                             /\ pc' = [pc EXCEPT ![r] = FirstStep[c.op]]
      BY <1>3 DEF Receive
    <2>2. pc[r] = "idle" /\ overtaken' = overtaken /\ disturbed' = disturbed
      BY <1>3 DEF Receive, history
    <2>3. \A q \in overtaken : q # r
      BY <1>0, <2>2 DEF OvertakenIsDisturbed
    <2>4. \A q \in overtaken : pc'[q] = pc[q] /\ call'[q] = call[q]
      BY <1>0, <2>1, <2>3 DEF IInv, TypeOK
    <2> QED
      BY <1>0, <2>2, <2>4 DEF OvertakenIsDisturbed
  <1>4. ASSUME NEW r \in Requests, Advance(r), Disturb(r), ~WritesRow(r)
        PROVE  disturbed' = disturbed /\ OvertakenIsDisturbed'
    <2>1. disturbed' = disturbed
      BY <1>4, Disturbs
    <2>2. SparesStatusWrites
      BY <1>4, StepShapes DEF Moves, Settles, WritesCatalogue, Inserts, Respond, history,
        SparesStatusWrites
    <2>3. call' = call /\ \A q \in Requests : pc'[q] = "idle" <=> pc[q] = "idle"
      BY <1>4, NobodyEnters
    <2>4. overtaken' \in SUBSET Requests
      BY <1>4, NextInvariant DEF IInv, TypeOK, Next
    <2> QED
      BY <1>0, <2>1, <2>2, <2>3, <2>4 DEF OvertakenIsDisturbed, SparesStatusWrites
  <1>5. ASSUME NEW r \in Requests, Advance(r), Disturb(r), WritesRow(r)
        PROVE  disturbed' \in SUBSET BookingIds /\ disturbed \subseteq disturbed'
               /\ OvertakenIsDisturbed'
    <2> DEFINE b == call[r].booking
    <2>1. /\ disturbed' = IF AtWorkOn(b) \ {r} # {} THEN disturbed \cup {b} ELSE disturbed
          /\ b \in BookingIds
          /\ overtaken' = overtaken \cup AboutToWrite(b, r)
      BY <1>5, Disturbs DEF WritesRow
    <2>2. call' = call /\ \A q \in Requests : pc'[q] = "idle" <=> pc[q] = "idle"
      BY <1>5, NobodyEnters
    <2>3. \A q \in AboutToWrite(b, r) :
            q \in AtWorkOn(b) \ {r} /\ pc[q] # "idle" /\ call[q].booking = b
      BY DEF AboutToWrite, AtWorkOn
    <2>4. ASSUME NEW q \in overtaken'
          PROVE  /\ pc'[q] # "idle"
                 /\ call'[q].op \in {"updateStatus", "cancelBooking"}
                        => call'[q].booking \in disturbed'
      <3>1. CASE q \in overtaken
        BY <1>0, <2>1, <2>2, <3>1 DEF OvertakenIsDisturbed
      <3>2. CASE q \in AboutToWrite(b, r)
        <4>1. q \in Requests
          BY <3>2 DEF AboutToWrite
        <4> QED
          BY <2>1, <2>2, <2>3, <3>2, <4>1
      <3> QED
        BY <2>1, <2>4, <3>1, <3>2
    <2> QED
      BY <1>0, <2>1, <2>4 DEF OvertakenIsDisturbed
  <1>6. ASSUME NEW r \in Requests, Fail(r), UNCHANGED audit
        PROVE  disturbed' = disturbed /\ OvertakenIsDisturbed'
    <2>1. overtaken' = overtaken /\ disturbed' = disturbed
      BY <1>6 DEF Fail, history
    <2> QED
      BY <1>1, <1>6, <2>1, NobodyEnters
  <1>7. CASE Crash /\ UNCHANGED audit
    <2>1. overtaken' = overtaken /\ disturbed' = disturbed
      BY <1>7 DEF Crash, history
    <2> QED
      BY <1>0, <1>1, <1>7, <2>1, NobodyEnters
  <1> QED
    BY <1>0, <1>2, <1>3, <1>4, <1>5, <1>6, <1>7, StepKinds

------------------------------------------------------------------------------
(* The trail of a booking and its status.                                    *)

\* What becomes of a request whose write is behind it.
LEMMA Aftermath ==
    ASSUME IInv, [GatewayNext]_allVars, NEW q \in Requests, pc[q] \in {"respond", "done", "lost"}
    PROVE  \/ Respond(q) /\ LogIfDone(q)
           \/ /\ call'[q] = call[q]
              /\ \/ pc'[q] = pc[q] /\ reply'[q] = reply[q]
                 \/ pc'[q] = "lost"
                 \/ pc'[q] = "done" /\ reply'[q] = "DbError"
  <1>0. /\ pc \in [Requests -> Steps \cup {"idle", "done", "lost"}]
        /\ reply \in [Requests -> Answers \cup {"None"}]
        /\ call \in [Requests -> Calls \cup {Null}]
        /\ "done" \notin Steps /\ "lost" \notin Steps /\ "idle" \notin Steps
    BY DEF IInv, TypeOK, Steps
  <1>1. ASSUME NEW r \in Requests, Receive(r)
        PROVE  call'[q] = call[q] /\ pc'[q] = pc[q] /\ reply'[q] = reply[q]
    <2>1. /\ pc[r] = "idle" /\ reply' = reply
          /\ \E x, y : pc' = [pc EXCEPT ![r] = x] /\ call' = [call EXCEPT ![r] = y]
      BY <1>1 DEF Receive
    <2> QED
      BY <1>0, <2>1
  <1>2. ASSUME NEW r \in Requests,
               Moves(r) \/ Settles(r) \/ WritesCatalogue(r) \/ Inserts(r) \/ WritesRow(r)
        PROVE  call'[q] = call[q] /\ pc'[q] = pc[q] /\ reply'[q] = reply[q]
    <2>1. pc[r] \in Steps \ {"respond"}
      BY <1>2 DEF Moves, Settles, WritesCatalogue, Inserts, WritesRow, Steps
    <2>2. /\ call' = call /\ \E x : pc' = [pc EXCEPT ![r] = x]
          /\ reply' = reply \/ \E a : reply' = [reply EXCEPT ![r] = a]
      <3>1. CASE Moves(r)
        BY <3>1 DEF Moves, Goto
      <3>2. CASE Settles(r)
        BY <3>2 DEF Settles, Answer
      <3>3. CASE WritesCatalogue(r)
        BY <3>3 DEF WritesCatalogue, Committed
      <3>4. CASE Inserts(r) \/ WritesRow(r)
        BY <3>4 DEF Inserts, WritesRow, Committed
      <3> QED
        BY <1>2, <3>1, <3>2, <3>3, <3>4
    <2> QED
      BY <1>0, <2>1, <2>2
  <1>3. ASSUME NEW r \in Requests, Respond(r), LogIfDone(r)
        PROVE  \/ Respond(q) /\ LogIfDone(q)
               \/ call'[q] = call[q] /\ pc'[q] = pc[q] /\ reply'[q] = reply[q]
    BY <1>0, <1>3 DEF Respond
  <1>4. ASSUME NEW r \in Requests, Fail(r)
        PROVE  /\ call'[q] = call[q]
               /\ \/ pc'[q] = pc[q] /\ reply'[q] = reply[q]
                  \/ pc'[q] = "done" /\ reply'[q] = "DbError"
    BY <1>0, <1>4 DEF Fail, Answer
  <1>5. CASE Crash
    BY <1>0, <1>5 DEF Crash, InFlight
  <1>6. CASE UNCHANGED vars
    BY <1>6 DEF vars
  <1> QED
    BY <1>1, <1>2, <1>3, <1>4, <1>5, <1>6, StepKinds, StepShapes

\* A write that goes unlogged stays unlogged.
LEMMA MissedStays ==
    ASSUME IInv, GatewayIInv, [GatewayNext]_allVars, NEW q \in Requests, NEW b,
           MissesEntry(q, b)
    PROVE  MissesEntry(q, b)' \/ (Respond(q) /\ LogIfDone(q) /\ IsLogged(call[q]))
  <1>1. /\ call[q] # Null /\ WritesBooking(q) /\ Resource(q) = b
        /\ pc[q] \in {"respond", "lost"} \/ reply[q] = "DbError"
        /\ ~(pc[q] = "respond" /\ ~IsLogged(call[q]))
    BY DEF MissesEntry, MayHaveWrittenUnlogged
  <1>2. pc[q] \in {"respond", "done", "lost"}
    <2>1. pc[q] \in Steps \cup {"idle", "done", "lost"}
      BY DEF IInv, TypeOK
    <2>2. pc[q] \in {"idle"} \cup (Steps \ {"respond"}) => reply[q] = "None"
      BY DEF GatewayIInv, Written
    <2> QED
      BY <1>1, <2>1, <2>2 DEF Steps
  <1>3. pc[q] = "respond" => reply[q] # "DbError"
    BY DEF GatewayIInv, Written, Successes
  <1>4. CASE /\ call'[q] = call[q]
             /\ \/ pc'[q] = pc[q] /\ reply'[q] = reply[q]
                \/ pc'[q] = "lost"
                \/ pc'[q] = "done" /\ reply'[q] = "DbError"
    <2>1. WritesBooking(q)' /\ Resource(q)' = b
      BY <1>1, <1>4 DEF WritesBooking, Resource
    <2>2. pc'[q] \in {"respond", "lost"} \/ reply'[q] = "DbError"
      BY <1>1, <1>4
    <2>3. ~(pc'[q] = "respond" /\ ~IsLogged(call'[q]))
      BY <1>1, <1>4
    <2> QED
      BY <1>1, <1>4, <2>1, <2>2, <2>3 DEF MissesEntry, MayHaveWrittenUnlogged
  <1>5. CASE Respond(q) /\ LogIfDone(q)
    BY <1>1, <1>5 DEF Respond
  <1> QED
    BY <1>2, <1>4, <1>5, Aftermath

\* A step that writes no booking and no entry tells nothing new.
LEMMA NothingToTell ==
    ASSUME IInv, GatewayIInv, [GatewayNext]_allVars,
           UNCHANGED <<bookings, trail>>,
           \A q \in Requests : pc'[q] = "respond" /\ WritesBooking(q)' =>
                pc[q] = "respond" /\ call'[q] = call[q],
           \A q \in Requests : ~(Respond(q) /\ LogIfDone(q) /\ IsLogged(call[q]))
    PROVE  OneLogsAtATime' /\ TrailTells'
  <1>0. disturbed \subseteq disturbed' /\ OneLogsAtATime /\ TrailTells
    BY DisturbedKept DEF GatewayIInv
  <1>1. \A b : \A q \in Requests : AboutToLog(q, b)' =>
            AboutToLog(q, b) /\ Gave(q)' = Gave(q)
    BY DEF AboutToLog, WritesBooking, Resource, Gave
  <1>2. OneLogsAtATime'
    BY <1>0, <1>1 DEF OneLogsAtATime
  <1>3. \A b : \A q \in Requests : MissesEntry(q, b) => MissesEntry(q, b)'
    BY MissedStays
  <1>4. TrailTells'
    BY <1>0, <1>3 DEF TrailTells, LastAbout, AboutBooking
  <1> QED
    BY <1>2, <1>4

\* A booking that is made is told by the entry to come.
LEMMA InsertTells ==
    ASSUME IInv, GatewayIInv, [GatewayNext]_allVars, NEW r \in Requests, Inserts(r),
           trail' = trail
    PROVE  OneLogsAtATime' /\ TrailTells'
  <1> USE StoreAssumption
  <1>0. /\ disturbed \subseteq disturbed' /\ OneLogsAtATime /\ TrailTells /\ Written
        /\ pc \in [Requests -> Steps \cup {"idle", "done", "lost"}]
        /\ r \in BookingIds
    BY DisturbedKept DEF GatewayIInv, IInv, TypeOK, BookingIds
  <1>1. /\ pc[r] = "insertBooking" /\ call[r].op = "createBooking" /\ bookings[r] = Null
        /\ pc' = [pc EXCEPT ![r] = "respond"] /\ call' = call
    BY DEF Inserts, Committed
  <1>2. /\ bookings'[r].status = "PENDING"
        /\ \A b \in BookingIds \ {r} : bookings'[b] = bookings[b]
    <2>1. /\ bookings'[r] = NewBooking(call[r])
          /\ \A b \in BookingIds \ {r} : bookings'[b] = bookings[b]
      BY BookingsStay
    <2> QED
      BY <2>1 DEF NewBooking
  <1>3. WritesBooking(r) /\ Resource(r) = r /\ Gave(r) = "PENDING" /\ IsLogged(call[r])
    BY <1>1 DEF WritesBooking, Resource, Gave, IsLogged
  <1>4. call[r] # Null
    BY <1>1, CallOf DEF InFlight, Steps
  <1>5. \A q \in Requests \ {r} : pc'[q] = pc[q]
    BY <1>0, <1>1
  <1>6. pc'[r] = "respond" /\ pc[r] # "respond"
    BY <1>0, <1>1
  <1>7. \A q \in Requests : AboutToLog(q, r)' => q = r
    <2> SUFFICES ASSUME NEW q \in Requests \ {r}, AboutToLog(q, r)' PROVE FALSE
      OBVIOUS
    <2>1. pc[q] = "respond" /\ WritesBooking(q) /\ Resource(q) = r
      BY <1>1, <1>5 DEF AboutToLog, WritesBooking, Resource
    <2> QED
      BY <1>0, <1>1, <2>1 DEF Written
  <1>8. \A b \in BookingIds \ {r} : \A q \in Requests : AboutToLog(q, b)' =>
            AboutToLog(q, b) /\ Gave(q)' = Gave(q)
    BY <1>1, <1>3, <1>5 DEF AboutToLog, WritesBooking, Resource, Gave
  <1>9. Gave(r)' = "PENDING"
    BY <1>1, <1>3 DEF Gave
  <1>10. OneLogsAtATime'
    <2> SUFFICES ASSUME NEW b \in BookingIds \ disturbed', NEW p \in Requests,
                        AboutToLog(p, b)'
                 PROVE  /\ bookings'[b].status = Gave(p)'
                        /\ \A q \in Requests : AboutToLog(q, b)' => q = p
      BY DEF OneLogsAtATime
    <2>1. CASE b = r
      BY <1>2, <1>7, <1>9, <2>1
    <2>2. CASE b # r
      BY <1>0, <1>2, <1>8, <2>2 DEF OneLogsAtATime
    <2> QED
      BY <2>1, <2>2
  <1>11. MissesEntry(r, r)'
    BY <1>1, <1>3, <1>4, <1>6
    DEF MissesEntry, MayHaveWrittenUnlogged, WritesBooking, Resource, IsLogged
  <1>12. \A b : \A q \in Requests : MissesEntry(q, b) => MissesEntry(q, b)'
    <2>1. \A q \in Requests : ~(Respond(q) /\ LogIfDone(q) /\ IsLogged(call[q]))
      BY <1>5, <1>6 DEF Respond, IInv, TypeOK
    <2> QED
      BY <2>1, MissedStays
  <1>13. TrailTells'
    <2> SUFFICES ASSUME NEW b \in BookingIds \ disturbed',
                        \A q \in Requests : ~MissesEntry(q, b)',
                        NEW i \in DOMAIN trail, LastAbout(i, b)'
                 PROVE  bookings'[b].status = StatusTold[trail[i].action]
      BY DEF TrailTells
    <2>1. b # r
      BY <1>11
    <2>2. LastAbout(i, b)
      BY DEF LastAbout, AboutBooking
    <2> QED
      BY <1>0, <1>2, <1>12, <2>1, <2>2 DEF TrailTells
  <1> QED
    BY <1>10, <1>13

\* A write beside no other request is told by the entry to come, or changes
\* nothing.
LEMMA WriteTells ==
    ASSUME IInv, GatewayIInv, [GatewayNext]_allVars, NEW r \in Requests, WritesRow(r),
           trail' = trail,
           disturbed' = IF AtWorkOn(call[r].booking) \ {r} # {}
                        THEN disturbed \cup {call[r].booking} ELSE disturbed
    PROVE  OneLogsAtATime' /\ TrailTells'
  <1> DEFINE c == call[r].booking
  <1>0. /\ disturbed \subseteq disturbed' /\ OneLogsAtATime /\ TrailTells /\ Written
        /\ OvertakenIsDisturbed
        /\ pc \in [Requests -> Steps \cup {"idle", "done", "lost"}]
    BY DisturbedKept DEF GatewayIInv, IInv, TypeOK
  <1>1. /\ pc[r] \in {"writeStatus", "writeCancel"} /\ c \in BookingIds
        /\ call[r].op = IF pc[r] = "writeStatus" THEN "updateStatus" ELSE "cancelBooking"
        /\ pc' = [pc EXCEPT ![r] = "respond"] /\ call' = call
    BY DEF WritesRow, Committed
  <1>2. /\ bookings'[c].status = Target(r)
        /\ \A b \in BookingIds \ {c} : bookings'[b] = bookings[b]
    BY BookingsStay
  <1>3. WritesBooking(r) /\ Resource(r) = c /\ Gave(r) = Target(r)
    BY <1>1 DEF WritesBooking, Resource, Gave, Target
  <1>4. call[r] \in Calls /\ call[r] # Null
    BY <1>1, CallOf, StoreAssumption DEF InFlight, Steps
  <1>5. \A q \in Requests \ {r} : pc'[q] = pc[q]
    BY <1>0, <1>1
  <1>6. pc'[r] = "respond" /\ pc[r] # "respond"
    BY <1>0, <1>1
  <1>7. \A b : \A q \in Requests \ {r} : AboutToLog(q, b)' =>
            AboutToLog(q, b) /\ Gave(q)' = Gave(q)
    BY <1>1, <1>5 DEF AboutToLog, WritesBooking, Resource, Gave
  <1>8. c \notin disturbed' => \A q \in Requests \ {r} : ~AboutToLog(q, c)
    <2> SUFFICES ASSUME c \notin disturbed', NEW q \in Requests \ {r}, AboutToLog(q, c)
                 PROVE  FALSE
      OBVIOUS
    <2>1. q \in AtWorkOn(c) \ {r}
      BY DEF AtWorkOn, AboutToLog
    <2> QED
      BY <2>1
  <1>9. AboutToLog(r, c)' /\ Gave(r)' = Gave(r) /\ \A b : AboutToLog(r, b)' => b = c
    BY <1>1, <1>3, <1>6 DEF AboutToLog, WritesBooking, Resource, Gave
  <1>10. OneLogsAtATime'
    <2> SUFFICES ASSUME NEW b \in BookingIds \ disturbed', NEW p \in Requests,
                        AboutToLog(p, b)'
                 PROVE  /\ bookings'[b].status = Gave(p)'
                        /\ \A q \in Requests : AboutToLog(q, b)' => q = p
      BY DEF OneLogsAtATime
    <2>1. CASE b = c
      <3>1. \A q \in Requests : AboutToLog(q, b)' => q = r
        BY <1>7, <1>8, <2>1
      <3> QED
        BY <1>2, <1>3, <1>9, <2>1, <3>1
    <2>2. CASE b # c
      <3>1. \A q \in Requests : AboutToLog(q, b)' => AboutToLog(q, b) /\ Gave(q)' = Gave(q)
        BY <1>7, <1>9, <2>2
      <3> QED
        BY <1>0, <1>2, <2>2, <3>1 DEF OneLogsAtATime
    <2> QED
      BY <2>1, <2>2
  <1>11. IsLogged(call[r]) => \A b : b = c => MissesEntry(r, b)'
    BY <1>1, <1>3, <1>4, <1>6
    DEF MissesEntry, MayHaveWrittenUnlogged, WritesBooking, Resource
  <1>12. ~IsLogged(call[r]) /\ c \notin disturbed' => bookings'[c].status = bookings[c].status
    <2> SUFFICES ASSUME ~IsLogged(call[r]), c \notin disturbed'
                 PROVE  bookings'[c].status = bookings[c].status
      OBVIOUS
    <2>1. call[r].op = "updateStatus" /\ call[r].status = "PENDING"
      BY <1>4, Actions
    <2>2. Target(r) = "PENDING"
      BY <1>1, <2>1 DEF Target
    <2>3. r \notin overtaken
      BY <1>0, <2>1 DEF OvertakenIsDisturbed
    <2>4. Validate(bookings[c].status, "PENDING") = "Valid"
      BY <1>1, <2>2, <2>3 DEF IInv, ValidUnlessOvertaken
    <2>5. bookings[c] \in BookingRows
      BY <1>1 DEF IInv, TypeOK, WritesRow
    <2>6. bookings[c].status \in Status
      BY <2>5 DEF BookingRows
    <2>7. bookings[c].status = "PENDING"
      BY <2>4, <2>6 DEF Validate, ValidTransitions, Status
    <2> QED
      BY <1>2, <2>2, <2>7
  <1>13. \A b : \A q \in Requests : MissesEntry(q, b) => MissesEntry(q, b)'
    <2>1. \A q \in Requests : ~(Respond(q) /\ LogIfDone(q) /\ IsLogged(call[q]))
      BY <1>5, <1>6 DEF Respond, IInv, TypeOK
    <2> QED
      BY <2>1, MissedStays
  <1>14. TrailTells'
    <2> SUFFICES ASSUME NEW b \in BookingIds \ disturbed',
                        \A q \in Requests : ~MissesEntry(q, b)',
                        NEW i \in DOMAIN trail, LastAbout(i, b)'
                 PROVE  bookings'[b].status = StatusTold[trail[i].action]
      BY DEF TrailTells
    <2>1. LastAbout(i, b)
      BY DEF LastAbout, AboutBooking
    <2>2. bookings'[b].status = bookings[b].status
      <3>1. CASE b = c
        <4>1. ~IsLogged(call[r])
          BY <1>11, <3>1
        <4> QED
          BY <1>12, <3>1, <4>1
      <3>2. CASE b # c
        BY <1>2, <3>2
      <3> QED
        BY <3>1, <3>2
    <2> QED
      BY <1>0, <1>13, <2>1, <2>2 DEF TrailTells
  <1> QED
    BY <1>10, <1>14

\* An entry that is written tells the status its request gave.
LEMMA EntryTells ==
    ASSUME IInv, GatewayIInv, [GatewayNext]_allVars, NEW r \in Requests, Respond(r),
           IsLogged(call[r]), trail' = Append(trail, Entry(r))
    PROVE  OneLogsAtATime' /\ TrailTells'
  <1> DEFINE e == Entry(r)
             n == Len(trail) + 1
  <1>0. /\ disturbed \subseteq disturbed' /\ OneLogsAtATime /\ TrailTells
        /\ trail \in Seq(Entries)
        /\ pc \in [Requests -> Steps \cup {"idle", "done", "lost"}]
    BY DisturbedKept DEF GatewayIInv, GatewayTypeOK, IInv, TypeOK
  <1>1. /\ pc[r] = "respond" /\ pc' = [pc EXCEPT ![r] = "done"]
        /\ UNCHANGED <<bookings, call>>
    BY DEF Respond, tables
  <1>2. /\ e \in Entries /\ e.resource = Resource(r)
        /\ e.action \in DOMAIN StatusTold <=> WritesBooking(r)
        /\ WritesBooking(r) => StatusTold[e.action] = Gave(r)
    BY <1>1, NewEntry
  <1> HIDE DEF e
  <1>3. /\ DOMAIN trail' = DOMAIN trail \cup {n}
        /\ trail'[n] = e
        /\ \A i \in DOMAIN trail : i \in Nat /\ i < n /\ trail'[i] = trail[i]
        /\ n \in Nat
    <2>1. trail' = Append(trail, e)
      BY DEF e
    <2> QED
      BY <1>0, <1>2, <2>1, AppendFacts
  <1> HIDE DEF n
  <1>4. \A b : \A q \in Requests : AboutToLog(q, b)' =>
            AboutToLog(q, b) /\ Gave(q)' = Gave(q)
    BY <1>0, <1>1 DEF AboutToLog, WritesBooking, Resource, Gave
  <1>5. OneLogsAtATime'
    BY <1>0, <1>1, <1>4 DEF OneLogsAtATime
  <1>6. \A b : \A q \in Requests \ {r} : MissesEntry(q, b) => MissesEntry(q, b)'
    <2>1. \A q \in Requests \ {r} : ~Respond(q)
      BY <1>0, <1>1 DEF Respond
    <2> QED
      BY <2>1, MissedStays
  <1>7. TrailTells'
    <2> SUFFICES ASSUME NEW b \in BookingIds \ disturbed',
                        \A q \in Requests : ~MissesEntry(q, b)',
                        NEW i \in DOMAIN trail', LastAbout(i, b)'
                 PROVE  bookings'[b].status = StatusTold[trail'[i].action]
      BY DEF TrailTells
    <2>1. /\ trail'[i].action \in DOMAIN StatusTold /\ trail'[i].resource = b
          /\ \A j \in DOMAIN trail' : j > i =>
                ~(trail'[j].action \in DOMAIN StatusTold /\ trail'[j].resource = b)
      BY DEF LastAbout, AboutBooking
    <2>2. CASE WritesBooking(r) /\ Resource(r) = b
      <3>1. i = n
        BY <1>2, <1>3, <2>1, <2>2
      <3>2. AboutToLog(r, b)
        BY <1>1, <2>2 DEF AboutToLog
      <3>3. bookings[b].status = Gave(r)
        BY <1>0, <3>2 DEF OneLogsAtATime
      <3> QED
        BY <1>1, <1>2, <1>3, <2>2, <3>1, <3>3
    <2>3. CASE ~(WritesBooking(r) /\ Resource(r) = b)
      <3>1. i \in DOMAIN trail /\ trail'[i] = trail[i]
        BY <1>2, <1>3, <2>1, <2>3
      <3>2. LastAbout(i, b)
        BY <1>3, <2>1, <3>1 DEF LastAbout, AboutBooking
      <3>3. ~MissesEntry(r, b)
        BY <2>3 DEF MissesEntry, MayHaveWrittenUnlogged
      <3> QED
        BY <1>0, <1>1, <1>6, <3>1, <3>2, <3>3 DEF TrailTells
    <2> QED
      BY <2>2, <2>3
  <1> QED
    BY <1>5, <1>7

------------------------------------------------------------------------------
(* The invariant and what follows.                                           *)

LEMMA TellingKept ==
    ASSUME IInv, GatewayIInv, [GatewayNext]_allVars
    PROVE  OneLogsAtATime' /\ TrailTells'
  <1> USE DEF tables, audit
  <1>0. pc \in [Requests -> Steps \cup {"idle", "done", "lost"}]
    BY DEF IInv, TypeOK
  <1>1. ASSUME NEW r \in Requests,
               \/ Receive(r) /\ UNCHANGED audit
               \/ Fail(r) /\ UNCHANGED audit
               \/ Moves(r) /\ LogIfDone(r)
               \/ Settles(r) /\ LogIfDone(r)
               \/ WritesCatalogue(r) /\ LogIfDone(r)
               \/ Respond(r) /\ LogIfDone(r) /\ ~IsLogged(call[r])
        PROVE  OneLogsAtATime' /\ TrailTells'
    <2>1. UNCHANGED <<bookings, trail>>
      BY <1>1 DEF Receive, Fail, Moves, Settles, WritesCatalogue, Respond, LogIfDone
    <2>2. /\ \A q \in Requests \ {r} : pc'[q] = pc[q] /\ call'[q] = call[q]
          /\ pc'[r] = "respond" => ~WritesBooking(r)'
      <3>1. CASE Receive(r)
        <4>1. PICK c \in Calls : /\ call' = [call EXCEPT ![r] = c]
                                 /\ pc' = [pc EXCEPT ![r] = FirstStep[c.op]]
          BY <3>1 DEF Receive
        <4>2. FirstStep[c.op] # "respond"
          BY CallFields DEF FirstStep, Ops
        <4> QED
          BY <1>0, <4>1, <4>2 DEF IInv, TypeOK
      <3>2. CASE Fail(r) \/ Settles(r) \/ Respond(r)
        <4>1. pc' = [pc EXCEPT ![r] = "done"] /\ call' = call
          BY <3>2 DEF Fail, Settles, Respond, Answer
        <4> QED
          BY <1>0, <4>1
      <3>3. CASE Moves(r)
        <4>1. call[r].op \in Ops
          BY <3>3, CallOf DEF Moves, InFlight
        <4>2. PICK step \in HandlerSteps[call[r].op] : Goto(r, step)
          BY <3>3 DEF Moves
        <4>3. step # "respond"
          BY <4>1, StepsApart
        <4> QED
          BY <1>0, <4>2, <4>3 DEF Goto
      <3>4. CASE WritesCatalogue(r)
        <4>1. /\ pc' = [pc EXCEPT ![r] = "respond"] /\ call' = call
              /\ call[r].op \in {"createService", "updateService", "deleteService"}
          BY <3>4 DEF WritesCatalogue, Committed
        <4> QED
          BY <1>0, <4>1 DEF WritesBooking
      <3> QED
        BY <1>1, <3>1, <3>2, <3>3, <3>4
    <2>3. \A q \in Requests : pc'[q] = "respond" /\ WritesBooking(q)' =>
                pc[q] = "respond" /\ call'[q] = call[q]
      BY <2>2
    <2>4. \A q \in Requests : ~(Respond(q) /\ LogIfDone(q) /\ IsLogged(call[q]))
      <3> SUFFICES ASSUME NEW q \in Requests, Respond(q), IsLogged(call[q]) PROVE FALSE
        OBVIOUS
      <3>1. pc[q] = "respond" /\ pc'[q] = "done"
        BY <1>0 DEF Respond
      <3>2. q = r
        BY <2>2, <3>1
      <3>3. /\ ~Receive(r) /\ ~Moves(r) /\ ~Settles(r) /\ ~WritesCatalogue(r)
        BY <3>1, <3>2 DEF Receive, Moves, Settles, WritesCatalogue
      <3>4. Fail(r)
        BY <1>1, <3>2, <3>3
      <3>5. reply'[r] = "DbError" /\ reply' = reply
        BY <3>2, <3>4 DEF Fail, Answer, Respond, IInv, TypeOK
      <3>6. reply[r] \in Successes
        BY <3>1, <3>2 DEF GatewayIInv, Written
      <3> QED
        BY <3>5, <3>6 DEF Successes
    <2> QED
      BY <2>1, <2>3, <2>4, NothingToTell
  <1>2. ASSUME UNCHANGED audit, UNCHANGED vars \/ Crash
        PROVE  OneLogsAtATime' /\ TrailTells'
    <2>1. UNCHANGED <<bookings, trail, call>>
      BY <1>2 DEF Crash, vars
    <2>2. \A q \in Requests : pc'[q] = "respond" => pc[q] = "respond"
      BY <1>0, <1>2 DEF Crash, vars
    <2>3. \A q \in Requests : ~Respond(q)
      BY <1>0, <1>2 DEF Crash, InFlight, Steps, vars, Respond
    <2> QED
      BY <2>1, <2>2, <2>3, NothingToTell
  <1>3. ASSUME NEW r \in Requests, Advance(r), LogIfDone(r), Disturb(r)
        PROVE  OneLogsAtATime' /\ TrailTells'
    <2>1. CASE Moves(r) \/ Settles(r) \/ WritesCatalogue(r)
      BY <1>1, <1>3, <2>1
    <2>2. CASE Inserts(r)
      BY <1>3, <2>2, InsertTells DEF LogIfDone, Inserts
    <2>3. CASE WritesRow(r)
      BY <1>3, <2>3, WriteTells, Disturbs DEF LogIfDone, WritesRow
    <2>4. CASE Respond(r)
      BY <1>1, <1>3, <2>4, EntryTells DEF LogIfDone, Respond
    <2> QED
      BY <1>3, <2>1, <2>2, <2>3, <2>4, StepShapes
  <1> QED
    BY <1>1, <1>2, <1>3, StepKinds

LEMMA GatewayNextInvariant ==
    ASSUME IInv, GatewayIInv, [GatewayNext]_allVars
    PROVE  GatewayIInv'
  <1>1. GatewayTypeOK'
    BY DoorKept, TrailKept, DisturbedKept DEF GatewayTypeOK
  <1> QED
    BY <1>1, DoorKept, FreshKept, WrittenKept, TrailKept, MissesNothingKept, DisturbedKept,
      TellingKept DEF GatewayIInv

\* The inductive invariant of the gateway holds of it, beside the platform's.
THEOREM GatewayInvariant == GatewaySpec => []GatewayIInv
  <1>1. GatewayInit => GatewayIInv
    BY GatewayInitInvariant
  <1>2. IInv /\ GatewayIInv /\ [GatewayNext]_allVars => GatewayIInv'
    BY GatewayNextInvariant
  <1> QED
    BY <1>1, <1>2, PlatformInvariant, PTL DEF GatewaySpec

\* The guards' and the trail's variables keep their types.
THEOREM GatewayTypeCorrect == GatewaySpec => []GatewayTypeOK
  <1>1. GatewayIInv => GatewayTypeOK
    BY DEF GatewayIInv
  <1> QED
    BY <1>1, GatewayInvariant, PTL

\* JwtAuthGuard and RolesGuard refuse nobody who had a right to enter all the
\* while, however the database fails and accounts change under them.
THEOREM RefusalsAreJustified == GatewaySpec => []RefusalsAreJust
  <1>1. GatewayIInv => RefusalsAreJust
    BY DEF GatewayIInv
  <1> QED
    BY <1>1, GatewayInvariant, PTL

\* Any number of interleaved requests: AuditService names the right user in
\* each entry.
THEOREM TrailNamesItsCallers == GatewaySpec => []TrailNamesCallers
  <1>1. GatewayIInv => TrailNamesCallers
    BY DEF GatewayIInv
  <1> QED
    BY <1>1, GatewayInvariant, PTL

\* The trail has no entry of what did not happen, and none twice.
THEOREM TrailIsTruthful == GatewaySpec => []TrailIsTrue
  <1>1. GatewayIInv => TrailIsTrue
    BY DEF GatewayIInv
  <1> QED
    BY <1>1, GatewayInvariant, PTL

\* What the handlers answered with success is in the trail.
THEOREM TrailIsWhole == GatewaySpec => []TrailMissesNothing
  <1>1. GatewayIInv => TrailMissesNothing
    BY DEF GatewayIInv
  <1> QED
    BY <1>1, GatewayInvariant, PTL

\* The last entry about a booking tells its status, unless its requests
\* overlapped or one of them died before it logged.
THEOREM TrailTellsTheStatus == GatewaySpec => []TrailTellsStatus
  <1>1. GatewayIInv => TrailTellsStatus
    BY DEF GatewayIInv, TrailTells, TrailTellsStatus, MissesEntry
  <1> QED
    BY <1>1, GatewayInvariant, PTL

------------------------------------------------------------------------------
(* Who changes the tables.                                                   *)

\* The services and the rows of bookings change only by a commit of a request
\* the guards let in with the role of its route.
THEOREM ChangesAreJustified == GatewaySpec => ChangesAreAuthorised
  <1> DEFINE Authorised ==
        /\ \A s \in ServiceIds : services'[s] # services[s] =>
            \E r \in Requests : /\ Commits(r)
                               /\ ActsFor(r, IF services'[s] = Null THEN {"ADMIN"} ELSE Roles)
        /\ \A b \in BookingIds : bookings[b] # Null /\ bookings'[b] # bookings[b] =>
            \E r \in Requests : Commits(r) /\ ActsFor(r, Roles)
  <1>1. ASSUME IInv, GatewayIInv, [GatewayNext]_allVars PROVE Authorised
    <2>0. pc \in [Requests -> Steps \cup {"idle", "done", "lost"}]
      BY <1>1 DEF IInv, TypeOK
    <2>1. ASSUME UNCHANGED <<services, bookings>> PROVE Authorised
      BY <2>1
    \* Who stands in a handler was let in for what it does there.
    <2>2. ASSUME NEW r \in Requests, pc[r] # "idle", call[r].op # "createBooking"
          PROVE  /\ ActsFor(r, Roles)
                 /\ call[r].op = "deleteService" => ActsFor(r, {"ADMIN"})
      <3>1. gate[r] = "inside" /\ call[r] = ask[r]
        BY <1>1, <2>2 DEF GatewayIInv, InItsPlace
      <3>2. ActsFor(r, RequiredRoles(call[r].op))
        BY <1>1, <2>2, <3>1 DEF GatewayIInv, Checked, Protected
      <3> QED
        BY <3>2 DEF ActsFor, RequiredRoles, Roles
    <2>3. ASSUME NEW r \in Requests, WritesCatalogue(r) PROVE Authorised
      <3>1. /\ pc[r] \in Steps \ {"respond"} /\ pc'[r] = "respond" /\ bookings' = bookings
            /\ call[r].op \in {"createService", "updateService", "deleteService"}
        BY <2>0, <2>3 DEF WritesCatalogue, Committed
      <3>2. Commits(r)
        BY <3>1 DEF Commits
      <3>3. /\ ActsFor(r, Roles)
            /\ call[r].op = "deleteService" => ActsFor(r, {"ADMIN"})
        BY <2>2, <3>1 DEF Steps
      <3>4. \A s \in ServiceIds : services'[s] # services[s] /\ services'[s] = Null =>
                call[r].op = "deleteService"
        BY <2>3 DEF WritesCatalogue
      <3> QED
        BY <3>1, <3>2, <3>3, <3>4
    <2>4. ASSUME NEW r \in Requests, Inserts(r) PROVE Authorised
      <3>1. \A b \in BookingIds \ {r} : bookings'[b] = bookings[b]
        BY <1>1, <2>4, BookingsStay
      <3> QED
        BY <2>4, <3>1 DEF Inserts
    <2>5. ASSUME NEW r \in Requests, WritesRow(r) PROVE Authorised
      <3>1. /\ pc[r] \in {"writeStatus", "writeCancel"} /\ pc'[r] = "respond"
            /\ services' = services
            /\ call[r].op \in {"updateStatus", "cancelBooking"}
        BY <2>0, <2>5 DEF WritesRow, Committed
      <3>2. Commits(r) /\ ActsFor(r, Roles)
        BY <2>2, <3>1 DEF Commits
      <3> QED
        BY <3>1, <3>2
    <2> QED
      BY <1>1, <2>1, <2>3, <2>4, <2>5, StepKinds, StepShapes
      DEF vars, tables, Receive, Fail, Crash, Moves, Settles, Respond
  <1>2. IInv /\ GatewayIInv /\ [GatewayNext]_allVars => [Authorised]_allVars
    BY <1>1
  <1> QED
    BY <1>2, PlatformInvariant, GatewayInvariant, PTL DEF GatewaySpec, ChangesAreAuthorised

==============================================================================
