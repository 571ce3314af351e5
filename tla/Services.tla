------------------------------- MODULE Services -------------------------------
(* The handlers that maintain the catalogue of services                      *)
(* (services.service.ts over services.repository.ts).                        *)
EXTENDS Store

\* A faulty variant: the look-up leaves inactive services out.
TitleTakenByActive(title) ==
    \E s \in ServiceIds : /\ services[s] # Null
                          /\ services[s].isActive
                          /\ Fold[services[s].title] = Fold[title]

\* findByTitle: the comparison ignores case and does not exclude any row.
TitleTaken(title) ==
    \E s \in ServiceIds : /\ services[s] # Null
                          /\ Fold[services[s].title] = Fold[title]

\* CreateServiceDto initialises isActive to true, and UpdateServiceDto is its
\* PartialType and inherits the initialiser: an absent isActive reads as true.
DtoIsActive(c) == IF c.isActive = Null THEN TRUE ELSE c.isActive

------------------------------------------------------------------------------
(* createService                                                             *)

FindByTitle(r) ==
    /\ pc[r] = "findByTitle"
    /\ \/ TitleTaken(call[r].title) /\ Answer(r, "Conflict")
       \/ ~TitleTaken(call[r].title) /\ Goto(r, "insertService")
    /\ UNCHANGED <<tables, history>>

InsertService(r) ==
    /\ pc[r] = "insertService"
    /\ services' = [services EXCEPT ![r] = [title |-> call[r].title,
                                            isActive |-> DtoIsActive(call[r])]]
    /\ overtaken' = overtaken \cup AboutToTitle(call[r].title, r)
    /\ Committed(r, "Created")
    /\ UNCHANGED <<bookings, held>>

------------------------------------------------------------------------------
(* updateService                                                             *)

\* A title differs from the row's as a string, case included.
Renames(r) == /\ call[r].title # Null
              /\ call[r].title # services[call[r].service].title

FindToUpdate(r) ==
    /\ pc[r] = "findToUpdate"
    /\ \/ services[call[r].service] = Null /\ Answer(r, "NotFound")
       \/ services[call[r].service] # Null /\ Renames(r) /\ Goto(r, "findNewTitle")
       \/ services[call[r].service] # Null /\ ~Renames(r) /\ Goto(r, "writeService")
    /\ UNCHANGED <<tables, history>>

FindNewTitle(r) ==
    /\ pc[r] = "findNewTitle"
    /\ \/ TitleTaken(call[r].title) /\ Answer(r, "Conflict")
       \/ ~TitleTaken(call[r].title) /\ Goto(r, "writeService")
    /\ UNCHANGED <<tables, history>>

\* What the row becomes: an absent title stays, an absent isActive does not.
Patched(row, c) ==
    [title |-> IF c.title = Null THEN row.title ELSE c.title,
     isActive |-> DtoIsActive(c)]

WriteService(r) ==
    LET s == call[r].service IN
    /\ pc[r] = "writeService"
    /\ \/ /\ services[s] = Null
          /\ Answer(r, "P2025")
          /\ UNCHANGED <<services, overtaken>>
       \/ /\ services[s] # Null
          /\ services' = [services EXCEPT ![s] = Patched(@, call[r])]
          /\ overtaken' = overtaken \cup FoundService(s, r)
                                   \cup AboutToTitle(services'[s].title, r)
          /\ Committed(r, "Ok")
    /\ UNCHANGED <<bookings, held>>

------------------------------------------------------------------------------
(* deleteService                                                             *)

FindToDelete(r) ==
    /\ pc[r] = "findToDelete"
    /\ \/ services[call[r].service] = Null /\ Answer(r, "NotFound")
       \/ services[call[r].service] # Null /\ Goto(r, "countBookings")
    /\ UNCHANGED <<tables, history>>

\* A faulty variant: the count leaves cancelled bookings out.
HasLiveBookings(s) ==
    \E b \in BookingIds : /\ bookings[b] # Null
                          /\ bookings[b].service = s
                          /\ bookings[b].status # "CANCELLED"

\* The count of checkBookingsExist, over bookings of any status.
HasBookings(s) ==
    \E b \in BookingIds : bookings[b] # Null /\ bookings[b].service = s

\* checkBookingsExist answers false when the count fails.
CountBookings(r) ==
    /\ pc[r] = "countBookings"
    /\ \/ HasBookings(call[r].service) /\ Answer(r, "Conflict")
       \/ ~HasBookings(call[r].service) /\ Goto(r, "deleteRow")
       \/ Faults /\ Goto(r, "deleteRow")
    /\ UNCHANGED <<tables, history>>

\* A faulty variant: onDelete is Cascade.
DeleteRowCascading(r) ==
    LET s == call[r].service IN
    /\ pc[r] = "deleteRow"
    /\ services' = [services EXCEPT ![s] = Null]
    /\ bookings' = [b \in BookingIds |->
            IF bookings[b] # Null /\ bookings[b].service = s
            THEN Null ELSE bookings[b]]
    /\ Committed(r, "Ok")
    /\ UNCHANGED history

\* The foreign key refuses to delete a service a booking refers to.
DeleteRow(r) ==
    LET s == call[r].service IN
    /\ pc[r] = "deleteRow"
    /\ \/ /\ services[s] = Null
          /\ Answer(r, "P2025")
          /\ UNCHANGED <<services, overtaken>>
       \/ /\ services[s] # Null
          /\ Referenced(s)
          /\ Answer(r, "P2003")
          /\ UNCHANGED <<services, overtaken>>
       \/ /\ services[s] # Null
          /\ ~Referenced(s)
          /\ services' = [services EXCEPT ![s] = Null]
          /\ overtaken' = overtaken \cup FoundService(s, r)
          /\ Committed(r, "Ok")
    /\ UNCHANGED <<bookings, held>>

------------------------------------------------------------------------------

ServicesNext(r) ==
    \/ FindByTitle(r) \/ InsertService(r)
    \/ FindToUpdate(r) \/ FindNewTitle(r) \/ WriteService(r)
    \/ FindToDelete(r) \/ CountBookings(r) \/ DeleteRow(r)

==============================================================================
