------------------------------- MODULE Bookings -------------------------------
(* The handlers that make bookings and move them through their life cycle    *)
(* (bookings.service.ts over bookings.repository.ts).                        *)
EXTENDS Services

------------------------------------------------------------------------------
(* createBooking                                                             *)

\* A faulty variant: the service's isActive is not looked at.
GetServiceOfAnyState(r) ==
    LET s == services[call[r].service] IN
    /\ pc[r] = "getService"
    /\ \/ s = Null /\ Answer(r, "NotFound")
       \/ s # Null /\ call[r].slot \in PastSlots /\ Answer(r, "InvalidBookingDate")
       \/ s # Null /\ call[r].slot \notin PastSlots /\ Goto(r, "findDuplicate")
    /\ UNCHANGED <<tables, history>>

\* ServicesService.getService, the check of isActive, and the date validator,
\* which lets an invalid date pass: NaN is not before today.
GetService(r) ==
    LET s == services[call[r].service] IN
    /\ pc[r] = "getService"
    /\ \/ s = Null /\ Answer(r, "NotFound")
       \/ s # Null /\ ~s.isActive /\ Answer(r, "InactiveService")
       \/ s # Null /\ s.isActive /\ call[r].slot \in PastSlots
            /\ Answer(r, "InvalidBookingDate")
       \/ s # Null /\ s.isActive /\ call[r].slot \notin PastSlots
            /\ Goto(r, "findDuplicate")
    /\ UNCHANGED <<tables, history>>

\* A faulty variant: the query leaves the slot out.
DuplicateOfAnySlot(s, slot) ==
    \E b \in BookingIds : /\ bookings[b] # Null
                          /\ bookings[b].service = s
                          /\ bookings[b].status # "CANCELLED"

\* findDuplicateBooking looks at the bookings that are not cancelled.
Duplicate(s, slot) ==
    \E b \in BookingIds : /\ bookings[b] # Null
                          /\ bookings[b].service = s
                          /\ bookings[b].slot = slot
                          /\ bookings[b].status # "CANCELLED"

\* A faulty variant: a repeated request is answered as if it had succeeded.
FindDuplicateIdempotent(r) ==
    LET duplicate == Duplicate(call[r].service, call[r].slot) IN
    /\ pc[r] = "findDuplicate"
    /\ \/ duplicate /\ Answer(r, "Created")
       \/ ~duplicate /\ Goto(r, "insertBooking")
    /\ UNCHANGED <<tables, history>>

\* Prisma cannot encode an invalid date and throws a validation error.
FindDuplicate(r) ==
    LET slot == call[r].slot
        duplicate == Duplicate(call[r].service, slot) IN
    /\ pc[r] = "findDuplicate"
    /\ \/ slot \in MalformedSlots /\ Answer(r, "PrismaValidation")
       \/ slot \notin MalformedSlots /\ duplicate /\ Answer(r, "BookingAlreadyExists")
       \/ slot \notin MalformedSlots /\ ~duplicate /\ Goto(r, "insertBooking")
    /\ UNCHANGED <<tables, history>>

\* A faulty variant: the row is made without the default status.
NewBookingWithoutDefault(c) ==
    [service |-> c.service, slot |-> c.slot, status |-> Null]

\* The row a request makes: PENDING is the default of the schema.
NewBooking(c) == [service |-> c.service, slot |-> c.slot, status |-> "PENDING"]

\* The insert, connected to its service: the database refuses it when the slot
\* has a row, whatever its status, and when the service is gone, which the
\* client reports as a missing record or as a foreign key.
InsertBooking(r) ==
    LET s == call[r].service
        slot == call[r].slot IN
    /\ pc[r] = "insertBooking"
    /\ \/ /\ services[s] = Null
          /\ \E error \in {"P2025", "P2003"} : Answer(r, error)
          /\ UNCHANGED <<bookings, history>>
       \/ /\ services[s] # Null
          /\ SlotTaken(s, slot)
          /\ Answer(r, "P2002")
          /\ UNCHANGED <<bookings, history>>
       \/ /\ services[s] # Null
          /\ ~SlotTaken(s, slot)
          /\ bookings' = [bookings EXCEPT ![r] = NewBooking(call[r])]
          /\ held' = [held EXCEPT ![r] = {"PENDING"}]
          /\ overtaken' = overtaken \cup AboutToFill(s, slot, r)
          /\ Committed(r, "Created")
    /\ UNCHANGED services

------------------------------------------------------------------------------
(* updateStatus and cancelBooking                                            *)

\* BookingsRepository.updateStatus: an UPDATE by id alone, whatever the status
\* has become since the request read it.
WriteBooking(r, b, status) ==
    \/ /\ bookings[b] = Null
       /\ Answer(r, "P2025")
       /\ UNCHANGED <<bookings, history>>
    \/ /\ bookings[b] # Null
       /\ bookings' = [bookings EXCEPT ![b].status = status]
       /\ held' = [held EXCEPT ![b] = @ \cup {status}]
       /\ overtaken' = overtaken \cup AboutToWrite(b, r)
       /\ Committed(r, "Ok")

FindBooking(r) ==
    LET b == bookings[call[r].booking] IN
    /\ pc[r] = "findBooking"
    /\ \/ b = Null /\ Answer(r, "NotFound")
       \/ b # Null /\ LET verdict == Validate(b.status, call[r].status) IN
            \/ verdict = "Valid" /\ Goto(r, "writeStatus")
            \/ verdict # "Valid" /\ Answer(r, verdict)
    /\ UNCHANGED <<tables, history>>

WriteStatus(r) ==
    /\ pc[r] = "writeStatus"
    /\ WriteBooking(r, call[r].booking, call[r].status)
    /\ UNCHANGED services

\* Faulty variants: a completed booking is cancelled like any other; the branch
\* of a booking that is already cancelled neither returns nor goes on.
FindToCancelCompleted(r) ==
    LET b == bookings[call[r].booking] IN
    /\ pc[r] = "findToCancel"
    /\ \/ b = Null /\ Answer(r, "NotFound")
       \/ b # Null /\ b.status = "CANCELLED" /\ Answer(r, "Ok")
       \/ b # Null /\ b.status # "CANCELLED" /\ Goto(r, "writeCancel")
    /\ UNCHANGED <<tables, history>>

FindToCancelStuck(r) ==
    LET b == bookings[call[r].booking] IN
    /\ pc[r] = "findToCancel"
    /\ \/ b = Null /\ Answer(r, "NotFound")
       \/ b # Null /\ b.status = "COMPLETED" /\ Answer(r, "CompletedBooking")
       \/ b # Null /\ b.status \notin {"COMPLETED", "CANCELLED"}
            /\ Goto(r, "writeCancel")
    /\ UNCHANGED <<tables, history>>

\* A booking that is already cancelled is answered as it is.
FindToCancel(r) ==
    LET b == bookings[call[r].booking] IN
    /\ pc[r] = "findToCancel"
    /\ \/ b = Null /\ Answer(r, "NotFound")
       \/ b # Null /\ b.status = "COMPLETED" /\ Answer(r, "CompletedBooking")
       \/ b # Null /\ b.status = "CANCELLED" /\ Answer(r, "Ok")
       \/ b # Null /\ b.status \notin {"COMPLETED", "CANCELLED"}
            /\ Goto(r, "writeCancel")
    /\ UNCHANGED <<tables, history>>

\* A faulty variant: cancelling deletes the row.
WriteCancelByDeleting(r) ==
    /\ pc[r] = "writeCancel"
    /\ bookings' = [bookings EXCEPT ![call[r].booking] = Null]
    /\ Committed(r, "Ok")
    /\ UNCHANGED <<services, history>>

\* BookingsRepository.cancel: the same unguarded UPDATE.
WriteCancel(r) ==
    /\ pc[r] = "writeCancel"
    /\ WriteBooking(r, call[r].booking, "CANCELLED")
    /\ UNCHANGED services

------------------------------------------------------------------------------

BookingsNext(r) ==
    \/ GetService(r) \/ FindDuplicate(r) \/ InsertBooking(r)
    \/ FindBooking(r) \/ WriteStatus(r)
    \/ FindToCancel(r) \/ WriteCancel(r)

==============================================================================
