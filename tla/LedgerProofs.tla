----------------------------- MODULE LedgerProofs -----------------------------
(* The platform implements the slot ledger: its initial tables are a ledger, *)
(* and every step of a request, failure or crash is a step of the ledger or  *)
(* leaves it alone.                                                          *)
EXTENDS PlatformProofs

\* A seeded database is a ledger.
LEMMA InitIsLedger == Init => Ledger!Init
  <1> SUFFICES ASSUME Init PROVE Ledger!Init
    OBVIOUS
  <1>1. IInv
    BY InitInvariant
  <1>2. OpenOf \in SUBSET ServiceIds
    BY DEF OpenOf
  <1>3. EntriesOf \in SUBSET [booking : BookingIds, service : OpenOf, slot : Slots]
    <2> SUFFICES ASSUME NEW b \in BookingIds, bookings[b] # Null
                 PROVE  bookings[b].service \in OpenOf /\ bookings[b].slot \in Slots
      BY DEF EntriesOf
    <2>1. bookings[b].service \in ServiceIds /\ bookings[b].slot \in Slots
      BY <1>1 DEF IInv, TypeOK, BookingRows
    <2> QED
      BY <1>1, <2>1 DEF IInv, NoOrphanBooking, OpenOf
  <1>4. \A d, e \in EntriesOf :
            d.booking = e.booking \/ (d.service = e.service /\ d.slot = e.slot) => d = e
    <2> SUFFICES ASSUME NEW d \in EntriesOf, NEW e \in EntriesOf,
                        d.booking = e.booking \/ (d.service = e.service /\ d.slot = e.slot)
                 PROVE  d = e
      OBVIOUS
    <2>1. PICK a \in BookingIds : /\ bookings[a] # Null
                                  /\ d = [booking |-> a, service |-> bookings[a].service,
                                          slot |-> bookings[a].slot]
      BY DEF EntriesOf
    <2>2. PICK b \in BookingIds : /\ bookings[b] # Null
                                  /\ e = [booking |-> b, service |-> bookings[b].service,
                                          slot |-> bookings[b].slot]
      BY DEF EntriesOf
    <2>3. a = b
      BY <1>1, <2>1, <2>2 DEF IInv, SlotUnique
    <2> QED
      BY <2>1, <2>2, <2>3
  <1> QED
    BY <1>2, <1>3, <1>4 DEF Ledger!Init

\* Rows that keep their service and slot are the same entries.
LEMMA SameEntries ==
    ASSUME \A b \in BookingIds :
                /\ (bookings'[b] = Null) = (bookings[b] = Null)
                /\ bookings[b] # Null => /\ bookings'[b].service = bookings[b].service
                                         /\ bookings'[b].slot = bookings[b].slot
    PROVE  UNCHANGED EntriesOf
  BY DEF EntriesOf

\* A step that leaves the tables alone leaves the ledger alone.
LEMMA SameTables ==
    ASSUME UNCHANGED tables
    PROVE  UNCHANGED <<OpenOf, EntriesOf>>
  BY DEF tables, OpenOf, EntriesOf

LEMMA InsertServiceOpens ==
    ASSUME IInv, NEW r \in Requests, InsertService(r)
    PROVE  Ledger!Open(r)
  <1> DEFINE row == [title |-> call[r].title, isActive |-> DtoIsActive(call[r])]
  <1>1. InFlight(r) /\ pc[r] # "respond"
    BY DEF InsertService, InFlight, Steps
  <1>2. call[r] \in Calls /\ call[r].op = "createService"
    BY <1>1, CallOf, StepsApart DEF InsertService
  <1>3. row \in ServiceRows /\ row # Null
    <2>1. call[r].title \in Titles /\ DtoIsActive(call[r]) \in BOOLEAN
      BY <1>2, CallFields DEF DtoIsActive
    <2> QED
      BY <2>1, StoreAssumption DEF ServiceRows
  <1> HIDE DEF row
  <1>4. services' = [services EXCEPT ![r] = row] /\ UNCHANGED bookings
    BY DEF InsertService, row
  <1>5. OpenOf' = OpenOf \cup {r}
    BY <1>3, <1>4 DEF OpenOf, IInv, TypeOK, ServiceIds
  <1>6. UNCHANGED EntriesOf
    BY <1>4 DEF EntriesOf
  <1> QED
    BY <1>5, <1>6 DEF Ledger!Open

LEMMA WriteServiceKeepsLedger ==
    ASSUME IInv, NEW r \in Requests, WriteService(r)
    PROVE  UNCHANGED <<OpenOf, EntriesOf>>
  <1> DEFINE s == call[r].service
             row == Patched(services[s], call[r])
  <1>1. InFlight(r) /\ pc[r] # "respond"
    BY DEF WriteService, InFlight, Steps
  <1>2. call[r] \in Calls /\ call[r].op = "updateService"
    BY <1>1, CallOf, StepsApart DEF WriteService
  <1>3. /\ s \in ServiceIds
        /\ call[r].title \in Titles \cup {Null}
        /\ DtoIsActive(call[r]) \in BOOLEAN
    BY <1>2, CallFields DEF DtoIsActive
  <1>4. CASE services[s] = Null
    BY <1>4, SameTables DEF WriteService, tables
  <1>5. CASE services[s] # Null
    <2>1. services[s] \in ServiceRows
      BY <1>3, <1>5 DEF IInv, TypeOK
    <2>2. services[s].title \in Titles
      BY <2>1 DEF ServiceRows
    <2>3. row \in ServiceRows /\ row # Null
      BY <1>3, <2>2, StoreAssumption DEF Patched, ServiceRows
    <2> HIDE DEF row
    <2>4. services' = [services EXCEPT ![s] = row] /\ UNCHANGED bookings
      BY <1>5 DEF WriteService, row
    <2>5. UNCHANGED OpenOf
      BY <1>5, <2>3, <2>4 DEF OpenOf, IInv, TypeOK
    <2>6. UNCHANGED EntriesOf
      BY <2>4 DEF EntriesOf
    <2> QED
      BY <2>5, <2>6
  <1> QED
    BY <1>4, <1>5

LEMMA DeleteRowCloses ==
    ASSUME IInv, NEW r \in Requests, DeleteRow(r)
    PROVE  \/ \E s \in ServiceIds : Ledger!Close(s)
           \/ UNCHANGED <<OpenOf, EntriesOf>>
  <1> DEFINE s == call[r].service
  <1>1. InFlight(r) /\ pc[r] # "respond"
    BY DEF DeleteRow, InFlight, Steps
  <1>2. s \in ServiceIds
    BY <1>1, CallOf, StepsApart, CallFields DEF DeleteRow
  <1>3. CASE services[s] = Null \/ Referenced(s)
    BY <1>3, SameTables DEF DeleteRow, tables
  <1>4. CASE services[s] # Null /\ ~Referenced(s)
    <2>1. services' = [services EXCEPT ![s] = Null] /\ UNCHANGED bookings
      BY <1>4 DEF DeleteRow
    <2>2. s \in OpenOf /\ OpenOf' = OpenOf \ {s}
      BY <1>2, <1>4, <2>1 DEF OpenOf, IInv, TypeOK
    <2>3. UNCHANGED EntriesOf
      BY <2>1 DEF EntriesOf
    <2>4. \A e \in EntriesOf : e.service # s
      BY <1>4 DEF EntriesOf, Referenced
    <2> QED
      BY <1>2, <2>2, <2>3, <2>4 DEF Ledger!Close, Ledger!Unbooked
  <1> QED
    BY <1>3, <1>4

LEMMA InsertBookingBooks ==
    ASSUME IInv, NEW r \in Requests, InsertBooking(r)
    PROVE  \/ \E b \in BookingIds, s \in ServiceIds, slot \in Slots : Ledger!Book(b, s, slot)
           \/ UNCHANGED <<OpenOf, EntriesOf>>
  <1> DEFINE s == call[r].service
             slot == call[r].slot
             row == NewBooking(call[r])
             entry == [booking |-> r, service |-> s, slot |-> slot]
  <1>1. InFlight(r) /\ pc[r] = "insertBooking"
    BY DEF InsertBooking, InFlight, Steps
  <1>2. s \in ServiceIds /\ slot \in Slots
    BY <1>1, CallOf, StepsApart, CallFields
  <1>3. CASE services[s] = Null \/ SlotTaken(s, slot)
    BY <1>3, SameTables DEF InsertBooking, tables
  <1>4. CASE services[s] # Null /\ ~SlotTaken(s, slot)
    <2>1. bookings' = [bookings EXCEPT ![r] = row] /\ UNCHANGED services
      BY <1>4 DEF InsertBooking
    <2>2. row # Null /\ row.service = s /\ row.slot = slot
      BY <1>2, StoreAssumption DEF NewBooking, BookingRows, Status
    <2>3. r \in BookingIds /\ bookings[r] = Null
      BY <1>1 DEF IInv, FreshIds, BookingIds
    <2> HIDE DEF row
    <2>4. UNCHANGED OpenOf
      BY <2>1 DEF OpenOf
    <2>5. s \in OpenOf
      BY <1>2, <1>4 DEF OpenOf
    <2>6. \A b \in BookingIds :
            bookings'[b] = IF b = r THEN row ELSE bookings[b]
      BY <2>1 DEF IInv, TypeOK
    <2>7. EntriesOf' = EntriesOf \cup {entry}
      <3>1. ASSUME NEW e \in EntriesOf' PROVE e \in EntriesOf \cup {entry}
        <4>1. PICK b \in BookingIds : /\ bookings'[b] # Null
                                      /\ e = [booking |-> b, service |-> bookings'[b].service,
                                              slot |-> bookings'[b].slot]
          BY <3>1 DEF EntriesOf
        <4>2. CASE b = r
          BY <2>2, <2>6, <4>1, <4>2
        <4>3. CASE b # r
          BY <2>6, <4>1, <4>3 DEF EntriesOf
        <4> QED
          BY <4>2, <4>3
      <3>2. ASSUME NEW e \in EntriesOf PROVE e \in EntriesOf'
        <4>1. PICK b \in BookingIds : /\ bookings[b] # Null
                                      /\ e = [booking |-> b, service |-> bookings[b].service,
                                              slot |-> bookings[b].slot]
          BY <3>2 DEF EntriesOf
        <4>2. b # r /\ bookings'[b] = bookings[b]
          BY <2>3, <2>6, <4>1
        <4> QED
          BY <4>1, <4>2 DEF EntriesOf
      <3>3. entry \in EntriesOf'
        BY <2>2, <2>3, <2>6 DEF EntriesOf
      <3> QED
        BY <3>1, <3>2, <3>3
    <2>8. \A e \in EntriesOf : e.booking # r /\ (e.service = s => e.slot # slot)
      BY <1>4, <2>3 DEF EntriesOf, SlotTaken
    <2>9. Ledger!Book(r, s, slot)
      BY <2>4, <2>5, <2>7, <2>8 DEF Ledger!Book, Ledger!Unused, Ledger!Free
    <2> QED
      BY <1>2, <2>3, <2>9
  <1> QED
    BY <1>3, <1>4

LEMMA WriteBookingKeepsLedger ==
    ASSUME IInv, NEW r \in Requests, WriteStatus(r) \/ WriteCancel(r)
    PROVE  UNCHANGED <<OpenOf, EntriesOf>>
  <1> DEFINE b == call[r].booking
  <1>1. InFlight(r) /\ pc[r] \in {"writeStatus", "writeCancel"}
    BY DEF WriteStatus, WriteCancel, InFlight, Steps
  <1>2. b \in BookingIds /\ WriteBooking(r, b, Target(r)) /\ UNCHANGED services
    BY <1>1, CallOf, StepsApart, CallFields DEF WriteStatus, WriteCancel, Target
  <1>3. bookings[b] \in BookingRows /\ bookings[b] # Null
    BY <1>1, <1>2 DEF IInv, TypeOK, FoundBookings
  <1> DEFINE row == [bookings[b] EXCEPT !.status = Target(r)]
  <1>4. bookings' = [bookings EXCEPT ![b] = row]
    BY <1>2, <1>3 DEF WriteBooking
  <1>5. /\ row.service = bookings[b].service
        /\ row.slot = bookings[b].slot
    BY <1>3 DEF BookingRows
  <1>6. row # Null
    <2>1. Target(r) \in Status
      BY <1>1, CallOf, StepsApart, CallFields DEF Target, Status
    <2> QED
      BY <1>3, <2>1, StoreAssumption DEF BookingRows
  <1> HIDE DEF row
  <1>7. UNCHANGED EntriesOf
    BY <1>3, <1>4, <1>5, <1>6, SameEntries DEF IInv, TypeOK
  <1> QED
    BY <1>2, <1>7 DEF OpenOf

\* Every step is a step of the ledger or leaves it alone.
LEMMA NextIsLedger ==
    IInv /\ [Next]_vars => [Ledger!Next]_<<OpenOf, EntriesOf>>
  <1> SUFFICES ASSUME IInv, [Next]_vars
               PROVE  Ledger!Next \/ UNCHANGED <<OpenOf, EntriesOf>>
    OBVIOUS
  <1> USE DEF Ledger!Next
  <1>1. ASSUME NEW r \in Requests, Receive(r) \/ Respond(r) \/ Fail(r)
        PROVE  UNCHANGED <<OpenOf, EntriesOf>>
    BY <1>1, SameTables DEF Receive, Respond, Fail, tables
  <1>2. ASSUME NEW r \in Requests, ServicesNext(r)
        PROVE  Ledger!Next \/ UNCHANGED <<OpenOf, EntriesOf>>
    <2>1. CASE InsertService(r)
      BY <2>1, InsertServiceOpens DEF ServiceIds
    <2>2. CASE WriteService(r)
      BY <2>2, WriteServiceKeepsLedger
    <2>3. CASE DeleteRow(r)
      BY <2>3, DeleteRowCloses
    <2>4. CASE \/ FindByTitle(r) \/ FindToUpdate(r) \/ FindNewTitle(r)
               \/ FindToDelete(r) \/ CountBookings(r)
      BY <2>4, SameTables DEF FindByTitle, FindToUpdate, FindNewTitle, FindToDelete,
        CountBookings
    <2> QED
      BY <1>2, <2>1, <2>2, <2>3, <2>4 DEF ServicesNext
  <1>3. ASSUME NEW r \in Requests, BookingsNext(r)
        PROVE  Ledger!Next \/ UNCHANGED <<OpenOf, EntriesOf>>
    <2>1. CASE InsertBooking(r)
      BY <2>1, InsertBookingBooks
    <2>2. CASE WriteStatus(r) \/ WriteCancel(r)
      BY <2>2, WriteBookingKeepsLedger
    <2>3. CASE GetService(r) \/ FindDuplicate(r) \/ FindBooking(r) \/ FindToCancel(r)
      BY <2>3, SameTables DEF GetService, FindDuplicate, FindBooking, FindToCancel
    <2> QED
      BY <1>3, <2>1, <2>2, <2>3 DEF BookingsNext
  <1>4. CASE Crash
    BY <1>4, SameTables DEF Crash
  <1>5. CASE Quiet \/ UNCHANGED vars
    BY <1>5, SameTables DEF Quiet, vars, tables
  <1> QED
    BY <1>1, <1>2, <1>3, <1>4, <1>5 DEF Next, Advance

\* The platform implements the slot ledger: bookings are made into free slots of
\* existing services, are never moved or removed, and keep their services.
THEOREM PlatformKeepsLedger == Spec => LedgerSpec
  BY InitIsLedger, NextIsLedger, Invariant, PTL DEF Spec, LedgerSpec, Ledger!Spec

==============================================================================
