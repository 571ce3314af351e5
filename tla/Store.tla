-------------------------------- MODULE Store --------------------------------
(* What the handlers of the booking platform share: the tables services and  *)
(* bookings with the constraints PostgreSQL enforces on them, and the        *)
(* requests in flight.  A handler runs on Node's event loop and gives way at *)
(* every await, so a request is a program counter that stands before its     *)
(* next database call; one action is one such call together with the code    *)
(* that runs after it, up to the next await.                                 *)
EXTENDS FiniteSets, Integers, Responses, BookingStatus

CONSTANTS
    Requests,       \* the HTTP requests that may arrive
    SeedServices,   \* the services the database holds at the start
    SeedBookings,   \* and the bookings
    Slots,          \* pairs of a booking date and a booking time
    PastSlots,      \* the slots whose date the date validator refuses
    MalformedSlots, \* the slots whose date is of the form YYYY-MM-DD but no date
    Titles,         \* titles of services
    Fold,           \* the title in lower case
    SeedTitle,      \* the title of each seeded service
    SeedBooked,     \* the service and slot of each seeded booking
    Null,           \* no row, no value
    Offered,        \* bound: the operations clients call in this instance
    MaxInFlight,    \* bound: requests in flight at once (1: one at a time)
    Faults,         \* whether a database call may fail
    Crashes         \* whether the process may crash and restart

\* Rows get a fresh uuid when they are created: the request that creates a row
\* stands for it.
ServiceIds == SeedServices \cup Requests
BookingIds == SeedBookings \cup Requests

ServiceRows == [title : Titles, isActive : BOOLEAN]
BookingRows == [service : ServiceIds, slot : Slots, status : Status]

Ops == {"createBooking", "updateStatus", "cancelBooking",
        "createService", "updateService", "deleteService"}

\* A request as the controller hands it to the service: the operation with its
\* path parameter and body.  A field of a PATCH body may be absent.
Calls ==
    [op : {"createBooking"}, service : ServiceIds, slot : Slots]
    \cup [op : {"updateStatus"}, booking : BookingIds, status : Status]
    \cup [op : {"cancelBooking"}, booking : BookingIds]
    \cup [op : {"createService"}, title : Titles, isActive : BOOLEAN \cup {Null}]
    \cup [op : {"updateService"}, service : ServiceIds,
          title : Titles \cup {Null}, isActive : BOOLEAN \cup {Null}]
    \cup [op : {"deleteService"}, service : ServiceIds]

\* The database calls a request may stand before, and the continuation that
\* follows its write.
Steps == {"getService", "findDuplicate", "insertBooking",
          "findBooking", "writeStatus", "findToCancel", "writeCancel",
          "findByTitle", "insertService",
          "findToUpdate", "findNewTitle", "writeService",
          "findToDelete", "countBookings", "deleteRow",
          "respond"}

\* The calls of each handler before its answer is known.
HandlerSteps ==
    [createBooking |-> {"getService", "findDuplicate", "insertBooking"},
     updateStatus  |-> {"findBooking", "writeStatus"},
     cancelBooking |-> {"findToCancel", "writeCancel"},
     createService |-> {"findByTitle", "insertService"},
     updateService |-> {"findToUpdate", "findNewTitle", "writeService"},
     deleteService |-> {"findToDelete", "countBookings", "deleteRow"}]

\* The first database call of each handler.
FirstStep ==
    [createBooking |-> "getService",
     updateStatus  |-> "findBooking",
     cancelBooking |-> "findToCancel",
     createService |-> "findByTitle",
     updateService |-> "findToUpdate",
     deleteService |-> "findToDelete"]

ASSUME StoreAssumption ==
    /\ IsFiniteSet(Requests)
    /\ SeedServices \cap Requests = {}
    /\ SeedBookings \cap Requests = {}
    /\ PastSlots \subseteq Slots
    /\ MalformedSlots \subseteq Slots
    /\ PastSlots \cap MalformedSlots = {}
    /\ Fold \in [Titles -> Titles]
    /\ SeedTitle \in [SeedServices -> Titles]
    /\ SeedBooked \in [SeedBookings -> [service : SeedServices, slot : Slots]]
    /\ \A a, b \in SeedBookings : SeedBooked[a] = SeedBooked[b] => a = b
    /\ \A s, t \in SeedServices : Fold[SeedTitle[s]] = Fold[SeedTitle[t]] => s = t
    /\ Null \notin ServiceRows \cup BookingRows \cup Calls \cup Titles
    /\ Offered \subseteq Ops
    /\ MaxInFlight \in Nat \ {0}
    /\ Faults \in BOOLEAN
    /\ Crashes \in BOOLEAN

VARIABLES
    services,   \* table services: id -> row or Null
    bookings,   \* table bookings: id -> row or Null
    pc,         \* where each request stands
    call,       \* what each request asks for
    reply,      \* what each request is answered ("None": nothing yet)
    held,       \* history: the statuses each booking has held
    overtaken   \* history: requests whose checks another's commit has overtaken

tables  == <<services, bookings>>
request == <<pc, call, reply>>
history == <<held, overtaken>>
vars    == <<services, bookings, pc, call, reply, held, overtaken>>

------------------------------------------------------------------------------
(* The constraints of the schema.                                            *)

\* A faulty variant: an index over the bookings that are not cancelled.
SlotTakenByLive(s, slot) ==
    \E b \in BookingIds : /\ bookings[b] # Null
                          /\ bookings[b].service = s
                          /\ bookings[b].slot = slot
                          /\ bookings[b].status # "CANCELLED"

\* @@unique([serviceId, bookingDate, bookingTime]): status plays no part.
SlotTaken(s, slot) ==
    \E b \in BookingIds : /\ bookings[b] # Null
                          /\ bookings[b].service = s
                          /\ bookings[b].slot = slot

\* A faulty variant: a relation without a foreign key.
NeverReferenced(s) == FALSE

\* onDelete: Restrict on the booking's service.
Referenced(s) ==
    \E b \in BookingIds : bookings[b] # Null /\ bookings[b].service = s

------------------------------------------------------------------------------
(* The life of a request.                                                    *)

InFlight(r) == pc[r] \in Steps

\* The handler goes on to its next await.
Goto(r, step) ==
    /\ pc' = [pc EXCEPT ![r] = step]
    /\ UNCHANGED <<call, reply>>

\* The handler returns or throws: the answer leaves the process.
Answer(r, answer) ==
    /\ pc' = [pc EXCEPT ![r] = "done"]
    /\ reply' = [reply EXCEPT ![r] = answer]
    /\ UNCHANGED call

\* What a commit of request r overtakes: the requests whose checks found service
\* s and have yet to act on it,
FoundService(s, r) ==
    {q \in Requests \ {r} : /\ pc[q] \in {"findDuplicate", "insertBooking",
                                          "findNewTitle", "writeService",
                                          "countBookings", "deleteRow"}
                            /\ call[q].service = s}

\* those about to store a title,
AboutToTitle(title, r) ==
    {q \in Requests \ {r} : /\ pc[q] \in {"insertService", "writeService"}
                            /\ call[q].title # Null
                            /\ Fold[call[q].title] = Fold[title]}

\* those about to book slot of service s, or to delete s for want of bookings,
AboutToFill(s, slot, r) ==
    {q \in Requests \ {r} : /\ \/ pc[q] = "insertBooking" /\ call[q].slot = slot
                               \/ pc[q] = "deleteRow"
                            /\ call[q].service = s}

\* and those about to write the status of booking b.
AboutToWrite(b, r) ==
    {q \in Requests \ {r} : /\ pc[q] \in {"writeStatus", "writeCancel"}
                            /\ call[q].booking = b}

\* A write has committed; the handler has still to resume, log and answer.
Committed(r, answer) ==
    /\ pc' = [pc EXCEPT ![r] = "respond"]
    /\ reply' = [reply EXCEPT ![r] = answer]
    /\ UNCHANGED call

\* A request passes the guards and the validation pipe and enters its handler.
Receive(r) ==
    /\ pc[r] = "idle"
    /\ Cardinality({q \in Requests : InFlight(q)}) < MaxInFlight
    /\ \E c \in Calls :
        /\ c.op \in Offered
        /\ call' = [call EXCEPT ![r] = c]
        /\ pc' = [pc EXCEPT ![r] = FirstStep[c.op]]
    /\ UNCHANGED <<tables, reply, history>>

\* The continuation after a committed write: audit log, response.
Respond(r) ==
    /\ pc[r] = "respond"
    /\ pc' = [pc EXCEPT ![r] = "done"]
    /\ UNCHANGED <<tables, call, reply, history>>

\* The database call fails (or, after a write, its acknowledgement is lost): the
\* filters answer 500.  checkBookingsExist alone catches the error itself.
Fail(r) ==
    /\ Faults
    /\ InFlight(r)
    /\ pc[r] # "countBookings"
    /\ Answer(r, "DbError")
    /\ UNCHANGED <<tables, history>>

\* The process dies and is restarted: the requests in flight are never
\* answered, the tables stay.
Crash ==
    /\ Crashes
    /\ \E r \in Requests : InFlight(r)
    /\ pc' = [r \in Requests |-> IF InFlight(r) THEN "lost" ELSE pc[r]]
    /\ reply' = [r \in Requests |-> IF InFlight(r) THEN "None" ELSE reply[r]]
    /\ UNCHANGED <<tables, call, history>>

==============================================================================
