------------------------------- MODULE Platform -------------------------------
(* The booking platform: any number of requests, each in one of the handlers *)
(* of Services and Bookings, interleaved call by call over the shared        *)
(* tables, with database failures and crashes of the process.                *)
EXTENDS Bookings

\* The statuses a seeded booking of a status has gone through.
SeedHistory ==
    [PENDING   |-> {"PENDING"},
     CONFIRMED |-> {"PENDING", "CONFIRMED"},
     CANCELLED |-> {"PENDING", "CANCELLED"},
     COMPLETED |-> {"PENDING", "CONFIRMED", "COMPLETED"}]

\* A database left by earlier requests, and no request in flight.
Init ==
    /\ \E active \in [SeedServices -> BOOLEAN] :
        services = [s \in ServiceIds |->
            IF s \in SeedServices
            THEN [title |-> SeedTitle[s], isActive |-> active[s]] ELSE Null]
    /\ \E status \in [SeedBookings -> Status] :
        /\ bookings = [b \in BookingIds |->
            IF b \in SeedBookings
            THEN [service |-> SeedBooked[b].service, slot |-> SeedBooked[b].slot,
                  status |-> status[b]] ELSE Null]
        /\ held = [b \in BookingIds |->
            IF b \in SeedBookings THEN SeedHistory[status[b]] ELSE {}]
    /\ pc = [r \in Requests |-> "idle"]
    /\ call = [r \in Requests |-> Null]
    /\ reply = [r \in Requests |-> "None"]
    /\ overtaken = {}

\* A step of a request that is being handled.
Advance(r) == ServicesNext(r) \/ BookingsNext(r) \/ Respond(r)

\* Every request of the instance has been handled.
Quiet ==
    /\ \A r \in Requests : pc[r] \in {"done", "lost"}
    /\ UNCHANGED vars

Next ==
    \/ \E r \in Requests : Receive(r) \/ Advance(r) \/ Fail(r)
    \/ Crash
    \/ Quiet

Spec == Init /\ [][Next]_vars

\* The event loop resumes every promise that settles, and every database call
\* settles, with a result or an error; clients owe nothing.
Fairness == \A r \in Requests : WF_vars(Advance(r))

FairSpec == Spec /\ Fairness

------------------------------------------------------------------------------
(* Safety                                                                    *)

\* Type invariant of the tables and the requests.
TypeOK ==
    /\ services \in [ServiceIds -> ServiceRows \cup {Null}]
    /\ bookings \in [BookingIds -> BookingRows \cup {Null}]
    /\ pc \in [Requests -> Steps \cup {"idle", "done", "lost"}]
    /\ call \in [Requests -> Calls \cup {Null}]
    /\ \A r \in Requests : pc[r] # "idle" => call[r] # Null
    /\ reply \in [Requests -> Answers \cup {"None"}]
    /\ held \in [BookingIds -> SUBSET Status]
    /\ overtaken \in SUBSET Requests

\* However requests to book race past findDuplicateBooking, a service's slot
\* has one booking: only the unique index decides.
SlotUnique ==
    \A a, b \in BookingIds :
        (/\ bookings[a] # Null
         /\ bookings[b] # Null
         /\ bookings[a].service = bookings[b].service
         /\ bookings[a].slot = bookings[b].slot) => a = b

\* Every booking refers to a service that exists, whatever a deleteService
\* whose count is stale or has failed goes on to do.
NoOrphanBooking ==
    \A b \in BookingIds : bookings[b] # Null => services[bookings[b].service] # Null

\* A booking is completed only after it was confirmed, although the status a
\* request validated may be gone when it writes.
CompletedWasConfirmed ==
    \A b \in BookingIds : "COMPLETED" \in held[b] => "CONFIRMED" \in held[b]

\* A request to book that has been answered: Created means its row is there and
\* stays there; any refusal means no row.  Only a 500 leaves the client unsure.
BookingAnswersAreTrue ==
    \A r \in Requests :
        pc[r] = "done" /\ call[r].op = "createBooking" =>
            /\ reply[r] = "Created" =>
                /\ bookings[r] # Null
                /\ bookings[r].service = call[r].service
                /\ bookings[r].slot = call[r].slot
            /\ reply[r] \notin {"Created", "DbError"} => bookings[r] = Null

\* A request to book is refused with a conflict over the slot only if another
\* booking holds exactly that slot of that service.
ConflictHasHolder ==
    \A r \in Requests :
        /\ pc[r] = "done"
        /\ call[r].op = "createBooking"
        /\ reply[r] \in {"BookingAlreadyExists", "P2002"}
        => \E b \in BookingIds \ {r} : /\ bookings[b] # Null
                                       /\ bookings[b].service = call[r].service
                                       /\ bookings[b].slot = call[r].slot

\* A booking a handler has found is still there when it writes it: updateStatus
\* and cancelBooking never answer the client's "record not found".
FoundBookingStays ==
    \A r \in Requests :
        pc[r] \in {"respond", "done"} /\ call[r].op \in {"updateStatus", "cancelBooking"}
            => reply[r] # "P2025"

------------------------------------------------------------------------------
(* The inductive invariant: what the safety properties rest on.              *)

\* A request in flight stands in the handler of its operation.
InItsHandler ==
    \A r \in Requests :
        InFlight(r) => pc[r] \in HandlerSteps[call[r].op] \cup {"respond"}

\* The id of a request has a booking only once the request's insert committed.
FreshIds ==
    \A r \in Requests :
        bookings[r] # Null => /\ call[r] # Null
                              /\ call[r].op = "createBooking"
                              /\ pc[r] \in {"respond", "done", "lost"}
                              /\ bookings[r].service = call[r].service
                              /\ bookings[r].slot = call[r].slot

\* The id of a request has a service only once its insert committed.
FreshServices ==
    \A r \in Requests : services[r] # Null => pc[r] \in {"respond", "done", "lost"}

\* The booking of a request about to write is there: bookings never go.
FoundBookings ==
    \A r \in Requests : pc[r] \in {"writeStatus", "writeCancel"}
        => bookings[call[r].booking] # Null

\* The history is that of the rows, and what a request about to complete a
\* booking has read stays true of the history if not of the row.
ConfirmedFirst ==
    /\ \A b \in BookingIds :
        /\ bookings[b] # Null => bookings[b].status \in held[b]
        /\ "COMPLETED" \in held[b] => "CONFIRMED" \in held[b]
    /\ \A r \in Requests : pc[r] = "writeStatus" /\ call[r].status = "COMPLETED"
        => "CONFIRMED" \in held[call[r].booking]

\* The status a request about to write asks for.
Target(r) == IF pc[r] = "writeCancel" THEN "CANCELLED" ELSE call[r].status

\* What a request has validated holds of the row until another writes it.
ValidUnlessOvertaken ==
    \A r \in Requests \ overtaken : pc[r] \in {"writeStatus", "writeCancel"}
        => Validate(bookings[call[r].booking].status, Target(r)) = "Valid"

\* The answers to createBooking, from the moment they are decided.
AnswersDecided ==
    \A r \in Requests :
        /\ pc[r] = "done" \/ pc[r] = "respond"
        /\ call[r].op = "createBooking"
        => /\ pc[r] = "respond" => reply[r] = "Created"
           /\ reply[r] = "Created" => bookings[r] # Null
           /\ reply[r] \notin {"Created", "DbError"} => bookings[r] = Null

IInv ==
    /\ TypeOK
    /\ InItsHandler
    /\ FreshIds
    /\ FoundBookings
    /\ SlotUnique
    /\ NoOrphanBooking
    /\ ConfirmedFirst
    /\ ValidUnlessOvertaken
    /\ AnswersDecided
    /\ ConflictHasHolder
    /\ FoundBookingStays

------------------------------------------------------------------------------
(* What a step may do                                                        *)

\* The transitions the validator lets an undisturbed request make.
Legal(current, new) == Validate(current, new) = "Valid"

\* Request r writes the status of its booking in this step.
WritesStatus(r) ==
    pc[r] \in {"writeStatus", "writeCancel"} /\ pc'[r] = "respond"

\* The read-validate-write of updateStatus and cancelBooking is as good as a
\* lock unless another request wrote the same booking in between: every other
\* write moves the row it meets, not only the row it read, legally.
LegalUnlessOvertaken ==
    [][\A r \in Requests : WritesStatus(r) /\ r \notin overtaken =>
            LET b == call[r].booking IN
            Legal(bookings[b].status, bookings'[b].status)]_vars

\* The tables keep the slot ledger: every step is a step of the abstract ledger
\* or leaves it alone, under any interleaving, failure and crash.
OpenOf == {s \in ServiceIds : services[s] # Null}

EntriesOf == {[booking |-> b, service |-> bookings[b].service,
               slot |-> bookings[b].slot] :
                    b \in {x \in BookingIds : bookings[x] # Null}}

Ledger == INSTANCE SlotLedger WITH
    Services <- ServiceIds, Bookings <- BookingIds, Slots <- Slots,
    open <- OpenOf, entries <- EntriesOf

LedgerSpec == Ledger!Spec

==============================================================================
