------------------------------- MODULE Gateway -------------------------------
(* The platform behind its guards: what a request passes between its arrival *)
(* and its handler (JwtAuthGuard, JwtStrategy, RolesGuard, LoggerInterceptor)*)
(* and the audit trail the handlers leave.  The handlers are Platform's,     *)
(* unchanged; an administrator activates and deactivates accounts meanwhile. *)
EXTENDS Platform, Sequences

CONSTANTS
    Accounts,   \* the users of the database
    RoleOf,     \* their roles, which no endpoint changes
    Asked       \* bound: what clients ask for in this instance

Roles == {"ADMIN", "STAFF"}

ASSUME GatewayAssumption ==
    /\ RoleOf \in [Accounts -> Roles]
    /\ Null \notin Accounts
    /\ Asked \subseteq Calls

VARIABLES
    active,     \* column users.isActive
    gate,       \* where each request stands before its handler
    ask,        \* what each request asks for, from its arrival
    caller,     \* the account of its valid access token, or Null
    context,    \* the userId of its AsyncLocalStorage store, or Null
    trail,      \* the audit log
    seen,       \* history: isActive of the caller while the request was checked
    disturbed   \* history: bookings written while another request was at work on them

door    == <<gate, ask, caller, context, seen>>
audit   == <<trail, disturbed>>
allVars == <<vars, active, door, audit>>

------------------------------------------------------------------------------
(* The routes                                                                *)

\* createBooking is @Public(): its token, if it carries one, is not looked at.
Protected(op) == op # "createBooking"

\* @Roles of the services controller; the bookings routes only ask for a user.
RequiredRoles(op) ==
    CASE op = "deleteService" -> {"ADMIN"}
      [] OTHER -> {"ADMIN", "STAFF"}

\* RolesGuard.canActivate.
HasRole(r) == RoleOf[caller[r]] \in RequiredRoles(ask[r].op)

\* A faulty variant: the token alone decides.
TokenDecides(r) == caller[r] # Null

\* JwtStrategy.validate: the token is of an account that is active now.
Authenticated(r) == caller[r] # Null /\ active[caller[r]]

\* Faulty variants of SetUserId: one store for all requests; the user of the
\* token, guarded or not.
SetSharedUserId(r) ==
    context' = [q \in Requests |-> IF Protected(ask[r].op) THEN caller[r] ELSE context[q]]

\* LoggerInterceptor: request.user, which only the guard sets.
SetUserId(r) ==
    context' = [context EXCEPT ![r] = IF Protected(ask[r].op) THEN caller[r] ELSE Null]

------------------------------------------------------------------------------
(* The audit trail                                                           *)

\* A faulty variant: updateStatus knows no action for a completed booking.
ActionForgetsCompletion(c) ==
    CASE c.op = "updateStatus" /\ c.status = "CONFIRMED" -> "BOOKING_CONFIRMED"
      [] c.op = "updateStatus" /\ c.status = "CANCELLED" -> "BOOKING_CANCELLED"
      [] c.op = "cancelBooking" -> "BOOKING_CANCELLED"
      [] c.op = "deleteService" -> "SERVICE_DELETED"
      [] OTHER -> "BOOKING_CREATED"

\* What each handler logs after its write.  BOOKING_CREATED is updateStatus's
\* fallback, for a status it knows no action for.
Action(c) ==
    CASE c.op = "createBooking" -> "BOOKING_CREATED"
      [] c.op = "updateStatus" ->
            [PENDING   |-> "BOOKING_CREATED",
             CONFIRMED |-> "BOOKING_CONFIRMED",
             CANCELLED |-> "BOOKING_CANCELLED",
             COMPLETED |-> "BOOKING_COMPLETED"][c.status]
      [] c.op = "cancelBooking" -> "BOOKING_CANCELLED"
      [] c.op = "createService" -> "SERVICE_CREATED"
      [] c.op = "updateService" -> "SERVICE_UPDATED"
      [] c.op = "deleteService" -> "SERVICE_DELETED"

\* updateStatus keeps its fallback out of the log: a write of PENDING leaves
\* no entry.
IsLogged(c) == ~(c.op = "updateStatus" /\ Action(c) = "BOOKING_CREATED")

\* The row a request writes.
Resource(r) ==
    CASE call[r].op \in {"createBooking", "createService"} -> r
      [] call[r].op \in {"updateStatus", "cancelBooking"} -> call[r].booking
      [] call[r].op \in {"updateService", "deleteService"} -> call[r].service

\* A faulty variant: the two ids are swapped.
EntrySwapped(r) == [request |-> context[r], action |-> Action(call[r]),
                    resource |-> Resource(r), userId |-> r]

\* AuditService.log reads requestId and userId from the store of the request.
Entry(r) == [request |-> r, action |-> Action(call[r]),
             resource |-> Resource(r), userId |-> context[r]]

\* A faulty variant: the entry is written as the handler enters its write.
LogBeforeWrite(r) ==
    trail' = IF pc'[r] \in {"writeStatus", "writeCancel", "deleteRow", "insertBooking"}
                /\ IsLogged(call[r])
             THEN Append(trail, Entry(r)) ELSE trail

\* The entry is written in the continuation that follows a committed write.
LogIfDone(r) ==
    trail' = IF pc[r] = "respond" /\ IsLogged(call[r])
             THEN Append(trail, Entry(r)) ELSE trail

\* The requests whose write is of a booking.
WritesBooking(r) == call[r].op \in {"createBooking", "updateStatus", "cancelBooking"}

\* Requests on booking b that have read it and not yet logged what they wrote.
AtWorkOn(b) ==
    {q \in Requests : \/ /\ pc[q] \in {"writeStatus", "writeCancel"}
                         /\ call[q].booking = b
                      \/ pc[q] = "respond" /\ WritesBooking(q) /\ Resource(q) = b}

\* Request r writes the status of its booking in this step while another is at
\* work on the booking.
Disturb(r) ==
    disturbed' = IF WritesStatus(r) /\ AtWorkOn(call[r].booking) \ {r} # {}
                 THEN disturbed \cup {call[r].booking} ELSE disturbed

------------------------------------------------------------------------------

\* A request arrives, with or without a valid access token.
Arrive(r) ==
    /\ gate[r] = "outside"
    /\ \E c \in Asked, a \in Accounts \cup {Null} :
        /\ ask' = [ask EXCEPT ![r] = c]
        /\ caller' = [caller EXCEPT ![r] = a]
        /\ seen' = [seen EXCEPT ![r] = IF a = Null THEN {} ELSE {active[a]}]
    /\ gate' = [gate EXCEPT ![r] = "guards"]
    /\ UNCHANGED <<vars, active, context, audit>>

\* The guards let the request through to its handler.
Admit(r) ==
    /\ gate[r] = "guards"
    /\ Protected(ask[r].op) => Authenticated(r) /\ HasRole(r)
    /\ Receive(r)
    /\ call'[r] = ask[r]
    /\ SetUserId(r)
    /\ gate' = [gate EXCEPT ![r] = "inside"]
    /\ UNCHANGED <<active, ask, caller, seen, audit>>

\* A faulty variant: a read that fails counts as an account that is not active.
WhyTurnedAwayFailingClosed(r) ==
    {answer \in {"Unauthorized", "Forbidden"} :
        \/ answer = "Unauthorized" /\ (Faults \/ ~Authenticated(r))
        \/ answer = "Forbidden" /\ Authenticated(r) /\ ~HasRole(r)}

\* The answers the guards may give instead: no user, or not his role, or the
\* error of the read, which JwtAuthGuard.handleRequest throws on.
WhyTurnedAway(r) ==
    {answer \in {"Unauthorized", "Forbidden", "DbError"} :
        \/ answer = "Unauthorized" /\ ~Authenticated(r)
        \/ answer = "Forbidden" /\ Authenticated(r) /\ ~HasRole(r)
        \/ answer = "DbError" /\ Faults /\ caller[r] # Null}

TurnAway(r) ==
    /\ gate[r] = "guards"
    /\ Protected(ask[r].op)
    /\ \E answer \in WhyTurnedAway(r) : gate' = [gate EXCEPT ![r] = answer]
    /\ UNCHANGED <<vars, active, ask, caller, context, seen, audit>>

\* A step of the request's handler, and the entry it logs.
Handle(r) ==
    /\ Advance(r)
    /\ LogIfDone(r)
    /\ Disturb(r)
    /\ UNCHANGED <<active, door>>

\* A database call of the handler fails; nothing is logged.
FailInside(r) ==
    /\ Fail(r)
    /\ UNCHANGED <<active, door, audit>>

\* An administrator activates or deactivates an account (Sessions has the
\* handler); requests at the guards see the change at their read.
SetActive(a) ==
    /\ active' = [active EXCEPT ![a] = ~@]
    /\ seen' = [r \in Requests |->
            IF gate[r] = "guards" /\ caller[r] = a
            THEN seen[r] \cup {active'[a]} ELSE seen[r]]
    /\ UNCHANGED <<vars, gate, ask, caller, context, audit>>

\* The process dies: the requests at the guards are lost too.  The trail is in
\* the log files.
CrashAll ==
    /\ \/ Crash
       \/ /\ Crashes
          /\ \E r \in Requests : gate[r] = "guards"
          /\ \A r \in Requests : ~InFlight(r)
          /\ UNCHANGED vars
    /\ gate' = [r \in Requests |-> IF gate[r] = "guards" THEN "lost" ELSE gate[r]]
    /\ UNCHANGED <<active, ask, caller, context, seen, audit>>

GatewayInit ==
    /\ Init
    /\ active \in [Accounts -> BOOLEAN]
    /\ gate = [r \in Requests |-> "outside"]
    /\ ask = [r \in Requests |-> Null]
    /\ caller = [r \in Requests |-> Null]
    /\ context = [r \in Requests |-> Null]
    /\ trail = <<>>
    /\ seen = [r \in Requests |-> {}]
    /\ disturbed = {}

GatewayNext ==
    \/ \E r \in Requests :
        Arrive(r) \/ Admit(r) \/ TurnAway(r) \/ Handle(r) \/ FailInside(r)
    \/ \E a \in Accounts : SetActive(a)
    \/ CrashAll

GatewaySpec == GatewayInit /\ [][GatewayNext]_allVars

------------------------------------------------------------------------------
(* Safety                                                                    *)

\* The status an entry about a booking says the booking has now.
StatusTold ==
    [BOOKING_CREATED   |-> "PENDING",
     BOOKING_CONFIRMED |-> "CONFIRMED",
     BOOKING_CANCELLED |-> "CANCELLED",
     BOOKING_COMPLETED |-> "COMPLETED"]

Entries ==
    [request : Requests, action : DOMAIN StatusTold,
     resource : BookingIds, userId : Accounts \cup {Null}]
    \cup [request : Requests,
          action : {"SERVICE_CREATED", "SERVICE_UPDATED", "SERVICE_DELETED"},
          resource : ServiceIds, userId : Accounts \cup {Null}]

\* Type invariant of what the gateway adds to the platform.
GatewayTypeOK ==
    /\ active \in [Accounts -> BOOLEAN]
    /\ gate \in [Requests -> {"outside", "guards", "inside", "Unauthorized",
                              "Forbidden", "DbError", "lost"}]
    /\ ask \in [Requests -> Calls \cup {Null}]
    /\ caller \in [Requests -> Accounts \cup {Null}]
    /\ context \in [Requests -> Accounts \cup {Null}]
    /\ trail \in Seq(Entries)
    /\ seen \in [Requests -> SUBSET BOOLEAN]
    /\ disturbed \in SUBSET BookingIds

\* Request r was let in with the token of an account that was active at some
\* moment between its arrival and its admission and has one of the roles.
ActsFor(r, roles) ==
    /\ caller[r] # Null
    /\ RoleOf[caller[r]] \in roles
    /\ TRUE \in seen[r]

\* Request r commits a write in this step.
Commits(r) == pc[r] # "respond" /\ pc'[r] = "respond"

\* Whatever happens to accounts while requests wait at the guards, a service is
\* removed only for an administrator, a service or a booking's status changed
\* only for a user, whose account was active while the request was checked.
ChangesAreAuthorised ==
    [][/\ \A s \in ServiceIds : services'[s] # services[s] =>
            \E r \in Requests : /\ Commits(r)
                               /\ ActsFor(r, IF services'[s] = Null THEN {"ADMIN"} ELSE Roles)
       /\ \A b \in BookingIds : bookings[b] # Null /\ bookings'[b] # bookings[b] =>
            \E r \in Requests : Commits(r) /\ ActsFor(r, Roles)]_allVars

\* A client told 401 had no valid token or its account was inactive at some
\* moment since it asked; one told 403 lacks the role.  A database that fails
\* never makes a user with a good token a stranger.
RefusalsAreJust ==
    \A r \in Requests :
        /\ gate[r] = "Unauthorized" => caller[r] = Null \/ FALSE \in seen[r]
        /\ gate[r] = "Forbidden" => /\ TRUE \in seen[r]
                                    /\ ask[r].op = "deleteService"
                                    /\ RoleOf[caller[r]] = "STAFF"

\* However the requests interleave over their awaits, an entry names the user
\* whose token its own request carried, and nobody when the route is public.
TrailNamesCallers ==
    \A i \in DOMAIN trail :
        trail[i].userId = IF trail[i].action = "BOOKING_CREATED"
                          THEN Null ELSE caller[trail[i].request]

AboutBooking(i) == trail[i].action \in DOMAIN StatusTold

\* Every entry is of something that happened, once: a request that was refused,
\* failed or lost has none, a booking has held the status its entry tells, and
\* a service reported deleted is gone for good.
TrailIsTrue ==
    \A i \in DOMAIN trail :
        /\ pc[trail[i].request] = "done"
        /\ reply[trail[i].request] \in Successes
        /\ \A j \in DOMAIN trail : trail[j].request = trail[i].request => i = j
        /\ AboutBooking(i) =>
            StatusTold[trail[i].action] \in held[trail[i].resource]
        /\ trail[i].action = "SERVICE_DELETED" => services[trail[i].resource] = Null

\* A request whose write may have committed and that will not log it: its
\* process died or its database call failed.
MayHaveWrittenUnlogged(r, b) ==
    /\ call[r] # Null
    /\ WritesBooking(r)
    /\ Resource(r) = b
    /\ pc[r] \in {"respond", "lost"} \/ reply[r] = "DbError"

\* Every success the handlers answered is in the trail, but for a write of
\* PENDING and a cancellation that found its booking cancelled.
TrailMissesNothing ==
    \A r \in Requests :
        /\ pc[r] = "done"
        /\ reply[r] \in Successes
        /\ call[r].op = "updateStatus" => call[r].status # "PENDING"
        => \/ \E i \in DOMAIN trail : trail[i].request = r
           \/ /\ call[r].op = "cancelBooking"
              /\ "CANCELLED" \in held[call[r].booking]

\* The last entry about a booking.
LastAbout(i, b) ==
    /\ AboutBooking(i) /\ trail[i].resource = b
    /\ \A j \in DOMAIN trail : j > i => ~(AboutBooking(j) /\ trail[j].resource = b)

\* Whoever reads the trail of a booking learns its status from the last entry,
\* unless two requests were at work on it at once (their entries may then be in
\* the other order than their writes, and a write of PENDING has no entry) or a
\* write may have gone unlogged.
TrailTellsStatus ==
    \A b \in BookingIds \ disturbed :
        (\A r \in Requests : ~MayHaveWrittenUnlogged(r, b)) =>
            \A i \in DOMAIN trail :
                LastAbout(i, b) => bookings[b].status = StatusTold[trail[i].action]

------------------------------------------------------------------------------
(* The inductive invariant, with the platform's own IInv.                    *)

\* The gate and the handler agree on where a request is and what it asks.
InItsPlace ==
    \A r \in Requests :
        /\ gate[r] # "outside" => ask[r] # Null
        /\ gate[r] = "inside" => pc[r] # "idle" /\ call[r] = ask[r]
        /\ gate[r] # "inside" => pc[r] = "idle"

\* What the guards have seen, and what they let in.
Checked ==
    \A r \in Requests :
        /\ gate[r] = "guards" /\ caller[r] # Null => active[caller[r]] \in seen[r]
        /\ gate[r] = "inside" =>
            /\ Protected(ask[r].op) => ActsFor(r, RequiredRoles(ask[r].op))
            /\ context[r] = IF Protected(ask[r].op) THEN caller[r] ELSE Null

\* A booking that was not made has no history.
HeldByRows == \A b \in BookingIds : bookings[b] = Null => held[b] = {}

\* A service that was deleted: its id is not given again.
Gone(s) ==
    /\ s \in ServiceIds
    /\ services[s] = Null
    /\ s \in Requests => pc[s] \in {"respond", "done", "lost"}

\* The status a request gives its booking.
Gave(r) ==
    CASE call[r].op = "createBooking" -> "PENDING"
      [] call[r].op = "updateStatus" -> call[r].status
      [] call[r].op = "cancelBooking" -> "CANCELLED"

\* What a request that has still to answer has written.
Written ==
    \A r \in Requests :
        /\ pc[r] \in {"idle"} \cup (Steps \ {"respond"}) => reply[r] = "None"
        /\ pc[r] = "respond" =>
            /\ reply[r] \in Successes
            /\ WritesBooking(r) => /\ bookings[Resource(r)] # Null
                                  /\ Gave(r) \in held[Resource(r)]
            /\ call[r].op = "deleteService" => Gone(call[r].service)

DeletedAreGone ==
    \A i \in DOMAIN trail :
        trail[i].action = "SERVICE_DELETED" => Gone(trail[i].resource)

\* The booking of a request that writes a stale status is disturbed.
OvertakenIsDisturbed ==
    \A r \in overtaken :
        /\ pc[r] # "idle"
        /\ call[r].op \in {"updateStatus", "cancelBooking"} => call[r].booking \in disturbed

\* Request r has written booking b and is about to log it.
AboutToLog(r, b) == pc[r] = "respond" /\ WritesBooking(r) /\ Resource(r) = b

\* An undisturbed booking has the status its one writer gave it.
OneLogsAtATime ==
    \A b \in BookingIds \ disturbed : \A r \in Requests : AboutToLog(r, b) =>
        /\ bookings[b].status = Gave(r)
        /\ \A q \in Requests : AboutToLog(q, b) => q = r

\* A write of PENDING in a booking nobody disturbs changes nothing: its missing
\* entry is not missed.
MissesEntry(r, b) ==
    /\ MayHaveWrittenUnlogged(r, b)
    /\ ~(pc[r] = "respond" /\ ~IsLogged(call[r]))

TrailTells ==
    \A b \in BookingIds \ disturbed :
        (\A r \in Requests : ~MissesEntry(r, b)) =>
            \A i \in DOMAIN trail :
                LastAbout(i, b) => bookings[b].status = StatusTold[trail[i].action]

GatewayIInv ==
    /\ GatewayTypeOK
    /\ InItsPlace
    /\ Checked
    /\ RefusalsAreJust
    /\ FreshServices
    /\ HeldByRows
    /\ Written
    /\ TrailNamesCallers
    /\ TrailIsTrue
    /\ DeletedAreGone
    /\ TrailMissesNothing
    /\ OvertakenIsDisturbed
    /\ OneLogsAtATime
    /\ TrailTells

==============================================================================
