---------------------------- MODULE BusinessRules ----------------------------
(* The rules the repository's documents state of bookings and services.  The *)
(* ones no database constraint backs are kept by a check that is followed by *)
(* awaits, so concurrent requests break them.  What the code does give is    *)
(* stated here of every interleaving: a request breaks a rule only if the    *)
(* commit of another has overtaken its checks.                               *)
EXTENDS Platform

------------------------------------------------------------------------------
(* The rules as documented; concurrent requests break them.                  *)

\* README, Business Rules, State Logic: a cancelled booking is never completed.
CancelledNeverCompleted ==
    [][\A b \in BookingIds :
        /\ bookings[b] # Null /\ bookings'[b] # Null
        /\ bookings[b].status = "CANCELLED"
        => bookings'[b].status # "COMPLETED"]_vars

\* Two services with the same title, whatever its case.
Twins(s, t) ==
    /\ s # t
    /\ services[s] # Null
    /\ services[t] # Null
    /\ Fold[services[s].title] = Fold[services[t].title]

\* The conflict createService and updateService answer: no two services have
\* the same title.
TitlesUnique == \A s, t \in ServiceIds : ~Twins(s, t)

\* README, Business Rules, Service Integrity: a service with bookings is made
\* inactive instead of deleted.  It then stays so until a request asks for
\* isActive: true.
InactiveUntilActivated ==
    [][\A s \in ServiceIds :
        /\ services[s] # Null /\ ~services[s].isActive
        /\ services'[s] # Null /\ services'[s].isActive
        => \E r \in Requests : /\ pc[r] = "writeService"
                               /\ pc'[r] = "respond"
                               /\ call[r].service = s
                               /\ call[r].isActive = TRUE]_vars

------------------------------------------------------------------------------
(* The rules as the code keeps them, under any interleaving.                 *)

\* README, Business Rules, Service Requirement: the request that makes a booking
\* makes it of an active service, unless that service was written between the
\* look at it and the insert.
ActiveUnlessOvertaken ==
    [][\A r \in Requests \ overtaken :
        bookings[r] = Null /\ bookings'[r] # Null
        => /\ services[call[r].service] # Null
           /\ services[call[r].service].isActive]_vars

\* Two services come to have one title only by the commit of a request whose
\* look for the title, or for the service it renames, another has overtaken.
TwinsOnlyIfOvertaken ==
    [][\A s, t \in ServiceIds :
        ~Twins(s, t) /\ Twins(s, t)'
        => \E r \in overtaken : /\ pc[r] \in {"insertService", "writeService"}
                                /\ pc'[r] = "respond"]_vars

\* The database stops a request its handler's checks let through only if another
\* has overtaken them, if the slot's holder was cancelled (the duplicate check
\* does not see it, the unique index does), or if the count of a service's
\* bookings failed and was taken for none.
RefusedOnlyIfOvertaken ==
    \A r \in Requests \ overtaken :
        pc[r] = "done" /\ reply[r] \in {"P2002", "P2003", "P2025"} =>
            \/ /\ reply[r] = "P2002"
               /\ \E b \in BookingIds \ {r} : /\ bookings[b] # Null
                                              /\ bookings[b].service = call[r].service
                                              /\ bookings[b].slot = call[r].slot
                                              /\ "CANCELLED" \in held[b]
            \/ reply[r] = "P2003" /\ call[r].op = "deleteService" /\ Faults

------------------------------------------------------------------------------
(* The inductive invariant, with the platform's own IInv.                    *)

\* What the checks of a request have found is still so when it goes on.
ChecksHold(r) ==
    /\ pc[r] \in {"findDuplicate", "insertBooking", "findNewTitle", "writeService",
                  "countBookings", "deleteRow"}
        => services[call[r].service] # Null
    /\ pc[r] \in {"findDuplicate", "insertBooking"} => services[call[r].service].isActive
    /\ pc[r] = "insertBooking"
        => \A b \in BookingIds : /\ bookings[b] # Null
                                 /\ bookings[b].service = call[r].service
                                 /\ bookings[b].slot = call[r].slot
                                 => "CANCELLED" \in held[b]
    /\ pc[r] = "insertService" => ~TitleTaken(call[r].title)
    /\ pc[r] = "writeService" /\ Renames(r) => ~TitleTaken(call[r].title)
    /\ pc[r] = "deleteRow" => Faults \/ ~HasBookings(call[r].service)

ChecksHoldUnlessOvertaken ==
    /\ FreshServices
    /\ \A r \in Requests \ overtaken : ChecksHold(r)
    /\ \A r \in Requests : pc[r] = "respond" => reply[r] \in Successes
    /\ RefusedOnlyIfOvertaken

------------------------------------------------------------------------------
(* Liveness                                                                  *)

\* A request that enters a handler is answered, unless the process dies first:
\* no branch of a handler forgets to return, throw or go on.
EveryRequestSettles ==
    \A r \in Requests : InFlight(r) ~> pc[r] \in {"done", "lost"}

==============================================================================
