------------------------------ MODULE MCGateway ------------------------------
(* An instance of the gateway for TLC.                                       *)
EXTENDS Gateway, TLC

CONSTANTS r1, r2, haircut, booked, owner, clerk

MCFold == [t \in Titles |-> t]
MCSeedTitle == [s \in {haircut} |-> "Cut"]
MCSeedBooked == [b \in {booked} |-> [service |-> haircut, slot |-> "mon"]]
MCRoleOf == [a \in {owner, clerk} |-> IF a = owner THEN "ADMIN" ELSE "STAFF"]

\* A free slot is booked, the new booking and the seeded one are confirmed; the
\* seeded one is also completed, reset and cancelled; its service is deleted.
MCAsked ==
    [op : {"createBooking"}, service : {haircut}, slot : {"tue"}]
    \cup [op : {"updateStatus"}, booking : BookingIds, status : {"CONFIRMED"}]
    \cup [op : {"updateStatus"}, booking : {booked}, status : {"PENDING", "COMPLETED"}]
    \cup [op : {"cancelBooking"}, booking : {booked}]
    \cup [op : {"deleteService"}, service : {haircut}]

Symmetry == Permutations(Requests)

==============================================================================
