------------------------------ MODULE SlotLedger ------------------------------
(* What the platform promises about slots, without requests or handlers: a   *)
(* ledger of the services on offer and of the bookings made.  An entry is    *)
(* never changed and never removed, a service with entries is never removed, *)
(* and a service's slot has one entry at most.  A cancelled booking keeps    *)
(* its entry.                                                                *)

CONSTANTS Services, Bookings, Slots

VARIABLES
    open,       \* the services that exist
    entries     \* the bookings made: who holds which slot of which service

Entries == [booking : Bookings, service : Services, slot : Slots]

Unbooked(s) == \A e \in entries : e.service # s
Free(s, slot) == \A e \in entries : e.service = s => e.slot # slot
Unused(b) == \A e \in entries : e.booking # b

Init ==
    /\ open \in SUBSET Services
    /\ entries \in SUBSET [booking : Bookings, service : open, slot : Slots]
    /\ \A d, e \in entries :
        d.booking = e.booking \/ (d.service = e.service /\ d.slot = e.slot) => d = e

Open(s) ==
    /\ open' = open \cup {s}
    /\ UNCHANGED entries

Close(s) ==
    /\ s \in open
    /\ Unbooked(s)
    /\ open' = open \ {s}
    /\ UNCHANGED entries

Book(b, s, slot) ==
    /\ s \in open
    /\ Unused(b)
    /\ Free(s, slot)
    /\ entries' = entries \cup {[booking |-> b, service |-> s, slot |-> slot]}
    /\ UNCHANGED open

Next ==
    \/ \E s \in Services : Open(s) \/ Close(s)
    \/ \E b \in Bookings, s \in Services, slot \in Slots : Book(b, s, slot)

Spec == Init /\ [][Next]_<<open, entries>>

------------------------------------------------------------------------------

TypeOK == open \subseteq Services /\ entries \subseteq Entries

\* A slot of a service has one holder: two customers are never promised the
\* same service at the same date and time.
OneHolder ==
    \A d, e \in entries : d.service = e.service /\ d.slot = e.slot => d = e

\* Every entry is for a service that still exists.
NoOrphans == \A e \in entries : e.service \in open

==============================================================================
