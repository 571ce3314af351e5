---------------------------- MODULE BookingStatus ----------------------------
(* The life cycle of a booking and the validator that guards it, a pure      *)
(* function of the status read and the status asked for                      *)
(* (validators/booking-status.validator.ts).                                 *)

\* The enum BookingStatus of the database schema.
Status == {"PENDING", "CONFIRMED", "CANCELLED", "COMPLETED"}

\* Faulty variants of ValidTransitions: a booking is completed without having
\* been confirmed; a cancelled booking is reopened.
TransitionsSkippingConfirmation ==
    [PENDING   |-> {"CONFIRMED", "COMPLETED", "CANCELLED"},
     CONFIRMED |-> {"COMPLETED", "CANCELLED"},
     CANCELLED |-> {},
     COMPLETED |-> {}]

TransitionsReopening ==
    [PENDING   |-> {"CONFIRMED", "CANCELLED"},
     CONFIRMED |-> {"COMPLETED", "CANCELLED"},
     CANCELLED |-> {"PENDING"},
     COMPLETED |-> {}]

\* The statuses a booking may move to from each status.
ValidTransitions ==
    [PENDING   |-> {"CONFIRMED", "CANCELLED"},
     CONFIRMED |-> {"COMPLETED", "CANCELLED"},
     CANCELLED |-> {},
     COMPLETED |-> {}]

\* What BookingStatusValidator.validate answers: "Valid", or the exception it
\* throws.  Repeating the current status is valid, except for COMPLETED.
Validate(current, new) ==
    IF current = "COMPLETED" THEN "CompletedBooking"
    ELSE IF current = "CANCELLED" /\ new = "COMPLETED" THEN "CancelledBooking"
    ELSE IF current # new /\ new \notin ValidTransitions[current]
         THEN "InvalidStatusTransition"
    ELSE "Valid"

==============================================================================
