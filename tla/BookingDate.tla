----------------------------- MODULE BookingDate -----------------------------
(* The date validator of bookings (validators/booking-date.validator.ts): it *)
(* compares the midnight that begins the booked day in UTC, which is what    *)
(* Date makes of a YYYY-MM-DD string, with the midnight that began the       *)
(* server's own day, wherever the server is.                                 *)
EXTENDS Integers

CONSTANTS
    DayLength,  \* the instants of a day
    NaN         \* the time value of a string that names no day

ASSUME DateAssumption ==
    /\ DayLength \in Nat \ {0}
    /\ NaN \notin Int

\* The distances of local time from UTC.
ZoneOffsets == (1 - DayLength) .. (DayLength - 1)

\* new Date("YYYY-MM-DD"): days and instants are counted in UTC.
BookedInstant(day) == day * DayLength

\* The calendar day an instant falls on, where local time is ahead by offset.
LocalDay(instant, offset) == (instant + offset) \div DayLength

\* today.setHours(0, 0, 0, 0).
LocalMidnight(instant, offset) == LocalDay(instant, offset) * DayLength - offset

\* Faulty variants: a day counts until its last instant; the hours of today
\* are not cleared.
InPastAtItsEnd(day, instant, offset) ==
    day # NaN /\ BookedInstant(day) + DayLength < LocalMidnight(instant, offset)

InPastByTheHour(day, instant, offset) ==
    day # NaN /\ BookedInstant(day) < instant

\* bookingDate < today.  NaN is not before anything.
InPast(day, instant, offset) ==
    day # NaN /\ BookedInstant(day) < LocalMidnight(instant, offset)

==============================================================================
