------------------------------- MODULE MCDiary -------------------------------
(* Instances of the diary for TLC.                                           *)
EXTENDS Diary, TLC

CONSTANTS r1, r2, b1, b2

\* The list by the day, the list by the status, and the pending bookings of one
\* day from the latest made to the first.
MCQueries ==
    {[sortBy |-> "bookingDate", order |-> "asc", limit |-> 1, status |-> Null, day |-> Null],
     [sortBy |-> "status", order |-> "asc", limit |-> 3, status |-> Null, day |-> Null],
     [sortBy |-> "createdAt", order |-> "desc", limit |-> 1, status |-> "PENDING", day |-> 2]}

MCSeedRows ==
    [b \in {b1, b2} |->
        [bookingDate |-> IF b = b1 THEN 2 ELSE 3, bookingTime |-> 1,
         createdAt |-> IF b = b1 THEN 1 ELSE 0,
         status |-> IF b = b1 THEN "PENDING" ELSE "CANCELLED"]]

\* One row changes its status; the other that is there from the start is cancelled.
MCMovable == {b1}

\* A zone to the west of Greenwich and one to the east of it.
MCOffsets == {-1, 1}

Symmetry == Permutations(Requests)

==============================================================================
