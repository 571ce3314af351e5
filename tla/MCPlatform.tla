------------------------------ MODULE MCPlatform ------------------------------
(* Instances of the platform for TLC.                                        *)
EXTENDS BusinessRules, TLC

CONSTANTS r1, r2, r3, r4, haircut, booked

\* "Spa" and "SPA" are two titles, one in lower case.
MCFold == [t \in Titles |-> IF t = "SPA" THEN "Spa" ELSE t]
MCSeedTitle == [s \in {haircut} |-> "Cut"]

MCSeedBooked == [b \in {booked} |-> [service |-> haircut, slot |-> "mon"]]

Symmetry == Permutations(Requests)

==============================================================================
