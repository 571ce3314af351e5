--------------------------- MODULE SlotLedgerProofs ---------------------------
(* What the slot ledger guarantees to whatever implements it.                *)
EXTENDS SlotLedger, TLAPS

LInv == TypeOK /\ OneHolder /\ NoOrphans

\* Any ledger the platform starts from has one holder to a slot, and services
\* for its bookings.
LEMMA InitLedger == Init => LInv
  BY DEF Init, LInv, TypeOK, OneHolder, NoOrphans, Entries

\* Opening, closing and booking keep it so.
LEMMA NextLedger == LInv /\ [Next]_<<open, entries>> => LInv'
  <1> SUFFICES ASSUME LInv, [Next]_<<open, entries>> PROVE LInv'
    OBVIOUS
  <1> USE DEF LInv, TypeOK, OneHolder, NoOrphans
  <1>1. ASSUME NEW s \in Services, Open(s) PROVE LInv'
    BY <1>1 DEF Open
  <1>2. ASSUME NEW s \in Services, Close(s) PROVE LInv'
    BY <1>2 DEF Close, Unbooked
  <1>3. ASSUME NEW b \in Bookings, NEW s \in Services, NEW slot \in Slots, Book(b, s, slot)
        PROVE  LInv'
    <2>1. [booking |-> b, service |-> s, slot |-> slot] \in Entries
      BY DEF Entries
    <2>2. TypeOK' /\ NoOrphans'
      BY <1>3, <2>1 DEF Book
    <2>3. OneHolder'
      BY <1>3 DEF Book, Free
    <2> QED
      BY <2>2, <2>3
  <1>4. CASE UNCHANGED <<open, entries>>
    BY <1>4
  <1> QED
    BY <1>1, <1>2, <1>3, <1>4 DEF Next

\* A slot of a service never has two holders.
THEOREM LedgerHasOneHolder == Spec => []OneHolder
  <1>1. LInv => OneHolder
    BY DEF LInv
  <1> QED
    BY <1>1, InitLedger, NextLedger, PTL DEF Spec

\* A service with a booking is never closed.
THEOREM LedgerHasNoOrphans == Spec => []NoOrphans
  <1>1. LInv => NoOrphans
    BY DEF LInv
  <1> QED
    BY <1>1, InitLedger, NextLedger, PTL DEF Spec

==============================================================================
