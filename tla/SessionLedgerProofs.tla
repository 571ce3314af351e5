-------------------------- MODULE SessionLedgerProofs --------------------------
(* What the ledger of sessions guarantees to whatever implements it.         *)
EXTENDS SessionLedger, FiniteSetTheorems, TLAPS

\* Who has opened, claimed or taken off has done so once, and nobody does two of
\* them at a time.
IdsApart ==
    /\ \A s, t \in opened \cup claims \cup tickets : s.id = t.id /\ s.id \in Openers => s = t
    /\ opened \cap claims = {}
    /\ opened \cap tickets = {}
    /\ claims \cap tickets = {}

LInv ==
    /\ TypeOK
    /\ IdsApart
    /\ NoMoreThanLogins

------------------------------------------------------------------------------
(* Counting.                                                                 *)

\* What is an account's is finite when those who open and opened are.
LEMMA OfFinite ==
    ASSUME IsFiniteSet(Openers), IsFiniteSet(Earlier),
           NEW u \in Users, NEW S \in SUBSET Sessions
    PROVE  IsFiniteSet(Of(u, S)) /\ Cardinality(Of(u, S)) \in Nat
  <1> DEFINE ids == Openers \cup Earlier
             f == [s \in Of(u, S) |-> s.id]
  <1>1. IsFiniteSet(ids)
    BY FS_Union
  <1>2. f \in [Of(u, S) -> ids]
    BY DEF Of, Sessions
  <1>3. \A s, t \in Of(u, S) : f[s] = f[t] => s = t
    BY DEF Of, Sessions
  <1>4. f \in Injection(Of(u, S), ids)
    BY <1>2, <1>3 DEF Injection, IsInjective
  <1>5. IsFiniteSet(Of(u, S))
    BY <1>1, <1>4, FS_Injection
  <1> QED
    BY <1>5, FS_CardinalityType

\* Sets that shrink have no more.
LEMMA OfShrinks ==
    ASSUME IsFiniteSet(Openers), IsFiniteSet(Earlier),
           NEW u \in Users, NEW S \in SUBSET Sessions, NEW T \in SUBSET S
    PROVE  Cardinality(Of(u, T)) =< Cardinality(Of(u, S))
  <1>1. IsFiniteSet(Of(u, S)) /\ Of(u, T) \in SUBSET Of(u, S)
    BY OfFinite DEF Of
  <1> QED
    BY <1>1, FS_Subset

\* One more is one more of its account's.
LEMMA OfGrows ==
    ASSUME IsFiniteSet(Openers), IsFiniteSet(Earlier),
           NEW u \in Users, NEW S \in SUBSET Sessions, NEW s \in Sessions \ S
    PROVE  Cardinality(Of(u, S \cup {s})) =
                Cardinality(Of(u, S)) + (IF s.user = u THEN 1 ELSE 0)
  <1>1. IsFiniteSet(Of(u, S)) /\ s \notin Of(u, S) /\ Cardinality(Of(u, S)) \in Nat
    BY OfFinite DEF Of
  <1>2. CASE s.user = u
    <2>1. Of(u, S \cup {s}) = Of(u, S) \cup {s}
      BY <1>2 DEF Of
    <2> QED
      BY <1>1, <1>2, <2>1, FS_AddElement
  <1>3. CASE s.user # u
    <2>1. Of(u, S \cup {s}) = Of(u, S)
      BY <1>3 DEF Of
    <2> QED
      BY <1>1, <1>3, <2>1
  <1> QED
    BY <1>2, <1>3

\* One less is one less of its account's.
LEMMA OfLoses ==
    ASSUME IsFiniteSet(Openers), IsFiniteSet(Earlier),
           NEW u \in Users, NEW S \in SUBSET Sessions, NEW s \in S
    PROVE  Cardinality(Of(u, S \ {s})) =
                Cardinality(Of(u, S)) - (IF s.user = u THEN 1 ELSE 0)
  <1> DEFINE rest == S \ {s}
  <1>1. rest \in SUBSET Sessions /\ s \in Sessions \ rest /\ rest \cup {s} = S
    OBVIOUS
  <1>2. Cardinality(Of(u, rest)) \in Nat
    BY <1>1, OfFinite
  <1> HIDE DEF rest
  <1>3. Cardinality(Of(u, S)) = Cardinality(Of(u, rest)) + (IF s.user = u THEN 1 ELSE 0)
    BY <1>1, OfGrows
  <1> QED
    BY <1>2, <1>3 DEF rest

------------------------------------------------------------------------------
(* The steps.                                                                *)

LEMMA InitLedger ==
    ASSUME IsFiniteSet(Openers), IsFiniteSet(Earlier), Openers \cap Earlier = {}, Init
    PROVE  LInv
  <1>1. TypeOK
    BY DEF Init, TypeOK, Sessions
  <1>2. IdsApart
    BY DEF Init, IdsApart
  <1>3. ASSUME NEW u \in Users
        PROVE  Cardinality(Of(u, record)) + Cardinality(Of(u, tickets))
                    =< Cardinality(Of(u, logins))
    <2>1. Of(u, tickets) = {} /\ Of(u, record) = Of(u, logins)
      BY DEF Init, Of
    <2>2. Cardinality(Of(u, logins)) \in Nat
      BY <1>1, OfFinite DEF TypeOK
    <2> QED
      BY <2>1, <2>2, FS_EmptySet
  <1> QED
    BY <1>1, <1>2, <1>3 DEF LInv, NoMoreThanLogins

\* What is Fresh is of an opener that neither opened nor claimed.
LEMMA FreshIsNew ==
    ASSUME NEW s \in Fresh
    PROVE  /\ s \in [id : Openers, user : Users]
           /\ \A t \in opened \cup claims \cup tickets : t.id # s.id
  <1> DEFINE used == {t.id : t \in opened \cup claims \cup tickets}
  <1>1. s \in [id : Openers \ used, user : Users]
    BY DEF Fresh
  <1>2. s.id \notin used /\ s \in [id : Openers, user : Users]
    BY <1>1
  <1> QED
    BY <1>2

\* A step keeps who has opened what apart.
LEMMA NextApart ==
    ASSUME LInv, Next
    PROVE  TypeOK' /\ IdsApart'
  <1> USE DEF LInv, TypeOK, Sessions
  <1>1. ASSUME NEW s \in Fresh, Login(s) \/ Claim(s)
        PROVE  TypeOK' /\ IdsApart'
    <2>1. /\ s \in [id : Openers, user : Users]
          /\ \A t \in opened \cup claims \cup tickets : t.id # s.id
      BY FreshIsNew
    <2>2. TypeOK'
      BY <1>1, <2>1 DEF Login, Claim, Open
    <2>3. CASE Login(s)
      BY <2>1, <2>3 DEF Login, Open, IdsApart
    <2>4. CASE Claim(s)
      BY <2>1, <2>4 DEF Claim, IdsApart
    <2> QED
      BY <1>1, <2>2, <2>3, <2>4
  <1>2. ASSUME NEW s \in claims, Redeem(s) \/ Expire(s)
        PROVE  TypeOK' /\ IdsApart'
    <2>1. /\ record' \subseteq record /\ live' \subseteq record'
          /\ opened' = opened /\ logins' = logins
          /\ claims' = claims \ {s}
          /\ tickets' \in {tickets, tickets \cup {s}}
      BY <1>2 DEF Redeem, Expire
    <2>2. TypeOK'
      BY <2>1
    <2>3. IdsApart'
      BY <2>1 DEF IdsApart
    <2> QED
      BY <2>2, <2>3
  <1>3. ASSUME NEW s \in tickets, Renew(s)
        PROVE  TypeOK' /\ IdsApart'
    BY <1>3 DEF Renew, Open, IdsApart
  <1>4. CASE Abandon
    BY <1>4 DEF Abandon, IdsApart
  <1>5. ASSUME NEW u \in Users, Revoke(u) \/ EndAll(u)
        PROVE  TypeOK' /\ IdsApart'
    BY <1>5 DEF Revoke, EndAll, IdsApart, Of
  <1> QED
    BY <1>1, <1>2, <1>3, <1>4, <1>5 DEF Next

\* A step that opens a session without a login ends one in its place.
LEMMA NextCounts ==
    ASSUME IsFiniteSet(Openers), IsFiniteSet(Earlier), LInv, Next
    PROVE  NoMoreThanLogins'
  <1> SUFFICES ASSUME NEW u \in Users
               PROVE  Cardinality(Of(u, record')) + Cardinality(Of(u, tickets'))
                          =< Cardinality(Of(u, logins'))
    BY DEF NoMoreThanLogins, Of
  <1>1. /\ record \in SUBSET Sessions /\ tickets \in SUBSET Sessions
        /\ logins \in SUBSET Sessions
        /\ record' \in SUBSET Sessions /\ tickets' \in SUBSET Sessions
        /\ logins' \in SUBSET Sessions
        /\ logins \subseteq opened /\ record \subseteq opened
    BY NextApart DEF LInv, TypeOK, Sessions
  <1>2. /\ Cardinality(Of(u, record)) \in Nat /\ Cardinality(Of(u, tickets)) \in Nat
        /\ Cardinality(Of(u, logins)) \in Nat
        /\ Cardinality(Of(u, record')) \in Nat /\ Cardinality(Of(u, tickets')) \in Nat
        /\ Cardinality(Of(u, logins')) \in Nat
    BY <1>1, OfFinite
  <1>3. Cardinality(Of(u, record)) + Cardinality(Of(u, tickets)) =< Cardinality(Of(u, logins))
    BY DEF LInv, NoMoreThanLogins
  <1>4. ASSUME NEW s \in Fresh, Login(s)
        PROVE  Cardinality(Of(u, record')) + Cardinality(Of(u, tickets'))
                    =< Cardinality(Of(u, logins'))
    <2>1. s \in Sessions /\ s \notin opened
      BY FreshIsNew DEF Sessions
    <2>2. s \in Sessions \ record /\ s \in Sessions \ logins
      BY <1>1, <2>1
    <2>3. record' = record \cup {s} /\ logins' = logins \cup {s} /\ tickets' = tickets
      BY <1>4 DEF Login, Open
    <2>4. /\ Cardinality(Of(u, record')) =
                Cardinality(Of(u, record)) + (IF s.user = u THEN 1 ELSE 0)
          /\ Cardinality(Of(u, logins')) =
                Cardinality(Of(u, logins)) + (IF s.user = u THEN 1 ELSE 0)
      BY <1>1, <2>2, <2>3, OfGrows
    <2> QED
      BY <1>2, <1>3, <2>3, <2>4
  <1>5. ASSUME NEW s \in claims, Redeem(s)
        PROVE  Cardinality(Of(u, record')) + Cardinality(Of(u, tickets'))
                    =< Cardinality(Of(u, logins'))
    <2>1. PICK t \in Of(s.user, record) : record' = record \ {t}
      BY <1>5 DEF Redeem
    <2>2. t \in record /\ t.user = s.user
      BY DEF Of
    <2>3. s \in Sessions \ tickets
      BY DEF LInv, TypeOK, Sessions, IdsApart
    <2>4. tickets' = tickets \cup {s} /\ logins' = logins
      BY <1>5 DEF Redeem
    <2>5. /\ Cardinality(Of(u, record')) =
                Cardinality(Of(u, record)) - (IF t.user = u THEN 1 ELSE 0)
          /\ Cardinality(Of(u, tickets')) =
                Cardinality(Of(u, tickets)) + (IF s.user = u THEN 1 ELSE 0)
      BY <1>1, <2>1, <2>2, <2>3, <2>4, OfGrows, OfLoses
    <2> QED
      BY <1>2, <1>3, <2>2, <2>4, <2>5
  <1>6. ASSUME NEW s \in tickets, Renew(s)
        PROVE  Cardinality(Of(u, record')) + Cardinality(Of(u, tickets'))
                    =< Cardinality(Of(u, logins'))
    <2>1. s \in Sessions \ record
      BY <1>1 DEF LInv, IdsApart
    <2>2. record' = record \cup {s} /\ tickets' = tickets \ {s} /\ logins' = logins
      BY <1>6 DEF Renew, Open
    <2>3. /\ Cardinality(Of(u, record')) =
                Cardinality(Of(u, record)) + (IF s.user = u THEN 1 ELSE 0)
          /\ Cardinality(Of(u, tickets')) =
                Cardinality(Of(u, tickets)) - (IF s.user = u THEN 1 ELSE 0)
      BY <1>1, <2>1, <2>2, OfGrows, OfLoses
    <2> QED
      BY <1>2, <1>3, <2>2, <2>3
  <1>7. CASE record' \subseteq record /\ tickets' \subseteq tickets /\ logins' = logins
    <2>1. /\ Cardinality(Of(u, record')) =< Cardinality(Of(u, record))
          /\ Cardinality(Of(u, tickets')) =< Cardinality(Of(u, tickets))
      BY <1>1, <1>7, OfShrinks
    <2> QED
      BY <1>2, <1>3, <1>7, <2>1
  <1>8. \/ \E s \in Fresh : Login(s)
        \/ \E s \in claims : Redeem(s)
        \/ \E s \in tickets : Renew(s)
        \/ record' \subseteq record /\ tickets' \subseteq tickets /\ logins' = logins
    BY DEF Next, Claim, Expire, Abandon, Revoke, EndAll
  <1> QED
    BY <1>4, <1>5, <1>6, <1>7, <1>8

LEMMA NextLedger ==
    ASSUME IsFiniteSet(Openers), IsFiniteSet(Earlier), LInv, [Next]_ledger
    PROVE  LInv'
  <1>1. CASE Next
    BY <1>1, NextApart, NextCounts DEF LInv
  <1>2. CASE UNCHANGED ledger
    BY <1>2 DEF ledger, LInv, TypeOK, IdsApart, NoMoreThanLogins, Of
  <1> QED
    BY <1>1, <1>2

------------------------------------------------------------------------------

\* However refreshes race, fail or are lost, an account has no more sessions than
\* there were logins to it: a refresh puts one session in the place of one.
THEOREM SessionsComeFromLogins ==
    ASSUME IsFiniteSet(Openers), IsFiniteSet(Earlier), Openers \cap Earlier = {}
    PROVE  Spec => []NoMoreThanLogins
  <1>1. Init => LInv
    BY InitLedger
  <1>2. LInv /\ [Next]_ledger => LInv'
    BY NextLedger
  <1>3. LInv => NoMoreThanLogins
    BY DEF LInv
  <1> QED
    BY <1>1, <1>2, <1>3, PTL DEF Spec

\* A request opens one session.
THEOREM OpenersOpenOnce ==
    ASSUME IsFiniteSet(Openers), IsFiniteSet(Earlier), Openers \cap Earlier = {}
    PROVE  Spec => []OneEach
  <1>1. Init => LInv
    BY InitLedger
  <1>2. LInv /\ [Next]_ledger => LInv'
    BY NextLedger
  <1>3. LInv => OneEach
    BY DEF LInv, IdsApart, OneEach
  <1> QED
    BY <1>1, <1>2, <1>3, PTL DEF Spec

\* A step brings nothing back: what it opens is new.
LEMMA StepsEndOnly ==
    ASSUME LInv, Next
    PROVE  /\ (opened \ record) \cap record' = {}
           /\ (opened \ live) \cap live' = {}
  <1> DEFINE A == /\ (opened \ record) \cap record' = {}
                  /\ (opened \ live) \cap live' = {}
  <1>1. ASSUME NEW s \in Fresh, Login(s) \/ Claim(s) PROVE A
    <2>1. s \notin opened
      BY FreshIsNew
    <2> QED
      BY <1>1, <2>1 DEF Login, Claim, Open
  <1>2. ASSUME NEW s \in tickets, Renew(s) PROVE A
    BY <1>2 DEF Renew, Open, LInv, IdsApart
  <1>3. CASE record' \subseteq record /\ live' \subseteq live
    BY <1>3
  <1> QED
    BY <1>1, <1>2, <1>3 DEF Next, Redeem, Expire, Abandon, Revoke, EndAll

\* A session that was redeemed, expired, revoked or deleted never comes back.
THEOREM SessionsStayOver ==
    ASSUME IsFiniteSet(Openers), IsFiniteSet(Earlier), Openers \cap Earlier = {}
    PROVE  Spec => OverIsOver
  <1> DEFINE A == /\ (opened \ record) \cap record' = {}
                  /\ (opened \ live) \cap live' = {}
  <1>1. Init => LInv
    BY InitLedger
  <1>2. LInv /\ [Next]_ledger => LInv'
    BY NextLedger
  <1>3. LInv /\ [Next]_ledger => [A]_ledger
    BY StepsEndOnly
  <1> QED
    BY <1>1, <1>2, <1>3, PTL DEF Spec, OverIsOver

==============================================================================
