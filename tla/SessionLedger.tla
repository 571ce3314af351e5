----------------------------- MODULE SessionLedger -----------------------------
(* What the platform promises about sessions, without handlers, tokens, the  *)
(* clock or passwords.  A login opens a session.  A refresh takes one off    *)
(* the record and may open another of the same account instead.  Nothing     *)
(* else opens a session, and one that is over never comes back.              *)
(*                                                                           *)
(* A session is known by what opened it, not by its token: a token that is   *)
(* deleted and signed again within its second stands for another session.    *)
EXTENDS FiniteSets, Integers

CONSTANTS
    Users,      \* the accounts
    Openers,    \* what may open a session: a request
    Earlier     \* what opened those of before

Sessions == [id : Openers \cup Earlier, user : Users]

VARIABLES
    opened,     \* the sessions there have ever been
    logins,     \* those a login opened
    record,     \* those on record
    live,       \* those on record that are not revoked: a refresh may claim them
    claims,     \* openers that found their account's session live
    tickets     \* openers that took a session off the record

\* The part of a set of sessions, claims or tickets that is account u's.
Of(u, S) == {s \in S : s.user = u}

\* What openers may open that have opened no session and are not about to.
Fresh ==
    LET used == {s.id : s \in opened \cup claims \cup tickets} IN
    [id : Openers \ used, user : Users]

Init ==
    /\ opened \in SUBSET [id : Earlier, user : Users]
    /\ logins = opened /\ record = opened /\ live = opened
    /\ claims = {} /\ tickets = {}

Open(s) ==
    /\ opened' = opened \cup {s}
    /\ record' = record \cup {s}
    /\ live' = live \cup {s}

Login(s) ==
    /\ Open(s)
    /\ logins' = logins \cup {s}
    /\ UNCHANGED <<claims, tickets>>

\* A refresh finds a session of its account live.
Claim(s) ==
    /\ Of(s.user, live) # {}
    /\ claims' = claims \cup {s}
    /\ UNCHANGED <<opened, logins, record, live, tickets>>

\* It takes one off the record, even if that was revoked meanwhile.
Redeem(s) ==
    /\ \E t \in Of(s.user, record) :
        /\ record' = record \ {t}
        /\ live' = live \ {t}
    /\ claims' = claims \ {s}
    /\ tickets' = tickets \cup {s}
    /\ UNCHANGED <<opened, logins>>

\* It opens the one that takes its place.
Renew(s) ==
    /\ Open(s)
    /\ tickets' = tickets \ {s}
    /\ UNCHANGED <<logins, claims>>

\* The session it claimed turns out to be expired.
Expire(s) ==
    /\ \E t \in Of(s.user, record) :
        /\ record' = record \ {t}
        /\ live' = live \ {t}
    /\ claims' = claims \ {s}
    /\ UNCHANGED <<opened, logins, tickets>>

\* Refreshes fail, or their process does.
Abandon ==
    /\ UNCHANGED <<record, live, opened, logins>>
    /\ claims' \subseteq claims
    /\ tickets' \subseteq tickets

\* A logout revokes the sessions of an account; a change of the password takes
\* them off the record.
Revoke(u) ==
    /\ live' = live \ Of(u, live)
    /\ UNCHANGED <<opened, logins, record, claims, tickets>>

EndAll(u) ==
    /\ live' = live \ Of(u, live)
    /\ record' = record \ Of(u, record)
    /\ UNCHANGED <<opened, logins, claims, tickets>>

Next ==
    \/ Abandon
    \/ \E s \in Fresh : Login(s) \/ Claim(s)
    \/ \E s \in claims : Redeem(s) \/ Expire(s)
    \/ \E s \in tickets : Renew(s)
    \/ \E u \in Users : Revoke(u) \/ EndAll(u)

ledger == <<opened, logins, record, live, claims, tickets>>

Spec == Init /\ [][Next]_ledger

------------------------------------------------------------------------------

TypeOK ==
    /\ opened \subseteq Sessions
    /\ claims \cup tickets \subseteq [id : Openers, user : Users]
    /\ record \subseteq opened
    /\ live \subseteq record
    /\ logins \subseteq opened

\* An account has no more sessions, those being renewed included, than there
\* were logins to it: however refreshes of one token race, each takes the place
\* of one that ends.
NoMoreThanLogins ==
    \A u \in Users :
        Cardinality(Of(u, record)) + Cardinality(Of(u, tickets))
            =< Cardinality(Of(u, logins))

\* An opener opens one session.
OneEach == \A s, t \in opened : s.id = t.id /\ s.id \in Openers => s = t

\* A session that is off the record, or revoked, never comes back.
OverIsOver ==
    [][/\ (opened \ record) \cap record' = {}
       /\ (opened \ live) \cap live' = {}]_ledger

==============================================================================
