------------------------------- MODULE Sessions -------------------------------
(* Accounts and their sessions: the tables users and refresh_tokens, and the *)
(* handlers of auth.service.ts and users.service.ts that read and write      *)
(* them, call by call between two awaits as in Store.                        *)
(*                                                                           *)
(* A refresh token is a JWT signed over the user's id, address and role and  *)
(* the second of its signing, with no random part: two tokens signed for one *)
(* user in one second are the same string, with the same hash.  So a token   *)
(* is a user and a second.                                                   *)
EXTENDS FiniteSets, Integers, Responses

CONSTANTS
    Requests,       \* the HTTP requests that may arrive
    Users,          \* accounts, by their trimmed address in lower case
    Admins,         \* those with the role ADMIN; no handler changes a role
    SeedUsers,      \* the accounts the database holds at the start
    Passwords,      \* plaintext passwords (bcrypt compares them as equals)
    Names,          \* display names
    SeedPassword,   \* the password of each seeded account
    SeedName,       \* and its name
    Null,           \* no row, no value
    MaxTime,        \* bound: the last second of the instance
    TTL,            \* REFRESH_EXPIRES_IN in seconds
    Offered,        \* bound: the calls clients make in this instance
    MaxInFlight,    \* bound: requests in flight at once
    Faults,         \* whether a database call may fail
    Crashes         \* whether the process may crash and restart

Seconds == 0 .. MaxTime
Tokens == [user : Users, at : Seconds]

UserRows == [name : Names, password : Passwords, isActive : BOOLEAN]
TokenRows == [isRevoked : BOOLEAN]

\* A request as the controller hands it to the service.  logout,
\* updateProfile, changePassword and setActive (activate, deactivate) carry an
\* access token of their caller.
Calls ==
    [op : {"register"}, user : Users, name : Names, password : Passwords]
    \cup [op : {"login"}, user : Users, password : Passwords]
    \cup [op : {"refresh"}, token : Tokens]
    \cup [op : {"logout"}, caller : Users]
    \cup [op : {"updateProfile"}, caller : Users, name : Names]
    \cup [op : {"changePassword"}, caller : Users,
          current : Passwords, new : Passwords, confirm : Passwords]
    \cup [op : {"setActive"}, caller : Users, target : Users, isActive : BOOLEAN]

FirstStep ==
    [register       |-> "findEmail",
     login          |-> "findUser",
     refresh        |-> "findToken",
     logout         |-> "authenticate",
     updateProfile  |-> "authenticate",
     changePassword |-> "authenticate",
     setActive      |-> "authenticate"]

\* The database calls of each handler, and the comparison of the passwords.
HandlerSteps ==
    [register       |-> {"findEmail", "createUser"},
     login          |-> {"findUser", "compare", "saveToken"},
     refresh        |-> {"findToken", "deleteExpired", "findOwner", "deleteToken",
                         "saveToken"},
     logout         |-> {"authenticate", "revokeAll"},
     updateProfile  |-> {"authenticate", "findOwnRow", "writeName"},
     changePassword |-> {"authenticate", "findProfile", "writePassword",
                         "deleteTokens"},
     setActive      |-> {"authenticate", "findTarget", "writeActive"}]

Steps == {"findEmail", "createUser",
          "findUser", "compare", "saveToken",
          "findToken", "deleteExpired", "findOwner", "deleteToken",
          "authenticate", "revokeAll", "findOwnRow", "writeName",
          "findProfile", "writePassword", "deleteTokens",
          "findTarget", "writeActive", "respond"}

ASSUME SessionsAssumption ==
    /\ IsFiniteSet(Requests)
    /\ Admins \subseteq Users
    /\ SeedUsers \subseteq Users
    /\ SeedPassword \in [SeedUsers -> Passwords]
    /\ SeedName \in [SeedUsers -> Names]
    /\ Null \notin UserRows \cup TokenRows \cup Tokens \cup Calls \cup Requests
    /\ MaxTime \in Nat
    /\ TTL \in Nat \ {0}
    /\ Offered \subseteq Calls
    /\ MaxInFlight \in Nat \ {0}
    /\ Faults \in BOOLEAN
    /\ Crashes \in BOOLEAN

VARIABLES
    users,      \* table users: account -> row or Null
    tokens,     \* table refresh_tokens, by the hash: token -> row or Null
    now,        \* the clock, in seconds
    pc,         \* where each request stands
    call,       \* what each request asks for
    local,      \* what a handler remembers: the row it read, the token it signed
    reply,      \* what each request is answered ("None": nothing yet)
    maker,      \* history: the request that stored each token last
    stored,     \* history: the requests that stored a token
    redeemed,   \* history: the requests that redeemed the token they brought
    before,     \* history: the requests done when a request ended the sessions
    seen,       \* history: the rows its account had while a request was handled
    audited     \* history: the requests that wrote their audit entry

tables  == <<users, tokens>>
request == <<pc, call, local, reply>>
history == <<maker, stored, redeemed, before, seen, audited>>
vars    == <<users, tokens, now, pc, call, local, reply,
             maker, stored, redeemed, before, seen, audited>>

\* Seeded accounts may hold a session of second 0.
SeedTokens == [user : SeedUsers, at : {0}]

Init ==
    /\ \E active \in [SeedUsers -> BOOLEAN] :
        users = [u \in Users |->
            IF u \in SeedUsers
            THEN [name |-> SeedName[u], password |-> SeedPassword[u],
                  isActive |-> active[u]]
            ELSE Null]
    /\ tokens = [t \in Tokens |->
            IF t \in SeedTokens THEN [isRevoked |-> FALSE] ELSE Null]
    /\ now = 0
    /\ pc = [r \in Requests |-> "idle"]
    /\ call = [r \in Requests |-> Null]
    /\ local = [r \in Requests |-> Null]
    /\ reply = [r \in Requests |-> "None"]
    /\ maker = [t \in Tokens |-> Null]
    /\ stored = {} /\ redeemed = {} /\ audited = {}
    /\ before = [r \in Requests |-> {}]
    /\ seen = [r \in Requests |-> {}]

------------------------------------------------------------------------------
(* The life of a request.                                                    *)

InFlight(r) == pc[r] \in Steps

Goto(r, step) ==
    /\ pc' = [pc EXCEPT ![r] = step]
    /\ UNCHANGED <<call, local, reply>>

\* The handler keeps what it read or signed and goes on.
Keep(r, value, step) ==
    /\ pc' = [pc EXCEPT ![r] = step]
    /\ local' = [local EXCEPT ![r] = value]
    /\ UNCHANGED <<call, reply>>

Answer(r, answer) ==
    /\ pc' = [pc EXCEPT ![r] = "done"]
    /\ reply' = [reply EXCEPT ![r] = answer]
    /\ UNCHANGED <<call, local>>

Committed(r, answer) ==
    /\ pc' = [pc EXCEPT ![r] = "respond"]
    /\ reply' = [reply EXCEPT ![r] = answer]
    /\ UNCHANGED <<call, local>>

\* The account a request acts as.
Subject(c) == CASE c.op \in {"register", "login"} -> c.user
                [] c.op = "refresh" -> c.token.user
                [] OTHER -> c.caller

\* The refresh tokens clients hold: those that reached them in an answer.
Given == SeedTokens
    \cup {local[q] : q \in {x \in Requests : /\ pc[x] = "done" /\ reply[x] = "Ok"
                                             /\ call[x].op \in {"login", "refresh"}}}

\* RefreshStrategy, with ignoreExpiration false: the signed expiry, compared in
\* whole seconds.
Verifies(c) == c.op = "refresh" => now < c.token.at + TTL

\* A request arrives.  A refresh token that does not verify is refused before
\* the handler runs.
Receive(r) ==
    /\ pc[r] = "idle"
    /\ Cardinality({q \in Requests : InFlight(q)}) < MaxInFlight
    /\ \E c \in Offered :
        /\ c.op = "refresh" => c.token \in Given
        /\ call' = [call EXCEPT ![r] = c]
        /\ \/ /\ Verifies(c)
              /\ pc' = [pc EXCEPT ![r] = FirstStep[c.op]]
              /\ UNCHANGED reply
           \/ /\ ~Verifies(c)
              /\ pc' = [pc EXCEPT ![r] = "done"]
              /\ reply' = [reply EXCEPT ![r] = "Unauthorized"]
        /\ seen' = [seen EXCEPT ![r] = {users[Subject(c)]}]
    /\ UNCHANGED <<tables, now, local, maker, stored, redeemed, before, audited>>

\* The operations that write an audit entry once their write has committed.
Audited == {"register", "updateProfile", "changePassword", "setActive"}

\* The continuation after the last write: audit entry, response.
Respond(r) ==
    /\ pc[r] = "respond"
    /\ pc' = [pc EXCEPT ![r] = "done"]
    /\ audited' = IF call[r].op \in Audited THEN audited \cup {r} ELSE audited
    /\ UNCHANGED <<tables, now, call, local, reply, maker, stored, redeemed, before, seen>>

\* A database call fails, or its acknowledgement is lost.
Fail(r) ==
    /\ Faults
    /\ InFlight(r) /\ pc[r] # "compare"
    /\ Answer(r, "DbError")
    /\ UNCHANGED <<tables, now, history>>

Crash ==
    /\ Crashes
    /\ \E r \in Requests : InFlight(r)
    /\ pc' = [r \in Requests |-> IF InFlight(r) THEN "lost" ELSE pc[r]]
    /\ reply' = [r \in Requests |-> IF InFlight(r) THEN "None" ELSE reply[r]]
    /\ UNCHANGED <<tables, now, call, local, history>>

Tick ==
    /\ now < MaxTime
    /\ now' = now + 1
    /\ UNCHANGED <<tables, request, history>>

------------------------------------------------------------------------------
(* register                                                                  *)

FindEmail(r) ==
    /\ pc[r] = "findEmail"
    /\ \/ users[call[r].user] # Null /\ Answer(r, "Conflict")
       \/ users[call[r].user] = Null /\ Goto(r, "createUser")
    /\ UNCHANGED <<tables, now, history>>

\* The rows requests that are being handled see of account u.
Observe(u, row) ==
    seen' = [q \in Requests |->
        IF InFlight(q) /\ Subject(call[q]) = u THEN seen[q] \cup {row} ELSE seen[q]]

\* isActive is TRUE by default of the schema.
NewUser(c) == [name |-> c.name, password |-> c.password, isActive |-> TRUE]

\* A faulty variant: an upsert, which writes over an account made meanwhile.
CreateUserUpsert(r) ==
    /\ pc[r] = "createUser"
    /\ users' = [users EXCEPT ![call[r].user] = NewUser(call[r])]
    /\ Observe(call[r].user, NewUser(call[r]))
    /\ Committed(r, "Created")
    /\ UNCHANGED <<tokens, now, maker, stored, redeemed, before, audited>>

\* After the password is hashed.  The address is unique.
CreateUser(r) ==
    LET u == call[r].user
        row == NewUser(call[r]) IN
    /\ pc[r] = "createUser"
    /\ \/ users[u] # Null /\ Answer(r, "P2002") /\ UNCHANGED <<users, seen>>
       \/ /\ users[u] = Null
          /\ users' = [users EXCEPT ![u] = row]
          /\ Observe(u, row)
          /\ Committed(r, "Created")
    /\ UNCHANGED <<tokens, now, maker, stored, redeemed, before, audited>>

------------------------------------------------------------------------------
(* login                                                                     *)

FindUser(r) ==
    LET row == users[call[r].user] IN
    /\ pc[r] = "findUser"
    /\ \/ row = Null /\ Answer(r, "Unauthorized")
       \/ row # Null /\ Keep(r, row, "compare")
    /\ UNCHANGED <<tables, now, history>>

\* A faulty variant: a token is known by its expiry.
SignedByExpiry(u) == [user |-> u, at |-> now + TTL]

\* generateTokens signs with the clock of this moment.
Signed(u) == [user |-> u, at |-> now]

\* A faulty variant: the account's isActive is not looked at.
CompareOnly(r) ==
    /\ pc[r] = "compare"
    /\ \/ local[r].password # call[r].password /\ Answer(r, "Unauthorized")
       \/ /\ local[r].password = call[r].password
          /\ Keep(r, Signed(call[r].user), "saveToken")
    /\ audited' = IF pc'[r] = "done" THEN audited ELSE audited \cup {r}
    /\ UNCHANGED <<tables, now, maker, stored, redeemed, before, seen>>

\* A faulty variant: the login is audited no more.
CompareSilently(r) ==
    LET admitted == local[r].password = call[r].password /\ local[r].isActive IN
    /\ pc[r] = "compare"
    /\ \/ ~admitted /\ Answer(r, "Unauthorized")
       \/ admitted /\ Keep(r, Signed(call[r].user), "saveToken")
    /\ UNCHANGED <<tables, now, history>>

\* Both checks are of the row that was read, whatever it has become.  The login
\* is audited before its token is stored.
Compare(r) ==
    LET admitted == local[r].password = call[r].password /\ local[r].isActive IN
    /\ pc[r] = "compare"
    /\ \/ ~admitted /\ Answer(r, "Unauthorized") /\ UNCHANGED audited
       \/ /\ admitted
          /\ audited' = audited \cup {r}
          /\ Keep(r, Signed(call[r].user), "saveToken")
    /\ UNCHANGED <<tables, now, maker, stored, redeemed, before, seen>>

\* A faulty variant: a token that is already there counts as stored.
SaveTokenIfAbsent(r) ==
    LET t == local[r] IN
    /\ pc[r] = "saveToken"
    /\ \/ tokens[t] # Null /\ Committed(r, "Ok") /\ UNCHANGED <<tokens, maker, stored>>
       \/ /\ tokens[t] = Null
          /\ tokens' = [tokens EXCEPT ![t] = [isRevoked |-> FALSE]]
          /\ maker' = [maker EXCEPT ![t] = r]
          /\ stored' = stored \cup {r}
          /\ Committed(r, "Ok")
    /\ UNCHANGED <<users, now, redeemed, before, seen, audited>>

\* The hash is unique: a second token of the same second is refused.
SaveToken(r) ==
    LET t == local[r] IN
    /\ pc[r] = "saveToken"
    /\ \/ tokens[t] # Null /\ Answer(r, "P2002") /\ UNCHANGED <<tokens, maker, stored>>
       \/ /\ tokens[t] = Null
          /\ tokens' = [tokens EXCEPT ![t] = [isRevoked |-> FALSE]]
          /\ maker' = [maker EXCEPT ![t] = r]
          /\ stored' = stored \cup {r}
          /\ Committed(r, "Ok")
    /\ UNCHANGED <<users, now, redeemed, before, seen, audited>>

------------------------------------------------------------------------------
(* refreshTokens                                                             *)

\* new Date() > expiresAt compares milliseconds: within the second of the
\* expiry it goes either way.
Expired(t) == IF now = t.at + TTL THEN BOOLEAN ELSE {now > t.at + TTL}

FindToken(r) ==
    LET t == call[r].token
        usable == tokens[t] # Null /\ ~tokens[t].isRevoked IN
    /\ pc[r] = "findToken"
    /\ \/ ~usable /\ Answer(r, "Unauthorized")
       \/ usable /\ TRUE \in Expired(t) /\ Goto(r, "deleteExpired")
       \/ usable /\ FALSE \in Expired(t) /\ Goto(r, "findOwner")
    /\ UNCHANGED <<tables, now, history>>

DeleteExpired(r) ==
    LET t == call[r].token IN
    /\ pc[r] = "deleteExpired"
    /\ \/ tokens[t] = Null /\ Answer(r, "P2025") /\ UNCHANGED tokens
       \/ /\ tokens[t] # Null
          /\ tokens' = [tokens EXCEPT ![t] = Null]
          /\ Committed(r, "Unauthorized")
    /\ UNCHANGED <<users, now, history>>

FindOwner(r) ==
    LET row == users[call[r].token.user]
        active == row # Null /\ row.isActive IN
    /\ pc[r] = "findOwner"
    /\ \/ ~active /\ Answer(r, "Unauthorized")
       \/ active /\ Goto(r, "deleteToken")
    /\ UNCHANGED <<tables, now, history>>

\* A faulty variant: deleteMany, which does not mind that the row is gone.
DeleteTokenMany(r) ==
    LET t == call[r].token IN
    /\ pc[r] = "deleteToken"
    /\ tokens' = [tokens EXCEPT ![t] = Null]
    /\ redeemed' = redeemed \cup {r}
    /\ Keep(r, Signed(t.user), "saveToken")
    /\ UNCHANGED <<users, now, maker, stored, before, seen, audited>>

\* The row must still be there; whether it was revoked meanwhile is not asked.
DeleteToken(r) ==
    LET t == call[r].token IN
    /\ pc[r] = "deleteToken"
    /\ \/ tokens[t] = Null /\ Answer(r, "P2025") /\ UNCHANGED <<tokens, redeemed>>
       \/ /\ tokens[t] # Null
          /\ tokens' = [tokens EXCEPT ![t] = Null]
          /\ redeemed' = redeemed \cup {r}
          /\ Keep(r, Signed(t.user), "saveToken")
    /\ UNCHANGED <<users, now, maker, stored, before, seen, audited>>

------------------------------------------------------------------------------
(* JwtStrategy and RolesGuard, and the handlers behind them                  *)

\* A faulty variant: the guard trusts the token and reads no row.
AuthenticateByToken(r) ==
    LET c == call[r] IN
    /\ pc[r] = "authenticate"
    /\ \/ c.op = "logout" /\ Goto(r, "revokeAll")
       \/ c.op = "updateProfile" /\ Goto(r, "findOwnRow")
       \/ c.op = "changePassword" /\ Goto(r, "findProfile")
       \/ c.op = "setActive" /\ Goto(r, "findTarget")
    /\ UNCHANGED <<tables, now, history>>

\* The guard reads the account, then the handler runs to its first await.
Authenticate(r) ==
    LET c == call[r]
        active == users[c.caller] # Null /\ users[c.caller].isActive IN
    /\ pc[r] = "authenticate"
    /\ \/ ~active /\ Answer(r, "Unauthorized")
       \/ active /\ c.op = "logout" /\ Goto(r, "revokeAll")
       \/ active /\ c.op = "updateProfile" /\ Goto(r, "findOwnRow")
       \/ active /\ c.op = "changePassword" /\ c.new # c.confirm /\ Answer(r, "BadRequest")
       \/ active /\ c.op = "changePassword" /\ c.new = c.confirm /\ Goto(r, "findProfile")
       \/ active /\ c.op = "setActive" /\ c.caller \notin Admins /\ Answer(r, "Forbidden")
       \/ active /\ c.op = "setActive" /\ c.caller \in Admins /\ Goto(r, "findTarget")
    /\ UNCHANGED <<tables, now, history>>

Answered == {q \in Requests : pc[q] = "done"}

\* A faulty variant: one session is ended, not all.
RevokeOne(r) ==
    /\ pc[r] = "revokeAll"
    /\ \E t \in Tokens :
        /\ t.user = call[r].caller /\ tokens[t] # Null
        /\ tokens' = [tokens EXCEPT ![t] = [isRevoked |-> TRUE]]
    /\ before' = [before EXCEPT ![r] = Answered]
    /\ Committed(r, "Ok")
    /\ UNCHANGED <<users, now, maker, stored, redeemed, seen, audited>>

\* revokeAllUserRefreshTokens: one UPDATE of all the caller's rows.
RevokeAll(r) ==
    /\ pc[r] = "revokeAll"
    /\ tokens' = [t \in Tokens |->
            IF t.user = call[r].caller /\ tokens[t] # Null
            THEN [isRevoked |-> TRUE] ELSE tokens[t]]
    /\ before' = [before EXCEPT ![r] = Answered]
    /\ Committed(r, "Ok")
    /\ UNCHANGED <<users, now, maker, stored, redeemed, seen, audited>>

\* updateProfile reads the row only to see that it is there.
FindOwnRow(r) ==
    /\ pc[r] = "findOwnRow"
    /\ \/ users[call[r].caller] = Null /\ Answer(r, "NotFound")
       \/ users[call[r].caller] # Null /\ Goto(r, "writeName")
    /\ UNCHANGED <<tables, now, history>>

\* UsersRepository.update: an UPDATE of the columns of the DTO alone.
WriteName(r) ==
    LET u == call[r].caller
        row == [users[u] EXCEPT !.name = call[r].name] IN
    /\ pc[r] = "writeName"
    /\ users' = [users EXCEPT ![u] = row]
    /\ Observe(u, row)
    /\ Committed(r, "Ok")
    /\ UNCHANGED <<tokens, now, maker, stored, redeemed, before, audited>>

\* The comparisons and the hash are of the row that was read.
FindProfile(r) ==
    LET c == call[r]
        row == users[c.caller] IN
    /\ pc[r] = "findProfile"
    /\ \/ row = Null /\ Answer(r, "NotFound")
       \/ row # Null /\ row.password # c.current /\ Answer(r, "Unauthorized")
       \/ row # Null /\ row.password = c.current /\ c.new = row.password
            /\ Answer(r, "BadRequest")
       \/ row # Null /\ row.password = c.current /\ c.new # row.password
            /\ Keep(r, row, "writePassword")
    /\ UNCHANGED <<tables, now, history>>

\* A faulty variant: the row that was read is written back, its password new.
WritePasswordOver(r) ==
    LET u == call[r].caller
        row == [local[r] EXCEPT !.password = call[r].new] IN
    /\ pc[r] = "writePassword"
    /\ users' = [users EXCEPT ![u] = row]
    /\ Observe(u, row)
    /\ before' = [before EXCEPT ![r] = Answered]
    /\ Keep(r, Null, "deleteTokens")
    /\ UNCHANGED <<tokens, now, maker, stored, redeemed, audited>>

\* UsersRepository.changePassword: an UPDATE of the one column.  The row that
\* was read is not used again.
WritePassword(r) ==
    LET u == call[r].caller
        row == [users[u] EXCEPT !.password = call[r].new] IN
    /\ pc[r] = "writePassword"
    /\ users' = [users EXCEPT ![u] = row]
    /\ Observe(u, row)
    /\ before' = [before EXCEPT ![r] = Answered]
    /\ Keep(r, Null, "deleteTokens")
    /\ UNCHANGED <<tokens, now, maker, stored, redeemed, audited>>

\* deleteRefreshTokens: one DELETE of all the caller's rows.
DeleteTokens(r) ==
    /\ pc[r] = "deleteTokens"
    /\ tokens' = [t \in Tokens |->
            IF t.user = call[r].caller THEN Null ELSE tokens[t]]
    /\ Committed(r, "Ok")
    /\ UNCHANGED <<users, now, history>>

FindTarget(r) ==
    /\ pc[r] = "findTarget"
    /\ \/ users[call[r].target] = Null /\ Answer(r, "NotFound")
       \/ users[call[r].target] # Null /\ Goto(r, "writeActive")
    /\ UNCHANGED <<tables, now, history>>

\* activateUser, deactivateUser: sessions are left alone.
WriteActive(r) ==
    LET u == call[r].target
        row == [users[u] EXCEPT !.isActive = call[r].isActive] IN
    /\ pc[r] = "writeActive"
    /\ users' = [users EXCEPT ![u] = row]
    /\ Observe(u, row)
    /\ Committed(r, "Ok")
    /\ UNCHANGED <<tokens, now, maker, stored, redeemed, before, audited>>

------------------------------------------------------------------------------

Advance(r) ==
    \/ FindEmail(r) \/ CreateUser(r)
    \/ FindUser(r) \/ Compare(r) \/ SaveToken(r)
    \/ FindToken(r) \/ DeleteExpired(r) \/ FindOwner(r) \/ DeleteToken(r)
    \/ Authenticate(r) \/ RevokeAll(r)
    \/ FindOwnRow(r) \/ WriteName(r)
    \/ FindProfile(r) \/ WritePassword(r) \/ DeleteTokens(r)
    \/ FindTarget(r) \/ WriteActive(r)
    \/ Respond(r)

Quiet ==
    /\ \A r \in Requests : pc[r] \in {"done", "lost"}
    /\ UNCHANGED vars

Next ==
    \/ \E r \in Requests : Receive(r) \/ Advance(r) \/ Fail(r)
    \/ Crash
    \/ Tick
    \/ Quiet

Spec == Init /\ [][Next]_vars

------------------------------------------------------------------------------
(* Safety                                                                    *)

\* Type invariant of the accounts, the sessions and the requests.
TypeOK ==
    /\ users \in [Users -> UserRows \cup {Null}]
    /\ tokens \in [Tokens -> TokenRows \cup {Null}]
    /\ now \in Seconds
    /\ pc \in [Requests -> Steps \cup {"idle", "done", "lost"}]
    /\ call \in [Requests -> Calls \cup {Null}]
    /\ \A r \in Requests : pc[r] # "idle" => call[r] # Null
    /\ local \in [Requests -> UserRows \cup Tokens \cup {Null}]
    /\ reply \in [Requests -> Answers \cup {"None"}]
    /\ maker \in [Tokens -> Requests \cup {Null}]
    /\ stored \subseteq Requests
    /\ redeemed \subseteq Requests
    /\ before \in [Requests -> SUBSET Requests]
    /\ seen \in [Requests -> SUBSET (UserRows \cup {Null})]
    /\ audited \subseteq Requests

Present(t) == tokens[t] # Null
Live(t) == Present(t) /\ ~tokens[t].isRevoked

\* Rotation: a refresh token buys one new pair each time it was stored, however
\* many refreshes bring it at once, whether or not logouts and password changes
\* race them, and whatever fails in between.
RedeemedOnce ==
    \A t \in Tokens :
        Cardinality({r \in redeemed : call[r].token = t})
            + (IF Present(t) THEN 1 ELSE 0)
        <= Cardinality({r \in stored : local[r] = t})
            + (IF t \in SeedTokens THEN 1 ELSE 0)

\* After a logout or a password change is answered, no session of the account
\* is live that was obtained before it took effect: only a request that was
\* still being handled then can have left one.
SessionsEnd ==
    \A r \in Requests :
        pc[r] = "done" /\ reply[r] = "Ok" /\ call[r].op \in {"logout", "changePassword"}
        => \A t \in Tokens : t.user = call[r].caller /\ Live(t)
                => maker[t] \notin before[r] \cup {Null}

\* A client that is told Ok holds a token its own request stored; a client that
\* is refused was given none.  Only a 500 leaves it unsure.
AnsweredTokensWereStored ==
    \A r \in Requests :
        pc[r] = "done" /\ call[r].op \in {"login", "refresh"} =>
            /\ reply[r] = "Ok" => r \in stored
            /\ reply[r] \notin {"Ok", "DbError"} => r \notin stored

\* At one moment while it was handled, the account request r acts as was active,
\* with the password a login brought.
HadAccount(r) ==
    \E row \in seen[r] \ {Null} :
        /\ row.isActive
        /\ call[r].op = "login" => row.password = call[r].password

\* It was active; it had the password a change of password names as current.
WasActive(r) == \E row \in seen[r] \ {Null} : row.isActive
HadPassword(r) == \E row \in seen[r] \ {Null} : row.password = call[r].current

\* A login or a refresh succeeds only if at one moment while it was handled the
\* account was active and, for a login, had the password it brought, although
\* both checks are of a row that may have changed since it was read.
AdmittedAccountWasActive == \A r \in stored : HadAccount(r)

\* Behind the guard, a request acts for an account that was active at one moment
\* since it arrived; and a password is changed only by a request whose current
\* password was the account's at one moment while it was handled, although both
\* rows may have changed when the request writes.
CallerWasActive ==
    \A r \in Requests :
        /\ call[r] # Null /\ call[r].op \notin {"register", "login", "refresh"}
        /\ pc[r] \notin {"idle", "authenticate", "lost"}
        /\ pc[r] = "done" => reply[r] = "Ok"
        => /\ WasActive(r)
           /\ call[r].op = "changePassword" /\ pc[r] # "findProfile" => HadPassword(r)

\* However registrations of one address race past findUserByEmail, one makes the
\* account: only the unique index decides.
AddressRegisteredOnce ==
    \A q, r \in Requests :
        (/\ pc[q] \in {"respond", "done"} /\ pc[r] \in {"respond", "done"}
         /\ reply[q] = "Created" /\ reply[r] = "Created"
         /\ call[q].user = call[r].user)
        => q = r /\ call[r].user \notin SeedUsers

\* The trail has every login that stored a token, even if the process died in
\* the same moment, and every other change of an account that was answered with
\* success.
TrailHasEveryChange ==
    \A r \in Requests :
        \/ r \in stored /\ call[r].op = "login"
        \/ pc[r] = "done" /\ reply[r] \in Successes /\ call[r].op \in Audited
        => r \in audited

------------------------------------------------------------------------------
(* The sessions the tables hold, as SessionLedger sees them.                 *)

\* A session is known by the request that stored its token: Null for a seed.
Session(t) == [id |-> maker[t], user |-> t.user]
SeedSessions == [id : {Null}, user : SeedUsers]

\* What each of a set of requests has signed a token for, or brought one of.
SignedFor(R) == {[id |-> r, user |-> local[r].user] : r \in R}
BroughtBy(R) == {[id |-> r, user |-> call[r].token.user] : r \in R}

OpenedOf == SeedSessions \cup SignedFor(stored)
LoginsOf == SeedSessions \cup SignedFor({r \in stored : call[r].op = "login"})
RecordOf == {Session(t) : t \in {x \in Tokens : Present(x)}}
LiveOf == {Session(t) : t \in {x \in Tokens : Live(x)}}

\* The refreshes that found the token they brought live, and those that have
\* deleted it.
Claimants == {r \in Requests : pc[r] \in {"deleteExpired", "findOwner", "deleteToken"}}
Renewers == {r \in Requests : pc[r] = "saveToken" /\ call[r].op = "refresh"}

Ledger == INSTANCE SessionLedger WITH
    Openers <- Requests, Earlier <- {Null},
    opened <- OpenedOf, logins <- LoginsOf, record <- RecordOf, live <- LiveOf,
    claims <- BroughtBy(Claimants), tickets <- SignedFor(Renewers)

\* The tables, the tokens' second-long lives and all the handlers' interleaving
\* implement the ledger of sessions.
SessionLedgerSpec == Ledger!Spec

\* An account never has more sessions than there were logins to it.
NoMoreThanLogins == Ledger!NoMoreThanLogins

\* What makes a session of a token: each that is there was stored last by the
\* request that signed it, or is a seed.
MakersStored ==
    \A t \in Tokens : Present(t) =>
        IF maker[t] = Null THEN t \in SeedTokens
        ELSE maker[t] \in stored /\ local[maker[t]] = t

------------------------------------------------------------------------------
(* The inductive invariant: what the safety properties rest on.              *)

\* A request in flight stands in the handler of its operation.
InItsHandler ==
    \A r \in Requests :
        InFlight(r) => pc[r] \in HandlerSteps[call[r].op] \cup {"respond"}

\* A request in flight has seen the row its account has.
SeesItsAccount == \A r \in Requests : InFlight(r) => users[Subject(call[r])] \in seen[r]

\* What a login remembers is a row it has seen, then the token it signed.
KeptValues ==
    \A r \in Requests :
        /\ pc[r] = "compare" => local[r] \in seen[r] \cap UserRows
        /\ pc[r] = "saveToken" \/ r \in stored =>
                local[r] \in Tokens /\ call[r].op \in {"login", "refresh"}

\* A request stores and redeems at most once, and when.
StoredAndRedeemed ==
    \A r \in Requests :
        /\ r \in stored => pc[r] \in {"respond", "done", "lost"}
        /\ r \in redeemed => /\ call[r].op = "refresh"
                             /\ pc[r] \in {"saveToken", "respond", "done", "lost"}

\* The account of a request about to hand out a token was as its checks found it.
Admitted ==
    \A r \in Requests :
        pc[r] \in {"deleteToken", "saveToken"} \/ r \in stored => HadAccount(r)

\* Accounts stay: the seeded, the registered, and those a handler has found.
AccountsStay ==
    /\ \A u \in SeedUsers : users[u] # Null
    /\ \A r \in Requests :
        /\ pc[r] \in {"respond", "done"} /\ reply[r] = "Created" =>
                call[r].op = "register" /\ users[call[r].user] # Null
        /\ pc[r] \in {"writeName", "writePassword"} => users[call[r].caller] # Null
        /\ pc[r] = "writeActive" => users[call[r].target] # Null

\* The answers to login and refresh, from the moment they are decided.
TokensDecided ==
    \A r \in Requests :
        pc[r] \in {"respond", "done"} /\ call[r].op \in {"login", "refresh"} =>
            /\ reply[r] = "Ok" => r \in stored
            /\ reply[r] \notin {"Ok", "DbError"} => r \notin stored

\* What ends the sessions leaves live only those of requests not done by then.
SessionsEnded ==
    \A r \in Requests :
        /\ \A q \in before[r] : pc[q] = "done"
        /\ /\ pc[r] \in {"respond", "done"} /\ reply[r] = "Ok"
           /\ call[r].op \in {"logout", "changePassword"}
           => \A t \in Tokens : t.user = call[r].caller /\ Live(t)
                => maker[t] \notin before[r] \cup {Null}

\* A login is audited before its token is stored.
LoginsAudited ==
    \A r \in Requests :
        pc[r] = "saveToken" /\ call[r].op = "login" => r \in audited

IInv ==
    /\ TypeOK
    /\ InItsHandler
    /\ SeesItsAccount
    /\ KeptValues
    /\ StoredAndRedeemed
    /\ Admitted
    /\ CallerWasActive
    /\ AccountsStay
    /\ AddressRegisteredOnce
    /\ TokensDecided
    /\ SessionsEnded
    /\ LoginsAudited
    /\ TrailHasEveryChange
    /\ RedeemedOnce

------------------------------------------------------------------------------
(* What a step may do                                                        *)

\* Request r commits, in this step, the column of account u it was asked to set.
Renames(r, u) ==
    /\ pc[r] = "writeName" /\ pc'[r] = "respond"
    /\ call[r].caller = u
    /\ users'[u] = [users[u] EXCEPT !.name = call[r].name]

ChangesPassword(r, u) ==
    /\ pc[r] = "writePassword" /\ pc'[r] = "deleteTokens"
    /\ call[r].caller = u
    /\ HadPassword(r)
    /\ users'[u] = [users[u] EXCEPT !.password = call[r].new]

SetsActive(r, u) ==
    /\ pc[r] = "writeActive" /\ pc'[r] = "respond"
    /\ call[r].target = u
    /\ users'[u] = [users[u] EXCEPT !.isActive = call[r].isActive]

\* No update of an account is lost to another that read the row before it: a
\* commit changes the one column its request asks for and leaves the rest of the
\* row, name, password and isActive, as the commits before it left them; and it
\* changes the password only for a request that named one the account had while
\* the request was handled.
AccountsChangeAsAsked ==
    [][\A u \in Users : users[u] # Null /\ users'[u] # users[u] =>
        \E r \in Requests :
            Renames(r, u) \/ ChangesPassword(r, u) \/ SetsActive(r, u)]_vars

------------------------------------------------------------------------------
(* What the documents say of tokens.                                         *)

\* The schema, model RefreshToken: an account may log in from several devices.
\* The right password of an active account is not refused with a conflict.
DevicesLogInTogether ==
    \A r \in Requests :
        pc[r] = "done" /\ call[r].op = "login" => HttpStatus(reply[r]) # 409

==============================================================================
