---------------------------- MODULE SessionsProofs ----------------------------
(* The safety of accounts and sessions for any set of requests, accounts and *)
(* passwords, any lifetime of the tokens and bound on the clock, with and    *)
(* without faults and crashes.                                               *)
EXTENDS Sessions, FiniteSetTheorems, TLAPS

Ops == {"register", "login", "refresh", "logout", "updateProfile", "changePassword",
        "setActive"}

------------------------------------------------------------------------------
(* Facts of the operators.                                                   *)

\* A call has the fields of its operation and acts as an account.
LEMMA CallFields ==
    ASSUME NEW c \in Calls
    PROVE  /\ c.op \in Ops
           /\ Subject(c) \in Users
           /\ c.op = "register" => c.name \in Names /\ c.password \in Passwords
           /\ c.op \in {"register", "login"} => c.user \in Users /\ Subject(c) = c.user
           /\ c.op = "refresh" => c.token \in Tokens /\ Subject(c) = c.token.user
           /\ c.op \in {"logout", "updateProfile", "changePassword", "setActive"} =>
                c.caller \in Users /\ Subject(c) = c.caller
           /\ c.op = "updateProfile" => c.name \in Names
           /\ c.op = "changePassword" => c.new \in Passwords
           /\ c.op = "setActive" => c.target \in Users /\ c.isActive \in BOOLEAN
  BY DEF Calls, Ops, Subject, Tokens

\* Which operation a step belongs to.
LEMMA StepsApart ==
    ASSUME NEW op \in Ops
    PROVE  /\ FirstStep[op] \in HandlerSteps[op]
           /\ FirstStep[op] \in {"findEmail", "findUser", "findToken", "authenticate"}
           /\ op \in {"logout", "updateProfile", "changePassword", "setActive"} <=>
                FirstStep[op] = "authenticate"
           /\ \A step \in HandlerSteps[op] :
                /\ step \in Steps \ {"respond"}
                /\ step \in {"findEmail", "createUser"} => op = "register"
                /\ step \in {"findUser", "compare"} => op = "login"
                /\ step = "saveToken" => op \in {"login", "refresh"}
                /\ step \in {"findToken", "deleteExpired", "findOwner", "deleteToken"}
                    => op = "refresh"
                /\ step = "authenticate" =>
                    op \in {"logout", "updateProfile", "changePassword", "setActive"}
                /\ step = "revokeAll" => op = "logout"
                /\ step \in {"findOwnRow", "writeName"} => op = "updateProfile"
                /\ step \in {"findProfile", "writePassword", "deleteTokens"}
                    => op = "changePassword"
                /\ step \in {"findTarget", "writeActive"} => op = "setActive"
  BY DEF Ops, FirstStep, HandlerSteps, Steps

\* What the invariant says of the call of a request in flight.
LEMMA CallOf ==
    ASSUME IInv, NEW r \in Requests, InFlight(r)
    PROVE  /\ call[r] \in Calls
           /\ call[r].op \in Ops
           /\ pc[r] # "respond" => pc[r] \in HandlerSteps[call[r].op]
  <1>1. call[r] \in Calls
    BY DEF IInv, TypeOK, InFlight, Steps
  <1> QED
    BY <1>1, CallFields DEF IInv, InItsHandler

\* As long as no token appears and nothing is stored or redeemed, a token is
\* redeemed no more often than it was stored.
LEMMA RedeemedKept ==
    ASSUME IInv, UNCHANGED <<stored, redeemed>>,
           \A q \in stored : local'[q] = local[q],
           \A q \in redeemed : call'[q] = call[q],
           \A t \in Tokens : tokens'[t] # Null => tokens[t] # Null
    PROVE  RedeemedOnce'
  <1> SUFFICES ASSUME NEW t \in Tokens
               PROVE  Cardinality({r \in redeemed : call'[r].token = t})
                        + (IF tokens'[t] # Null THEN 1 ELSE 0)
                      <= Cardinality({r \in stored : local'[r] = t})
                        + (IF t \in SeedTokens THEN 1 ELSE 0)
    BY DEF RedeemedOnce, Present
  <1> DEFINE R == {r \in redeemed : call[r].token = t}
             S == {r \in stored : local[r] = t}
  <1>1. {r \in redeemed : call'[r].token = t} = R
    OBVIOUS
  <1>2. {r \in stored : local'[r] = t} = S
    OBVIOUS
  <1>3. Cardinality(R) + (IF tokens[t] # Null THEN 1 ELSE 0)
            <= Cardinality(S) + (IF t \in SeedTokens THEN 1 ELSE 0)
    BY DEF IInv, RedeemedOnce, Present
  <1>4. Cardinality(R) \in Nat /\ Cardinality(S) \in Nat
    <2>1. IsFiniteSet(redeemed) /\ IsFiniteSet(stored)
      BY SessionsAssumption, FS_Subset DEF IInv, TypeOK
    <2>2. IsFiniteSet(R) /\ IsFiniteSet(S)
      BY <2>1, FS_Subset
    <2> QED
      BY <2>2, FS_CardinalityType
  <1> DEFINE x == IF tokens[t] # Null THEN 1 ELSE 0
             y == IF tokens'[t] # Null THEN 1 ELSE 0
             z == IF t \in SeedTokens THEN 1 ELSE 0
  <1>5. y <= x /\ x \in Nat /\ y \in Nat /\ z \in Nat
    OBVIOUS
  <1>6. Cardinality(R) + x <= Cardinality(S) + z
    BY <1>3
  <1>7. Cardinality(R) + y <= Cardinality(S) + z
    <2> HIDE DEF R, S, x, y, z
    <2> QED
      BY <1>4, <1>5, <1>6
  <1> QED
    BY <1>1, <1>2, <1>7

------------------------------------------------------------------------------
(* The initial states.                                                       *)

LEMMA InitInvariant == Init => IInv
  <1> SUFFICES ASSUME Init PROVE IInv
    OBVIOUS
  <1> USE SessionsAssumption
  <1>1. TypeOK
    <2>1. users \in [Users -> UserRows \cup {Null}]
      BY DEF Init, UserRows
    <2>2. tokens \in [Tokens -> TokenRows \cup {Null}]
      BY DEF Init, TokenRows
    <2>3. now \in Seconds
      BY DEF Init, Seconds
    <2> QED
      BY <2>1, <2>2, <2>3 DEF Init, TypeOK
  <1>2. InItsHandler /\ SeesItsAccount /\ KeptValues /\ StoredAndRedeemed
    BY DEF Init, InItsHandler, SeesItsAccount, KeptValues, StoredAndRedeemed, InFlight, Steps
  <1>3. Admitted /\ CallerWasActive /\ TokensDecided /\ SessionsEnded
    BY DEF Init, Admitted, CallerWasActive, TokensDecided, SessionsEnded
  <1>4. AccountsStay
    BY DEF Init, AccountsStay, UserRows
  <1>5. AddressRegisteredOnce /\ LoginsAudited /\ TrailHasEveryChange
    BY DEF Init, AddressRegisteredOnce, LoginsAudited, TrailHasEveryChange
  <1>6. RedeemedOnce
    <2> SUFFICES ASSUME NEW t \in Tokens
                 PROVE  Cardinality({r \in redeemed : call[r].token = t})
                          + (IF Present(t) THEN 1 ELSE 0)
                        <= Cardinality({r \in stored : local[r] = t})
                          + (IF t \in SeedTokens THEN 1 ELSE 0)
      BY DEF RedeemedOnce
    <2>1. /\ {r \in redeemed : call[r].token = t} = {}
          /\ {r \in stored : local[r] = t} = {}
      BY DEF Init
    <2>2. Present(t) <=> t \in SeedTokens
      <3>1. tokens[t] = IF t \in SeedTokens THEN [isRevoked |-> FALSE] ELSE Null
        BY DEF Init
      <3>2. [isRevoked |-> FALSE] \in TokenRows
        BY DEF TokenRows
      <3>3. [isRevoked |-> FALSE] # Null
        BY <3>2
      <3> QED
        BY <3>1, <3>3 DEF Present
    <2>3. Cardinality({}) = 0
      BY FS_EmptySet
    <2>4. (IF Present(t) THEN 1 ELSE 0) = (IF t \in SeedTokens THEN 1 ELSE 0)
      BY <2>2
    <2>5. (IF t \in SeedTokens THEN 1 ELSE 0) \in Nat
      OBVIOUS
    <2>6. /\ Cardinality({r \in redeemed : call[r].token = t}) = 0
          /\ Cardinality({r \in stored : local[r] = t}) = 0
      BY <2>1, <2>3
    <2> QED
      BY <2>4, <2>5, <2>6
  <1> QED
    BY <1>1, <1>2, <1>3, <1>4, <1>5, <1>6 DEF IInv

------------------------------------------------------------------------------
(* Steps that leave the tables alone.                                        *)

\* A handler that goes on, remembers or answers without a write keeps the
\* invariant, given what the step it goes to has to know.
LEMMA MoveInvariant ==
    ASSUME IInv, NEW r \in Requests, InFlight(r), NEW step, NEW value, NEW a,
           UNCHANGED <<tables, now, call, maker, stored, redeemed, before, seen>>,
           pc' = [pc EXCEPT ![r] = step],
           local' = [local EXCEPT ![r] = value],
           reply' = [reply EXCEPT ![r] = a],
           audited' \in {audited, audited \cup {r}},
           value \in UserRows \cup Tokens \cup {Null},
           r \in stored => value = local[r],
           r \in redeemed => step = "done",
           \/ step = "done" /\ a \in Answers \ Successes /\ (a = "DbError" \/ r \notin stored)
           \/ step \in HandlerSteps[call[r].op] /\ a = reply[r] /\ pc[r] # "respond",
           step = "compare" => value \in seen[r] \cap UserRows,
           step = "saveToken" => value \in Tokens /\ (call[r].op = "login" => r \in audited'),
           step \in {"saveToken", "deleteToken"} => HadAccount(r),
           step \in {"writeName", "writePassword"} => users[call[r].caller] # Null,
           step = "writeActive" => users[call[r].target] # Null,
           call[r].op \notin {"register", "login", "refresh"}
             /\ step \notin {"authenticate", "done"} =>
                /\ WasActive(r)
                /\ call[r].op = "changePassword" /\ step # "findProfile" => HadPassword(r)
    PROVE  IInv'
  <1>0. /\ pc \in [Requests -> Steps \cup {"idle", "done", "lost"}]
        /\ local \in [Requests -> UserRows \cup Tokens \cup {Null}]
        /\ reply \in [Requests -> Answers \cup {"None"}]
        /\ stored \subseteq Requests /\ redeemed \subseteq Requests
        /\ audited \subseteq Requests
        /\ before \in [Requests -> SUBSET Requests]
    BY DEF IInv, TypeOK
  <1>1. UNCHANGED <<users, tokens, now, call, maker, stored, redeemed, before, seen>>
    BY DEF tables
  <1>2. /\ call[r] \in Calls /\ call[r].op \in Ops
        /\ pc[r] # "respond" => pc[r] \in HandlerSteps[call[r].op]
    BY CallOf
  <1>3. /\ step \in Steps \cup {"done"} /\ step # "respond"
        /\ \/ step = "done" /\ a \in Answers \ Successes /\ (a = "DbError" \/ r \notin stored)
           \/ step # "done" /\ step \in HandlerSteps[call[r].op] /\ a = reply[r]
    BY <1>2, StepsApart DEF Steps
  <1>4. TypeOK'
    BY <1>0, <1>1, <1>2, <1>3 DEF IInv, TypeOK, InFlight, Steps
  <1>5. InItsHandler' /\ SeesItsAccount'
    BY <1>0, <1>1, <1>2, <1>3 DEF IInv, InItsHandler, SeesItsAccount, InFlight, Steps
  <1>6. r \notin stored \/ pc[r] = "respond"
    BY <1>0 DEF IInv, StoredAndRedeemed, InFlight, Steps
  <1>7. KeptValues'
    BY <1>0, <1>1, <1>2, <1>3, StepsApart DEF IInv, KeptValues
  <1>8. StoredAndRedeemed'
    BY <1>0, <1>1, <1>6 DEF IInv, StoredAndRedeemed, InFlight, Steps
  <1>9. \A q \in Requests :
            /\ pc'[q] = IF q = r THEN step ELSE pc[q]
            /\ reply'[q] = IF q = r THEN a ELSE reply[q]
            /\ call'[q] = call[q] /\ seen'[q] = seen[q]
            /\ before'[q] = before[q]
    BY <1>0, <1>1
  <1>10. Admitted'
    <2> SUFFICES ASSUME NEW q \in Requests,
                        pc'[q] \in {"deleteToken", "saveToken"} \/ q \in stored
                 PROVE  HadAccount(q)
      BY <1>1 DEF Admitted, HadAccount
    <2> QED
      BY <1>6, <1>9 DEF IInv, Admitted, InFlight, Steps
  <1>11. CallerWasActive'
    <2> SUFFICES ASSUME NEW q \in Requests,
                        call[q] # Null,
                        call[q].op \notin {"register", "login", "refresh"},
                        pc'[q] \notin {"idle", "authenticate", "lost"},
                        pc'[q] = "done" => reply'[q] = "Ok"
                 PROVE  /\ WasActive(q)
                        /\ call[q].op = "changePassword" /\ pc'[q] # "findProfile" =>
                                HadPassword(q)
      BY <1>1 DEF CallerWasActive, WasActive, HadPassword
    <2>1. CASE q = r
      <3>1. step \notin {"authenticate", "done"}
        BY <2>1, <1>3, <1>9 DEF Successes
      <3> QED
        BY <2>1, <3>1, <1>9
    <2>2. CASE q # r
      BY <2>2, <1>9 DEF IInv, CallerWasActive
    <2> QED
      BY <2>1, <2>2
  <1>12. AccountsStay'
    BY <1>1, <1>3, <1>9 DEF IInv, AccountsStay, Successes
  <1>13. AddressRegisteredOnce' /\ TokensDecided'
    BY <1>1, <1>3, <1>6, <1>9 DEF IInv, AddressRegisteredOnce, TokensDecided, Successes
  <1>14. SessionsEnded'
    BY <1>1, <1>3, <1>9 DEF IInv, SessionsEnded, Successes, Live, Present, InFlight, Steps
  <1>15. LoginsAudited' /\ TrailHasEveryChange'
    BY <1>1, <1>3, <1>6, <1>9 DEF IInv, LoginsAudited, TrailHasEveryChange, Successes
  <1>16. RedeemedOnce'
    BY <1>0, <1>1, RedeemedKept DEF IInv
  <1> QED
    BY <1>4, <1>5, <1>7, <1>8, <1>10, <1>11, <1>12, <1>13, <1>14, <1>15, <1>16
    DEF IInv

\* A request that has not written holds no token, and has redeemed none before
\* it signs one.
LEMMA NotYet ==
    ASSUME IInv, NEW r \in Requests, InFlight(r), pc[r] # "respond"
    PROVE  /\ r \notin stored
           /\ pc[r] # "saveToken" => r \notin redeemed
  BY DEF IInv, StoredAndRedeemed, InFlight, Steps

\* What a request remembers is of its type.
LEMMA LocalType ==
    ASSUME IInv, NEW r \in Requests
    PROVE  /\ local[r] \in UserRows \cup Tokens \cup {Null}
           /\ local = [local EXCEPT ![r] = local[r]]
           /\ reply = [reply EXCEPT ![r] = reply[r]]
  BY DEF IInv, TypeOK

LEMMA AnswerInvariant ==
    ASSUME IInv, NEW r \in Requests, InFlight(r), NEW a \in Answers \ Successes,
           Answer(r, a), UNCHANGED <<tables, now, history>>,
           a = "DbError" \/ pc[r] # "respond"
    PROVE  IInv'
  <1>1. a = "DbError" \/ r \notin stored
    BY NotYet
  <1> QED
    BY <1>1, LocalType, MoveInvariant, Zenon DEF Answer, history

LEMMA GotoInvariant ==
    ASSUME IInv, NEW r \in Requests, InFlight(r), pc[r] \notin {"saveToken", "respond"},
           NEW step \in HandlerSteps[call[r].op], step \notin {"compare", "saveToken"},
           Goto(r, step), UNCHANGED <<tables, now, history>>,
           step = "deleteToken" => HadAccount(r),
           step \in {"writeName", "writePassword"} => users[call[r].caller] # Null,
           step = "writeActive" => users[call[r].target] # Null,
           call[r].op \notin {"register", "login", "refresh"} /\ step # "authenticate" =>
                /\ WasActive(r)
                /\ call[r].op = "changePassword" /\ step # "findProfile" => HadPassword(r)
    PROVE  IInv'
  <1>1. r \notin stored /\ r \notin redeemed
    BY NotYet
  <1>2. /\ pc' = [pc EXCEPT ![r] = step]
        /\ local' = [local EXCEPT ![r] = local[r]]
        /\ reply' = [reply EXCEPT ![r] = reply[r]]
        /\ UNCHANGED <<tables, now, call, maker, stored, redeemed, before, seen>>
        /\ audited' \in {audited, audited \cup {r}}
    BY LocalType DEF Goto, history
  <1> QED
    BY <1>1, <1>2, LocalType, MoveInvariant

LEMMA KeepInvariant ==
    ASSUME IInv, NEW r \in Requests, InFlight(r), pc[r] \notin {"saveToken", "respond"},
           NEW step \in HandlerSteps[call[r].op],
           NEW value \in UserRows \cup Tokens,
           Keep(r, value, step),
           UNCHANGED <<tables, now, maker, stored, redeemed, before, seen>>,
           audited' \in {audited, audited \cup {r}},
           step = "compare" => value \in seen[r] \cap UserRows,
           step = "saveToken" =>
                value \in Tokens /\ HadAccount(r) /\ (call[r].op = "login" => r \in audited'),
           step \notin {"deleteToken", "writeName", "writeActive"},
           step = "writePassword" => users[call[r].caller] # Null,
           call[r].op \notin {"register", "login", "refresh"} /\ step # "authenticate" =>
                /\ WasActive(r)
                /\ call[r].op = "changePassword" /\ step # "findProfile" => HadPassword(r)
    PROVE  IInv'
  <1>1. r \notin stored /\ r \notin redeemed
    BY NotYet
  <1>2. /\ pc' = [pc EXCEPT ![r] = step]
        /\ local' = [local EXCEPT ![r] = value]
        /\ reply' = [reply EXCEPT ![r] = reply[r]]
        /\ UNCHANGED call
    BY LocalType DEF Keep
  <1> QED
    BY <1>1, <1>2, MoveInvariant

\* What a request reads of its account, it has seen.
LEMMA Seen ==
    ASSUME IInv, NEW r \in Requests, InFlight(r)
    PROVE  users[Subject(call[r])] \in seen[r]
  BY DEF IInv, SeesItsAccount

\* The steps of register, login and refresh that read.
LEMMA SessionReads ==
    ASSUME IInv, NEW r \in Requests,
           FindEmail(r) \/ FindUser(r) \/ FindToken(r) \/ FindOwner(r)
    PROVE  IInv'
  <1>1. InFlight(r) /\ pc[r] \in Steps \ {"saveToken", "respond"}
    BY DEF FindEmail, FindUser, FindToken, FindOwner, InFlight, Steps
  <1>2. /\ call[r] \in Calls /\ call[r].op \in Ops
        /\ pc[r] \in HandlerSteps[call[r].op]
    BY <1>1, CallOf
  <1>3. {"Conflict", "Unauthorized"} \subseteq Answers \ Successes
    BY DEF Answers, Successes, DomainExceptions
  <1>4. CASE FindEmail(r)
    <2>1. call[r].op = "register"
      BY <1>2, <1>4, StepsApart DEF FindEmail
    <2>2. "createUser" \in HandlerSteps[call[r].op]
      BY <2>1 DEF HandlerSteps
    <2>3. UNCHANGED <<tables, now, history>>
      BY <1>4 DEF FindEmail
    <2>4. CASE Answer(r, "Conflict")
      BY <1>1, <1>3, <2>3, <2>4, AnswerInvariant
    <2>5. CASE Goto(r, "createUser")
      BY <1>1, <2>1, <2>2, <2>3, <2>5, GotoInvariant
    <2> QED
      BY <1>4, <2>4, <2>5 DEF FindEmail
  <1>5. CASE FindUser(r)
    <2> DEFINE row == users[call[r].user]
    <2>1. call[r].op = "login"
      BY <1>2, <1>5, StepsApart DEF FindUser
    <2>2. "compare" \in HandlerSteps[call[r].op]
      BY <2>1 DEF HandlerSteps
    <2>3. UNCHANGED <<tables, now, history>>
      BY <1>5 DEF FindUser
    <2>4. CASE Answer(r, "Unauthorized")
      BY <1>1, <1>3, <2>3, <2>4, AnswerInvariant
    <2>5. CASE row # Null /\ Keep(r, row, "compare")
      <3>1. call[r].user \in Users /\ Subject(call[r]) = call[r].user
        BY <1>2, <2>1, CallFields
      <3>2. row \in seen[r] \cap UserRows
        BY <1>1, <2>5, <3>1, Seen DEF IInv, TypeOK
      <3> QED
        BY <1>1, <2>1, <2>2, <2>3, <2>5, <3>2, KeepInvariant DEF history
    <2> QED
      BY <1>5, <2>4, <2>5 DEF FindUser
  <1>6. CASE FindToken(r)
    <2>1. call[r].op = "refresh"
      BY <1>2, <1>6, StepsApart DEF FindToken
    <2>2. {"deleteExpired", "findOwner"} \subseteq HandlerSteps[call[r].op]
      BY <2>1 DEF HandlerSteps
    <2>3. UNCHANGED <<tables, now, history>>
      BY <1>6 DEF FindToken
    <2>4. CASE Answer(r, "Unauthorized")
      BY <1>1, <1>3, <2>3, <2>4, AnswerInvariant
    <2>5. CASE Goto(r, "deleteExpired")
      BY <1>1, <2>1, <2>2, <2>3, <2>5, GotoInvariant
    <2>6. CASE Goto(r, "findOwner")
      BY <1>1, <2>1, <2>2, <2>3, <2>6, GotoInvariant
    <2> QED
      BY <1>6, <2>4, <2>5, <2>6 DEF FindToken
  <1>7. CASE FindOwner(r)
    <2> DEFINE row == users[call[r].token.user]
    <2>1. call[r].op = "refresh"
      BY <1>2, <1>7, StepsApart DEF FindOwner
    <2>2. "deleteToken" \in HandlerSteps[call[r].op]
      BY <2>1 DEF HandlerSteps
    <2>3. UNCHANGED <<tables, now, history>>
      BY <1>7 DEF FindOwner
    <2>4. CASE Answer(r, "Unauthorized")
      BY <1>1, <1>3, <2>3, <2>4, AnswerInvariant
    <2>5. CASE row # Null /\ row.isActive /\ Goto(r, "deleteToken")
      <3>1. row \in seen[r]
        BY <1>1, <1>2, <2>1, Seen, CallFields
      <3>2. HadAccount(r)
        BY <2>1, <2>5, <3>1 DEF HadAccount
      <3> QED
        BY <1>1, <2>1, <2>2, <2>3, <2>5, <3>2, GotoInvariant
    <2> QED
      BY <1>7, <2>4, <2>5 DEF FindOwner
  <1> QED
    BY <1>4, <1>5, <1>6, <1>7

\* The comparison of a login, which signs and audits.
LEMMA CompareInvariant ==
    ASSUME IInv, NEW r \in Requests, Compare(r)
    PROVE  IInv'
  <1>1. InFlight(r) /\ pc[r] = "compare"
    BY DEF Compare, InFlight, Steps
  <1>2. call[r] \in Calls /\ call[r].op = "login"
    BY <1>1, CallOf, StepsApart
  <1>3. local[r] \in seen[r] /\ local[r] \in UserRows
    BY <1>1 DEF IInv, KeptValues
  <1>4. "Unauthorized" \in Answers \ Successes
    BY DEF Answers, Successes, DomainExceptions
  <1>5. UNCHANGED <<tables, now, maker, stored, redeemed, before, seen>>
    BY DEF Compare
  <1>6. CASE Answer(r, "Unauthorized") /\ UNCHANGED audited
    BY <1>1, <1>4, <1>5, <1>6, AnswerInvariant DEF history
  <1>7. CASE /\ local[r].password = call[r].password /\ local[r].isActive
             /\ audited' = audited \cup {r}
             /\ Keep(r, Signed(call[r].user), "saveToken")
    <2>1. Signed(call[r].user) \in Tokens
      BY <1>2, CallFields DEF Signed, Tokens, IInv, TypeOK
    <2>2. HadAccount(r)
      BY <1>3, <1>7, SessionsAssumption DEF HadAccount
    <2>3. "saveToken" \in HandlerSteps[call[r].op]
      BY <1>2 DEF HandlerSteps
    <2> QED
      BY <1>1, <1>2, <1>5, <1>7, <2>1, <2>2, <2>3, KeepInvariant
  <1> QED
    BY <1>6, <1>7 DEF Compare

\* The guard, and the reads of the handlers behind it.
LEMMA GuardedReads ==
    ASSUME IInv, NEW r \in Requests,
           Authenticate(r) \/ FindOwnRow(r) \/ FindProfile(r) \/ FindTarget(r)
    PROVE  IInv'
  <1> DEFINE row == users[call[r].caller]
  <1>1. InFlight(r) /\ pc[r] \in Steps \ {"saveToken", "respond"}
    BY DEF Authenticate, FindOwnRow, FindProfile, FindTarget, InFlight, Steps
  <1>2. /\ call[r] \in Calls /\ call[r].op \in Ops
        /\ pc[r] \in HandlerSteps[call[r].op]
    BY <1>1, CallOf
  <1>3. {"Unauthorized", "BadRequest", "Forbidden", "NotFound"} \subseteq Answers \ Successes
    BY DEF Answers, Successes, DomainExceptions
  <1>4. UNCHANGED <<tables, now, history>>
    BY DEF Authenticate, FindOwnRow, FindProfile, FindTarget
  <1>5. call[r].op \in {"logout", "updateProfile", "changePassword", "setActive"}
    BY <1>2, StepsApart DEF Authenticate, FindOwnRow, FindProfile, FindTarget
  <1>6. row \in seen[r] /\ row \in UserRows \cup {Null}
    BY <1>1, <1>2, <1>5, Seen, CallFields DEF IInv, TypeOK
  <1>7. pc[r] # "authenticate" => WasActive(r)
    BY <1>1, <1>2, <1>5 DEF IInv, CallerWasActive, HandlerSteps, Steps, TypeOK
  <1>8. ASSUME NEW a \in {"Unauthorized", "BadRequest", "Forbidden", "NotFound"},
               Answer(r, a)
        PROVE  IInv'
    BY <1>1, <1>3, <1>4, <1>8, AnswerInvariant
  <1>9. CASE Authenticate(r)
    <2>1. ASSUME row # Null, row.isActive,
                 NEW step \in {"revokeAll", "findOwnRow", "findProfile", "findTarget"},
                 step \in HandlerSteps[call[r].op], Goto(r, step)
          PROVE  IInv'
      <3>1. WasActive(r)
        BY <1>6, <2>1 DEF WasActive
      <3>2. call[r].op = "changePassword" => step = "findProfile"
        BY <2>1 DEF HandlerSteps
      <3> QED
        BY <1>1, <1>4, <2>1, <3>1, <3>2, GotoInvariant
    <2>2. /\ call[r].op = "logout" => "revokeAll" \in HandlerSteps[call[r].op]
          /\ call[r].op = "updateProfile" => "findOwnRow" \in HandlerSteps[call[r].op]
          /\ call[r].op = "changePassword" => "findProfile" \in HandlerSteps[call[r].op]
          /\ call[r].op = "setActive" => "findTarget" \in HandlerSteps[call[r].op]
      BY DEF HandlerSteps
    <2> QED
      BY <1>8, <1>9, <2>1, <2>2 DEF Authenticate
  <1>10. CASE FindOwnRow(r)
    <2>1. call[r].op = "updateProfile" /\ pc[r] # "authenticate"
      BY <1>2, <1>10, StepsApart DEF FindOwnRow
    <2>2. "writeName" \in HandlerSteps[call[r].op]
      BY <2>1 DEF HandlerSteps
    <2>3. CASE row # Null /\ Goto(r, "writeName")
      BY <1>1, <1>4, <1>7, <2>1, <2>2, <2>3, GotoInvariant
    <2> QED
      BY <1>8, <1>10, <2>3 DEF FindOwnRow
  <1>11. CASE FindProfile(r)
    <2>1. call[r].op = "changePassword" /\ pc[r] # "authenticate"
      BY <1>2, <1>11, StepsApart DEF FindProfile
    <2>2. "writePassword" \in HandlerSteps[call[r].op]
      BY <2>1 DEF HandlerSteps
    <2>3. CASE row # Null /\ row.password = call[r].current /\ Keep(r, row, "writePassword")
      <3>1. HadPassword(r) /\ row \in UserRows
        BY <1>6, <2>3 DEF HadPassword
      <3> QED
        BY <1>1, <1>4, <1>7, <2>1, <2>2, <2>3, <3>1, KeepInvariant DEF history
    <2> QED
      BY <1>8, <1>11, <2>3 DEF FindProfile
  <1>12. CASE FindTarget(r)
    <2>1. call[r].op = "setActive" /\ pc[r] # "authenticate"
      BY <1>2, <1>12, StepsApart DEF FindTarget
    <2>2. "writeActive" \in HandlerSteps[call[r].op]
      BY <2>1 DEF HandlerSteps
    <2>3. CASE users[call[r].target] # Null /\ Goto(r, "writeActive")
      BY <1>1, <1>4, <1>7, <2>1, <2>2, <2>3, GotoInvariant
    <2> QED
      BY <1>8, <1>12, <2>3 DEF FindTarget
  <1> QED
    BY <1>9, <1>10, <1>11, <1>12

LEMMA FailInvariant ==
    ASSUME IInv, NEW r \in Requests, Fail(r)
    PROVE  IInv'
  <1>1. "DbError" \in Answers \ Successes
    BY DEF Answers, Successes, PrismaErrors
  <1> QED
    BY <1>1, AnswerInvariant DEF Fail

------------------------------------------------------------------------------
(* Steps that write an account.                                              *)

\* A write of the row of account u keeps the invariant: the requests in flight
\* see it, an account never goes, and no session changes.
LEMMA UserWriteInvariant ==
    ASSUME IInv, NEW r \in Requests, InFlight(r), pc[r] \notin {"saveToken", "respond"},
           NEW u \in Users, NEW row \in UserRows, NEW step, NEW value, NEW a,
           users' = [users EXCEPT ![u] = row],
           Observe(u, row),
           UNCHANGED <<tokens, now, call, maker, stored, redeemed, audited>>,
           pc' = [pc EXCEPT ![r] = step],
           local' = [local EXCEPT ![r] = value],
           value \in UserRows \cup Tokens \cup {Null},
           reply' = [reply EXCEPT ![r] = a],
           \/ step = "respond" /\ a \in Successes /\ before' = before
           \/ /\ step = "deleteTokens" /\ step \in HandlerSteps[call[r].op] /\ a = reply[r]
              /\ before' = [before EXCEPT ![r] = Answered],
           call[r].op \notin {"login", "refresh", "logout"},
           call[r].op = "changePassword" => step = "deleteTokens",
           a = "Created" /\ step = "respond" =>
                call[r].op = "register" /\ u = call[r].user /\ users[u] = Null,
           call[r].op # "register" =>
                /\ WasActive(r)
                /\ call[r].op = "changePassword" => HadPassword(r)
    PROVE  IInv'
  <1>0. /\ pc \in [Requests -> Steps \cup {"idle", "done", "lost"}]
        /\ local \in [Requests -> UserRows \cup Tokens \cup {Null}]
        /\ reply \in [Requests -> Answers \cup {"None"}]
        /\ users \in [Users -> UserRows \cup {Null}]
        /\ seen \in [Requests -> SUBSET (UserRows \cup {Null})]
        /\ before \in [Requests -> SUBSET Requests]
        /\ call \in [Requests -> Calls \cup {Null}]
    BY DEF IInv, TypeOK
  <1>1. r \notin stored /\ r \notin redeemed /\ pc[r] \in Steps \ {"respond"}
    BY NotYet DEF InFlight
  <1>2. call[r] \in Calls /\ call[r].op \in Ops
    BY CallOf
  <1>3. /\ a \in Answers \cup {"None"}
        /\ step \in {"respond", "deleteTokens"}
        /\ step = "respond" => a \in Successes
    BY <1>0 DEF Answers
  <1>4. \A q \in Requests :
            /\ pc'[q] = IF q = r THEN step ELSE pc[q]
            /\ reply'[q] = IF q = r THEN a ELSE reply[q]
            /\ call'[q] = call[q]
            /\ q # r => before'[q] = before[q] /\ local'[q] = local[q]
            /\ q = r => before'[q] \in {before[q], Answered}
    BY <1>0
  <1>5. \A q \in Requests :
            /\ seen[q] \subseteq seen'[q]
            /\ InFlight(q) /\ Subject(call[q]) = u => row \in seen'[q]
            /\ seen'[q] \subseteq seen[q] \cup {row}
    BY DEF Observe
  <1>6. \A v \in Users : users'[v] = IF v = u THEN row ELSE users[v]
    BY <1>0
  <1>7. row # Null
    BY SessionsAssumption
  <1>8. TypeOK'
    <2>1. users' \in [Users -> UserRows \cup {Null}]
      BY <1>0
    <2>2. seen' \in [Requests -> SUBSET (UserRows \cup {Null})]
      <3>1. seen' = [q \in Requests |-> seen'[q]]
        BY DEF Observe
      <3>2. \A q \in Requests : seen'[q] \in SUBSET (UserRows \cup {Null})
        BY <1>0, <1>5
      <3> QED
        BY <3>1, <3>2
    <2>3. before' \in [Requests -> SUBSET Requests]
      BY <1>0 DEF Answered
    <2>4. pc' \in [Requests -> Steps \cup {"idle", "done", "lost"}]
      BY <1>0, <1>3 DEF Steps
    <2>5. local' \in [Requests -> UserRows \cup Tokens \cup {Null}]
      BY <1>0
    <2>6. reply' \in [Requests -> Answers \cup {"None"}]
      BY <1>0, <1>3
    <2>7. \A q \in Requests : pc'[q] # "idle" => call'[q] # Null
      BY <1>1, <1>4 DEF IInv, TypeOK, Steps
    <2> QED
      BY <2>1, <2>2, <2>3, <2>4, <2>5, <2>6, <2>7 DEF IInv, TypeOK
  <1>9. InItsHandler'
    BY <1>3, <1>4 DEF IInv, InItsHandler, InFlight
  <1>10. SeesItsAccount'
    <2> SUFFICES ASSUME NEW q \in Requests, pc'[q] \in Steps
                 PROVE  users'[Subject(call[q])] \in seen'[q]
      BY DEF SeesItsAccount, InFlight, Subject
    <2>1. InFlight(q)
      BY <1>4 DEF InFlight
    <2>2. Subject(call[q]) \in Users
      BY <2>1, CallOf, CallFields
    <2> QED
      BY <1>5, <1>6, <2>1, <2>2, Seen
  <1>11. KeptValues'
    BY <1>1, <1>3, <1>4, <1>5 DEF IInv, KeptValues
  <1>12. StoredAndRedeemed'
    BY <1>1, <1>4 DEF IInv, StoredAndRedeemed
  <1>13. Admitted'
    <2>1. \A q \in Requests : HadAccount(q) => HadAccount(q)'
      BY <1>4, <1>5 DEF HadAccount
    <2> QED
      BY <1>1, <1>3, <1>4, <2>1 DEF IInv, Admitted
  <1>14. CallerWasActive'
    <2>1. \A q \in Requests : /\ WasActive(q) => WasActive(q)'
                              /\ HadPassword(q) => HadPassword(q)'
      BY <1>4, <1>5 DEF WasActive, HadPassword
    <2> QED
      BY <1>3, <1>4, <2>1 DEF IInv, CallerWasActive
  <1>15. AccountsStay'
    <2>1. \A v \in Users : users[v] # Null => users'[v] # Null
      BY <1>6, <1>7
    <2>2. \A q \in Requests : call[q] # Null => call[q] \in Calls
      BY <1>0
    <2> QED
      BY <1>2, <1>3, <1>4, <1>6, <1>7, <2>1, <2>2, CallFields, SessionsAssumption
      DEF IInv, AccountsStay, TypeOK, Steps
  <1>16. AddressRegisteredOnce'
    BY <1>3, <1>4 DEF IInv, AddressRegisteredOnce, AccountsStay
  <1>17. TokensDecided'
    BY <1>3, <1>4 DEF IInv, TokensDecided
  <1>18. SessionsEnded'
    <2>1. \A q \in Requests : \A p \in before'[q] : pc'[p] = "done"
      BY <1>0, <1>1, <1>4 DEF IInv, SessionsEnded, Answered, Steps
    <2> QED
      BY <1>3, <1>4, <2>1 DEF IInv, SessionsEnded, Live, Present
  <1>19. LoginsAudited' /\ TrailHasEveryChange'
    BY <1>1, <1>3, <1>4 DEF IInv, LoginsAudited, TrailHasEveryChange
  <1>20. RedeemedOnce'
    BY <1>1, <1>4, RedeemedKept DEF IInv, TypeOK
  <1> QED
    BY <1>8, <1>9, <1>10, <1>11, <1>12, <1>13, <1>14, <1>15, <1>16, <1>17, <1>18, <1>19,
       <1>20 DEF IInv

LEMMA CreateUserInvariant ==
    ASSUME IInv, NEW r \in Requests, CreateUser(r)
    PROVE  IInv'
  <1> DEFINE u == call[r].user
  <1>1. InFlight(r) /\ pc[r] = "createUser"
    BY DEF CreateUser, InFlight, Steps
  <1>2. call[r] \in Calls /\ call[r].op = "register"
    BY <1>1, CallOf, StepsApart
  <1>3. u \in Users /\ NewUser(call[r]) \in UserRows
    BY <1>2, CallFields DEF NewUser, UserRows
  <1>4. CASE users[u] # Null /\ Answer(r, "P2002") /\ UNCHANGED <<users, seen>>
    <2>1. UNCHANGED <<tables, now, history>>
      BY <1>4 DEF CreateUser, tables, history
    <2> QED
      BY <1>1, <1>4, <2>1, AnswerInvariant DEF Answers, Successes, PrismaErrors
  <1>5. CASE /\ users[u] = Null
             /\ users' = [users EXCEPT ![u] = NewUser(call[r])]
             /\ Observe(u, NewUser(call[r]))
             /\ Committed(r, "Created")
    <2>1. /\ pc' = [pc EXCEPT ![r] = "respond"]
          /\ local' = [local EXCEPT ![r] = local[r]]
          /\ reply' = [reply EXCEPT ![r] = "Created"]
          /\ UNCHANGED <<tokens, now, call, maker, stored, redeemed, before, audited>>
      BY <1>5, LocalType DEF Committed, CreateUser
    <2> QED
      BY <1>1, <1>2, <1>3, <1>5, <2>1, LocalType, UserWriteInvariant DEF Successes
  <1> QED
    BY <1>4, <1>5 DEF CreateUser

\* The handlers behind the guard write rows that are there.
LEMMA OwnRow ==
    ASSUME IInv, NEW r \in Requests,
           pc[r] \in {"writeName", "writePassword", "writeActive"}
    PROVE  LET u == IF pc[r] = "writeActive" THEN call[r].target ELSE call[r].caller IN
           /\ InFlight(r) /\ call[r] \in Calls
           /\ call[r].op = CASE pc[r] = "writeName" -> "updateProfile"
                              [] pc[r] = "writePassword" -> "changePassword"
                              [] pc[r] = "writeActive" -> "setActive"
           /\ u \in Users /\ users[u] \in UserRows
           /\ WasActive(r)
           /\ call[r].op = "changePassword" => HadPassword(r)
  <1>1. InFlight(r)
    BY DEF InFlight, Steps
  <1>2. call[r] \in Calls /\ pc[r] \in HandlerSteps[call[r].op] /\ call[r].op \in Ops
    BY <1>1, CallOf
  <1>3. /\ pc[r] = "writeName" => call[r].op = "updateProfile"
        /\ pc[r] = "writePassword" => call[r].op = "changePassword"
        /\ pc[r] = "writeActive" => call[r].op = "setActive"
    BY <1>2, StepsApart
  <1>4. call[r].caller \in Users /\ (call[r].op = "setActive" => call[r].target \in Users)
    BY <1>2, <1>3, CallFields
  <1>5. /\ pc[r] \in {"writeName", "writePassword"} => users[call[r].caller] \in UserRows
        /\ pc[r] = "writeActive" => users[call[r].target] \in UserRows
    BY <1>3, <1>4 DEF IInv, TypeOK, AccountsStay
  <1>6. WasActive(r) /\ (call[r].op = "changePassword" => HadPassword(r))
    BY <1>2, <1>3, SessionsAssumption DEF IInv, CallerWasActive
  <1> QED
    BY <1>1, <1>2, <1>3, <1>4, <1>5, <1>6

LEMMA WriteNameInvariant ==
    ASSUME IInv, NEW r \in Requests, WriteName(r)
    PROVE  IInv'
  <1> DEFINE u == call[r].caller
             row == [users[u] EXCEPT !.name = call[r].name]
  <1>1. pc[r] = "writeName"
    BY DEF WriteName
  <1>2. /\ InFlight(r) /\ call[r] \in Calls /\ call[r].op = "updateProfile"
        /\ u \in Users /\ users[u] \in UserRows /\ WasActive(r)
    BY <1>1, OwnRow
  <1>3. row \in UserRows
    BY <1>2, CallFields DEF UserRows
  <1>4. /\ users' = [users EXCEPT ![u] = row]
        /\ Observe(u, row)
        /\ pc' = [pc EXCEPT ![r] = "respond"]
        /\ local' = [local EXCEPT ![r] = local[r]]
        /\ reply' = [reply EXCEPT ![r] = "Ok"]
        /\ UNCHANGED <<tokens, now, call, maker, stored, redeemed, before, audited>>
    BY LocalType DEF WriteName, Committed
  <1> HIDE DEF row, u
  <1> QED
    BY <1>1, <1>2, <1>3, <1>4, LocalType, UserWriteInvariant DEF Successes

LEMMA WriteActiveInvariant ==
    ASSUME IInv, NEW r \in Requests, WriteActive(r)
    PROVE  IInv'
  <1> DEFINE u == call[r].target
             row == [users[u] EXCEPT !.isActive = call[r].isActive]
  <1>1. pc[r] = "writeActive"
    BY DEF WriteActive
  <1>2. /\ InFlight(r) /\ call[r] \in Calls /\ call[r].op = "setActive"
        /\ u \in Users /\ users[u] \in UserRows /\ WasActive(r)
    BY <1>1, OwnRow
  <1>3. row \in UserRows
    BY <1>2, CallFields DEF UserRows
  <1>4. /\ users' = [users EXCEPT ![u] = row]
        /\ Observe(u, row)
        /\ pc' = [pc EXCEPT ![r] = "respond"]
        /\ local' = [local EXCEPT ![r] = local[r]]
        /\ reply' = [reply EXCEPT ![r] = "Ok"]
        /\ UNCHANGED <<tokens, now, call, maker, stored, redeemed, before, audited>>
    BY LocalType DEF WriteActive, Committed
  <1> HIDE DEF row, u
  <1> QED
    BY <1>1, <1>2, <1>3, <1>4, LocalType, UserWriteInvariant DEF Successes

LEMMA WritePasswordInvariant ==
    ASSUME IInv, NEW r \in Requests, WritePassword(r)
    PROVE  IInv'
  <1> DEFINE u == call[r].caller
             row == [users[u] EXCEPT !.password = call[r].new]
  <1>1. pc[r] = "writePassword"
    BY DEF WritePassword
  <1>2. /\ InFlight(r) /\ call[r] \in Calls /\ call[r].op = "changePassword"
        /\ u \in Users /\ users[u] \in UserRows /\ WasActive(r) /\ HadPassword(r)
    BY <1>1, OwnRow
  <1>3. row \in UserRows
    BY <1>2, CallFields DEF UserRows
  <1>4. /\ users' = [users EXCEPT ![u] = row]
        /\ Observe(u, row)
        /\ pc' = [pc EXCEPT ![r] = "deleteTokens"]
        /\ local' = [local EXCEPT ![r] = Null]
        /\ reply' = [reply EXCEPT ![r] = reply[r]]
        /\ before' = [before EXCEPT ![r] = Answered]
        /\ UNCHANGED <<tokens, now, call, maker, stored, redeemed, audited>>
    BY LocalType DEF WritePassword, Keep
  <1>5. "deleteTokens" \in HandlerSteps[call[r].op]
    BY <1>2 DEF HandlerSteps
  <1> HIDE DEF row, u
  <1> QED
    BY <1>1, <1>2, <1>3, <1>4, <1>5, UserWriteInvariant

------------------------------------------------------------------------------
(* Steps that write sessions.                                                *)

\* A write of refresh tokens keeps the invariant: a session that becomes live is
\* the work of this request, and what ends an account's sessions ends them all.
LEMMA TokenWriteInvariant ==
    ASSUME IInv, NEW r \in Requests,
           pc[r] \in {"saveToken", "deleteExpired", "deleteToken", "revokeAll", "deleteTokens"},
           NEW step, NEW value, NEW a,
           UNCHANGED <<users, now, call, seen, audited>>,
           tokens' \in [Tokens -> TokenRows \cup {Null}],
           maker' \in [Tokens -> Requests \cup {Null}],
           pc' = [pc EXCEPT ![r] = step],
           local' = [local EXCEPT ![r] = value],
           reply' = [reply EXCEPT ![r] = a],
           stored' \in {stored, stored \cup {r}},
           r \in stored' => pc[r] = "saveToken" /\ step = "respond",
           redeemed' \in {redeemed, redeemed \cup {r}},
           r \in redeemed' => call[r].op = "refresh",
           \/ /\ step = "saveToken" /\ a = reply[r]
              /\ value \in Tokens /\ call[r].op = "refresh" /\ HadAccount(r)
           \/ /\ step = "respond" /\ a \in {"Ok", "Unauthorized"} /\ value = local[r]
              /\ call[r].op \in {"login", "refresh"} => (a = "Ok" <=> r \in stored'),
           \/ before' = before
           \/ before' = [before EXCEPT ![r] = Answered],
           \A t \in Tokens : Live(t)' =>
                (Live(t) /\ maker'[t] = maker[t]) \/ maker'[t] = r,
           call[r].op \in {"logout", "changePassword"} =>
                \A t \in Tokens : t.user = call[r].caller => ~Live(t)',
           RedeemedOnce'
    PROVE  IInv'
  <1>0. /\ pc \in [Requests -> Steps \cup {"idle", "done", "lost"}]
        /\ local \in [Requests -> UserRows \cup Tokens \cup {Null}]
        /\ reply \in [Requests -> Answers \cup {"None"}]
        /\ before \in [Requests -> SUBSET Requests]
        /\ stored \subseteq Requests /\ redeemed \subseteq Requests
    BY DEF IInv, TypeOK
  <1>1. InFlight(r) /\ pc[r] \in Steps \ {"respond"}
    BY DEF InFlight, Steps
  <1>2. call[r] \in Calls /\ call[r].op \in Ops /\ pc[r] \in HandlerSteps[call[r].op]
    BY <1>1, CallOf
  <1>3. r \notin stored
    BY <1>1, NotYet
  <1>4. /\ step \in {"saveToken", "respond"}
        /\ a \in Answers \cup {"None"} /\ (step = "respond" => a # "Created")
        /\ value \in UserRows \cup Tokens \cup {Null}
    BY <1>0 DEF Answers, Successes, DomainExceptions
  <1>5. \A q \in Requests :
            /\ pc'[q] = IF q = r THEN step ELSE pc[q]
            /\ reply'[q] = IF q = r THEN a ELSE reply[q]
            /\ local'[q] = IF q = r THEN value ELSE local[q]
            /\ q # r => before'[q] = before[q] /\ (q \in stored' <=> q \in stored)
                                             /\ (q \in redeemed' <=> q \in redeemed)
            /\ q = r => before'[q] \in {before[q], Answered}
    BY <1>0
  <1>6. pc[r] = "saveToken" => /\ local[r] \in Tokens
                               /\ call[r].op \in {"login", "refresh"}
                               /\ HadAccount(r)
                               /\ call[r].op = "login" => r \in audited
    BY DEF IInv, KeptValues, Admitted, LoginsAudited
  <1>7. TypeOK'
    <2>1. before' \in [Requests -> SUBSET Requests]
      BY <1>0 DEF Answered
    <2>2. pc' \in [Requests -> Steps \cup {"idle", "done", "lost"}]
      BY <1>0, <1>4 DEF Steps
    <2>3. local' \in [Requests -> UserRows \cup Tokens \cup {Null}]
      BY <1>0, <1>4
    <2>4. reply' \in [Requests -> Answers \cup {"None"}]
      BY <1>0, <1>4
    <2>5. \A q \in Requests : pc'[q] # "idle" => call'[q] # Null
      BY <1>1, <1>5 DEF IInv, TypeOK, Steps
    <2>6. stored' \subseteq Requests /\ redeemed' \subseteq Requests
      BY <1>0
    <2> QED
      BY <2>1, <2>2, <2>3, <2>4, <2>5, <2>6 DEF IInv, TypeOK
  <1>8. InItsHandler' /\ SeesItsAccount'
    <2>1. step = "saveToken" => step \in HandlerSteps[call[r].op]
      BY DEF HandlerSteps
    <2> QED
      BY <1>1, <1>4, <1>5, <2>1 DEF IInv, InItsHandler, SeesItsAccount, InFlight
  <1>9. KeptValues'
    BY <1>3, <1>4, <1>5, <1>6 DEF IInv, KeptValues
  <1>10. StoredAndRedeemed'
    BY <1>3, <1>4, <1>5 DEF IInv, StoredAndRedeemed
  <1>11. Admitted'
    <2>1. \A q \in Requests : HadAccount(q) <=> HadAccount(q)'
      BY DEF HadAccount
    <2> QED
      BY <1>3, <1>4, <1>5, <1>6, <2>1 DEF IInv, Admitted
  <1>12. CallerWasActive'
    <2>1. \A q \in Requests : /\ WasActive(q) <=> WasActive(q)'
                              /\ HadPassword(q) <=> HadPassword(q)'
      BY DEF WasActive, HadPassword
    <2> QED
      BY <1>4, <1>5, <2>1 DEF IInv, CallerWasActive
  <1>13. AccountsStay'
    BY <1>4, <1>5 DEF IInv, AccountsStay
  <1>14. AddressRegisteredOnce'
    BY <1>4, <1>5 DEF IInv, AddressRegisteredOnce
  <1>15. TokensDecided'
    BY <1>3, <1>4, <1>5 DEF IInv, TokensDecided
  <1>16. SessionsEnded'
    <2>1. \A q \in Requests : \A p \in before'[q] : pc'[p] = "done" /\ p # r
      <3> SUFFICES ASSUME NEW q \in Requests, NEW p \in before'[q]
                   PROVE  pc'[p] = "done" /\ p # r
        OBVIOUS
      <3>1. pc[p] = "done" /\ p \in Requests
        BY <1>0, <1>5 DEF IInv, SessionsEnded, Answered
      <3> QED
        BY <1>1, <1>5, <3>1 DEF Steps
    <2>2. SUFFICES ASSUME NEW q \in Requests,
                          pc'[q] \in {"respond", "done"}, reply'[q] = "Ok",
                          call[q].op \in {"logout", "changePassword"},
                          NEW t \in Tokens, t.user = call[q].caller, Live(t)'
                   PROVE  maker'[t] \notin before'[q] \cup {Null}
      BY <2>1 DEF SessionsEnded
    <2>3. q # r
      BY <2>2
    <2>4. CASE Live(t) /\ maker'[t] = maker[t]
      BY <1>5, <2>2, <2>3, <2>4 DEF IInv, SessionsEnded
    <2>5. CASE maker'[t] = r
      BY <2>1, <2>5, SessionsAssumption
    <2> QED
      BY <2>2, <2>4, <2>5
  <1>17. LoginsAudited' /\ TrailHasEveryChange'
    BY <1>3, <1>4, <1>5, <1>6 DEF IInv, LoginsAudited, TrailHasEveryChange
  <1> QED
    BY <1>7, <1>8, <1>9, <1>10, <1>11, <1>12, <1>13, <1>14, <1>15, <1>16, <1>17 DEF IInv

LEMMA DeleteExpiredInvariant ==
    ASSUME IInv, NEW r \in Requests, DeleteExpired(r)
    PROVE  IInv'
  <1> DEFINE t == call[r].token
  <1>1. InFlight(r) /\ pc[r] = "deleteExpired"
    BY DEF DeleteExpired, InFlight, Steps
  <1>2. call[r] \in Calls /\ call[r].op = "refresh" /\ t \in Tokens
    BY <1>1, CallOf, StepsApart, CallFields
  <1>3. CASE tokens[t] = Null /\ Answer(r, "P2025") /\ UNCHANGED tokens
    <2>1. UNCHANGED <<tables, now, history>>
      BY <1>3 DEF DeleteExpired, tables
    <2> QED
      BY <1>1, <1>3, <2>1, AnswerInvariant DEF Answers, Successes, PrismaErrors
  <1>4. CASE tokens' = [tokens EXCEPT ![t] = Null] /\ Committed(r, "Unauthorized")
    <2>1. /\ pc' = [pc EXCEPT ![r] = "respond"]
          /\ local' = [local EXCEPT ![r] = local[r]]
          /\ reply' = [reply EXCEPT ![r] = "Unauthorized"]
          /\ UNCHANGED <<users, now, call, maker, stored, redeemed, before, seen, audited>>
      BY <1>4, LocalType DEF Committed, DeleteExpired, history
    <2>2. tokens' \in [Tokens -> TokenRows \cup {Null}] /\ maker' \in [Tokens -> Requests \cup {Null}]
      BY <1>4, <2>1 DEF IInv, TypeOK
    <2>3. \A k \in Tokens : tokens'[k] \in {tokens[k], Null}
      BY <1>4 DEF IInv, TypeOK
    <2>4. \A k \in Tokens : Live(k)' => Live(k) /\ maker'[k] = maker[k]
      BY <2>1, <2>3 DEF Live, Present
    <2>5. r \notin stored /\ r \notin redeemed
      BY <1>1, NotYet
    <2>6. RedeemedOnce'
      BY <2>1, <2>3, <2>5, RedeemedKept DEF IInv, TypeOK
    <2> QED
      BY <1>1, <1>2, <2>1, <2>2, <2>4, <2>5, <2>6, TokenWriteInvariant
  <1> QED
    BY <1>3, <1>4 DEF DeleteExpired

\* Counting: a set with one new member.
LEMMA OneMore ==
    ASSUME NEW S, IsFiniteSet(S), NEW x, x \notin S
    PROVE  /\ Cardinality(S) \in Nat
           /\ Cardinality(S \cup {x}) = Cardinality(S) + 1
  BY FS_AddElement, FS_CardinalityType

\* What RedeemedOnce counts is finite.
LEMMA FiniteCounts ==
    ASSUME IInv, NEW t \in Tokens
    PROVE  /\ IsFiniteSet({q \in redeemed : call[q].token = t})
           /\ IsFiniteSet({q \in stored : local[q] = t})
           /\ Cardinality({q \in redeemed : call[q].token = t}) \in Nat
           /\ Cardinality({q \in stored : local[q] = t}) \in Nat
  <1>1. IsFiniteSet(redeemed) /\ IsFiniteSet(stored)
    BY SessionsAssumption, FS_Subset DEF IInv, TypeOK
  <1>2. /\ IsFiniteSet({q \in redeemed : call[q].token = t})
        /\ IsFiniteSet({q \in stored : local[q] = t})
    BY <1>1, FS_Subset
  <1> QED
    BY <1>2, FS_CardinalityType

LEMMA SaveTokenInvariant ==
    ASSUME IInv, NEW r \in Requests, SaveToken(r)
    PROVE  IInv'
  <1> DEFINE t == local[r]
  <1>1. InFlight(r) /\ pc[r] = "saveToken" /\ r \notin stored
    BY NotYet DEF SaveToken, InFlight, Steps
  <1>2. t \in Tokens /\ call[r].op \in {"login", "refresh"}
    BY <1>1 DEF IInv, KeptValues
  <1>3. CASE tokens[t] # Null /\ Answer(r, "P2002") /\ UNCHANGED <<tokens, maker, stored>>
    <2>1. UNCHANGED <<tables, now, history>>
      BY <1>3 DEF SaveToken, tables, history
    <2> QED
      BY <1>1, <1>3, <2>1, AnswerInvariant DEF Answers, Successes, PrismaErrors
  <1>4. CASE /\ tokens[t] = Null
             /\ tokens' = [tokens EXCEPT ![t] = [isRevoked |-> FALSE]]
             /\ maker' = [maker EXCEPT ![t] = r]
             /\ stored' = stored \cup {r}
             /\ Committed(r, "Ok")
    <2>1. /\ pc' = [pc EXCEPT ![r] = "respond"]
          /\ local' = [local EXCEPT ![r] = local[r]] /\ UNCHANGED local
          /\ reply' = [reply EXCEPT ![r] = "Ok"]
          /\ UNCHANGED <<users, now, call, redeemed, before, seen, audited>>
      BY <1>4, LocalType DEF Committed, SaveToken
    <2>2. /\ tokens' \in [Tokens -> TokenRows \cup {Null}]
          /\ maker' \in [Tokens -> Requests \cup {Null}]
      BY <1>4, <2>1 DEF IInv, TypeOK, TokenRows
    <2>3. \A k \in Tokens : k # t => tokens'[k] = tokens[k] /\ maker'[k] = maker[k]
      BY <1>4 DEF IInv, TypeOK
    <2>4. tokens'[t] # Null /\ maker'[t] = r
      <3>1. tokens'[t] = [isRevoked |-> FALSE] /\ maker'[t] = r
        BY <1>2, <1>4 DEF IInv, TypeOK
      <3>2. [isRevoked |-> FALSE] \in TokenRows
        BY DEF TokenRows
      <3> QED
        BY <3>1, <3>2, SessionsAssumption
    <2>5. \A k \in Tokens : Live(k)' => (Live(k) /\ maker'[k] = maker[k]) \/ maker'[k] = r
      BY <2>3, <2>4 DEF Live, Present
    <2>6. RedeemedOnce'
      <3> SUFFICES ASSUME NEW k \in Tokens
                   PROVE  Cardinality({q \in redeemed : call[q].token = k})
                            + (IF tokens'[k] # Null THEN 1 ELSE 0)
                          <= Cardinality({q \in stored' : local[q] = k})
                            + (IF k \in SeedTokens THEN 1 ELSE 0)
        BY <2>1 DEF RedeemedOnce, Present
      <3> DEFINE R == {q \in redeemed : call[q].token = k}
                 S == {q \in stored : local[q] = k}
                 z == IF k \in SeedTokens THEN 1 ELSE 0
      <3>1. Cardinality(R) + (IF tokens[k] # Null THEN 1 ELSE 0) <= Cardinality(S) + z
        BY DEF IInv, RedeemedOnce, Present
      <3>2. Cardinality(R) \in Nat /\ Cardinality(S) \in Nat /\ z \in Nat
        BY FiniteCounts
      <3>3. CASE k = t
        <4>1. {q \in stored' : local[q] = k} = S \cup {r}
          BY <1>4, <3>3
        <4>2. Cardinality(S \cup {r}) = Cardinality(S) + 1
          BY <1>1, FiniteCounts, OneMore
        <4>3. Cardinality(R) <= Cardinality(S) + z
          BY <1>4, <3>1, <3>2, <3>3
        <4>4. Cardinality(R) + 1 <= Cardinality(S) + 1 + z
          <5> HIDE DEF R, S, z
          <5> QED
            BY <3>2, <4>3
        <4> QED
          BY <2>4, <3>2, <3>3, <4>1, <4>2, <4>4
      <3>4. CASE k # t
        <4>1. {q \in stored' : local[q] = k} = S
          BY <1>4, <3>4
        <4> QED
          BY <2>3, <3>1, <3>4, <4>1
      <3> QED
        BY <3>3, <3>4
    <2>7. r \in redeemed => call[r].op = "refresh"
      BY DEF IInv, StoredAndRedeemed
    <2> QED
      <3>1. /\ stored' \in {stored, stored \cup {r}} /\ r \in stored'
            /\ redeemed' \in {redeemed, redeemed \cup {r}}
            /\ r \in redeemed' => call[r].op = "refresh"
            /\ call[r].op \notin {"logout", "changePassword"}
        BY <1>2, <1>4, <2>1, <2>7
      <3>2. UNCHANGED <<users, now, call, seen, audited>> /\ before' = before
        BY <2>1
      <3> QED
        BY <1>1, <2>1, <2>2, <2>5, <2>6, <3>1, <3>2, TokenWriteInvariant
  <1> QED
    BY <1>3, <1>4 DEF SaveToken

LEMMA DeleteTokenInvariant ==
    ASSUME IInv, NEW r \in Requests, DeleteToken(r)
    PROVE  IInv'
  <1> DEFINE t == call[r].token
  <1>1. /\ InFlight(r) /\ pc[r] = "deleteToken" /\ r \notin stored /\ r \notin redeemed
    BY NotYet DEF DeleteToken, InFlight, Steps
  <1>2. call[r] \in Calls /\ call[r].op = "refresh" /\ t \in Tokens
    BY <1>1, CallOf, StepsApart, CallFields
  <1>3. CASE tokens[t] = Null /\ Answer(r, "P2025") /\ UNCHANGED <<tokens, redeemed>>
    <2>1. UNCHANGED <<tables, now, history>>
      BY <1>3 DEF DeleteToken, tables, history
    <2> QED
      BY <1>1, <1>3, <2>1, AnswerInvariant DEF Answers, Successes, PrismaErrors
  <1>4. CASE /\ tokens[t] # Null
             /\ tokens' = [tokens EXCEPT ![t] = Null]
             /\ redeemed' = redeemed \cup {r}
             /\ Keep(r, Signed(t.user), "saveToken")
    <2>1. /\ pc' = [pc EXCEPT ![r] = "saveToken"]
          /\ local' = [local EXCEPT ![r] = Signed(t.user)]
          /\ reply' = [reply EXCEPT ![r] = reply[r]]
          /\ UNCHANGED <<users, now, call, maker, stored, before, seen, audited>>
      BY <1>4, LocalType DEF Keep, DeleteToken
    <2>2. /\ tokens' \in [Tokens -> TokenRows \cup {Null}]
          /\ maker' \in [Tokens -> Requests \cup {Null}]
      BY <1>4, <2>1 DEF IInv, TypeOK
    <2>3. \A k \in Tokens : tokens'[k] = IF k = t THEN Null ELSE tokens[k]
      BY <1>4 DEF IInv, TypeOK
    <2>4. \A k \in Tokens : Live(k)' => Live(k) /\ maker'[k] = maker[k]
      BY <2>1, <2>3 DEF Live, Present
    <2>5. Signed(t.user) \in Tokens
      BY <1>2 DEF Signed, Tokens, IInv, TypeOK
    <2>6. HadAccount(r)
      BY <1>1 DEF IInv, Admitted
    <2>7. RedeemedOnce'
      <3> SUFFICES ASSUME NEW k \in Tokens
                   PROVE  Cardinality({q \in redeemed' : call[q].token = k})
                            + (IF tokens'[k] # Null THEN 1 ELSE 0)
                          <= Cardinality({q \in stored : local'[q] = k})
                            + (IF k \in SeedTokens THEN 1 ELSE 0)
        BY <2>1 DEF RedeemedOnce, Present
      <3> DEFINE R == {q \in redeemed : call[q].token = k}
                 S == {q \in stored : local[q] = k}
                 z == IF k \in SeedTokens THEN 1 ELSE 0
      <3>1. Cardinality(R) + (IF tokens[k] # Null THEN 1 ELSE 0) <= Cardinality(S) + z
        BY DEF IInv, RedeemedOnce, Present
      <3>2. Cardinality(R) \in Nat /\ Cardinality(S) \in Nat /\ z \in Nat
        BY FiniteCounts
      <3>3. {q \in stored : local'[q] = k} = S
        BY <1>1, <2>1 DEF IInv, TypeOK
      <3>4. CASE k = t
        <4>1. {q \in redeemed' : call[q].token = k} = R \cup {r}
          BY <1>4, <3>4
        <4>2. Cardinality(R \cup {r}) = Cardinality(R) + 1
          BY <1>1, FiniteCounts, OneMore
        <4>3. Cardinality(R) + 1 <= Cardinality(S) + z
          BY <1>4, <3>1, <3>4
        <4>4. tokens'[k] = Null
          BY <2>3, <3>4
        <4> HIDE DEF R, S, z
        <4>5. Cardinality(R) + 1 + 0 <= Cardinality(S) + z
          BY <3>2, <4>3
        <4> QED
          BY <3>3, <4>1, <4>2, <4>4, <4>5 DEF z
      <3>5. CASE k # t
        <4>1. {q \in redeemed' : call[q].token = k} = R
          BY <1>4, <3>5
        <4> QED
          BY <2>3, <3>1, <3>3, <3>5, <4>1
      <3> QED
        BY <3>4, <3>5
    <2> QED
      BY <1>1, <1>2, <1>4, <2>1, <2>2, <2>4, <2>5, <2>6, <2>7, TokenWriteInvariant
  <1> QED
    BY <1>3, <1>4 DEF DeleteToken

LEMMA RevokeAllInvariant ==
    ASSUME IInv, NEW r \in Requests, RevokeAll(r)
    PROVE  IInv'
  <1>1. InFlight(r) /\ pc[r] = "revokeAll"
    BY DEF RevokeAll, InFlight, Steps
  <1>2. call[r].op = "logout" /\ r \notin stored /\ r \notin redeemed
    BY <1>1, CallOf, StepsApart, NotYet
  <1>3. /\ pc' = [pc EXCEPT ![r] = "respond"]
        /\ local' = [local EXCEPT ![r] = local[r]] /\ UNCHANGED local
        /\ reply' = [reply EXCEPT ![r] = "Ok"]
        /\ before' = [before EXCEPT ![r] = Answered]
        /\ UNCHANGED <<users, now, call, maker, stored, redeemed, seen, audited>>
    BY LocalType DEF Committed, RevokeAll
  <1>4. tokens' = [k \in Tokens |->
            IF k.user = call[r].caller /\ tokens[k] # Null
            THEN [isRevoked |-> TRUE] ELSE tokens[k]]
    BY DEF RevokeAll
  <1>5. /\ tokens' \in [Tokens -> TokenRows \cup {Null}]
        /\ maker' \in [Tokens -> Requests \cup {Null}]
    BY <1>3, <1>4 DEF IInv, TypeOK, TokenRows
  <1>6. \A k \in Tokens : Live(k)' => /\ Live(k) /\ maker'[k] = maker[k]
                                    /\ k.user # call[r].caller
    BY <1>3, <1>4 DEF Live, Present
  <1>7. \A k \in Tokens : tokens'[k] # Null => tokens[k] # Null
    BY <1>4
  <1>8. RedeemedOnce'
    BY <1>3, <1>7, RedeemedKept
  <1>9. /\ stored' = stored /\ redeemed' = redeemed
        /\ UNCHANGED <<users, now, call, seen, audited>>
        /\ r \notin stored' /\ r \notin redeemed'
        /\ call[r].op \notin {"login", "refresh"}
        /\ \A k \in Tokens : Live(k)' =>
                (Live(k) /\ maker'[k] = maker[k]) \/ maker'[k] = r
        /\ \A k \in Tokens : k.user = call[r].caller => ~Live(k)'
    BY <1>2, <1>3, <1>6
  <1> QED
    BY <1>1, <1>3, <1>5, <1>8, <1>9, TokenWriteInvariant

LEMMA DeleteTokensInvariant ==
    ASSUME IInv, NEW r \in Requests, DeleteTokens(r)
    PROVE  IInv'
  <1>1. InFlight(r) /\ pc[r] = "deleteTokens"
    BY DEF DeleteTokens, InFlight, Steps
  <1>2. call[r].op = "changePassword" /\ r \notin stored /\ r \notin redeemed
    BY <1>1, CallOf, StepsApart, NotYet
  <1>3. /\ pc' = [pc EXCEPT ![r] = "respond"]
        /\ local' = [local EXCEPT ![r] = local[r]] /\ UNCHANGED local
        /\ reply' = [reply EXCEPT ![r] = "Ok"]
        /\ UNCHANGED <<users, now, call, maker, stored, redeemed, before, seen, audited>>
    BY LocalType DEF Committed, DeleteTokens, history
  <1>4. tokens' = [k \in Tokens |-> IF k.user = call[r].caller THEN Null ELSE tokens[k]]
    BY DEF DeleteTokens
  <1>5. /\ tokens' \in [Tokens -> TokenRows \cup {Null}]
        /\ maker' \in [Tokens -> Requests \cup {Null}]
    BY <1>3, <1>4 DEF IInv, TypeOK
  <1>6. \A k \in Tokens : Live(k)' => /\ Live(k) /\ maker'[k] = maker[k]
                                    /\ k.user # call[r].caller
    BY <1>3, <1>4 DEF Live, Present
  <1>7. \A k \in Tokens : tokens'[k] # Null => tokens[k] # Null
    BY <1>4
  <1>8. RedeemedOnce'
    BY <1>3, <1>7, RedeemedKept
  <1>9. /\ stored' = stored /\ redeemed' = redeemed
        /\ UNCHANGED <<users, now, call, seen, audited>>
        /\ r \notin stored' /\ r \notin redeemed'
        /\ call[r].op \notin {"login", "refresh"}
        /\ \A k \in Tokens : Live(k)' =>
                (Live(k) /\ maker'[k] = maker[k]) \/ maker'[k] = r
        /\ \A k \in Tokens : k.user = call[r].caller => ~Live(k)'
    BY <1>2, <1>3, <1>6
  <1> QED
    BY <1>1, <1>3, <1>5, <1>8, <1>9, TokenWriteInvariant

------------------------------------------------------------------------------
(* Steps of the request's life, of the process and of the clock.             *)

LEMMA ReceiveInvariant ==
    ASSUME IInv, NEW r \in Requests, Receive(r)
    PROVE  IInv'
  <1>1. PICK c \in Calls :
            /\ call' = [call EXCEPT ![r] = c]
            /\ \/ pc' = [pc EXCEPT ![r] = FirstStep[c.op]] /\ UNCHANGED reply
               \/ /\ pc' = [pc EXCEPT ![r] = "done"]
                  /\ reply' = [reply EXCEPT ![r] = "Unauthorized"]
            /\ seen' = [seen EXCEPT ![r] = {users[Subject(c)]}]
    BY SessionsAssumption DEF Receive
  <1>2. /\ pc[r] = "idle"
        /\ UNCHANGED <<users, tokens, now, local, maker, stored, redeemed, before, audited>>
    BY DEF Receive, tables
  <1>3. /\ pc \in [Requests -> Steps \cup {"idle", "done", "lost"}]
        /\ call \in [Requests -> Calls \cup {Null}]
        /\ reply \in [Requests -> Answers \cup {"None"}]
        /\ seen \in [Requests -> SUBSET (UserRows \cup {Null})]
        /\ users \in [Users -> UserRows \cup {Null}]
        /\ stored \subseteq Requests /\ redeemed \subseteq Requests
        /\ before \in [Requests -> SUBSET Requests]
    BY DEF IInv, TypeOK
  <1>4. /\ c.op \in Ops /\ Subject(c) \in Users
        /\ FirstStep[c.op] \in HandlerSteps[c.op]
        /\ FirstStep[c.op] \in {"findEmail", "findUser", "findToken", "authenticate"}
        /\ c.op \in {"logout", "updateProfile", "changePassword", "setActive"} =>
                FirstStep[c.op] = "authenticate"
    BY CallFields, StepsApart
  <1>5. \A q \in Requests :
            /\ q # r => /\ pc'[q] = pc[q] /\ call'[q] = call[q] /\ reply'[q] = reply[q]
                       /\ seen'[q] = seen[q]
            /\ q = r => /\ call'[q] = c /\ seen'[q] = {users[Subject(c)]}
                       /\ \/ pc'[q] = FirstStep[c.op]
                          \/ pc'[q] = "done" /\ reply'[q] = "Unauthorized"
    BY <1>1, <1>3
  <1>6. r \notin stored /\ r \notin redeemed
    BY <1>2 DEF IInv, StoredAndRedeemed
  <1>7. TypeOK'
    <2>1. pc' \in [Requests -> Steps \cup {"idle", "done", "lost"}]
      BY <1>1, <1>3, <1>4 DEF Steps
    <2>2. reply' \in [Requests -> Answers \cup {"None"}]
      BY <1>1, <1>3 DEF Answers, DomainExceptions
    <2>3. call' \in [Requests -> Calls \cup {Null}]
      BY <1>1, <1>3
    <2>4. seen' \in [Requests -> SUBSET (UserRows \cup {Null})]
      BY <1>1, <1>3, <1>4
    <2>5. \A q \in Requests : pc'[q] # "idle" => call'[q] # Null
      BY <1>5, SessionsAssumption DEF IInv, TypeOK
    <2> QED
      BY <1>2, <2>1, <2>2, <2>3, <2>4, <2>5 DEF IInv, TypeOK
  <1>8. InItsHandler' /\ SeesItsAccount'
    <2>1. InItsHandler'
      BY <1>4, <1>5 DEF IInv, InItsHandler, InFlight, Steps
    <2>2. ASSUME NEW q \in Requests, pc'[q] \in Steps
          PROVE  users[Subject(call'[q])] \in seen'[q]
      BY <1>5, <2>2 DEF IInv, SeesItsAccount, InFlight
    <2> QED
      BY <1>2, <2>1, <2>2 DEF SeesItsAccount, InFlight, Subject
  <1>9. KeptValues' /\ StoredAndRedeemed'
    BY <1>2, <1>4, <1>5, <1>6 DEF IInv, KeptValues, StoredAndRedeemed
  <1>10. Admitted'
    <2>1. \A q \in Requests \ {r} : HadAccount(q) <=> HadAccount(q)'
      BY <1>5 DEF HadAccount
    <2> QED
      BY <1>2, <1>4, <1>5, <1>6, <2>1 DEF IInv, Admitted
  <1>11. CallerWasActive'
    <2>1. \A q \in Requests \ {r} : /\ WasActive(q) <=> WasActive(q)'
                                    /\ HadPassword(q) <=> HadPassword(q)'
      BY <1>5 DEF WasActive, HadPassword
    <2>2. \/ c.op \in {"register", "login", "refresh"}
          \/ pc'[r] = "authenticate"
          \/ pc'[r] = "done" /\ reply'[r] # "Ok"
      BY <1>4, <1>5 DEF Ops
    <2> QED
      BY <1>5, <2>1, <2>2 DEF IInv, CallerWasActive
  <1>12. AccountsStay'
    BY <1>2, <1>4, <1>5 DEF IInv, AccountsStay
  <1>13. AddressRegisteredOnce' /\ TokensDecided'
    BY <1>2, <1>4, <1>5, <1>6 DEF IInv, AddressRegisteredOnce, TokensDecided
  <1>14. SessionsEnded'
    <2>1. \A q \in Requests : \A p \in before[q] : p # r
      BY <1>2 DEF IInv, SessionsEnded
    <2> QED
      BY <1>2, <1>3, <1>4, <1>5, <2>1 DEF IInv, SessionsEnded, Live, Present
  <1>15. LoginsAudited' /\ TrailHasEveryChange'
    BY <1>2, <1>4, <1>5, <1>6 DEF IInv, LoginsAudited, TrailHasEveryChange, Successes
  <1>16. RedeemedOnce'
    BY <1>2, <1>3, <1>5, <1>6, RedeemedKept
  <1> QED
    BY <1>7, <1>8, <1>9, <1>10, <1>11, <1>12, <1>13, <1>14, <1>15, <1>16
    DEF IInv

LEMMA RespondInvariant ==
    ASSUME IInv, NEW r \in Requests, Respond(r)
    PROVE  IInv'
  <1>1. /\ pc[r] = "respond" /\ pc' = [pc EXCEPT ![r] = "done"]
        /\ UNCHANGED <<users, tokens, now, call, local, reply, maker, stored, redeemed,
                       before, seen>>
        /\ audited' \in {audited, audited \cup {r}}
        /\ call[r].op \in Audited => r \in audited'
    BY DEF Respond, tables
  <1>2. pc \in [Requests -> Steps \cup {"idle", "done", "lost"}]
    BY DEF IInv, TypeOK
  <1>3. \A q \in Requests : pc'[q] = IF q = r THEN "done" ELSE pc[q]
    BY <1>1, <1>2
  <1>4. TypeOK'
    BY <1>1, <1>2 DEF IInv, TypeOK
  <1>5. InItsHandler' /\ SeesItsAccount'
    BY <1>1, <1>3 DEF IInv, InItsHandler, SeesItsAccount, InFlight, Steps
  <1>6. KeptValues' /\ StoredAndRedeemed'
    BY <1>1, <1>3 DEF IInv, KeptValues, StoredAndRedeemed
  <1>7. \A q \in Requests : /\ HadAccount(q) <=> HadAccount(q)'
                            /\ WasActive(q) <=> WasActive(q)'
                            /\ HadPassword(q) <=> HadPassword(q)'
    BY <1>1 DEF HadAccount, WasActive, HadPassword
  <1>8. Admitted' /\ CallerWasActive'
    BY <1>1, <1>3, <1>7 DEF IInv, Admitted, CallerWasActive
  <1>9. AccountsStay' /\ AddressRegisteredOnce' /\ TokensDecided'
    BY <1>1, <1>3 DEF IInv, AccountsStay, AddressRegisteredOnce, TokensDecided
  <1>10. SessionsEnded'
    BY <1>1, <1>3 DEF IInv, SessionsEnded, Live, Present
  <1>11. LoginsAudited' /\ TrailHasEveryChange'
    BY <1>1, <1>3 DEF IInv, LoginsAudited, TrailHasEveryChange
  <1>12. RedeemedOnce'
    BY <1>1, RedeemedKept
  <1> QED
    BY <1>4, <1>5, <1>6, <1>8, <1>9, <1>10, <1>11, <1>12 DEF IInv

LEMMA CrashInvariant ==
    ASSUME IInv, Crash
    PROVE  IInv'
  <1>1. /\ pc' = [r \in Requests |-> IF InFlight(r) THEN "lost" ELSE pc[r]]
        /\ reply' = [r \in Requests |-> IF InFlight(r) THEN "None" ELSE reply[r]]
        /\ UNCHANGED <<users, tokens, now, call, local, maker, stored, redeemed, before,
                       seen, audited>>
    BY DEF Crash, tables, history
  <1>2. /\ pc \in [Requests -> Steps \cup {"idle", "done", "lost"}]
        /\ reply \in [Requests -> Answers \cup {"None"}]
    BY DEF IInv, TypeOK
  <1>3. \A q \in Requests :
            \/ pc'[q] = "lost" /\ InFlight(q)
            \/ pc'[q] = pc[q] /\ reply'[q] = reply[q] /\ pc'[q] \in {"idle", "done", "lost"}
    BY <1>1, <1>2 DEF InFlight
  <1>4. TypeOK'
    BY <1>1, <1>2 DEF IInv, TypeOK, InFlight, Steps
  <1>5. InItsHandler' /\ SeesItsAccount' /\ KeptValues' /\ StoredAndRedeemed'
    BY <1>1, <1>3 DEF IInv, InItsHandler, SeesItsAccount, KeptValues, StoredAndRedeemed,
        InFlight, Steps
  <1>6. \A q \in Requests : /\ HadAccount(q) <=> HadAccount(q)'
                            /\ WasActive(q) <=> WasActive(q)'
                            /\ HadPassword(q) <=> HadPassword(q)'
    BY <1>1 DEF HadAccount, WasActive, HadPassword
  <1>7. Admitted' /\ CallerWasActive'
    BY <1>1, <1>3, <1>6 DEF IInv, Admitted, CallerWasActive
  <1>8. AccountsStay' /\ AddressRegisteredOnce' /\ TokensDecided'
    BY <1>1, <1>3 DEF IInv, AccountsStay, AddressRegisteredOnce, TokensDecided
  <1>9. SessionsEnded'
    <2>1. \A q \in Requests : \A p \in before[q] : pc'[p] = "done"
      BY <1>3 DEF IInv, SessionsEnded, TypeOK, InFlight, Steps
    <2> QED
      BY <1>1, <1>3, <2>1 DEF IInv, SessionsEnded, Live, Present
  <1>10. LoginsAudited' /\ TrailHasEveryChange'
    BY <1>1, <1>3 DEF IInv, LoginsAudited, TrailHasEveryChange
  <1>11. RedeemedOnce'
    BY <1>1, RedeemedKept
  <1> QED
    BY <1>4, <1>5, <1>7, <1>8, <1>9, <1>10, <1>11 DEF IInv

LEMMA TickInvariant ==
    ASSUME IInv, Tick
    PROVE  IInv'
  <1>1. UNCHANGED <<users, tokens, pc, call, local, reply, maker, stored, redeemed, before,
                    seen, audited>>
    BY DEF Tick, tables, request, history
  <1>2. now' \in Seconds
    BY SessionsAssumption DEF Tick, IInv, TypeOK, Seconds
  <1> QED
    BY <1>1, <1>2 DEF IInv, TypeOK, InItsHandler, SeesItsAccount, KeptValues,
        StoredAndRedeemed, Admitted, HadAccount, CallerWasActive, WasActive, HadPassword,
        AccountsStay, AddressRegisteredOnce, TokensDecided, SessionsEnded, Live, Present,
        LoginsAudited, TrailHasEveryChange, RedeemedOnce, InFlight

LEMMA StutterInvariant ==
    ASSUME IInv, UNCHANGED vars
    PROVE  IInv'
  BY DEF vars, IInv, TypeOK, InItsHandler, SeesItsAccount, KeptValues,
        StoredAndRedeemed, Admitted, HadAccount, CallerWasActive, WasActive, HadPassword,
        AccountsStay, AddressRegisteredOnce, TokensDecided, SessionsEnded, Live, Present,
        LoginsAudited, TrailHasEveryChange, RedeemedOnce, InFlight

------------------------------------------------------------------------------
(* Every step keeps the invariant.                                           *)

LEMMA NextInvariant == IInv /\ [Next]_vars => IInv'
  <1> SUFFICES ASSUME IInv, [Next]_vars PROVE IInv'
    OBVIOUS
  <1>1. ASSUME NEW r \in Requests, Receive(r) PROVE IInv'
    BY <1>1, ReceiveInvariant
  <1>2. ASSUME NEW r \in Requests, Advance(r) PROVE IInv'
    <2>1. CASE FindEmail(r) \/ FindUser(r) \/ FindToken(r) \/ FindOwner(r)
      BY <2>1, SessionReads
    <2>2. CASE Authenticate(r) \/ FindOwnRow(r) \/ FindProfile(r) \/ FindTarget(r)
      BY <2>2, GuardedReads
    <2>3. CASE CreateUser(r) \/ WriteName(r) \/ WritePassword(r) \/ WriteActive(r)
      BY <2>3, CreateUserInvariant, WriteNameInvariant, WritePasswordInvariant,
        WriteActiveInvariant
    <2>4. CASE SaveToken(r) \/ DeleteExpired(r) \/ DeleteToken(r) \/ RevokeAll(r)
               \/ DeleteTokens(r)
      BY <2>4, SaveTokenInvariant, DeleteExpiredInvariant, DeleteTokenInvariant,
        RevokeAllInvariant, DeleteTokensInvariant
    <2>5. CASE Compare(r) \/ Respond(r)
      BY <2>5, CompareInvariant, RespondInvariant
    <2> QED
      BY <1>2, <2>1, <2>2, <2>3, <2>4, <2>5 DEF Advance
  <1>3. ASSUME NEW r \in Requests, Fail(r) PROVE IInv'
    BY <1>3, FailInvariant
  <1>4. CASE Crash
    BY <1>4, CrashInvariant
  <1>5. CASE Tick
    BY <1>5, TickInvariant
  <1>6. CASE Quiet \/ UNCHANGED vars
    BY <1>6, StutterInvariant DEF Quiet
  <1> QED
    BY <1>1, <1>2, <1>3, <1>4, <1>5, <1>6 DEF Next

\* The invariant of accounts and sessions.
THEOREM Invariant == Spec => []IInv
  BY InitInvariant, NextInvariant, PTL DEF Spec

------------------------------------------------------------------------------
(* What follows from the invariant.                                          *)

\* The tables, the requests and the history keep their types.
THEOREM SessionsTypeCorrect == Spec => []TypeOK
  BY Invariant, PTL DEF IInv

\* A refresh token is redeemed once for each time it was stored.
THEOREM TokensAreRedeemedOnce == Spec => []RedeemedOnce
  BY Invariant, PTL DEF IInv

\* A logout or a change of password that was answered ended every session
\* obtained before it took effect.
THEOREM SessionsDoEnd == Spec => []SessionsEnd
  <1>1. IInv => SessionsEnd
    BY DEF IInv, SessionsEnded, SessionsEnd
  <1> QED
    BY <1>1, Invariant, PTL

\* Ok to a login or a refresh means its token was stored, a refusal that none was.
THEOREM TokenAnswersHold == Spec => []AnsweredTokensWereStored
  <1>1. IInv => AnsweredTokensWereStored
    BY DEF IInv, TokensDecided, AnsweredTokensWereStored
  <1> QED
    BY <1>1, Invariant, PTL

\* Who logs in or refreshes had an active account while the request was handled.
THEOREM AdmissionsAreJustified == Spec => []AdmittedAccountWasActive
  <1>1. IInv => AdmittedAccountWasActive
    BY DEF IInv, TypeOK, Admitted, AdmittedAccountWasActive
  <1> QED
    BY <1>1, Invariant, PTL

\* Who acts behind the guard had an active account while the request was handled.
THEOREM CallersAreJustified == Spec => []CallerWasActive
  BY Invariant, PTL DEF IInv

\* One registration of an address makes its account.
THEOREM AddressesAreRegisteredOnce == Spec => []AddressRegisteredOnce
  BY Invariant, PTL DEF IInv

\* The trail has every login that stored a token and every answered change.
THEOREM TrailIsComplete == Spec => []TrailHasEveryChange
  BY Invariant, PTL DEF IInv

\* A step that leaves the accounts alone changes none against a request.
LEMMA AccountsKept ==
    ASSUME NEW r \in Requests,
           \/ Receive(r) \/ Fail(r) \/ Respond(r)
           \/ FindEmail(r) \/ FindUser(r) \/ Compare(r) \/ SaveToken(r)
           \/ FindToken(r) \/ DeleteExpired(r) \/ FindOwner(r) \/ DeleteToken(r)
           \/ Authenticate(r) \/ RevokeAll(r) \/ FindOwnRow(r) \/ FindProfile(r)
           \/ DeleteTokens(r) \/ FindTarget(r)
    PROVE  users' = users
  <1>1. CASE Receive(r) \/ Fail(r) \/ Respond(r) \/ FindEmail(r) \/ FindUser(r) \/ Compare(r)
    BY <1>1 DEF Receive, Fail, Respond, FindEmail, FindUser, Compare, tables
  <1>2. CASE SaveToken(r) \/ FindToken(r) \/ DeleteExpired(r) \/ FindOwner(r) \/ DeleteToken(r)
    BY <1>2 DEF SaveToken, FindToken, DeleteExpired, FindOwner, DeleteToken, tables
  <1>3. CASE Authenticate(r) \/ RevokeAll(r) \/ FindOwnRow(r) \/ FindProfile(r)
             \/ DeleteTokens(r) \/ FindTarget(r)
    BY <1>3 DEF Authenticate, RevokeAll, FindOwnRow, FindProfile, DeleteTokens, FindTarget,
        tables
  <1> QED
    BY <1>1, <1>2, <1>3

\* However the updates of one account interleave, each commit changes the one
\* column its request asks for and leaves the rest of the row as it meets it, and
\* the password changes only for a request that named one the account had.
THEOREM AccountsAreChangedAsAsked == Spec => AccountsChangeAsAsked
  <1> DEFINE Asked(u) == \E r \in Requests :
                Renames(r, u) \/ ChangesPassword(r, u) \/ SetsActive(r, u)
             A == \A u \in Users : users[u] # Null /\ users'[u] # users[u] => Asked(u)
  <1>1. IInv /\ [Next]_vars => A
    <2> SUFFICES ASSUME IInv, [Next]_vars, NEW u \in Users,
                        users[u] # Null, users'[u] # users[u]
                 PROVE  Asked(u)
      OBVIOUS
    <2>1. users \in [Users -> UserRows \cup {Null}]
      BY DEF IInv, TypeOK
    <2>2. pc \in [Requests -> Steps \cup {"idle", "done", "lost"}]
      BY DEF IInv, TypeOK
    <2>3. ASSUME NEW v, NEW row, users' = [users EXCEPT ![v] = row]
          PROVE  v = u /\ users'[u] = row
      BY <2>1, <2>3
    <2>4. ASSUME NEW r \in Requests, CreateUser(r) PROVE FALSE
      <3>1. users' = users \/ (users[call[r].user] = Null
                /\ users' = [users EXCEPT ![call[r].user] = NewUser(call[r])])
        BY <2>4 DEF CreateUser
      <3> QED
        BY <2>3, <3>1
    <2>5. ASSUME NEW r \in Requests, WriteName(r) PROVE Renames(r, u)
      <3>1. /\ users' = [users EXCEPT ![call[r].caller] =
                            [users[call[r].caller] EXCEPT !.name = call[r].name]]
            /\ pc[r] = "writeName" /\ pc'[r] = "respond"
        BY <2>2, <2>5 DEF WriteName, Committed
      <3>2. /\ call[r].caller = u
            /\ users'[u] = [users[call[r].caller] EXCEPT !.name = call[r].name]
        BY <2>3, <3>1
      <3> QED
        BY <3>1, <3>2 DEF Renames
    <2>6. ASSUME NEW r \in Requests, WritePassword(r) PROVE ChangesPassword(r, u)
      <3>1. /\ users' = [users EXCEPT ![call[r].caller] =
                            [users[call[r].caller] EXCEPT !.password = call[r].new]]
            /\ pc[r] = "writePassword" /\ pc'[r] = "deleteTokens"
        BY <2>2, <2>6 DEF WritePassword, Keep
      <3>2. /\ call[r].caller = u
            /\ users'[u] = [users[call[r].caller] EXCEPT !.password = call[r].new]
        BY <2>3, <3>1
      <3>3. InFlight(r) /\ call[r] # Null
        BY <3>1 DEF InFlight, Steps, IInv, TypeOK
      <3>4. call[r].op = "changePassword"
        <4>1. pc[r] \in HandlerSteps[call[r].op]
          BY <3>1, <3>3 DEF IInv, InItsHandler
        <4>2. call[r] \in Calls
          BY <3>3 DEF IInv, TypeOK
        <4>3. call[r].op \in {"register", "login", "refresh", "logout", "updateProfile",
                              "changePassword", "setActive"}
          BY <4>2 DEF Calls
        <4> QED
          BY <3>1, <4>1, <4>3 DEF HandlerSteps
      <3>5. HadPassword(r)
        BY <3>1, <3>3, <3>4 DEF IInv, CallerWasActive
      <3> QED
        BY <3>1, <3>2, <3>5 DEF ChangesPassword
    <2>7. ASSUME NEW r \in Requests, WriteActive(r) PROVE SetsActive(r, u)
      <3>1. /\ users' = [users EXCEPT ![call[r].target] =
                            [users[call[r].target] EXCEPT !.isActive = call[r].isActive]]
            /\ pc[r] = "writeActive" /\ pc'[r] = "respond"
        BY <2>2, <2>7 DEF WriteActive, Committed
      <3>2. /\ call[r].target = u
            /\ users'[u] = [users[call[r].target] EXCEPT !.isActive = call[r].isActive]
        BY <2>3, <3>1
      <3> QED
        BY <3>1, <3>2 DEF SetsActive
    <2>8. users' # users
      OBVIOUS
    <2>9. ~(Crash \/ Tick \/ Quiet \/ UNCHANGED vars)
      BY <2>8 DEF Crash, Tick, Quiet, vars, tables
    <2> QED
      BY <2>4, <2>5, <2>6, <2>7, <2>8, <2>9, AccountsKept DEF Next, Advance
  <1>2. IInv /\ [Next]_vars => [A]_vars
    BY <1>1
  <1> QED
    BY <1>2, Invariant, PTL DEF Spec, AccountsChangeAsAsked

------------------------------------------------------------------------------
(* The tables implement the ledger of sessions.                              *)

\* A token that is there is known by its maker.
LEMMA SessionsApart ==
    ASSUME IInv, MakersStored, NEW s \in Tokens, NEW t \in Tokens,
           Present(s), Present(t), Session(s) = Session(t)
    PROVE  s = t
  <1>1. maker[s] = maker[t] /\ s.user = t.user
    BY DEF Session
  <1>2. CASE maker[s] = Null
    <2>1. s \in SeedTokens /\ t \in SeedTokens
      BY <1>1, <1>2 DEF MakersStored
    <2> QED
      BY <1>1, <2>1 DEF SeedTokens
  <1>3. CASE maker[s] # Null
    BY <1>1, <1>3 DEF MakersStored
  <1> QED
    BY <1>2, <1>3

\* A step that stores no token keeps what is known of those that are there.
LEMMA MakersKept ==
    ASSUME MakersStored, UNCHANGED <<maker, stored>>,
           \A q \in stored : local'[q] = local[q],
           \A t \in Tokens : tokens'[t] # Null => tokens[t] # Null
    PROVE  MakersStored'
  BY DEF MakersStored, Present

LEMMA InitIsSessionLedger == Init => MakersStored /\ Ledger!Init
  <1> SUFFICES ASSUME Init PROVE MakersStored /\ Ledger!Init
    OBVIOUS
  <1> USE SessionsAssumption
  <1>1. /\ \A t \in Tokens : Present(t) <=> t \in SeedTokens
        /\ \A t \in Tokens : Live(t) <=> t \in SeedTokens
    <2>1. \A t \in Tokens :
            tokens[t] = IF t \in SeedTokens THEN [isRevoked |-> FALSE] ELSE Null
      BY DEF Init
    <2>2. [isRevoked |-> FALSE] # Null
      <3>1. [isRevoked |-> FALSE] \in TokenRows
        BY DEF TokenRows
      <3> QED
        BY <3>1
    <2>3. ~[isRevoked |-> FALSE].isRevoked
      OBVIOUS
    <2> QED
      BY <2>1, <2>2, <2>3 DEF Present, Live
  <1>2. MakersStored
    BY <1>1 DEF MakersStored, Init
  <1>3. SeedTokens \subseteq Tokens
    BY DEF SeedTokens, Tokens, Seconds
  <1>4. \A t \in SeedTokens : Session(t) = [id |-> Null, user |-> t.user]
    BY <1>3 DEF Session, Init
  <1>5. {Session(t) : t \in SeedTokens} = SeedSessions
    <2>1. ASSUME NEW t \in SeedTokens PROVE Session(t) \in SeedSessions
      BY <1>4 DEF SeedSessions, SeedTokens
    <2>2. ASSUME NEW s \in SeedSessions PROVE \E t \in SeedTokens : s = Session(t)
      <3> DEFINE t == [user |-> s.user, at |-> 0]
      <3>1. t \in SeedTokens
        BY DEF SeedTokens, SeedSessions
      <3>2. s = Session(t)
        BY <1>4, <3>1 DEF SeedSessions
      <3> QED
        BY <3>1, <3>2
    <2> QED
      BY <2>1, <2>2
  <1>6. RecordOf = SeedSessions /\ LiveOf = SeedSessions
    BY <1>1, <1>3, <1>5 DEF RecordOf, LiveOf
  <1>7. OpenedOf = SeedSessions /\ LoginsOf = SeedSessions
    BY DEF Init, OpenedOf, LoginsOf, SignedFor
  <1>8. BroughtBy(Claimants) = {} /\ SignedFor(Renewers) = {}
    BY DEF Init, BroughtBy, Claimants, SignedFor, Renewers
  <1>9. SeedSessions \in SUBSET [id : {Null}, user : Users]
    BY DEF SeedSessions
  <1> QED
    BY <1>2, <1>6, <1>7, <1>8, <1>9 DEF Ledger!Init

\* A step that stores, deletes and revokes nothing, and by which no request
\* comes to claim a session or to take one off, is at most a refresh given up.
LEMMA StepAbandons ==
    ASSUME IInv, UNCHANGED <<tokens, maker, stored>>,
           \A q \in stored : local'[q] = local[q] /\ call'[q] = call[q],
           \A q \in Requests :
                /\ pc'[q] \in {"deleteExpired", "findOwner", "deleteToken"} =>
                    /\ pc[q] \in {"deleteExpired", "findOwner", "deleteToken"}
                    /\ call'[q] = call[q]
                /\ pc'[q] = "saveToken" /\ call'[q].op = "refresh" =>
                    pc[q] = "saveToken" /\ call'[q] = call[q] /\ local'[q] = local[q]
    PROVE  Ledger!Abandon
  <1>1. UNCHANGED <<OpenedOf, LoginsOf>>
    BY DEF OpenedOf, LoginsOf, SignedFor
  <1>2. UNCHANGED <<RecordOf, LiveOf>>
    BY DEF RecordOf, LiveOf, Session, Present, Live
  <1>3. BroughtBy(Claimants)' \in SUBSET BroughtBy(Claimants)
    BY DEF BroughtBy, Claimants
  <1>4. SignedFor(Renewers)' \in SUBSET SignedFor(Renewers)
    BY DEF SignedFor, Renewers
  <1> QED
    BY <1>1, <1>2, <1>3, <1>4 DEF Ledger!Abandon

\* The steps of a handler change one request.
LEMMA OthersStay ==
    ASSUME IInv, NEW r \in Requests, NEW step, NEW value,
           pc' = [pc EXCEPT ![r] = step],
           local' = [local EXCEPT ![r] = value]
    PROVE  /\ pc'[r] = step /\ local'[r] = value
           /\ \A q \in Requests : q # r => pc'[q] = pc[q] /\ local'[q] = local[q]
  BY DEF IInv, TypeOK

\* A handler that goes on or answers and writes no token.
LEMMA HandlerAbandons ==
    ASSUME IInv, NEW r \in Requests, InFlight(r), NEW step, NEW value,
           pc' = [pc EXCEPT ![r] = step],
           local' = [local EXCEPT ![r] = value],
           UNCHANGED <<tokens, call, maker, stored>>,
           r \in stored => value = local[r],
           step \in {"deleteExpired", "findOwner", "deleteToken"} =>
                pc[r] \in {"deleteExpired", "findOwner", "deleteToken"},
           step = "saveToken" => call[r].op # "refresh"
    PROVE  Ledger!Abandon
  <1>1. /\ pc'[r] = step /\ local'[r] = value
        /\ \A q \in Requests : q # r => pc'[q] = pc[q] /\ local'[q] = local[q]
    BY OthersStay
  <1>2. stored \subseteq Requests
    BY DEF IInv, TypeOK
  <1> QED
    BY <1>1, <1>2, StepAbandons

LEMMA AnswerAbandons ==
    ASSUME IInv, NEW r \in Requests, InFlight(r), NEW a,
           Answer(r, a) \/ Committed(r, a), UNCHANGED <<tokens, maker, stored>>
    PROVE  Ledger!Abandon
  <1>1. PICK step \in {"done", "respond"} : pc' = [pc EXCEPT ![r] = step]
    BY DEF Answer, Committed
  <1>2. local' = [local EXCEPT ![r] = local[r]] /\ UNCHANGED call
    BY LocalType DEF Answer, Committed
  <1> QED
    BY <1>1, <1>2, HandlerAbandons

LEMMA GotoAbandons ==
    ASSUME IInv, NEW r \in Requests, InFlight(r), NEW step, Goto(r, step),
           UNCHANGED <<tokens, maker, stored>>,
           step \in {"deleteExpired", "findOwner", "deleteToken"} =>
                pc[r] \in {"deleteExpired", "findOwner", "deleteToken"},
           step # "saveToken"
    PROVE  Ledger!Abandon
  <1>1. local' = [local EXCEPT ![r] = local[r]] /\ pc' = [pc EXCEPT ![r] = step]
        /\ UNCHANGED call
    BY LocalType DEF Goto
  <1> QED
    BY <1>1, HandlerAbandons

LEMMA KeepAbandons ==
    ASSUME IInv, NEW r \in Requests, InFlight(r), pc[r] # "respond",
           NEW step, NEW value, Keep(r, value, step),
           UNCHANGED <<tokens, maker, stored>>,
           step \notin {"deleteExpired", "findOwner", "deleteToken"},
           step = "saveToken" => call[r].op # "refresh"
    PROVE  Ledger!Abandon
  <1>1. r \notin stored
    BY NotYet
  <1> QED
    BY <1>1, HandlerAbandons DEF Keep

\* What claims and takes off is known by its request.
LEMMA ClaimsLess ==
    ASSUME IInv, NEW r \in Requests, UNCHANGED call,
           \A q \in Requests : q # r => pc'[q] = pc[q] /\ local'[q] = local[q],
           pc'[r] \notin {"deleteExpired", "findOwner", "deleteToken"}
    PROVE  /\ pc[r] \in {"deleteExpired", "findOwner", "deleteToken"} =>
                BroughtBy(Claimants)' =
                    BroughtBy(Claimants) \ {[id |-> r, user |-> call[r].token.user]}
           /\ pc[r] \notin {"deleteExpired", "findOwner", "deleteToken"} =>
                BroughtBy(Claimants)' = BroughtBy(Claimants)
  <1> DEFINE C == {"deleteExpired", "findOwner", "deleteToken"}
             b(q) == [id |-> q, user |-> call[q].token.user]
  <1>1. \A p, q \in Requests : b(p) = b(q) => p = q
    OBVIOUS
  <1>2. Claimants = {q \in Requests : pc[q] \in C} /\ Claimants' = {q \in Requests : pc'[q] \in C}
    BY DEF Claimants
  <1>3. BroughtBy(Claimants) = {b(q) : q \in Claimants}
    BY DEF BroughtBy
  <1>4. BroughtBy(Claimants)' = {b(q) : q \in Claimants'}
    BY DEF BroughtBy
  <1>5. Claimants' = Claimants \ {r}
    BY <1>2
  <1>6. {b(q) : q \in Claimants \ {r}} = {b(q) : q \in Claimants} \ {b(r)}
    BY <1>1, <1>2
  <1>7. r \notin Claimants => Claimants \ {r} = Claimants
    OBVIOUS
  <1> HIDE DEF b
  <1>8. (r \in Claimants) = (pc[r] \in C)
    BY <1>2
  <1>9. BroughtBy(Claimants)' = BroughtBy(Claimants) \ {b(r)}
    BY <1>3, <1>4, <1>5, <1>6
  <1>10. r \notin Claimants => BroughtBy(Claimants)' = BroughtBy(Claimants)
    BY <1>3, <1>4, <1>5, <1>7
  <1> QED
    BY <1>8, <1>9, <1>10 DEF b

LEMMA TicketsLess ==
    ASSUME IInv, NEW r \in Requests, UNCHANGED call,
           \A q \in Requests : q # r => pc'[q] = pc[q] /\ local'[q] = local[q],
           pc'[r] # "saveToken"
    PROVE  SignedFor(Renewers)' =
                IF pc[r] = "saveToken" /\ call[r].op = "refresh"
                THEN SignedFor(Renewers) \ {[id |-> r, user |-> local[r].user]}
                ELSE SignedFor(Renewers)
  <1> DEFINE b(q) == [id |-> q, user |-> local[q].user]
  <1>1. \A p, q \in Requests : b(p) = b(q) => p = q
    OBVIOUS
  <1>2. /\ Renewers = {q \in Requests : pc[q] = "saveToken" /\ call[q].op = "refresh"}
        /\ Renewers' = {q \in Requests : pc'[q] = "saveToken" /\ call[q].op = "refresh"}
    BY DEF Renewers
  <1>3. SignedFor(Renewers) = {b(q) : q \in Renewers}
    BY DEF SignedFor
  <1>4. Renewers' = Renewers \ {r}
    BY <1>2
  <1>5. SignedFor(Renewers)' = {b(q) : q \in Renewers'}
    <2>1. \A q \in Renewers' : local'[q] = local[q]
      BY <1>2, <1>4
    <2> QED
      BY <2>1 DEF SignedFor
  <1>6. {b(q) : q \in Renewers \ {r}} = {b(q) : q \in Renewers} \ {b(r)}
    BY <1>1, <1>2
  <1>7. r \notin Renewers => Renewers \ {r} = Renewers
    OBVIOUS
  <1> HIDE DEF b
  <1>8. (r \in Renewers) = (pc[r] = "saveToken" /\ call[r].op = "refresh")
    BY <1>2
  <1>9. SignedFor(Renewers)' = SignedFor(Renewers) \ {b(r)}
    BY <1>3, <1>4, <1>5, <1>6
  <1>10. r \notin Renewers => SignedFor(Renewers)' = SignedFor(Renewers)
    BY <1>3, <1>4, <1>5, <1>7
  <1> QED
    BY <1>8, <1>9, <1>10 DEF b

\* A deleted token ends its session and no other.
LEMMA TokenGone ==
    ASSUME IInv, MakersStored, NEW t \in Tokens, Present(t),
           tokens' = [tokens EXCEPT ![t] = Null], UNCHANGED maker
    PROVE  /\ Session(t) \in RecordOf
           /\ RecordOf' = RecordOf \ {Session(t)}
           /\ LiveOf' = LiveOf \ {Session(t)}
  <1>1. \A k \in Tokens : tokens'[k] = IF k = t THEN Null ELSE tokens[k]
    BY DEF IInv, TypeOK
  <1>2. \A k \in Tokens : /\ Present(k)' <=> Present(k) /\ k # t
                          /\ Live(k)' <=> Live(k) /\ k # t
    BY <1>1 DEF Present, Live
  <1>3. \A k \in Tokens : Present(k) /\ Session(k) = Session(t) => k = t
    BY SessionsApart
  <1>4. \A k \in Tokens : Session(k)' = Session(k)
    BY DEF Session
  <1>5. RecordOf' = {Session(k) : k \in {x \in Tokens : Present(x) /\ x # t}}
    BY <1>2, <1>4 DEF RecordOf
  <1>6. LiveOf' = {Session(k) : k \in {x \in Tokens : Live(x) /\ x # t}}
    BY <1>2, <1>4 DEF LiveOf
  <1>7. \A k \in Tokens : Live(k) => Present(k)
    BY DEF Live
  <1> QED
    BY <1>3, <1>5, <1>6, <1>7 DEF RecordOf, LiveOf

\* Where nothing is stored, no session is opened.
LEMMA OpenedKept ==
    ASSUME UNCHANGED stored, \A q \in stored : local'[q] = local[q] /\ call'[q] = call[q]
    PROVE  UNCHANGED <<OpenedOf, LoginsOf>>
  BY DEF OpenedOf, LoginsOf, SignedFor

\* A request that has stored nothing and is not about to is free to open a session.
LEMMA RequestIsFresh ==
    ASSUME IInv, NEW r \in Requests, NEW u \in Users,
           r \notin stored, r \notin Claimants, r \notin Renewers
    PROVE  [id |-> r, user |-> u] \in Ledger!Fresh
  <1> DEFINE used == {s.id : s \in OpenedOf \cup BroughtBy(Claimants) \cup SignedFor(Renewers)}
  <1>1. r # Null
    BY SessionsAssumption
  <1>2. \A s \in OpenedOf : s.id # r
    BY <1>1 DEF OpenedOf, SeedSessions, SignedFor
  <1>3. \A s \in BroughtBy(Claimants) : s.id # r
    BY DEF BroughtBy
  <1>4. \A s \in SignedFor(Renewers) : s.id # r
    BY DEF SignedFor
  <1>5. r \in Requests \ used
    BY <1>2, <1>3, <1>4
  <1>6. [id |-> r, user |-> u] \in [id : Requests \ used, user : Users]
    BY <1>5
  <1> QED
    BY <1>6 DEF Ledger!Fresh

LEMMA FindTokenClaims ==
    ASSUME IInv, NEW r \in Requests, FindToken(r)
    PROVE  Ledger!Next
  <1> DEFINE t == call[r].token
             s == [id |-> r, user |-> t.user]
  <1>1. InFlight(r) /\ pc[r] = "findToken"
    BY DEF FindToken, InFlight, Steps
  <1>2. call[r] \in Calls /\ call[r].op = "refresh" /\ t \in Tokens /\ t.user \in Users
    BY <1>1, CallOf, StepsApart, CallFields DEF Tokens
  <1>3. UNCHANGED <<tables, now, history>>
    BY DEF FindToken
  <1>4. CASE Answer(r, "Unauthorized")
    BY <1>1, <1>3, <1>4, AnswerAbandons DEF tables, history, Ledger!Next
  <1>5. ASSUME Present(t), ~tokens[t].isRevoked,
               NEW step \in {"deleteExpired", "findOwner"}, Goto(r, step)
        PROVE  Ledger!Next
    <2>1. r \notin stored /\ r \notin Claimants /\ r \notin Renewers
      BY <1>1, NotYet DEF Claimants, Renewers
    <2>2. s \in Ledger!Fresh
      BY <1>2, <2>1, RequestIsFresh
    <2>3. /\ pc' = [pc EXCEPT ![r] = step] /\ UNCHANGED <<call, local>>
          /\ UNCHANGED <<tokens, maker, stored>>
      BY <1>3, <1>5 DEF Goto, tables, history
    <2>4. /\ pc'[r] = step
          /\ \A q \in Requests : q # r => pc'[q] = pc[q]
      BY <2>3 DEF IInv, TypeOK
    <2>5. BroughtBy(Claimants)' = BroughtBy(Claimants) \cup {s}
      <3>1. Claimants' = Claimants \cup {r}
        BY <2>4 DEF Claimants
      <3>2. BroughtBy(Claimants)' = {[id |-> q, user |-> call[q].token.user] : q \in Claimants'}
        BY <2>3 DEF BroughtBy
      <3> QED
        BY <3>1, <3>2 DEF BroughtBy
    <2>6. SignedFor(Renewers)' = SignedFor(Renewers)
      BY <1>1, <2>3, <2>4, TicketsLess
    <2>7. UNCHANGED <<OpenedOf, LoginsOf>>
      BY <2>3, OpenedKept
    <2>8. UNCHANGED <<RecordOf, LiveOf>>
      BY <2>3 DEF RecordOf, LiveOf, Session, Present, Live
    <2>9. Session(t) \in Ledger!Of(s.user, LiveOf)
      <3>1. Session(t) \in LiveOf
        BY <1>2, <1>5 DEF LiveOf, Live
      <3>2. Session(t).user = s.user
        BY DEF Session
      <3> QED
        BY <3>1, <3>2 DEF Ledger!Of
    <2>10. Ledger!Claim(s)
      BY <2>5, <2>6, <2>7, <2>8, <2>9 DEF Ledger!Claim
    <2> QED
      BY <2>2, <2>10 DEF Ledger!Next
  <1> QED
    BY <1>4, <1>5 DEF FindToken, Present

LEMMA DeleteExpiredExpires ==
    ASSUME IInv, MakersStored, NEW r \in Requests, DeleteExpired(r)
    PROVE  Ledger!Next
  <1> DEFINE t == call[r].token
             s == [id |-> r, user |-> t.user]
  <1>1. InFlight(r) /\ pc[r] = "deleteExpired"
    BY DEF DeleteExpired, InFlight, Steps
  <1>2. call[r] \in Calls /\ call[r].op = "refresh" /\ t \in Tokens /\ t.user \in Users
    BY <1>1, CallOf, StepsApart, CallFields DEF Tokens
  <1>3. UNCHANGED <<users, now, maker, stored>>
    BY DEF DeleteExpired, history
  <1>4. CASE Answer(r, "P2025") /\ UNCHANGED tokens
    BY <1>1, <1>3, <1>4, AnswerAbandons DEF Ledger!Next
  <1>5. CASE /\ tokens[t] # Null
             /\ tokens' = [tokens EXCEPT ![t] = Null]
             /\ Committed(r, "Unauthorized")
    <2>1. /\ pc' = [pc EXCEPT ![r] = "respond"] /\ UNCHANGED <<call, local>>
      BY <1>5 DEF Committed
    <2>2. /\ pc'[r] = "respond"
          /\ \A q \in Requests : q # r => pc'[q] = pc[q]
      BY <2>1 DEF IInv, TypeOK
    <2>3. s \in BroughtBy(Claimants)
      BY <1>1 DEF BroughtBy, Claimants
    <2>4. BroughtBy(Claimants)' = BroughtBy(Claimants) \ {s}
      BY <1>1, <2>1, <2>2, ClaimsLess
    <2>5. SignedFor(Renewers)' = SignedFor(Renewers)
      BY <1>1, <2>1, <2>2, TicketsLess
    <2>6. /\ Session(t) \in RecordOf
          /\ RecordOf' = RecordOf \ {Session(t)}
          /\ LiveOf' = LiveOf \ {Session(t)}
      BY <1>2, <1>3, <1>5, TokenGone DEF Present
    <2>7. UNCHANGED <<OpenedOf, LoginsOf>>
      BY <1>3, <2>1, OpenedKept
    <2>8. Session(t) \in Ledger!Of(s.user, RecordOf)
      BY <2>6 DEF Ledger!Of, Session
    <2>9. Ledger!Expire(s)
      BY <2>4, <2>5, <2>6, <2>7, <2>8 DEF Ledger!Expire
    <2> QED
      BY <2>3, <2>9 DEF Ledger!Next
  <1> QED
    BY <1>4, <1>5 DEF DeleteExpired

LEMMA DeleteTokenRedeems ==
    ASSUME IInv, MakersStored, NEW r \in Requests, DeleteToken(r)
    PROVE  Ledger!Next
  <1> DEFINE t == call[r].token
             s == [id |-> r, user |-> t.user]
  <1>1. InFlight(r) /\ pc[r] = "deleteToken" /\ r \notin stored
    BY NotYet DEF DeleteToken, InFlight, Steps
  <1>2. call[r] \in Calls /\ call[r].op = "refresh" /\ t \in Tokens /\ t.user \in Users
    BY <1>1, CallOf, StepsApart, CallFields DEF Tokens
  <1>3. UNCHANGED <<users, now, maker, stored>>
    BY DEF DeleteToken
  <1>4. CASE Answer(r, "P2025") /\ UNCHANGED tokens
    BY <1>1, <1>3, <1>4, AnswerAbandons DEF Ledger!Next
  <1>5. CASE /\ tokens[t] # Null
             /\ tokens' = [tokens EXCEPT ![t] = Null]
             /\ Keep(r, Signed(t.user), "saveToken")
    <2>1. /\ pc' = [pc EXCEPT ![r] = "saveToken"] /\ UNCHANGED call
          /\ local' = [local EXCEPT ![r] = Signed(t.user)]
      BY <1>5 DEF Keep
    <2>2. /\ pc'[r] = "saveToken" /\ local'[r] = Signed(t.user)
          /\ \A q \in Requests : q # r => pc'[q] = pc[q] /\ local'[q] = local[q]
      BY <2>1, OthersStay
    <2>3. s \in BroughtBy(Claimants)
      BY <1>1 DEF BroughtBy, Claimants
    <2>4. BroughtBy(Claimants)' = BroughtBy(Claimants) \ {s}
      BY <1>1, <2>1, <2>2, ClaimsLess
    <2>5. SignedFor(Renewers)' = SignedFor(Renewers) \cup {s}
      <3>1. Renewers' = Renewers \cup {r} /\ r \notin Renewers
        BY <1>1, <1>2, <2>1, <2>2 DEF Renewers
      <3>2. local'[r].user = t.user
        BY <2>2 DEF Signed
      <3>3. SignedFor(Renewers)' = {[id |-> q, user |-> local'[q].user] : q \in Renewers'}
        BY DEF SignedFor
      <3>4. \A q \in Renewers : local'[q] = local[q]
        BY <2>2, <3>1 DEF Renewers
      <3> QED
        BY <3>1, <3>2, <3>3, <3>4 DEF SignedFor
    <2>6. /\ Session(t) \in RecordOf
          /\ RecordOf' = RecordOf \ {Session(t)}
          /\ LiveOf' = LiveOf \ {Session(t)}
      BY <1>2, <1>3, <1>5, TokenGone DEF Present
    <2>7. UNCHANGED <<OpenedOf, LoginsOf>>
      <3>1. \A q \in stored : local'[q] = local[q] /\ call'[q] = call[q]
        BY <1>1, <2>1, <2>2 DEF IInv, TypeOK
      <3> QED
        BY <1>3, <3>1, OpenedKept
    <2>8. Session(t) \in Ledger!Of(s.user, RecordOf)
      BY <2>6 DEF Ledger!Of, Session
    <2>9. Ledger!Redeem(s)
      BY <2>4, <2>5, <2>6, <2>7, <2>8 DEF Ledger!Redeem
    <2> QED
      BY <2>3, <2>9 DEF Ledger!Next
  <1> QED
    BY <1>4, <1>5 DEF DeleteToken

LEMMA SaveTokenOpens ==
    ASSUME IInv, MakersStored, NEW r \in Requests, SaveToken(r)
    PROVE  Ledger!Next /\ MakersStored'
  <1> DEFINE t == local[r]
             s == [id |-> r, user |-> t.user]
  <1>1. InFlight(r) /\ pc[r] = "saveToken" /\ r \notin stored
    BY NotYet DEF SaveToken, InFlight, Steps
  <1>2. /\ call[r] \in Calls /\ call[r].op \in {"login", "refresh"}
        /\ t \in Tokens /\ t.user \in Users
    BY <1>1, CallOf DEF IInv, KeptValues, Tokens
  <1>3. CASE Answer(r, "P2002") /\ UNCHANGED <<tokens, maker, stored>>
    <2>1. Ledger!Abandon
      BY <1>1, <1>3, AnswerAbandons
    <2>2. MakersStored'
      BY <1>3, MakersKept DEF Answer
    <2> QED
      BY <2>1, <2>2 DEF Ledger!Next
  <1>4. CASE /\ tokens[t] = Null
             /\ tokens' = [tokens EXCEPT ![t] = [isRevoked |-> FALSE]]
             /\ maker' = [maker EXCEPT ![t] = r]
             /\ stored' = stored \cup {r}
             /\ Committed(r, "Ok")
    <2>1. /\ pc' = [pc EXCEPT ![r] = "respond"]
          /\ UNCHANGED <<call, local>>
      BY <1>4 DEF Committed
    <2>2. /\ pc'[r] = "respond"
          /\ \A q \in Requests : q # r => pc'[q] = pc[q]
      BY <2>1 DEF IInv, TypeOK
    <2>3. \A k \in Tokens :
            /\ k # t => tokens'[k] = tokens[k] /\ maker'[k] = maker[k]
            /\ k = t => tokens'[k] = [isRevoked |-> FALSE] /\ maker'[k] = r
      BY <1>2, <1>4 DEF IInv, TypeOK
    <2>4. \A k \in Tokens :
            /\ Present(k)' <=> Present(k) \/ k = t
            /\ Live(k)' <=> Live(k) \/ k = t
            /\ Session(k)' = IF k = t THEN s ELSE Session(k)
      <3>1. [isRevoked |-> FALSE] \in TokenRows
        BY DEF TokenRows
      <3>2. [isRevoked |-> FALSE] # Null
        BY <3>1, SessionsAssumption
      <3>3. ~[isRevoked |-> FALSE].isRevoked
        OBVIOUS
      <3> QED
        BY <2>3, <3>2, <3>3 DEF Present, Live, Session
    <2>5. ~Present(t) /\ ~Live(t)
      BY <1>4 DEF Present, Live
    <2>6. /\ RecordOf' = {IF k = t THEN s ELSE Session(k) : k \in {x \in Tokens : Present(x) \/ x = t}}
          /\ LiveOf' = {IF k = t THEN s ELSE Session(k) : k \in {x \in Tokens : Live(x) \/ x = t}}
      BY <2>4 DEF RecordOf, LiveOf
    <2>7. RecordOf' = RecordOf \cup {s}
      <3> HIDE DEF s, t
      <3> QED
        BY <1>2, <2>5, <2>6 DEF RecordOf
    <2>8. LiveOf' = LiveOf \cup {s}
      <3> HIDE DEF s, t
      <3> QED
        BY <1>2, <2>5, <2>6 DEF LiveOf
    <2>9. OpenedOf' = OpenedOf \cup {s}
      BY <1>4, <2>1 DEF OpenedOf, SignedFor
    <2>10. Ledger!Open(s)
      BY <2>7, <2>8, <2>9 DEF Ledger!Open
    <2>11. BroughtBy(Claimants)' = BroughtBy(Claimants)
      BY <1>1, <2>1, <2>2, ClaimsLess
    <2>12. SignedFor(Renewers)' = IF call[r].op = "refresh"
                                  THEN SignedFor(Renewers) \ {s} ELSE SignedFor(Renewers)
      BY <1>1, <2>1, <2>2, TicketsLess
    <2>13. MakersStored'
      BY <1>2, <1>4, <2>1, <2>3, SessionsAssumption DEF MakersStored, Present
    <2>14. CASE call[r].op = "login"
      <3>1. s \in Ledger!Fresh
        BY <1>1, <1>2, <2>14, RequestIsFresh DEF Claimants, Renewers
      <3>2. LoginsOf' = LoginsOf \cup {s}
        <4>1. {q \in stored' : call'[q].op = "login"} =
                {q \in stored : call[q].op = "login"} \cup {r}
          BY <1>4, <2>1, <2>14
        <4> QED
          BY <2>1, <4>1 DEF LoginsOf, SignedFor
      <3>3. Ledger!Login(s)
        BY <2>10, <2>11, <2>12, <2>14, <3>2 DEF Ledger!Login
      <3> QED
        BY <2>13, <3>1, <3>3 DEF Ledger!Next
    <2>15. CASE call[r].op = "refresh"
      <3>1. s \in SignedFor(Renewers)
        BY <1>1, <2>15 DEF SignedFor, Renewers
      <3>2. LoginsOf' = LoginsOf
        <4>1. {q \in stored' : call'[q].op = "login"} = {q \in stored : call[q].op = "login"}
          BY <1>4, <2>1, <2>15
        <4> QED
          BY <2>1, <4>1 DEF LoginsOf, SignedFor
      <3>3. Ledger!Renew(s)
        BY <2>10, <2>11, <2>12, <2>15, <3>2 DEF Ledger!Renew
      <3> QED
        BY <2>13, <3>1, <3>3 DEF Ledger!Next
    <2> QED
      BY <1>2, <2>14, <2>15
  <1> QED
    BY <1>3, <1>4 DEF SaveToken

LEMMA RevokeAllRevokes ==
    ASSUME IInv, NEW r \in Requests, RevokeAll(r)
    PROVE  Ledger!Next
  <1> DEFINE u == call[r].caller
  <1>1. InFlight(r) /\ pc[r] = "revokeAll" /\ r \notin stored
    BY NotYet DEF RevokeAll, InFlight, Steps
  <1>2. call[r] \in Calls /\ call[r].op = "logout" /\ u \in Users
    BY <1>1, CallOf, StepsApart, CallFields
  <1>3. /\ pc' = [pc EXCEPT ![r] = "respond"]
        /\ UNCHANGED <<call, local, maker, stored>>
    BY DEF RevokeAll, Committed
  <1>4. /\ pc'[r] = "respond"
        /\ \A q \in Requests : q # r => pc'[q] = pc[q]
    BY <1>3 DEF IInv, TypeOK
  <1>5. \A k \in Tokens :
            tokens'[k] = IF k.user = u /\ tokens[k] # Null
                         THEN [isRevoked |-> TRUE] ELSE tokens[k]
    BY DEF RevokeAll
  <1>6. \A k \in Tokens :
            /\ Present(k)' <=> Present(k)
            /\ Live(k)' <=> Live(k) /\ k.user # u
            /\ Session(k)' = Session(k) /\ Session(k).user = k.user
    <2>1. [isRevoked |-> TRUE] \in TokenRows
      BY DEF TokenRows
    <2>2. [isRevoked |-> TRUE] # Null /\ [isRevoked |-> TRUE].isRevoked
      BY <2>1, SessionsAssumption
    <2> QED
      BY <1>3, <1>5, <2>2 DEF Present, Live, Session
  <1>7. UNCHANGED RecordOf
    BY <1>6 DEF RecordOf
  <1>8. LiveOf' = LiveOf \ Ledger!Of(u, LiveOf)
    <2>1. LiveOf' = {Session(k) : k \in {x \in Tokens : Live(x) /\ x.user # u}}
      BY <1>6 DEF LiveOf
    <2> QED
      BY <1>6, <2>1 DEF LiveOf, Ledger!Of
  <1>9. UNCHANGED <<OpenedOf, LoginsOf>>
    BY <1>3, OpenedKept
  <1>10. UNCHANGED <<BroughtBy(Claimants), SignedFor(Renewers)>>
    BY <1>1, <1>3, <1>4, ClaimsLess, TicketsLess
  <1>11. Ledger!Revoke(u)
    BY <1>7, <1>8, <1>9, <1>10 DEF Ledger!Revoke
  <1> QED
    BY <1>2, <1>11 DEF Ledger!Next

LEMMA DeleteTokensEnds ==
    ASSUME IInv, NEW r \in Requests, DeleteTokens(r)
    PROVE  Ledger!Next
  <1> DEFINE u == call[r].caller
  <1>1. InFlight(r) /\ pc[r] = "deleteTokens" /\ r \notin stored
    BY NotYet DEF DeleteTokens, InFlight, Steps
  <1>2. call[r] \in Calls /\ call[r].op = "changePassword" /\ u \in Users
    BY <1>1, CallOf, StepsApart, CallFields
  <1>3. /\ pc' = [pc EXCEPT ![r] = "respond"]
        /\ UNCHANGED <<call, local, maker, stored>>
    BY DEF DeleteTokens, Committed, history
  <1>4. /\ pc'[r] = "respond"
        /\ \A q \in Requests : q # r => pc'[q] = pc[q]
    BY <1>3 DEF IInv, TypeOK
  <1>5. \A k \in Tokens : tokens'[k] = IF k.user = u THEN Null ELSE tokens[k]
    BY DEF DeleteTokens
  <1>6. \A k \in Tokens :
            /\ Present(k)' <=> Present(k) /\ k.user # u
            /\ Live(k)' <=> Live(k) /\ k.user # u
            /\ Session(k)' = Session(k) /\ Session(k).user = k.user
    BY <1>3, <1>5 DEF Present, Live, Session
  <1>7. RecordOf' = RecordOf \ Ledger!Of(u, RecordOf)
    <2>1. RecordOf' = {Session(k) : k \in {x \in Tokens : Present(x) /\ x.user # u}}
      BY <1>6 DEF RecordOf
    <2> QED
      BY <1>6, <2>1 DEF RecordOf, Ledger!Of
  <1>8. LiveOf' = LiveOf \ Ledger!Of(u, LiveOf)
    <2>1. LiveOf' = {Session(k) : k \in {x \in Tokens : Live(x) /\ x.user # u}}
      BY <1>6 DEF LiveOf
    <2> QED
      BY <1>6, <2>1 DEF LiveOf, Ledger!Of
  <1>9. UNCHANGED <<OpenedOf, LoginsOf>>
    BY <1>3, OpenedKept
  <1>10. UNCHANGED <<BroughtBy(Claimants), SignedFor(Renewers)>>
    BY <1>1, <1>3, <1>4, ClaimsLess, TicketsLess
  <1>11. Ledger!EndAll(u)
    BY <1>7, <1>8, <1>9, <1>10 DEF Ledger!EndAll
  <1> QED
    BY <1>2, <1>11 DEF Ledger!Next

\* The reads of the handlers, and their writes to the accounts.
LEMMA HandlersAbandon ==
    ASSUME IInv, NEW r \in Requests,
           \/ FindEmail(r) \/ CreateUser(r) \/ FindUser(r) \/ Compare(r) \/ FindOwner(r)
           \/ Authenticate(r) \/ FindOwnRow(r) \/ WriteName(r)
           \/ FindProfile(r) \/ WritePassword(r) \/ FindTarget(r) \/ WriteActive(r)
    PROVE  Ledger!Abandon
  <1>1. InFlight(r) /\ pc[r] # "respond" /\ UNCHANGED <<tokens, maker, stored>>
    BY DEF InFlight, Steps, FindEmail, CreateUser, FindUser, Compare, FindOwner, Authenticate,
      FindOwnRow, WriteName, FindProfile, WritePassword, FindTarget, WriteActive, tables, history
  <1>2. CASE \E a : Answer(r, a) \/ Committed(r, a)
    BY <1>1, <1>2, AnswerAbandons
  <1>3. CASE \E step : /\ Goto(r, step)
                       /\ step \notin {"deleteExpired", "findOwner", "saveToken"}
                       /\ step = "deleteToken" => pc[r] = "findOwner"
    BY <1>1, <1>3, GotoAbandons
  <1>4. CASE \E step, value : /\ Keep(r, value, step)
                              /\ step \in {"compare", "saveToken", "writePassword",
                                           "deleteTokens"}
                              /\ step = "saveToken" => pc[r] = "compare"
    <2>1. pc[r] = "compare" => call[r].op # "refresh"
      BY <1>1, CallOf, StepsApart
    <2> QED
      BY <1>1, <1>4, <2>1, KeepAbandons
  <1>5. CASE FindEmail(r) \/ FindOwnRow(r) \/ FindTarget(r) \/ Authenticate(r) \/ FindOwner(r)
    BY <1>2, <1>3, <1>5 DEF FindEmail, FindOwnRow, FindTarget, Authenticate, FindOwner
  <1>6. CASE CreateUser(r) \/ WriteName(r) \/ WriteActive(r)
    BY <1>2, <1>6 DEF CreateUser, WriteName, WriteActive
  <1>7. CASE FindUser(r) \/ FindProfile(r) \/ WritePassword(r)
    BY <1>2, <1>4, <1>7 DEF FindUser, FindProfile, WritePassword
  <1>8. CASE Compare(r)
    BY <1>2, <1>4, <1>8 DEF Compare
  <1> QED
    BY <1>5, <1>6, <1>7, <1>8

\* What a request remembers once it has stored its token stays.
LEMMA StoredKept ==
    ASSUME IInv, NEW r \in Requests, InFlight(r), pc[r] # "respond",
           local' = local \/ \E value, step : Keep(r, value, step)
    PROVE  \A q \in stored : local'[q] = local[q]
  BY NotYet DEF Keep, IInv, TypeOK

LEMMA NextIsSessionLedger ==
    IInv /\ MakersStored /\ [Next]_vars => Ledger!Next /\ MakersStored'
  <1> SUFFICES ASSUME IInv, MakersStored, [Next]_vars
               PROVE  Ledger!Next /\ MakersStored'
    OBVIOUS
  <1>1. CASE \E r \in Requests : SaveToken(r)
    BY <1>1, SaveTokenOpens
  <1>2. CASE ~ \E r \in Requests : SaveToken(r)
    <2>1. ASSUME UNCHANGED <<tokens, maker, stored, local>> PROVE MakersStored'
      BY <2>1, MakersKept
    <2>2. ASSUME NEW r \in Requests, Receive(r) PROVE Ledger!Abandon /\ MakersStored'
      <3>1. /\ pc[r] = "idle" /\ UNCHANGED <<tokens, maker, stored, local>>
            /\ r \notin stored
        BY <2>2 DEF Receive, tables, IInv, StoredAndRedeemed
      <3>2. PICK c \in Offered :
                /\ call' = [call EXCEPT ![r] = c]
                /\ pc' = [pc EXCEPT ![r] = FirstStep[c.op]] \/ pc' = [pc EXCEPT ![r] = "done"]
        BY <2>2 DEF Receive
      <3>3. c.op \in Ops
        BY SessionsAssumption, CallFields
      <3>4. PICK step : /\ pc' = [pc EXCEPT ![r] = step]
                        /\ step \in {"findEmail", "findUser", "findToken", "authenticate", "done"}
        BY <3>2, <3>3, StepsApart
      <3>5. /\ pc'[r] = step
            /\ \A q \in Requests : q # r => pc'[q] = pc[q] /\ call'[q] = call[q]
        BY <3>2, <3>4 DEF IInv, TypeOK
      <3>6. Ledger!Abandon
        BY <3>1, <3>4, <3>5, StepAbandons DEF IInv, TypeOK
      <3> QED
        BY <2>1, <3>1, <3>6
    <2>3. ASSUME NEW r \in Requests, Respond(r) PROVE Ledger!Abandon /\ MakersStored'
      <3>1. /\ pc[r] = "respond" /\ pc' = [pc EXCEPT ![r] = "done"]
            /\ UNCHANGED <<tokens, maker, stored, local, call>>
        BY <2>3 DEF Respond, tables
      <3>2. Ledger!Abandon
        BY <3>1, LocalType, HandlerAbandons DEF InFlight, Steps
      <3> QED
        BY <2>1, <3>1, <3>2
    <2>4. ASSUME NEW r \in Requests, Fail(r) PROVE Ledger!Abandon /\ MakersStored'
      <3>1. /\ InFlight(r) /\ Answer(r, "DbError")
            /\ UNCHANGED <<tokens, maker, stored, local>>
        BY <2>4 DEF Fail, Answer, tables, history
      <3> QED
        BY <2>1, <3>1, AnswerAbandons
    <2>5. CASE Crash
      <3>1. UNCHANGED <<tokens, maker, stored, local, call>>
        BY <2>5 DEF Crash, tables, history
      <3>2. \A q \in Requests : pc'[q] \in {"lost", pc[q]}
        BY <2>5 DEF Crash
      <3>3. Ledger!Abandon
        BY <3>1, <3>2, StepAbandons
      <3> QED
        BY <2>1, <3>1, <3>3 DEF Ledger!Next
    <2>6. CASE Tick \/ Quiet \/ UNCHANGED vars
      <3>1. UNCHANGED <<tokens, maker, stored, local, call, pc>>
        BY <2>6 DEF Tick, Quiet, vars, tables, request, history
      <3>2. Ledger!Abandon
        BY <3>1, StepAbandons
      <3> QED
        BY <2>1, <3>1, <3>2 DEF Ledger!Next
    <2>7. ASSUME NEW r \in Requests,
                 \/ FindEmail(r) \/ CreateUser(r) \/ FindUser(r) \/ Compare(r) \/ FindOwner(r)
                 \/ Authenticate(r) \/ FindOwnRow(r) \/ WriteName(r)
                 \/ FindProfile(r) \/ WritePassword(r) \/ FindTarget(r) \/ WriteActive(r)
          PROVE  Ledger!Abandon /\ MakersStored'
      <3>1. InFlight(r) /\ pc[r] # "respond" /\ UNCHANGED <<tokens, maker, stored>>
        BY <2>7 DEF InFlight, Steps, FindEmail, CreateUser, FindUser, Compare, FindOwner,
          Authenticate, FindOwnRow, WriteName, FindProfile, WritePassword, FindTarget,
          WriteActive, tables, history
      <3>2. local' = local \/ \E value, step : Keep(r, value, step)
        <4>1. FindUser(r) \/ Compare(r) \/ FindProfile(r) =>
                (\E a : Answer(r, a)) \/ \E value, step : Keep(r, value, step)
          BY DEF FindUser, Compare, FindProfile
        <4>2. WritePassword(r) => \E value, step : Keep(r, value, step)
          BY DEF WritePassword
        <4>3. \/ FindEmail(r) \/ CreateUser(r) \/ FindOwner(r) \/ Authenticate(r)
              \/ FindOwnRow(r) \/ WriteName(r) \/ FindTarget(r) \/ WriteActive(r)
              => local' = local
          BY DEF FindEmail, CreateUser, FindOwner, Authenticate, FindOwnRow, WriteName,
            FindTarget, WriteActive, Goto, Answer, Committed
        <4> QED
          BY <2>7, <4>1, <4>2, <4>3 DEF Answer
      <3>3. \A q \in stored : local'[q] = local[q]
        BY <3>1, <3>2, StoredKept
      <3> QED
        BY <2>7, <3>1, <3>3, MakersKept, HandlersAbandon
    <2>8. ASSUME NEW r \in Requests,
                 FindToken(r) \/ DeleteExpired(r) \/ DeleteToken(r)
          PROVE  Ledger!Next /\ MakersStored'
      <3>1. /\ InFlight(r) /\ pc[r] \in {"findToken", "deleteExpired", "deleteToken"}
            /\ UNCHANGED <<maker, stored>>
        BY <2>8 DEF FindToken, DeleteExpired, DeleteToken, InFlight, Steps, history
      <3>2. local' = local \/ \E value, step : Keep(r, value, step)
        <4>1. DeleteToken(r) => (\E a : Answer(r, a)) \/ \E value, step : Keep(r, value, step)
          BY DEF DeleteToken
        <4>2. FindToken(r) \/ DeleteExpired(r) => local' = local
          BY DEF FindToken, DeleteExpired, Goto, Answer, Committed
        <4> QED
          BY <2>8, <4>1, <4>2 DEF Answer
      <3>3. \A q \in stored : local'[q] = local[q]
        BY <3>1, <3>2, StoredKept
      <3>4. \A t \in Tokens : tokens'[t] # Null => tokens[t] # Null
        BY <2>8 DEF FindToken, DeleteExpired, DeleteToken, tables, IInv, TypeOK
      <3>5. MakersStored'
        BY <3>1, <3>3, <3>4, MakersKept
      <3> QED
        BY <2>8, <3>5, FindTokenClaims, DeleteExpiredExpires, DeleteTokenRedeems
    <2>9. ASSUME NEW r \in Requests, RevokeAll(r) \/ DeleteTokens(r)
          PROVE  Ledger!Next /\ MakersStored'
      <3>1. UNCHANGED <<maker, stored, local>>
        BY <2>9 DEF RevokeAll, DeleteTokens, Committed, history
      <3>2. \A t \in Tokens : tokens'[t] # Null => tokens[t] # Null
        BY <2>9 DEF RevokeAll, DeleteTokens
      <3>3. MakersStored'
        BY <3>1, <3>2, MakersKept
      <3> QED
        BY <2>9, <3>3, RevokeAllRevokes, DeleteTokensEnds
    <2>10. Ledger!Abandon => Ledger!Next
      BY DEF Ledger!Next
    <2> QED
      BY <1>2, <2>2, <2>3, <2>4, <2>5, <2>6, <2>7, <2>8, <2>9, <2>10 DEF Next, Advance
  <1> QED
    BY <1>1, <1>2

\* The tables and the handlers implement the ledger of sessions, for any set of
\* requests and accounts: a session is opened by a login, or by a refresh that took
\* one of its account off the record, and none that is over comes back.
THEOREM SessionsKeepLedger == Spec => SessionLedgerSpec
  <1>1. Init => MakersStored /\ Ledger!Init
    BY InitIsSessionLedger
  <1>2. IInv /\ MakersStored /\ [Next]_vars => Ledger!Next /\ MakersStored'
    BY NextIsSessionLedger
  <1> QED
    BY <1>1, <1>2, Invariant, PTL DEF Spec, SessionLedgerSpec, Ledger!Spec

------------------------------------------------------------------------------
(* What the ledger guarantees holds of the sessions in the tables.           *)

LP == INSTANCE SessionLedgerProofs WITH
    Openers <- Requests, Earlier <- {Null},
    opened <- OpenedOf, logins <- LoginsOf, record <- RecordOf, live <- LiveOf,
    claims <- BroughtBy(Claimants), tickets <- SignedFor(Renewers)

\* Requests are finitely many and are no seed.
LEMMA FiniteOpeners ==
    LP!IsFiniteSet(Requests) /\ LP!IsFiniteSet({Null}) /\ Requests \cap {Null} = {}
  <1>1. IsFiniteSet(Requests) /\ Null \notin Requests
    BY SessionsAssumption
  <1>2. IsFiniteSet({Null})
    BY FS_Singleton
  <1>3. \A S : IsFiniteSet(S) = LP!IsFiniteSet(S)
    BY DEF IsFiniteSet, LP!IsFiniteSet
  <1> QED
    BY <1>1, <1>2, <1>3

LEMMA LedgerStarts == Ledger!Init => LP!Init
  BY DEF Ledger!Init, LP!Init

LEMMA LedgerSteps == Ledger!Next => LP!Next
  <1> USE DEF Ledger!Of, LP!Of, Ledger!Open, LP!Open
  <1>1. Ledger!Abandon => LP!Abandon
    BY DEF Ledger!Abandon, LP!Abandon
  <1>2. Ledger!Fresh = LP!Fresh
    BY DEF Ledger!Fresh, LP!Fresh
  <1>3. ASSUME NEW s
        PROVE  /\ Ledger!Login(s) => LP!Login(s)
               /\ Ledger!Claim(s) => LP!Claim(s)
               /\ Ledger!Renew(s) => LP!Renew(s)
    BY DEF Ledger!Login, LP!Login, Ledger!Claim, LP!Claim, Ledger!Renew, LP!Renew
  <1>4. ASSUME NEW s PROVE Ledger!Redeem(s) => LP!Redeem(s)
    BY DEF Ledger!Redeem, LP!Redeem
  <1>5. ASSUME NEW s PROVE Ledger!Expire(s) => LP!Expire(s)
    BY DEF Ledger!Expire, LP!Expire
  <1>6. ASSUME NEW u PROVE Ledger!Revoke(u) => LP!Revoke(u)
    BY DEF Ledger!Revoke, LP!Revoke
  <1>7. ASSUME NEW u PROVE Ledger!EndAll(u) => LP!EndAll(u)
    BY DEF Ledger!EndAll, LP!EndAll
  <1> QED
    BY <1>1, <1>2, <1>3, <1>4, <1>5, <1>6, <1>7 DEF Ledger!Next, LP!Next

LEMMA LedgerInvariant ==
    /\ Init => LP!LInv
    /\ IInv /\ MakersStored /\ LP!LInv /\ [Next]_vars => LP!LInv'
  <1>1. Init => LP!LInv
    BY InitIsSessionLedger, LedgerStarts, FiniteOpeners, LP!InitLedger
  <1>2. ASSUME IInv, MakersStored, LP!LInv, [Next]_vars PROVE LP!LInv'
    <2>1. LP!Next
      BY <1>2, NextIsSessionLedger, LedgerSteps
    <2> QED
      BY <1>2, <2>1, FiniteOpeners, LP!NextLedger
  <1> QED
    BY <1>1, <1>2

\* However refreshes of its tokens race with each other, fail, or are lost in a
\* crash, an account never has more sessions than there were logins to it.
THEOREM SessionsAreNoMoreThanLogins == Spec => []NoMoreThanLogins
  <1>1. Init => MakersStored /\ LP!LInv
    BY InitIsSessionLedger, LedgerInvariant
  <1>2. IInv /\ (MakersStored /\ LP!LInv) /\ [Next]_vars => (MakersStored /\ LP!LInv)'
    BY NextIsSessionLedger, LedgerInvariant
  <1>3. LP!LInv => NoMoreThanLogins
    <2>1. ASSUME NEW S PROVE LP!Cardinality(S) = Ledger!Cardinality(S)
      BY DEF LP!Cardinality, Ledger!Cardinality
    <2> QED
      BY <2>1 DEF LP!LInv, LP!NoMoreThanLogins, NoMoreThanLogins, Ledger!NoMoreThanLogins,
        LP!Of, Ledger!Of
  <1> QED
    BY <1>1, <1>2, <1>3, Invariant, PTL DEF Spec

\* A session that was redeemed, expired, revoked or deleted never comes back, even
\* if its token is signed again within the second.
THEOREM SessionsThatAreOverStayOver == Spec => Ledger!OverIsOver
  <1> DEFINE O == /\ (OpenedOf \ RecordOf) \cap RecordOf' = {}
                  /\ (OpenedOf \ LiveOf) \cap LiveOf' = {}
  <1>1. Init => MakersStored /\ LP!LInv
    BY InitIsSessionLedger, LedgerInvariant
  <1>2. IInv /\ (MakersStored /\ LP!LInv) /\ [Next]_vars => (MakersStored /\ LP!LInv)'
    BY NextIsSessionLedger, LedgerInvariant
  <1>3. ASSUME IInv, MakersStored, LP!LInv, [Next]_vars PROVE O
    <2>1. LP!Next
      BY <1>3, NextIsSessionLedger, LedgerSteps
    <2> QED
      BY <1>3, <2>1, LP!StepsEndOnly
  <1>4. IInv /\ (MakersStored /\ LP!LInv) /\ [Next]_vars => [O]_Ledger!ledger
    BY <1>3
  <1> QED
    BY <1>1, <1>2, <1>4, Invariant, PTL DEF Spec, Ledger!OverIsOver

==============================================================================
