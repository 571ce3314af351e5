# A verification development for the booking platform

The booking platform is a NestJS REST API over PostgreSQL: staff keep a
catalogue of services, customers book a slot (date and time) of a service
without an account, staff move bookings through their life cycle, and staff
accounts log in with access and refresh tokens. This directory holds TLA+
modules that model the parts of it that keep state, configurations that check
them with TLC on small instances, and theorems about them that TLAPS proves for
instances of every size.

## 1. Inventory

All paths are under `src/`. A handler is an `async` method on Node's event
loop: it runs undisturbed between two `await`s, and at every `await` any other
request may run. No handler holds a transaction or a lock over two database
calls that write. The tables are the only state that requests share, apart from
the log.

| Component | Keeps | Operations | Talks to | Modelled by |
|---|---|---|---|---|
| `modules/bookings` | table `bookings` | createBooking, updateStatus, cancelBooking; list, get | `ServicesService.getService`, the two validators, audit | `Bookings`, `Diary` (list) |
| `modules/services` | table `services` | createService, updateService, deleteService; list, get | counts `bookings` before it deletes | `Services` |
| status validator | nothing | the table of transitions | called by the bookings service | `BookingStatus` |
| date validator | nothing | is the day in the past? | the server's clock and time zone | `BookingDate`, `Diary` |
| `prisma/schema.prisma` | the constraints | unique slot, address and token hash, foreign key `onDelete: Restrict` | answers P2002, P2003, P2025 | `Store`, `Sessions` |
| `common/filters`, `common/exceptions` | nothing | exception or Prisma error to HTTP status | every handler that throws | `Responses` |
| `modules/auth` | tables `users`, `refresh_tokens` | register, login, refreshTokens, logout; JwtStrategy, RefreshStrategy | signs with the clock | `Sessions` |
| `modules/users` | table `users` | updateProfile, changePassword, activate, deactivate; reads | deletes `refresh_tokens` | `Sessions` |
| `common/guards` | nothing | JwtAuthGuard, RolesGuard | reads `users` before the handler | `Gateway`, `Sessions` |
| pagination | nothing | `calcSkip`, `buildPaginationMeta`, list queries | two statements in one transaction | `Pagination`, `Diary` |
| interceptors | nothing | reshape the response, put the user into the context | around every handler | `Diary`, `Gateway` |
| audit, request context | the log; AsyncLocalStorage per request | one entry after each commit | called by the services | `Gateway`, `Sessions` |
| DTOs and validation pipe | nothing | forms, bounds, initialisers | before every handler | partly: `Services`, `Store`, `Pagination` |
| seed | nothing | writes rows at set-up | | the initial states |
| throttler, health, database client, configuration | counters (library), none, none, none | | | not modelled |

What is hard, and what makes each part correct:

* **Check, then act.** createBooking, createService, updateService, register and
  deleteService look first and write after an `await`. What they promise must
  come from a constraint of the schema, or it is not kept: slots are unique
  (`SlotUnique`), addresses too (`AddressRegisteredOnce`), and bookings keep
  their service (`NoOrphanBooking`) however requests interleave. What no
  constraint backs is broken only by a request whose checks the commit of
  another has overtaken: a second service of a title (`TwinsOnlyIfOvertaken`), a
  booking of an inactive service (`ActiveUnlessOvertaken`); and only such a
  request is stopped by the database after its checks passed
  (`RefusedOnlyIfOvertaken`, with the two exceptions it names).
* **Read, validate, write.** updateStatus and cancelBooking validate the status
  they read and then update by id alone. A write is a legal move unless another
  request wrote the row in between (`LegalUnlessOvertaken`); completion still
  always follows a confirmation (`CompletedWasConfirmed`). The users' handlers
  write the one column they were asked to change and keep the rest of the row as
  it is at the write, not as they read it, and write a password only for who had
  the current one while the request was handled (`AccountsChangeAsAsked`).
* **Answers.** A client acts on what it is told: Created must mean a row, a
  refusal none, a conflict a holder (`BookingAnswersAreTrue`,
  `ConflictHasHolder`, `AnsweredTokensWereStored`), through failing calls, lost
  acknowledgements and crashes; 401 and 403 must be true of the account
  (`RefusalsAreJust`).
* **Sessions.** Rotation, logout and password change are several database calls
  each: a token is redeemed once (`RedeemedOnce`), so an account has no more
  sessions than there were logins to it (`NoMoreThanLogins`), what was obtained
  before a logout or a password change ends with it (`SessionsEnd`), and a login
  is justified by one state of the account (`AdmittedAccountWasActive`).
* **Access.** The guard reads the account before the handler's first call: an
  account may be deactivated in between. What changes was asked for by someone
  who was entitled while the request was checked (`ChangesAreAuthorised`,
  `CallerWasActive`).
* **The trail.** Requests interleave at every `await` and share the logger: an
  entry must name its own request's caller (`TrailNamesCallers`), be true
  (`TrailIsTrue`), be there (`TrailMissesNothing`, `TrailHasEveryChange`), and
  tell the state of a booking (`TrailTellsStatus`).
* **Dates.** The day of a booking is compared across time zones, and may be over
  when the row is written (`NoPastDay`, `TodayMayBeBooked`).
* **Pages.** A list is read page by page while rows come and move
  (`WalkMissesNothing`, `QuietWalkShowsOnce`, `MetaCoversPage`,
  `LastPageIsLast`).
* **Progress.** Every branch of a handler returns, throws or goes on
  (`EveryRequestSettles`).

`PROJECT.json` lists every component with its status and every hazard at its
line.

## 2. The modules

An arrow points from a module to one that extends it; the two ledgers are
instances.

    BookingStatus   Responses --> Sessions --> MCSessions, SessionsProofs
       |      \        |
       |       '---> Store --> Services --> Bookings --> Platform
       |
       |    BookingDate   Pagination
       |          \          /
       '--------->   Diary   --> MCDiary, DiaryProofs

    Platform --> BusinessRules --> MCPlatform, OvertakenProofs
    Platform --> Gateway --> MCGateway, GatewayProofs
    Platform --> PlatformProofs --> OvertakenProofs, LedgerProofs --> GatewayProofs

    SlotLedger --> SlotLedgerProofs          (instantiated for Platform and Diary)
    SessionLedger --> SessionLedgerProofs    (instantiated for Sessions)

* `BookingStatus`: the enum, the table of transitions and `Validate`, which
  keeps the order of the validator's checks. Repeating the current status is
  valid, except for COMPLETED.
* `Responses`: what a handler can answer, and the HTTP status the filters make
  of it.
* `Store`: the tables `services` and `bookings` as functions from ids to rows or
  `Null`, the constraints (`SlotTaken`, `Referenced`), and the life of a
  request. `pc[r]` names the database call request `r` stands before; one action
  is that call and the code after it up to the next `await`. A write leads to
  `respond`, a step of its own, because the row is there before the client
  hears of it. `Fail` is a database call that fails, or whose acknowledgement is
  lost (at `respond`, and between two writes); `Crash` loses every request in
  flight and keeps the tables, since the container is restarted
  (`docker-compose.yml`) and the start-up script does not seed. Two histories:
  `held`, the statuses a booking has held, and `overtaken`, the requests that
  have looked at a row, a title or a slot and not yet acted on it when another
  request commits a change of it.
* `Services`, `Bookings`: the handlers of the two services. Ids are uuids, so
  the request that makes a row stands for the row's id. Texts, prices and
  customer data are left out: no handler decides on them. Titles are model
  values with a `Fold` to lower case, because findByTitle ignores case and
  updateService does not. `DtoIsActive` is the initialiser `isActive = true`
  that `UpdateServiceDto` inherits. A slot is past, malformed (of the form
  YYYY-MM-DD, but no date) or neither; `Diary` says which days are past.
* `Platform`: the initial states (any statuses, any services active), the
  next-state relation, the fairness, the safety properties, the inductive
  invariant and the refinement mapping to `SlotLedger`.
* `SlotLedger`: what the platform promises about slots, without requests: a
  ledger of entries that are never changed, a service with entries that is
  never removed, a slot that has one entry. A cancelled booking keeps its
  entry: the unique index does not look at the status. `Platform` and `Diary`
  both implement it.
* `BusinessRules`: the rules that the README, SECURITY.md and the API
  documentation state; those that no constraint backs once as documented, and
  once as the code keeps them under any interleaving, with the inductive
  invariant for that (`ChecksHoldUnlessOvertaken`).
* `Gateway`: the platform behind its guards. A request arrives with the valid
  access token of an account or with none (`Arrive`), the guards read the
  account and check the role of the route (`Admit`, `TurnAway` with its three
  answers: 401, 403, or the error of the read), LoggerInterceptor puts the user
  the guard found into the request's AsyncLocalStorage store (`SetUserId`: on a
  public route the guard sets no user, whatever token the request carries), the
  handler runs as in `Platform` (`Handle`), and the continuation of a committed
  write appends its entry to `trail` (`LogIfDone`). `Action` keeps the
  fallback of updateStatus: a write of PENDING logs nothing. Meanwhile
  administrators activate and deactivate accounts. `seen` remembers the states
  of the caller's account while its request was checked, `disturbed` the
  bookings that two requests worked on at once.
* `Sessions`: accounts and refresh tokens. A token is a user and a second,
  because generateTokens signs a payload without a random part and `iat` counts
  seconds. RefreshStrategy compares the expiry in whole seconds when the request
  arrives (`Verifies`), refreshTokens compares milliseconds when it reads the
  row (`Expired`: within the second of the expiry, either). Clients bring only
  tokens that reached them in an answer (`Given`). The guarded handlers start
  with the guard's read of the account (`authenticate`). Passwords are compared
  as bcrypt does, as equal plaintexts (they have at most 64 characters, which
  bcrypt keeps apart); an account is its trimmed address in lower case. The
  comparison of a login is a step of its own (`compare`), because bcrypt is
  awaited; the login's audit entry comes with it, before the token is stored.
  updateProfile writes the name alone. Its history variables: `maker`, `stored`
  and `redeemed` say which request stored or redeemed a token, `before` the
  requests that were done when a request ended the sessions, `seen` the rows an
  account had while a request was handled, `audited` the requests with an entry.
* `SessionLedger`: what the platform promises about sessions, without handlers,
  tokens, passwords or a clock. A login opens a session (`Login`); a refresh
  finds one live (`Claim`), takes it off the record (`Redeem`, or `Expire`) and
  opens the next (`Renew`), or gives up at any point (`Abandon`); a logout
  revokes all sessions of an account (`Revoke`), a change of the password takes
  them off (`EndAll`). `Redeem` may take a session that was revoked since the
  claim: refreshTokens does not ask again before it deletes the row.
* `BookingDate`: `new Date("YYYY-MM-DD")` is midnight UTC of the day,
  `setHours(0, 0, 0, 0)` the midnight that began the server's own day; `InPast`
  compares the two. A day is what V8 parses the string to: the thirteenth month
  is `NaN`, which is before nothing, 30 February is the second of March.
* `Pagination`: `calcSkip`, `take`, `buildPaginationMeta` as pure operators.
* `Diary`: bookings as a list shows them. Requests check their date, look for a
  duplicate and insert, each at a later instant; bookings move on, from any
  status to any other, since a write by id alone meets whatever the row has
  become (`MoveOn`); and a reader
  walks the list from the first page until a page is not full, each page being
  the two statements findMany and count with other requests between them (the
  isolation level is read committed). `Pages` is every answer the database may
  give: the ORDER BY has one column, and rows that tie come in any order, which
  may differ from page to page. `Transform` is the body TransformInterceptor
  makes. To `SlotLedger` the diary is one service whose slots are days and
  times.

The operators called faulty variants, next to the definitions they vary, are
plausible bugs; `PROJECT.json` pairs each with the property that finds it.

## 3. The runs

Runs that pass:

| Run | Instance | Shows |
|---|---|---|
| `race` | 3 requests to create, move and cancel bookings, 2 slots, 1 seeded booking of any status, failures and crashes; 2.6 million states | uniqueness, true answers, legality unless overtaken |
| `erase` | 3 requests that create and delete services and make and cancel bookings, failing counts, crashes; 1.1 million states | no orphan, found bookings stay, refinement of the ledger |
| `overlap` | 3 requests, 2 at once, that make bookings and create, write and delete services, 1 slot; 2.5 million states | rules are broken, and the database refuses, only where checks were overtaken; true answers beside deletions |
| `settle` | 2 requests of any kind with past and malformed dates, failures, crashes; 0.35 million states | every request is answered or lost in a crash |
| `sessions` | 3 requests, 2 at once, over accounts `ann`, `boss` (administrator) and `eve` (not registered), seconds 0 and 1, tokens that live 1 second, failures and crashes; logins bring the first password; 1.3 million states | redemption, sessions against logins, end of sessions, true answers, justified logins and callers, no lost change, a complete trail, refinement of the session ledger |
| `diary` | 2 requests, 2 seeded rows that may tie, 3 days, pages of at most 2, 3 queries, servers 1 instant west and east of Greenwich with days of 3 instants, over one change of the date; 0.74 million states | dates in every zone, walks over pages, refinement of the slot ledger |
| `gate` | 2 requests with the token of an administrator, of a clerk or with none, that book a free slot, move the seeded booking and delete its service, accounts activated and deactivated, failures and crashes; 2.0 million states | authorised changes, just refusals, the trail |

Runs that end in a violation, each a disagreement between the code and what the
repository says (the findings quote both sides):

| Run | Shows |
|---|---|
| `complete_cancelled` | a completion that read CONFIRMED overwrites a cancellation |
| `twin_titles` | two createService requests store one title |
| `reactivate` | a PATCH that does not mention isActive activates the service |
| `devices` | the second login of an account in one second is answered with 409 |
| `meta_lost` | the body of a list has no `meta`: TransformInterceptor drops it |

Other disagreements met while modelling, without a run of their own:

* a booking may be made on a service deactivated since it was read
  (hence the exception in `ActiveUnlessOvertaken`);
* a service deleted while its first booking is made is refused with 400 by the
  foreign key instead of the documented 409;
* a slot whose booking was cancelled can never be booked again, by anyone;
* a completed booking may be cancelled by a request that read it before;
* west of Greenwich today is refused, which the comment of
  `booking-date.validator.ts:5-6` excludes (`TodayMayBeBooked` is for the
  zones where it holds);
* an impossible date such as the thirteenth month is answered with 422, where
  SECURITY.md says of invalid date formats 400;
* a refresh in the second its token was signed hands out the same token again,
  where SECURITY.md:22 speaks of rotation;
* two audit entries about one booking may be in the other order than the writes,
  and a write of PENDING has none (hence the exceptions in `TrailTellsStatus`
  and `TrailMissesNothing`);
* `isActive=false` in a query is converted to true, and `/health` answers 200
  whatever the database says.

The bounds, and why they are enough. The invariants speak of one row and at
most two requests that touch it; a race needs two requests, and a third acts
before, between or after them. Two slots tell a conflict over a slot from one
over a service. Every seeded status occurs, so two or three requests reach every
pair of moves of a booking. `Offered` and `Asked` limit a run to the operations
its properties relate, `MaxInFlight` to two at once where a third request is to
act before or after a race rather than in it, and `Movable` the bookings of the
diary whose status moves while it is read to one. In `sessions`, two seconds and a life of one let a
token be used in its own second, expire between the guard and the handler, and
be followed by one of the next second; that a token is used in a later second
than its own is left to the theorems, whose life of a token is any. Logins
bring the password accounts start with: that a wrong one is refused shows when
it was changed before. Two refusals that depend on nothing but the call, of a
new password that is not confirmed and of a caller who is no administrator, are
in the model and the theorems and left out of the instance. In `gate`, two
requests are the pair whose entries can be out of order; the guard of one can be
overtaken by a deactivation while the other is in its handler. In `diary`, a
day of three instants with a zone of one each way puts the local and the UTC
change of the date at different instants; two seeded rows and two that come
make lists of up to four rows, longer than a page and the next, with ties and
without. The theorems of section 4 have no bounds.

Symmetry over the requests is used in the safety runs only; request ids occur in
no constant that tells them apart.

Fairness is assumed in `settle` only: weak fairness of each request's own steps.
The event loop resumes every promise that settles, and the client library
settles every database call with a result or an error. Nothing is assumed of
clients, failures or crashes. `settle` disables the deadlock check because the
platform really is at rest once its requests are handled; the other runs keep
it: `Quiet` is the step of a platform, or of sessions, at rest; in `gate`
accounts are always activated and deactivated, and in `diary` a reader may
always start over.

## 4. The theorems

Everything is proved for any number of requests, services, accounts, slots,
days and seeded rows, from the named assumptions on the constants. Each proof
module proves one invariant by a lemma per action and derives the properties
from it.

**The platform** (`PlatformProofs`, from `StoreAssumption`). `Invariant`:
`Spec => []IInv`. `IInv` adds to the properties what makes them inductive: a
request stands in the handler of its operation (`InItsHandler`); the id of a
request has a row only once its insert committed (`FreshIds`), so an answer and
a row cannot contradict each other; a booking found stays (`FoundBookings`,
`FoundBookingStays`); the status a request validated is in the history of the
booking even when it is no longer the row's (`ConfirmedFirst`), and is the
row's unless the request was overtaken (`ValidUnlessOvertaken`); answers are
right from the moment they are decided (`AnswersDecided`). From it follow the
properties of `race` and `erase`. `HandlersGoForward` gives every step of a
handler a number of steps left that each step lowers: no handler loops or waits
for another request, so that fairness is all `EveryRequestSettles` needs.

**The ledger of slots.** `LedgerProofs` proves that the platform implements it
(`PlatformKeepsLedger`): an insert is `Book`, the creation and the deletion of a
service are `Open` and `Close`, and every other step, failures and crashes
included, leaves the ledger alone. `SlotLedgerProofs` proves the ledger's own
promises, `OneHolder` and `NoOrphans`; they need no run of their own, since
`SlotUnique` and `NoOrphanBooking` are what they say of the platform.

**Overtaken requests** (`OvertakenProofs`, from `StoreAssumption` alone: any
number of requests at once, with failures and crashes). A check that is followed
by an `await` is good for as long as nobody commits a change of what it looked
at. `ChecksHoldUnlessOvertaken` says so of every check at once: unless the
request is in `overtaken`, the service it found is there and, before an insert,
active, the title it is about to store is free, the slot it is about to book has
no holder but one that was cancelled, and the service it is about to delete has
no bookings, or their count failed. It rests on the platform's `IInv`, and on
`FreshServices`: the id of a request has a service only once its insert
committed. What a request's own step checks holds after it (`OwnChecks`); a step
of another leaves what was checked as it was, unless it is the commit that puts
the request into `overtaken` (`OthersChecks`, `ChecksKept`). The properties of
`overlap` but the answers', which `PlatformProofs` proves, follow, each by a
look at the one action that could break it, and `FinalStatusesAreOvertaken` from
the platform's `ValidUnlessOvertaken`: a cancelled or completed booking changes
only by the write of an overtaken request. The violations `complete_cancelled`
and `twin_titles` show that the exception is needed.

**Sessions** (`SessionsProofs`, from `SessionsAssumption`). The row of the
account is among those its requests have seen (`SeesItsAccount`), and what a
login keeps over an `await` is one of them (`KeptValues`), so whoever hands out
a token had an account that its checks admit (`Admitted`). A request stores and
redeems at most once (`StoredAndRedeemed`); every redemption takes a row that
one store made, so that counting redemptions against stores gives
`RedeemedOnce`. An account that exists stays (`AccountsStay`), so the updates by
id never miss. After a logout or password change a live token has a maker that
was not done before it (`SessionsEnded`): deleteMany and updateMany meet every
row there is at that step, and a later row has a later maker. Answers are right
from the moment they are decided (`TokensDecided`), and a login is audited
before its token is stored (`LoginsAudited`).

**The ledger of sessions.** `SessionLedgerProofs` proves of the abstract
specification that it keeps one session for each opener (`OpenersOpenOnce`),
that a session which is over never comes back (`SessionsStayOver`), and that the
sessions of an account, those being renewed counted in, are no more than its
logins (`SessionsComeFromLogins`): the number of them is raised by a login only,
since `Renew` uses up what `Redeem` set free. This is an argument over finite
cardinalities, one account at a time; the invariant it needs is that nobody
opens, claims and renews at once (`IdsApart`).

`SessionsKeepLedger` proves that `Sessions` implements it. The mapping names a
session by the request that stored its token, not by the token: generateTokens
may sign the string of a deleted token again, and that is another session. What
ties the two together is `MakersStored`: a token that is there was stored last
by the request that signed it, or is a seed; hence no two tokens are one session
(`SessionsApart`). The refreshes past findRefreshToken are the claims, those
past deleteRefreshToken the tickets, and a handler that answers, fails or dies
with the process abandons what it had; every other call is a stutter. The
theorems of the ledger then hold of the tables through an instance of its proof
module: `SessionsAreNoMoreThanLogins` and `SessionsThatAreOverStayOver`.

**The diary** (`DiaryProofs`, from `DateAssumption`, `PaginationAssumption` and
the diary's own). A row and a refusal keep the comparison they came from
(`DatesChecked`), which gives `NoPastDay` and `TodayMayBeBooked` by arithmetic
on days and zones. For the walk, a row that ties with none has a `Rank`, the
number of rows that come before it in every order of the list. Rows that come
only raise it, so a row not shown yet is never passed by (`NotPassed`,
`NotPassedYet`), and is on the page its rank says while nothing changes
(`OnItsPage`); the rows counted after a page cover it (`PageIsCovered`).
`NextPageIsHonest` is the lemma about the arithmetic alone: whatever page and
limit are asked for, `calcSkip` and the offset that the users' list computes for
itself are one number, and there is a next page exactly when rows remain;
`PagesPartitionTheList` that the pages cut a list of any length without gap or
overlap, and none is empty. `DateCheckIsExact` says which days the validator
refuses: those before today where local time is not behind UTC, and those and
today where it is. `DiaryKeepsLedger` proves that the diary implements the
ledger of slots, an insert being `Book` and all else a stutter, and
`DaysAreBookedOnce` carries the ledger's `OneHolder` over.

**The gateway** (`GatewayProofs`, from `GatewayAssumption` and the platform's).
`GatewayIsPlatform`: every step of the gateway is a step or a stutter of the
platform, so all its theorems hold behind the guards, the refinement of the
ledger among them (`GatewayKeepsLedger`). On top of `IInv`,
`GatewayIInv` ties the gate to the handler (`InItsPlace`), keeps what the guards
saw (`Checked`), says what a request that has still to log has written
(`Written`), that a deleted service is gone for good (`DeletedAreGone`,
`FreshServices`), and that a booking nobody disturbs has one writer at a time
(`OneLogsAtATime`, `OvertakenIsDisturbed`), so that the last entry about it
tells its status (`TrailTells`).

Only model-checked: `EveryRequestSettles`, since liveness under fairness is
beyond the prover, and the five violations.

## 5. Not modelled

`PROJECT.json` gives the reason for each component. In short:

* the throttler's counters (a library), the health check, the database client's
  connection, configuration, start-up and log formats: no behaviour of this
  code over time;
* the seed beside live handlers: it is run at set-up, and what it leaves is an
  initial state;
* the validators of strings (regular expressions, lengths), message texts, and
  the text search of lists, which is one more filter;
* walks over the lists of services and users, which run the same two statements
  over other columns; their arithmetic is in `Pagination`;
* signature and expiry of access tokens, which passport checks; a valid token
  is one of an account, an invalid one is none;
* an `x-request-id` that a client brings: an entry's request id is the
  request's own;
* the walk of a reader who goes by the metadata instead of by the length of a
  page: the metadata does not reach him.

## 6. Plan

1. Done: the core (`Store`, `Services`, `Bookings`, `Platform`), its ledger and
   their theorems.
2. Done: `Sessions` with registration, profiles and audit, and its theorems.
3. Done: `BookingDate`, `Pagination` and the `Diary` that composes them.
4. Done: the `Gateway` of guards, request context and audit trail.
5. Done: what the checks that no constraint backs are worth under any
   interleaving, and its theorems.
6. Done: `SessionLedger`, the abstract specification of sessions, with the proof
   that `Sessions` implements it; the diary as a second implementation of
   `SlotLedger`.
7. Left: `Sessions` behind the same `Gateway`, and the walk of a reader over the
   lists of services and users.
