SPECIFICATION Spec
CONSTANTS
    r1 = r1
    r2 = r2
    r3 = r3
    r4 = r4
    ann = ann
    boss = boss
    eve = eve
    Null = Null
    Requests = {r1, r2, r3}
    Users = {ann, boss, eve}
    Admins = {boss}
    SeedUsers = {ann, boss}
    Passwords = {"old", "new"}
    SeedPassword <- MCSeedPassword
    Names = {"short", "long"}
    SeedName <- MCSeedName
    MaxTime = 1
    TTL = 1
    Offered <- SessionCalls
    MaxInFlight = 2
    Faults = TRUE
    Crashes = TRUE
SYMMETRY Symmetry
INVARIANTS
    TypeOK
    RedeemedOnce
    SessionsEnd
    AnsweredTokensWereStored
    AdmittedAccountWasActive
    CallerWasActive
    AddressRegisteredOnce
    TrailHasEveryChange
    NoMoreThanLogins
PROPERTIES
    AccountsChangeAsAsked
    SessionLedgerSpec
