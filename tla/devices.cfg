SPECIFICATION Spec
CONSTANTS
    r1 = r1
    r2 = r2
    r3 = r3
    r4 = r4
    ann = ann
    boss = boss
    eve = eve
    Null = Null
    Requests = {r1, r2}
    Users = {ann, boss, eve}
    Admins = {boss}
    SeedUsers = {ann, boss}
    Passwords = {"old", "new"}
    SeedPassword <- MCSeedPassword
    Names = {"short", "long"}
    SeedName <- MCSeedName
    MaxTime = 1
    TTL = 2
    Offered <- DeviceCalls
    MaxInFlight = 2
    Faults = FALSE
    Crashes = FALSE
INVARIANT
    DevicesLogInTogether
