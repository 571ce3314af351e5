SPECIFICATION Spec
CONSTANTS
    r1 = r1
    r2 = r2
    b1 = b1
    b2 = b2
    Null = Null
    NaN = NaN
    Requests = {r1}
    SeedRows <- MCSeedRows
    DayLength = 3
    Days = {1, 2, 3}
    Times = {1, 2}
    MaxLimit = 2
    Queries <- MCQueries
    Movable <- MCMovable
    Offsets <- MCOffsets
    Start = 7
    End = 8
INVARIANT
    MetaReachesClients
