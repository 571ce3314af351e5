SPECIFICATION Spec
CONSTANTS
    r1 = r1
    r2 = r2
    r3 = r3
    r4 = r4
    haircut = haircut
    booked = booked
    Null = Null
    Requests = {r1, r2}
    SeedServices = {haircut}
    SeedBookings = {booked}
    SeedBooked <- MCSeedBooked
    Slots = {"mon"}
    PastSlots = {}
    MalformedSlots = {}
    Titles = {"Cut", "Spa", "SPA"}
    Fold <- MCFold
    SeedTitle <- MCSeedTitle
    Offered = {"createService", "updateService"}
    MaxInFlight = 2
    Faults = FALSE
    Crashes = FALSE
INVARIANT
    TitlesUnique
