SPECIFICATION FairSpec
CONSTANTS
    r1 = r1
    r2 = r2
    r3 = r3
    r4 = r4
    haircut = haircut
    booked = booked
    Null = Null
    Requests = {r1, r2}
    SeedServices = {haircut}
    SeedBookings = {booked}
    SeedBooked <- MCSeedBooked
    Slots = {"mon", "yesterday", "month13"}
    PastSlots = {"yesterday"}
    MalformedSlots = {"month13"}
    Titles = {"Cut"}
    Fold <- MCFold
    SeedTitle <- MCSeedTitle
    Offered = {"createBooking", "updateStatus", "cancelBooking", "createService", "updateService", "deleteService"}
    MaxInFlight = 2
    Faults = TRUE
    Crashes = TRUE
PROPERTY
    EveryRequestSettles
CHECK_DEADLOCK FALSE
