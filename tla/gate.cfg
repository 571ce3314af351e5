SPECIFICATION GatewaySpec
CONSTANTS
    r1 = r1
    r2 = r2
    haircut = haircut
    booked = booked
    owner = owner
    clerk = clerk
    Null = Null
    Requests = {r1, r2}
    SeedServices = {haircut}
    SeedBookings = {booked}
    SeedBooked <- MCSeedBooked
    Slots = {"mon", "tue"}
    PastSlots = {}
    MalformedSlots = {}
    Titles = {"Cut"}
    Fold <- MCFold
    SeedTitle <- MCSeedTitle
    Offered = {"createBooking", "updateStatus", "cancelBooking", "deleteService"}
    MaxInFlight = 2
    Faults = TRUE
    Crashes = TRUE
    Accounts = {owner, clerk}
    RoleOf <- MCRoleOf
    Asked <- MCAsked
SYMMETRY Symmetry
INVARIANTS
    GatewayTypeOK
    RefusalsAreJust
    TrailNamesCallers
    TrailIsTrue
    
    TrailTellsStatus
PROPERTY
    ChangesAreAuthorised
