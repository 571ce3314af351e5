SPECIFICATION Spec
CONSTANTS
    r1 = r1
    r2 = r2
    r3 = r3
    r4 = r4
    haircut = haircut
    booked = booked
    Null = Null
    Requests = {r1, r2, r3}
    SeedServices = {haircut}
    SeedBookings = {booked}
    SeedBooked <- MCSeedBooked
    Slots = {"mon"}
    PastSlots = {}
    MalformedSlots = {}
    Titles = {"Cut", "Spa"}
    Fold <- MCFold
    SeedTitle <- MCSeedTitle
    Offered = {"createBooking", "createService", "updateService", "deleteService"}
    MaxInFlight = 2
    Faults = FALSE
    Crashes = FALSE
SYMMETRY Symmetry
INVARIANTS
    BookingAnswersAreTrue
    RefusedOnlyIfOvertaken
PROPERTIES
    ActiveUnlessOvertaken
    TwinsOnlyIfOvertaken
