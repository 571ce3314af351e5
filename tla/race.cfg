SPECIFICATION Spec
CONSTANTS
    r1 = r1
    r2 = r2
    r3 = r3
    r4 = r4
    haircut = haircut
    booked = booked
    Null = Null
    Requests = {r1, r2, r3}
    SeedServices = {haircut}
    SeedBookings = {booked}
    SeedBooked <- MCSeedBooked
    Slots = {"mon", "tue"}
    PastSlots = {}
    MalformedSlots = {}
    Titles = {"Cut"}
    Fold <- MCFold
    SeedTitle <- MCSeedTitle
    Offered = {"createBooking", "updateStatus", "cancelBooking"}
    MaxInFlight = 3
    Faults = TRUE
    Crashes = TRUE
SYMMETRY Symmetry
INVARIANTS
    TypeOK
    SlotUnique
    CompletedWasConfirmed
    BookingAnswersAreTrue
    ConflictHasHolder
PROPERTY
    LegalUnlessOvertaken
