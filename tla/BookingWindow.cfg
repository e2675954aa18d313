SPECIFICATION Spec
CONSTANTS
    b1 = b1
    b2 = b2
    ann = ann
    bob = bob
    Bookings = {b1, b2}
    RenterOf <- TwoRenters
    Windows <- OneRange
    Requests = {r1, r2}
    Nobody = Nobody
    NoBooking = NoBooking
    MaxActive = 1
    MaxHolds = 2
    LockMayLapse = FALSE
    MayPause = TRUE
    MayCrash = FALSE
    AttemptsReopen = FALSE
SYMMETRY RequestSymmetry
VIEW WithoutHistory
CHECK_DEADLOCK FALSE
INVARIANTS NoDoubleBooking ChargedIsReservedOrFlagged CalendarInv
PROPERTY ImplementsCalendar
