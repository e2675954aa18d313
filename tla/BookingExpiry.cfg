SPECIFICATION FairSpec
CONSTANTS
    b1 = b1
    b2 = b2
    ann = ann
    bob = bob
    Bookings = {b1}
    RenterOf <- OneRenter
    Windows <- OneRange
    Requests = {r1, r2}
    Nobody = Nobody
    NoBooking = NoBooking
    MaxActive = 1
    MaxHolds = 1
    LockMayLapse = TRUE
    MayPause = FALSE
    MayCrash = TRUE
    AttemptsReopen = TRUE
CHECK_DEADLOCK FALSE
INVARIANT HoldsAccounted
PROPERTIES UnpaidBookingEnds ConvertedIsFinal ConversionNeedsPaid
