SPECIFICATION FairSpec
CONSTANTS
    r1 = r1
    r2 = r2
    Nobody = Nobody
    Requests <- TwoRequests
    MaxAttempts = 1
    MaxRetries = 2
    MaxMishaps = 100
CHECK_DEADLOCK FALSE
INVARIANTS PaidIsCaptured
PROPERTIES ChargeIsRecorded
VIEW WithoutHistory
