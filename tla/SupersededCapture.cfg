SPECIFICATION Spec
CONSTANTS
    r1 = r1
    r2 = r2
    Nobody = Nobody
    Requests <- TwoRequests
    MaxAttempts = 2
    MaxRetries = 2
    MaxMishaps = 0
SYMMETRY RequestSymmetry
CHECK_DEADLOCK FALSE
PROPERTY SupersededIsNeverCaptured
