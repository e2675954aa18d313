SPECIFICATION Spec
CONSTANTS
    r1 = r1
    r2 = r2
    Nobody = Nobody
    Requests <- TwoRequests
    MaxAttempts = 2
    MaxRetries = 2
    MaxMishaps = 1
SYMMETRY RequestSymmetry
CONSTRAINT NoRace
CHECK_DEADLOCK FALSE
INVARIANT OneCharge
PROPERTIES OnlyCurrentOrder ImplementsCharge
