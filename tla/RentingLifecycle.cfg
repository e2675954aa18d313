SPECIFICATION Spec
CONSTANTS
    Requests = {r1, r2}
INVARIANTS
    DisputeMatchesStatus
    ProgressIsEarned
PROPERTIES
    StatusAdvances
    CommandsAreAtomic
