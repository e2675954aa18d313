SPECIFICATION Spec
CONSTANTS
    Indexers = {w1}
    MaxAttempts = 2
    MaxChanges = 2
    MaxRuns = 0
    MaxEvents = 3
CHECK_DEADLOCK FALSE
INVARIANT CoalescedIsIndexed
