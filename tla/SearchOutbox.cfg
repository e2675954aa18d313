SPECIFICATION Spec
CONSTANTS
    Indexers = {w1}
    MaxAttempts = 2
    MaxChanges = 2
    MaxRuns = 2
    MaxEvents = 3
INVARIANTS
    TypeOK
    DrainedIsIndexedUnlessExcused
PROPERTIES
    SwapIsCaughtUp
    ReindexEnds
    SearchConverges
CHECK_DEADLOCK FALSE
