SPECIFICATION Spec
CONSTANTS
    w1 = w1
    w2 = w2
    Workers = {w1, w2}
    MaxAttempts = 2
    MaxRequeues = 1
    MaxWrites = 2
    MaxEvents = 1
CHECK_DEADLOCK FALSE
INVARIANTS TypeOK ReadyHasImageUnlessLate AttachedIsReady KeptForReplay
PROPERTIES RefusalIsFinal UploadIsSettled
