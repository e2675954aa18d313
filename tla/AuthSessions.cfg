SPECIFICATION Spec
CONSTANTS
    r1 = r1
    r2 = r2
    Requests = {r1, r2}
    Nobody = Nobody
    MaxSessions = 2
    MaxTokens = 3
    MaxVersion = 1
    MaxBegun = 4
    ReuseResponses = {"session", "user"}
    Operations = {"login", "refresh", "logout", "one", "others", "all", "list", "change", "reset", "lock", "suspend", "reinstate"}
    Allowed = {"unindexed", "lapse"}
SYMMETRY RequestSymmetry
CHECK_DEADLOCK FALSE
INVARIANTS TypeOK EndedUnlessUnindexed OneLiveToken
PROPERTIES DeadStaysDead SuspensionHolds
