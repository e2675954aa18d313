SPECIFICATION Spec
CONSTANTS
    Requests = {r1, r2}
    Nobody = Nobody
    Keys = {k1}
    Total = 2
    Amounts = {1}
    Allowed = {"overlap", "resettle"}
    MaxCrashes = 1
CHECK_DEADLOCK FALSE
INVARIANTS LedgerIsExact SettledIsReal BooksWithinCharge PaymentMatchesRefunds CancelledIsRefunded
PROPERTIES SettledIsFinal RefundIsRecorded
