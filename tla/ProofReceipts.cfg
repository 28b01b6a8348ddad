SPECIFICATION Spec
CONSTANTS
    first = first
    retry = retry
    changed = changed
    none = none
    Attempts = {first, retry, changed}
    Activities = {"first", "third"}
    Requests = {"request", "changed"}
    Runs = {"run1", "run2"}
    ActivityOf <- MCActivityOf
    RequestOf <- MCRequestOf
    RunOf <- MCRunOf
    Scenarios = {"nominal", "cancellation", "boundary"}
    None = none
SYMMETRY Deliveries
CHECK_DEADLOCK FALSE
INVARIANTS
    ReceiptIsBacked
    PassIsEarned
    AttemptsAreBound
PROPERTIES
    ReceiptsAreWrittenOnce
