SPECIFICATION ActivitySpec
CONSTANTS
    first = first
    second = second
    stranger = stranger
    Attempts = {first}
    Requests = {"request"}
    RequestOf <- MCRequestOf
    Statuses = {"ready"}
    None = None
    MaxWrites = 1
CHECK_DEADLOCK FALSE
INVARIANTS
    CancellationIsFenced
