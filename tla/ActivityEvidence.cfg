SPECIFICATION PairSpec
CONSTANTS
    first = first
    second = second
    stranger = stranger
    Attempts = {first, second, stranger}
    Requests = {"request", "other"}
    RequestOf <- MCRequestOf
    Statuses = {"ready"}
    None = None
    MaxWrites = 2
CHECK_DEADLOCK FALSE
INVARIANTS
    CommittedIsSettled
    AnswersAreCommitted
PROPERTIES
    EvidenceIsFinal
    ImplementsWriteOnce
    EveryAttemptEnds
