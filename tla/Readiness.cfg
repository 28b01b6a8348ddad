CONSTANTS
    w1 = w1
    w2 = w2
    Workers = {w1, w2}
    Ledgers = {"repository", "prototype", "delivery"}
    Requests <- MCRequests
    Revisions <- MCRevisions
    Times <- MCTimes
    None = None
    MaxCalls = 3
    MaxMoves = 1
    Servers = {w1, w2}
    Nothing = Nothing
    Services <- MCServices
    Submissions <- MCSubmissions
    Actors = {"orchestration", "other"}
    Bases = {"old", "new"}
    Instants = {1, 2}
    MaxIssued = 3
    MaxMoved = 1
SPECIFICATION MCSpec
SYMMETRY Processes
INVARIANTS ReceiptsAreOrdered CallsAreJust
PROPERTIES ImplementsDecisionChain ImplementsWriteOnce
CHECK_DEADLOCK FALSE
