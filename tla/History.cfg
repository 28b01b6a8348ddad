CONSTANTS
    None = None
    Sources = {"ledger-events", "repository-readiness"}
    Paths = {"/srv"}
    Rows <- MCSparseRows
    Tables <- MCSparseTables
    Wanted <- MCWanted
    Limits = {2}
    Scan = 3
    MaxPage = 2
    MaxRows = 8
SPECIFICATION HistorySpec
INVARIANTS CursorsSkipNothing
CHECK_DEADLOCK FALSE
