CONSTANTS
    p1 = p1
    p2 = p2
    Processes = {p1, p2}
    MaxEvents = 2
    MaxCount = 1
    MaxAge = 1
    MaxExisting = 3
    MaxCalls = 3
    MaxClock = 2
    Validations <- MCValidations
    Deliveries <- MCDeliveries
    Secrets = {"API_TOKEN"}
    RetryCap <- MCRetryCap
    Outputs = {0, 2}
    OutputCap = 3
    None = None
    MaxNow = 2
    Campaigns <- MCCampaigns
    Legacy <- MCLegacy
    Manifests <- MCManifests
    Checkouts = {"left", "right"}
    Configured = {"core"}
    AssistActive = TRUE
    Sources = {"ledger-events", "repository-readiness"}
    Paths = {"/srv"}
    Rows <- MCRows
    Tables <- MCTables
    Wanted <- MCWanted
    Limits = {0, 1, 2}
    Scan = 3
    MaxPage = 2
    MaxRows = 6
SPECIFICATION MCSpec
SYMMETRY Symmetric
INVARIANTS LinesAreKept EventsAreBacked SuccessIsEarned
    RepositoriesAreDistinct AuthorityIsReadable ActionableIsCurrent PagesAreComplete
CHECK_DEADLOCK FALSE
