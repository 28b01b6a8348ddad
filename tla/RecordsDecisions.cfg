SPECIFICATION Spec
CONSTANTS
    w1 = w1
    w2 = w2
    none = none
    Workers = {w1, w2}
    None = none
    Values = {"one", "two", "far", "bare"}
    Providers = {"p1", "p2"}
    Suggestions = {"ai"}
    KeyOf <- MCKeyOf
    RecordOf <- MCRecordOf
    ExpectedOf <- MCExpectedOf
    ValueOf <- MCValueOf
    ProviderOf <- MCProviderOf
    SuggestionOf <- MCSuggestionOf
    Policies = {"open", "strict"}
    Allows <- MCAllows
    Eligible <- MCEligible
    Legacy <- MCLegacy
    LegacyProviders <- MCLegacyProviders
    Requests = {"register", "other", "update", "move", "claim", "suggest", "restore"}
    Keys = {"a", "b", "c", "d", "e", "f"}
    Records = {"x", "y"}
    Operations = {"accept", "resolve"}
    MaxCalls = 4
    MaxChanges = 1
SYMMETRY WorkerSymmetry
CHECK_DEADLOCK FALSE
INVARIANTS
    HistoryIsBound
PROPERTIES
    ProviderNeverMoves
    NegativeIsFinal
    ImplementsOperationLog
