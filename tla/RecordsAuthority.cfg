SPECIFICATION FairSpec
CONSTANTS
    w1 = w1
    w2 = w2
    none = none
    Workers = {w1, w2}
    None = none
    Values = {"one", "two", "far", "bare"}
    Providers = {"p1", "p2"}
    Suggestions = {"ai"}
    KeyOf <- MCKeyOf
    RecordOf <- MCRecordOf
    ExpectedOf <- MCExpectedOf
    ValueOf <- MCValueOf
    ProviderOf <- MCProviderOf
    SuggestionOf <- MCSuggestionOf
    Policies = {"open", "strict"}
    Allows <- MCAllows
    Eligible <- MCEligible
    Legacy <- MCLegacy
    LegacyProviders <- MCLegacyProviders
    Requests = {"register", "update", "suggest"}
    Keys = {"a", "b", "e"}
    Records = {"x", "y"}
    Operations = {"accept", "authority"}
    MaxCalls = 4
    MaxChanges = 2
CHECK_DEADLOCK FALSE
INVARIANTS
    AuthorityIsSimultaneous
PROPERTIES
    EveryCallEnds
