SPECIFICATION MCSpec
CONSTANTS
    Companies = {"Samsung", "Hynix", "Tesla"}
    Rank <- MCRank
    ProviderOf <- MCProviderOf
    ItemStates <- MCItemStates
    IncludeSold = FALSE
    Documents = {"results", "denial", "notice", "10-Q 1", "10-Q/A", "10-Q 2"}
    Filing <- MCFiling
    Noted = noted
    None = none
    MaxMappings = 3
    MappingLimit = 1
    Limits = {1, 2}
    DayLength = 3
    Shift = 1
    MaxTime = 5
    Sources = {"wire", "paper", "ir", "blog"}
    Source <- MCSource
    Articles = {"first", "second", "own", "reprint", "correction"}
    Article <- MCArticle
    About <- MCAbout
    FeedLimit = 2
    MatchLimit = 20
INVARIANTS
    NothingMissed
    CountsAgree
    ConfirmationIsBacked
PROPERTIES
    StateNeedsDocument
CHECK_DEADLOCK FALSE
