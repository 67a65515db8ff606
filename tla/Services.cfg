SPECIFICATION MCSpec
CONSTANTS
    SourceIds = {"s1", "s2"}
    SubscriptionIds = {"u1"}
    Requests = {r1, r2}
    SourceNames = {"oak", "Oak", "elm"}
    FoldOf <- MCFoldOf
    Feeds = {"feed", "other", "bad"}
    UnsafeFeeds = {"bad"}
    Details = {"fast", "slow"}
    SourcePatches <- MCSourcePatches
    Bootstrapped <- MCBootstrapped
    SubscriptionNames = {"A"}
    Terms = {"t"}
    SubscriptionPatches <- MCSubscriptionPatches
    Nothing = Nothing
    MaxChanges = 2
    Items = {"a", "b", "c", "undated"}
    Entry <- MCEntry
    Order <- MCOrder
    CreationLimit = 2
    CurrentAge = 0
    AgingAge = 1
    MaxDay = 2
    Keys = {}
    LegacyQuantities = {1, 2}
    LegacyAverages = {0, 1, 2}
    LegacyPrices = {3}
    LegacyTimes = {1, 2}
    CreatedAt = 1
    MaxSales = 2
    RiskRequests = {r1, r2}
    Portfolios <- MCPortfolios
    Answers <- MCAnswers
    CustomLimits <- MCCustomLimits
    Unset = Unset
    MaxWrites = 2
    BriefingTypes = {"KRX_PRE_OPEN", "NASDAQ_POST_CLOSE"}
    Market <- MCMarket
    DayTicks = 8
    Preferences <- MCPreferences
    NoPreference = NoPreference
    LastDay = 2
    MaxNow = 20
    MappedItems = {"item"}
    Listings = {"old", "new"}
    ListingOf <- MCListingOf
    Fits <- MCFits
    AdrListings = {"new"}
    ProviderCompanies = {"c1", "c2"}
    MappingAnswers <- MCMappingAnswers
    Unlinked = Unlinked
    InfoEvents = {"event"}
    InstrumentOf <- MCInstrumentOf
    EventStates <- MCEventStates
    Prices = {1}
    NoPrice = 0
    NotYet = NotYet
    Quantities = {0, 1}
    QuoteCommands = {r1, r2}
    QuoteProviders = {"UPBIT", "BINANCE"}
    QuoteOrders <- MCQuoteOrders
    EnabledProviders = {"UPBIT"}
    QuoteLife = 3
    NoState = NoState
    MaxMoment = 3
    MaxEvents = 3
    TitledItems = {"memo", "essay", "letter"}
    TitleOf <- MCTitleOf
    Translations <- MCTranslations
    Failed = Failed
    NoTranslation = NoTranslation
    EnglishCount = 2
    KoreanCount = 1
    Cycles = {r1, r2}
    MonthLength = 3
    LogLife = 1
    ComputeBudget = 2
    MailBudget = 1
    SizeBudget = 20
    Warning = 25
    Saving = 50
    Minimal = 75
    Pause = 100
    Durations = {1, 3}
    PerMinute = 2
    Sizes = {5, 15}
    NoBudget = NoBudget
    LastMoment = 3
    MaxRuns = 2
    MaxMails = 1
SYMMETRY Sym
INVARIANTS
    HistoryShowsSource
    ActiveNeedsOpen
    NothingLeftBehind
    MigratedLedgerReplays
    AssistedAsShown
    AnnouncedIsMet
    ReviewIsCurrent
    LatestIsNewest
    TranslationIsEarned
    NewsWithinBudget
CHECK_DEADLOCK FALSE
