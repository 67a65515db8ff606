SPECIFICATION Spec
CONSTANTS
    Requests = {r1, r2}
    Items = {1, 2}
    Urls = {"u", "v"}
    Dates = {1, 2}
    Undated = undated
    None = none
    Listings <- Pages
    CreationLimit = 2
SYMMETRY Interchangeable
INVARIANTS
    ReferencesUnique
    HistoryExplains
    PromotionIsWhole
PROPERTIES
    DecisionsStay
    DeskSpec
