SPECIFICATION MCSpec
CONSTANTS
    j1 = j1
    j2 = j2
    b1 = b1
    b2 = b2
    Jobs <- MCJobs
    Ids <- MCIds
    e1 = e1
    e2 = e2
    change = change
    Events <- MCEvents
    Facts <- MCFacts
    Notices <- MCNotices
    Plain = plain
    Recipients = {r1, r2}
    Sessions = {s1}
    Nobody = nobody
    OneWriters = {TRUE, FALSE}
    MaxRetries = 2
    MaxLetters = 2
SYMMETRY Symmetry
INVARIANTS
    OneBriefingPerState
    StatusIsTrue
PROPERTIES
    NoticesStay
    OutboxKept
