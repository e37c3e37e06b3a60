\* Two uploads of five messages, one that does not parse; one client pages,
\* with a default limit of 1 and a maximum of 2, one asks for details.
SPECIFICATION Spec
CONSTANTS
    u1 = u1
    u2 = u2
    Any = Any
    Upload = {u1, u2, u3}
    u3 = u3
    Unparsed = {u3}
    Reader = {c1}
    Client = {d1}
    Content <- MCContent
    Criteria <- MCCriteria
    Limits <- MCLimits
    DefaultPageLimit = 1
    MaxPageLimit = 2
    ReadsFail = TRUE
INVARIANTS
    PagesAscend
    StoredRowsAreListed
    InterchangeListedWhole
    CountIsWhole
    DetailNotStale
PROPERTIES
    CursorMeansMore
    PagesKeepTheirLimit
CONSTRAINT OneKindOfRead
