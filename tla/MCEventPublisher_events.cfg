\* Four calls on one writer, five events, two attempts for each.
SPECIFICATION Spec
CONSTANTS
    ingest = ingest
    failed = failed
    refused = refused
    empty = empty
    e1 = e1
    e2 = e2
    e3 = e3
    e4 = e4
    bad = bad
    Call = {ingest, failed, refused, empty}
    Event = {e1, e2, e3, e4, bad}
    EventsOf <- MCEventsOf
    Unmarshallable = {bad}
    MaxAttempts = 2
INVARIANTS
    AnswersMatchTopic
PROPERTIES
    CloseFlushes
    EveryCallReturns
CHECK_DEADLOCK FALSE
