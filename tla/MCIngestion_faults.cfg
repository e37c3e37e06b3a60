\* Three uploads at once, each of any of three contents that share a subscription
\* or do not parse; the pool can be exhausted and everything may fail.
SPECIFICATION Spec
CONSTANTS
    Request = {r1, r2, r3}
    File = {"single", "pair", "garbled"}
    Sub = {"malo1", "malo2"}
    Slot = {1, 2}
    NoSub = "none"
    NoId = NoId
    Shape <- MCShape
    SubsOf <- MCSubsOf
    MsgsOf <- MCMsgsOf
    PoolSize = 3
    MaxInFlight = 3
    Faults = {"database", "kafka", "disconnect", "crash"}
SYMMETRY Interchangeable
INVARIANTS
    OneInterchangePerContent
    OneRowPerSubscription
    ReferencesResolve
    FreshAnswerMeansPersisted
    EventsTellTheTruth
    CompletedAnswersNameTheStoredRow
    NoConnectionLeak
PROPERTIES
    ImplementsContract
CHECK_DEADLOCK FALSE
