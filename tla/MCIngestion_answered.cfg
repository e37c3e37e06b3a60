\* Three uploads, two active at once, a pool of three: everybody whose content
\* the parser comes back from is answered.
SPECIFICATION FairSpec
CONSTANTS
    Request = {r1, r2, r3}
    File = {"single", "envelope", "garbled", "stray", "huge", "blank"}
    Sub = {"malo1", "malo2"}
    Slot = {1, 2}
    NoSub = "none"
    NoId = NoId
    Shape <- MCShape
    SubsOf <- MCSubsOf
    MsgsOf <- MCMsgsOf
    PoolSize = 3
    MaxInFlight = 2
    Faults = {"database", "crash"}
INVARIANTS
    PoolNeverExhausted
PROPERTIES
    EveryUploadAnswered
CHECK_DEADLOCK FALSE
