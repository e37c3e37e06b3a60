\* As many uploads at once as the pool has connections, nothing fails.
SPECIFICATION FairSpec
CONSTANTS
    Request = {r1, r2}
    File = {"single", "envelope"}
    Sub = {"malo1", "malo2"}
    Slot = {1, 2}
    NoSub = "none"
    NoId = NoId
    Shape <- MCShape
    SubsOf <- MCSubsOf
    MsgsOf <- MCMsgsOf
    PoolSize = 2
    MaxInFlight = 2
    Faults = {}
PROPERTIES
    EveryUploadAnswered
CHECK_DEADLOCK FALSE
