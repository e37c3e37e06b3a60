\* A statement fails after the interchange row is written.
SPECIFICATION Spec
CONSTANTS
    Request = {r1, r2}
    File = {"single"}
    Sub = {"malo1", "malo2"}
    Slot = {1, 2}
    NoSub = "none"
    NoId = NoId
    Shape <- MCShape
    SubsOf <- MCSubsOf
    MsgsOf <- MCMsgsOf
    PoolSize = 3
    MaxInFlight = 2
    Faults = {"database"}
SYMMETRY Interchangeable
INVARIANTS
    CompletedMeansPersisted
CHECK_DEADLOCK FALSE
