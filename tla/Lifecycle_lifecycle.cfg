\* Two uploads, two signals, any option, the port and the server may fail.
SPECIFICATION FairSpec
CONSTANTS
    Request = {r1, r2}
    MaxSignals = 2
INVARIANTS
    HandlersKeepDependencies
    CleanExitClosesAll
    CleanExitLosesNothing
PROPERTIES
    StopsOnceAsked
\* The process ends, and may wait for ever for a signal before that.
CHECK_DEADLOCK FALSE
