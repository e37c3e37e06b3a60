\* Two callers, two interchanges, four versions.
SPECIFICATION Spec
CONSTANTS
    i1 = i1
    i2 = i2
    v1 = v1
    v2 = v2
    v3 = v3
    w1 = w1
    None = None
    Caller = {c1, c2}
    Interchange = {i1, i2}
    Version = {v1, v2, v3, w1}
    Number = {1, 2}
    Of <- MCOf
    NumberOf <- MCNumberOf
INVARIANTS
    NoSilentLoss
    NotFoundTouchesNothing
PROPERTIES
    ImplementsRegister
