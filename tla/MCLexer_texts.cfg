\* Every text of up to five bytes over one byte of each class.
SPECIFICATION Spec
CONSTANTS
    Byte = {"A", ":", "+", "?", "'", " ", "!", "NUL"}
    Alnum = {"A"}
    Blank = {" "}
    NUL = "NUL"
    MaxLength = 5
    DelimiterSets <- MCDelimiterSets
    Inputs <- Short
INVARIANTS
    LosesNothing
    GivesUpOnlyOnBadInput
PROPERTIES
    ReachesAnEnd
    KeepsTokenOrder
CHECK_DEADLOCK FALSE
