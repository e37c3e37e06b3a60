\* Streams that end in an error token of the lexer.
SPECIFICATION Spec
CONSTANTS
    Value = {"", "172", "UNA", "UNB", "UNH", "UNT", "UNZ", "LOC",
             "a", "x", "ref", "today", "now", "0", "1", "2"}
    Empty = ""
    NoDate = NoDate
    Date <- MCDate
    Count = {"0", "1", "2"}
    CountOf <- MCCountOf
    MaxBody = 0
    Inputs <- ErrorInputs
PROPERTIES
    ReportsErrorTokens
CHECK_DEADLOCK FALSE
