\* Every header, every order of up to three body pieces, every trailer.
SPECIFICATION Spec
CONSTANTS
    Value = {"", "172", "UNA", "UNB", "UNH", "UNT", "UNZ", "LOC",
             "a", "x", "ref", "today", "now", "0", "1", "2"}
    Empty = ""
    NoDate = NoDate
    Date <- MCDate
    Count = {"0", "1", "2"}
    CountOf <- MCCountOf
    MaxBody = 3
    Inputs <- MCInputs
INVARIANTS
    AcceptsTheGrammar
    MessagesMirrorTheStream
    SubscriptionsCoverMessages
    CompleteOrExplained
PROPERTIES
    TerminatesOnEndOfInput
CHECK_DEADLOCK FALSE
