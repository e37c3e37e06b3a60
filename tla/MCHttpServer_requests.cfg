\* Two requests at once and any behaviour of the database.
SPECIFICATION Spec
CONSTANTS
    r1 = r1
    r2 = r2
    Request = {r1, r2}
    Asks <- MCAsks
INVARIANTS
    AnswersTellTheTruth
    CountersMatchAnswers
PROPERTIES
    AnsweredWithoutDatabase
    AbandonedRequestsEnd
CHECK_DEADLOCK FALSE
