CONSTANTS
    Calls = {c1, c2}
    MaxAttempts = 2
    NoCall = NoCall
SPECIFICATION Spec
SYMMETRY Symmetry
INVARIANTS
    TypeOK
    AnswersOwnRequest
    NoOrphanedFuture
    LockDiscipline
    RegistrationsBelongToCalls
PROPERTIES
    EndedIsFinal
    ImplementsContract
CHECK_DEADLOCK FALSE
