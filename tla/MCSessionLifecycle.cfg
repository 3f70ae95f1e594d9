SPECIFICATION FairSpec
CONSTANTS
    s1 = s1
    s2 = s2
    d1 = d1
    d2 = d2
    Sessions = {s1, s2}
    Deletes = {d1, d2}
    NoSession = NoSession
    Faults <- AllFaults
INVARIANTS
    TypeOK
    AcknowledgedOpenIsLocked
    OneDeleteWins
    AnswersAreTrue
PROPERTIES
    ImplementsContract
    ClosedIsEventuallyUnlocked
