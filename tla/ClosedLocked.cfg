SPECIFICATION Spec
CONSTANTS
    s1 = s1
    s2 = s2
    d1 = d1
    d2 = d2
    Sessions = {s1, s2}
    Deletes = {d1}
    NoSession = NoSession
    Faults = {}
INVARIANT
    ClosedSessionIsUnlocked
CHECK_DEADLOCK FALSE
