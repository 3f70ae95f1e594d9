SPECIFICATION FairSpec
CONSTANTS
    c1 = c1
    c2 = c2
    Conns = {c1, c2}
    NoConn = NoConn
    Initial = 2
    MaxDelay = 7
    MaxShift = 3
    TicketPaths = {"/auth/ws-ticket", "/sessions/{id}/ticket"}
    Faults = {"ticket", "break", "silence", "attach", "detach", "crash"}
INVARIANT NoForgottenConnection
PROPERTIES
    EndedIsFinal
    DeadIsNotShownConnected
    GoneClientDetaches
    ReconnectsInTheEnd
CHECK_DEADLOCK FALSE
