SPECIFICATION Spec
CONSTANTS
    d1 = d1
    d2 = d2
    r1 = r1
    r2 = r2
    r3 = r3
    r4 = r4
    Devices = {d1, d2}
    Requests = {r1, r2, r3, r4}
    Paths <- MCPaths
    None = None
    ChallengeTTL = 1
    TicketTTL = 1
    StepUpTTL = 1
    MaxClock = 2
    MaxGrants = 1
    Faults = {"lookup"}
SYMMETRY Symmetry
INVARIANTS
    CredentialsAreSingleUse
    EveryRevocationHadAGrant
    PendingIsBoundedByDevices
    TicketsOpenStreamsOnly
    OutstandingChallengeIsGood
    RevokedCallsFail
CHECK_DEADLOCK FALSE
