SPECIFICATION Spec
CONSTANTS
    r1 = r1
    r2 = r2
    pw1 = pw1
    pw2 = pw2
    Requests = {r1, r2}
    Padded = {r2}
    None = None
    Passwords = {pw1, pw2}
    PastedHashes <- MCPastedHashes
    Secrets = {1, 2}
    CodeAt <- MCCodeAt
    Domains = {"host", "url"}
    MaxStep = 1
INVARIANT AcceptedMeansProved
PROPERTIES
    HonestEvidenceIsAccepted
    EveryRequestIsAnswered
CHECK_DEADLOCK FALSE
