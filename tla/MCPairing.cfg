SPECIFICATION Spec
CONSTANTS
    p1 = p1
    h1 = h1
    h2 = h2
    i1 = i1
    i2 = i2
    Attempts = {p1}
    Factors = {"password", "totp", "passkey"}
    Working = {"password", "totp", "passkey"}
    IPs = {i1, i2}
    Account = Account
    Slots = {h1, h2}
    None = None
    PairingTTL = 1
    FailureThreshold = 2
    BaseLockout = 1
    MaxLockout = 3
    MaxLocks = 3
    Faults = {"insert", "restart"}
SYMMETRY Symmetry
INVARIANTS
    PairedByFullChain
    AttemptPairsOnce
    ConfirmedIsPaired
    FailuresAddUp
PROPERTIES
    LockoutDoublesUpToMaximum
    AttemptLivesForItsTTL
CHECK_DEADLOCK FALSE
