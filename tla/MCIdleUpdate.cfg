SPECIFICATION FairSpec
CONSTANTS
    a1 = a1
    s1 = s1
    Agents = {a1}
    Sessions = {s1}
    StaleAge = 2
    Signals = {"TERM", "KILL"}
    Faults = {"pacman", "reboot"}
    MaxKernel = 3
    Contains <- MCContains
    KernelPackages = {"linux", "linux-lts"}
INVARIANTS
    TypeOK
    FinishedRunIsUnlocked
PROPERTIES
    UpdateStartsWhenIdle
    TerminalLocksKeepContract
    IdleMachineIsUpdated
    DetectableUpdateIsFlagged
