SPECIFICATION Spec
CONSTANTS
    a1 = a1
    s1 = s1
    Agents = {a1}
    Sessions = {s1}
    StaleAge = 2
    Signals = {}
    Faults = {}
    MaxKernel = 3
    Contains <- MCContains
    KernelPackages = {"linux", "linux-lts"}
INVARIANT NoUpdateDuringRun
