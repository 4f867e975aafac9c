CONSTANTS
    r1 = r1  r2 = r2  r3 = r3  other = other
    k1 = k1  k2 = k2
    None = None
    Requests = {r1, r2, r3, other}
    Keys = {k1, k2}
    KeyOf <- Owner
    Limits = {1, None}
    Window = 2
    Lag = 2
    Horizon = 3
    Faults = {"redis", "crash"}
SPECIFICATION Spec
INVARIANTS WindowsKeepLimit BurstIsBounded RejectedOnlyAtLimit CountersEnd
SYMMETRY Symmetry
CHECK_DEADLOCK FALSE
