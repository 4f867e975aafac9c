CONSTANTS
    s1 = s1  s2 = s2
    g1 = g1  g2 = g2
    l1 = l1  l2 = l2  l3 = l3
    None = None
    Signups = {s1}
    Googles = {}
    Logins = {l1, l2, l3}
    MaxFailedAttempts = 2
    Faults = {}
SPECIFICATION Spec
INVARIANT LockedAfterMaxFailures
CHECK_DEADLOCK FALSE
