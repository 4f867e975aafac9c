CONSTANTS
    k1 = k1  k2 = k2  k3 = k3
    v1 = v1  v2 = v2
    a1 = a1  a2 = a2
    None = None
    Keys = {k1, k2, k3}
    Existing = {k1}
    Revocations = {v1, v2}
    Requests = {a1, a2}
    KeyOf <- KeyFor
    MaxKeysPerUser = 2
    Faults = {"redis", "rollback"}
SPECIFICATION Spec
INVARIANTS RevokedKeyIsRejected ActiveKeyIsAccepted UsageIsCounted LimitOverrunByOverlap
PROPERTY RevocationIsFinal
CHECK_DEADLOCK FALSE
