CONSTANTS
    t1 = t1  t2 = t2  t3 = t3
    balance = balance  thresholds = thresholds  release = release
    q1 = q1
    None = None
    Tasks = {t1}
    Edits = {balance}
    Routers = {q1}
    KindOf <- EndpointOf
    Opening <- Stopped
    Costs = {1}
    Balances = {4}
    Thresholds = {2}
    Faults = {}
SPECIFICATION Spec
PROPERTY HardStopClearedByAdmin
