CONSTANTS
    t1 = t1  t2 = t2  t3 = t3
    balance = balance  thresholds = thresholds  release = release
    q1 = q1
    None = None
    Tasks = {t1, t2}
    Edits = {balance, thresholds, release}
    Routers = {q1}
    KindOf <- EndpointOf
    Opening <- Healthy
    Costs = {1, 3}
    Balances = {6}
    Thresholds = {4}
    Faults = {"rollback", "crash", "pool"}
SPECIFICATION Spec
INVARIANTS  OneEmailPerEvent
PROPERTY DeductionStopsProvider
