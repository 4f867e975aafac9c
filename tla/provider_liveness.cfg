CONSTANTS
    t1 = t1  t2 = t2
    release = release
    q1 = q1
    None = None
    Tasks = {t1, t2}
    Edits = {release}
    Routers = {q1}
    KindOf <- EndpointOf
    Opening <- ToppedUp
    Costs = {2}
    Balances = {}
    Thresholds = {}
    Faults = {"redis", "rollback", "pool"}
    PoolSize = 2
SPECIFICATION PoolFairSpec
INVARIANT OneAlertAtATime
PROPERTIES WritersFinish HardStopReachesGateway ConnectionsReturn ImplementsProviderBalance
