CONSTANTS
    m1 = m1
    bomb = bomb  fraud = fraud
    e1 = e1  e2 = e2
    q1 = q1
    None = None
    Models = {m1}
    Rates = {1, 2}
    DefaultRate = 0
    Words = {bomb, fraud}
    Edits = {e1, e2}
    Requests = {q1}
    Faults = {"redis", "rollback"}
SPECIFICATION FairSpec
INVARIANT UpsertsKeepOneRow
PROPERTIES RatesReachRequests KeywordsReachRequests
CHECK_DEADLOCK FALSE
