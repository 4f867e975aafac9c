CONSTANTS
    s1 = s1  s2 = s2
    g1 = g1  g2 = g2
    l1 = l1  l2 = l2  l3 = l3
    None = None
    Signups = {s1, s2}
    Googles = {g1}
    Logins = {l1, l2, l3}
    MaxFailedAttempts = 2
    Faults = {"rollback", "redis"}
SPECIFICATION FairSpec
INVARIANTS OneUserPerEmail EveryUserIsComplete WelcomeOnlyToUsers CounterEnds
PROPERTY SignupIsAnswered
CHECK_DEADLOCK FALSE
